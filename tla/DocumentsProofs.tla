--------------------------- MODULE DocumentsProofs ---------------------------
(***************************************************************************)
(* Two readings of a document: the order of its nodes with what each body  *)
(* wears (DocOrder), of any graph, and its mechanism (Mechanism), of any   *)
(* joints and laws.  WorkerCacheProofs has the third.                      *)
(***************************************************************************)
EXTENDS MCDocuments, SequenceTheorems, FiniteSetTheorems, WellFoundedInduction, TLAPS

------------------------------------------------------------------------------
(* The sequences of the walk *)

LEMMA BelowIs ==
    ASSUME NEW S, stack \in Seq(S), stack # <<>>
    PROVE  /\ Len(stack) \in Nat \ {0}
           /\ Top \in S
           /\ Below \in Seq(S) /\ Len(Below) = Len(stack) - 1
           /\ \A i \in 1..(Len(stack) - 1) : Below[i] = stack[i]
BY DEF Top, Below

LEMMA EnteredIs ==
    ASSUME NEW n \in Nodes, Children(n) \in Seq(Ids)
    PROVE  /\ Entered(n) \in Seq(Entries) /\ Len(Entered(n)) = 1 + Len(Children(n))
           /\ Entered(n)[1] = Leave(n)
           /\ \A k \in DOMAIN Children(n) : Entered(n)[k + 1] = Visit(Children(n)[k])
<1>1. Leave(n) \in Entries
  BY IdsType DEF Leave, Entries
<1>2. \A k \in 1..Len(Children(n)) : Visit(Children(n)[k]) \in Entries
  BY DEF Visit, Entries
<1>3. /\ Visits(Children(n)) \in Seq(Entries) /\ Len(Visits(Children(n))) = Len(Children(n))
      /\ \A k \in DOMAIN Children(n) : Visits(Children(n))[k] = Visit(Children(n)[k])
  BY <1>2 DEF Visits
<1>4. <<Leave(n)>> \in Seq(Entries) /\ Len(<<Leave(n)>>) = 1 /\ <<Leave(n)>>[1] = Leave(n)
  BY <1>1
<1> QED BY <1>3, <1>4 DEF Entered

(* A sequence of nodes in which none comes twice is no longer than there are nodes. *)
LEMMA OnceIsBounded ==
    ASSUME NEW s \in Seq(Nodes), \A i, j \in DOMAIN s : i # j => s[i] # s[j]
    PROVE  Len(s) <= Cardinality(Nodes)
<1>1. s \in Injection(1..Len(s), Nodes)
  BY DEF Injection, IsInjective
<1>2. Len(s) \in Nat
  OBVIOUS
<1>3. Cardinality(1..Len(s)) = Len(s)
  <2>1. 1 \in Int /\ Len(s) \in Int
    BY <1>2
  <2>2. Cardinality(1..Len(s)) = IF 1 > Len(s) THEN 0 ELSE Len(s) - 1 + 1
    BY <2>1, FS_Interval
  <2> QED BY <1>2, <2>2
<1>4. Cardinality(1..Len(s)) <= Cardinality(Nodes)
  BY <1>1, NodesFinite, FS_Injection
<1> QED BY <1>3, <1>4

------------------------------------------------------------------------------
(* The invariant *)

Typed ==
    /\ doc.children \in [Nodes -> Seq(Ids)]
    /\ marks \in [Nodes -> {"unvisited", "inProgress", "done"}]
    /\ stack \in Seq(Entries)
    /\ order \in Seq(Nodes)
    /\ outcome \in Outcomes

Ordered(id) == \E i \in DOMAIN order : order[i] = id

(* What is done is what is in the order, once. *)
DoneIsOrdered ==
    /\ \A n \in Nodes : marks[n] = "done" <=> Ordered(n)
    /\ \A i, j \in DOMAIN order : i # j => order[i] # order[j]

(* What is in progress is what is to be left, once. *)
OpenIsLeft ==
    /\ \A k \in DOMAIN stack : stack[k].childrenDone => stack[k].id \in Nodes /\ marks[stack[k].id] = "inProgress"
    /\ \A n \in Nodes : marks[n] = "inProgress" => \E k \in DOMAIN stack : stack[k] = Leave(n)
    /\ \A k, l \in DOMAIN stack : stack[k].childrenDone /\ stack[k] = stack[l] => k = l

(* The operands of a node that is to be left are in the order or above it on the stack. *)
OperandsAbove ==
    \A k \in DOMAIN stack : stack[k].childrenDone =>
        \A c \in DOMAIN Children(stack[k].id) :
            \/ Ordered(Children(stack[k].id)[c])
            \/ \E l \in DOMAIN stack : k < l /\ stack[l].id = Children(stack[k].id)[c]

OperandsBefore ==
    \A i \in DOMAIN order : \A k \in DOMAIN Children(order[i]) :
        \E j \in DOMAIN order : j < i /\ order[j] = Children(order[i])[k]

RootToCome == Ordered(Root) \/ \E k \in DOMAIN stack : stack[k].id = Root

EndsEmpty == outcome \in {"ordered", "misplaced", "bodies", "rest"} => stack = <<>>

Inv == Typed /\ DoneIsOrdered /\ OpenIsLeft /\ OperandsAbove /\ OperandsBefore /\ RootToCome /\ EndsEmpty

LEMMA InvInit == Init => Inv
<1> SUFFICES ASSUME Init PROVE Inv
  OBVIOUS
<1>1. Visit(Root) \in Entries /\ ~Visit(Root).childrenDone /\ Visit(Root).id = Root
  BY IdsType DEF Visit, Entries
<1>2. stack = <<Visit(Root)>> /\ stack \in Seq(Entries) /\ DOMAIN stack = {1} /\ stack[1] = Visit(Root)
  BY <1>1 DEF Init
<1>3. order = <<>> /\ order \in Seq(Nodes) /\ DOMAIN order = {}
  BY DEF Init
<1>4. marks = [n \in Nodes |-> "unvisited"] /\ outcome = "walking" /\ doc.children \in [Nodes -> Seq(Ids)]
  BY DEF Init, Read
<1>5. Typed
  BY <1>2, <1>3, <1>4 DEF Typed, Outcomes
<1>6. DoneIsOrdered
  BY <1>3, <1>4 DEF DoneIsOrdered, Ordered
<1>7. OpenIsLeft /\ OperandsAbove
  BY <1>1, <1>2, <1>4 DEF OpenIsLeft, OperandsAbove
<1>8. OperandsBefore /\ RootToCome /\ EndsEmpty
  BY <1>1, <1>2, <1>3, <1>4 DEF OperandsBefore, RootToCome, EndsEmpty
<1> QED BY <1>5, <1>6, <1>7, <1>8 DEF Inv

------------------------------------------------------------------------------
(* The steps *)

(* What a step takes from the top of the stack leaves the rest as it was. *)
LEMMA PopKeeps ==
    ASSUME Inv, stack # <<>>, stack' = Below
    PROVE  /\ stack' \in Seq(Entries) /\ Len(stack') = Len(stack) - 1 /\ Len(stack) \in Nat \ {0}
           /\ DOMAIN stack = 1..Len(stack) /\ DOMAIN stack' = 1..(Len(stack) - 1)
           /\ \A k \in DOMAIN stack' : k \in DOMAIN stack /\ stack'[k] = stack[k]
           /\ stack[Len(stack)] = Top
<1>1. stack \in Seq(Entries)
  BY DEF Inv, Typed
<1>2. /\ Len(stack) \in Nat \ {0} /\ Below \in Seq(Entries) /\ Len(Below) = Len(stack) - 1
      /\ \A i \in 1..(Len(stack) - 1) : Below[i] = stack[i]
  BY <1>1, BelowIs
<1>3. DOMAIN stack = 1..Len(stack) /\ DOMAIN Below = 1..(Len(stack) - 1)
  BY <1>1, <1>2
<1>4. \A k \in 1..(Len(stack) - 1) : k \in 1..Len(stack)
  BY <1>2
<1> QED BY <1>2, <1>3, <1>4 DEF Top

(* An entry to be left is known by its node. *)
LEMMA EntryIs ==
    ASSUME NEW e \in Entries, e.childrenDone
    PROVE  e = Leave(e.id)
BY DEF Entries, Leave

LEMMA FinishKeeps ==
    ASSUME Inv, NEW n \in Nodes, Finish(n)
    PROVE  Inv'
<1> DEFINE top == Len(stack)
<1>1. /\ stack' \in Seq(Entries) /\ Len(stack') = top - 1 /\ top \in Nat \ {0}
      /\ DOMAIN stack = 1..top /\ DOMAIN stack' = 1..(top - 1)
      /\ \A k \in DOMAIN stack' : k \in DOMAIN stack /\ stack'[k] = stack[k]
      /\ stack[top] = Leave(n)
  BY PopKeeps DEF Finish, Walks
<1>2. /\ marks' = [marks EXCEPT ![n] = "done"] /\ order' = Append(order, n) /\ doc' = doc
      /\ outcome' = outcome /\ outcome = "walking"
  BY DEF Finish, Walks
<1>3. marks[n] = "inProgress" /\ ~Ordered(n)
  BY <1>1 DEF Inv, OpenIsLeft, DoneIsOrdered, Leave
<1>4. /\ order' \in Seq(Nodes) /\ order \in Seq(Nodes)
      /\ DOMAIN order = 1..Len(order) /\ DOMAIN order' = 1..(Len(order) + 1) /\ Len(order) \in Nat
      /\ \A i \in DOMAIN order : i \in DOMAIN order' /\ order'[i] = order[i]
      /\ order'[Len(order) + 1] = n
  BY <1>2 DEF Inv, Typed
<1>5. \A id : Ordered(id)' <=> Ordered(id) \/ id = n
  BY <1>4 DEF Ordered
<1>6. Typed'
  BY <1>1, <1>2, <1>4 DEF Inv, Typed
<1>7. DoneIsOrdered'
  <2>1. \A m \in Nodes : marks'[m] = "done" <=> Ordered(m)'
    BY <1>2, <1>5 DEF Inv, Typed, DoneIsOrdered
  <2>2. \A i, j \in DOMAIN order' : i # j => order'[i] # order'[j]
    BY <1>3, <1>4 DEF Inv, DoneIsOrdered, Ordered
  <2> QED BY <2>1, <2>2 DEF DoneIsOrdered
<1>8. \A k \in DOMAIN stack' : stack'[k].childrenDone => stack'[k].id # n
  <2> SUFFICES ASSUME NEW k \in DOMAIN stack', stack'[k].childrenDone, stack'[k].id = n PROVE FALSE
    OBVIOUS
  <2>1. stack[k] = Leave(n)
    BY <1>1, EntryIs
  <2> QED BY <1>1, <2>1 DEF Inv, OpenIsLeft, Leave
<1>9. OpenIsLeft'
  <2>1. \A k \in DOMAIN stack' : stack'[k].childrenDone => stack'[k].id \in Nodes /\ marks'[stack'[k].id] = "inProgress"
    BY <1>1, <1>2, <1>8 DEF Inv, Typed, OpenIsLeft
  <2>2. ASSUME NEW m \in Nodes, marks'[m] = "inProgress" PROVE \E k \in DOMAIN stack' : stack'[k] = Leave(m)
    <3>1. m # n /\ marks[m] = "inProgress"
      BY <1>2, <2>2 DEF Inv, Typed
    <3>2. PICK k \in DOMAIN stack : stack[k] = Leave(m)
      BY <3>1 DEF Inv, OpenIsLeft
    <3>3. k # top
      BY <1>1, <3>1, <3>2 DEF Leave
    <3> QED BY <1>1, <3>2, <3>3
  <2>3. \A k, l \in DOMAIN stack' : stack'[k].childrenDone /\ stack'[k] = stack'[l] => k = l
    BY <1>1 DEF Inv, OpenIsLeft
  <2> QED BY <2>1, <2>2, <2>3 DEF OpenIsLeft
<1>10. OperandsAbove'
  <2> SUFFICES ASSUME NEW k \in DOMAIN stack', stack'[k].childrenDone,
                      NEW c \in DOMAIN Children(stack[k].id), NEW child, child = Children(stack[k].id)[c]
               PROVE  \/ Ordered(child)'
                      \/ \E l \in DOMAIN stack' : k < l /\ stack'[l].id = child
    <3> SUFFICES ASSUME NEW k \in DOMAIN stack', stack'[k].childrenDone, NEW c \in DOMAIN doc.children[stack[k].id]
                 PROVE  \/ \E i \in DOMAIN order' : order'[i] = doc.children[stack[k].id][c]
                        \/ \E l \in DOMAIN stack' : k < l /\ stack'[l].id = doc.children[stack[k].id][c]
      <4>1. \A k \in DOMAIN stack' : doc'.children[stack'[k].id] = doc.children[stack[k].id]
        BY <1>1, <1>2
      <4> QED BY <4>1 DEF OperandsAbove, Children, Ordered
    <3>1. stack[k].childrenDone /\ c \in DOMAIN Children(stack[k].id)
      BY <1>1 DEF Children
    <3> QED BY <3>1 DEF Children, Ordered
  <2>1. Ordered(child) \/ \E l \in DOMAIN stack : k < l /\ stack[l].id = child
    BY <1>1 DEF Inv, OperandsAbove
  <2>2. CASE Ordered(child)
    BY <1>4, <2>2 DEF Ordered
  <2>3. CASE \E l \in DOMAIN stack : k < l /\ stack[l].id = child
    <3>1. PICK l \in DOMAIN stack : k < l /\ stack[l].id = child
      BY <2>3
    <3>2. CASE l = top
      BY <1>1, <1>4, <3>1, <3>2 DEF Leave, Ordered
    <3>3. CASE l # top
      BY <1>1, <3>1, <3>3
    <3> QED BY <3>2, <3>3
  <2> QED BY <2>1, <2>2, <2>3
<1>11. OperandsBefore'
  <2> SUFFICES ASSUME NEW i \in DOMAIN order', NEW k \in DOMAIN Children(order'[i])
               PROVE  \E j \in DOMAIN order' : j < i /\ order'[j] = Children(order'[i])[k]
    BY <1>2 DEF OperandsBefore, Children
  <2>1. CASE i \in DOMAIN order
    BY <1>4, <2>1 DEF Inv, OperandsBefore
  <2>2. CASE i = Len(order) + 1
    <3>1. stack[top].childrenDone /\ stack[top].id = n /\ k \in DOMAIN Children(n) /\ top \in DOMAIN stack
      BY <1>1, <1>4, <2>2 DEF Leave
    <3>2. ~ \E l \in DOMAIN stack : top < l
      BY <1>1
    <3>3. Ordered(Children(n)[k])
      BY <3>1, <3>2 DEF Inv, OperandsAbove
    <3> QED BY <1>4, <2>2, <3>3 DEF Ordered
  <2> QED BY <1>4, <2>1, <2>2
<1>12. RootToCome'
  <2>1. CASE Ordered(Root)
    BY <1>4, <2>1 DEF Ordered, RootToCome
  <2>2. CASE \E k \in DOMAIN stack : stack[k].id = Root
    <3>1. PICK k \in DOMAIN stack : stack[k].id = Root
      BY <2>2
    <3>2. CASE k = top
      BY SMTT(20), <1>1, <1>4, <3>1, <3>2 DEF Leave, Ordered, RootToCome
    <3>3. CASE k # top
      BY <1>1, <3>1, <3>3 DEF RootToCome
    <3> QED BY <3>2, <3>3
  <2> QED BY <2>1, <2>2 DEF Inv, RootToCome
<1>13. EndsEmpty'
  BY <1>2 DEF EndsEmpty
<1> QED BY <1>6, <1>7, <1>9, <1>10, <1>11, <1>12, <1>13 DEF Inv

(* A step that leaves the order, the marks and the document, and takes at most a done node from the
   stack, keeps the invariant. *)
LEMMA SkipKeeps ==
    ASSUME Inv, NEW n \in Nodes, Skip(n)
    PROVE  Inv'
<1> DEFINE top == Len(stack)
<1>1. /\ stack' \in Seq(Entries) /\ Len(stack') = top - 1 /\ top \in Nat \ {0}
      /\ DOMAIN stack = 1..top /\ DOMAIN stack' = 1..(top - 1)
      /\ \A k \in DOMAIN stack' : k \in DOMAIN stack /\ stack'[k] = stack[k]
      /\ stack[top] = Visit(n)
  BY PopKeeps DEF Skip, Walks
<1>2. marks' = marks /\ order' = order /\ doc' = doc /\ outcome' = outcome /\ outcome = "walking"
  BY DEF Skip, Walks
<1>3. Ordered(n)
  BY DEF Skip, Inv, DoneIsOrdered
<1>4. Typed' /\ DoneIsOrdered' /\ OperandsBefore' /\ EndsEmpty'
  BY <1>1, <1>2 DEF Inv, Typed, DoneIsOrdered, OperandsBefore, EndsEmpty, Ordered, Children
<1>5. OpenIsLeft'
  <2>1. ASSUME NEW m \in Nodes, marks'[m] = "inProgress" PROVE \E k \in DOMAIN stack' : stack'[k] = Leave(m)
    <3>1. PICK k \in DOMAIN stack : stack[k] = Leave(m)
      BY <1>2, <2>1 DEF Inv, OpenIsLeft
    <3>2. k # top
      BY <1>1, <3>1 DEF Leave, Visit
    <3> QED BY <1>1, <3>1, <3>2
  <2> QED BY <1>1, <1>2, <2>1 DEF Inv, OpenIsLeft
<1>6. OperandsAbove'
  <2> SUFFICES ASSUME NEW k \in DOMAIN stack', stack'[k].childrenDone,
                      NEW c \in DOMAIN Children(stack[k].id), NEW child, child = Children(stack[k].id)[c]
               PROVE  Ordered(child) \/ \E l \in DOMAIN stack' : k < l /\ stack'[l].id = child
    BY SMTT(20), <1>1, <1>2 DEF OperandsAbove, Children, Ordered
  <2>1. Ordered(child) \/ \E l \in DOMAIN stack : k < l /\ stack[l].id = child
    BY <1>1 DEF Inv, OperandsAbove
  <2> QED BY <1>1, <1>3, <2>1 DEF Visit
<1>7. RootToCome'
  BY <1>1, <1>2, <1>3 DEF Inv, RootToCome, Ordered, Visit
<1> QED BY <1>4, <1>5, <1>6, <1>7 DEF Inv

(* The stack once a node's operands are on it. *)
LEMMA EnterStack ==
    ASSUME Inv, NEW n \in Nodes, Enter(n)
    PROVE  LET top == Len(stack)
               children == Children(n)
           IN  /\ top \in Nat \ {0} /\ DOMAIN stack = 1..top /\ stack[top] = Visit(n) /\ stack \in Seq(Entries)
               /\ children \in Seq(Ids) /\ Len(children) \in Nat /\ DOMAIN children = 1..Len(children)
               /\ stack' \in Seq(Entries) /\ Len(stack') = top + Len(children) /\ DOMAIN stack' = 1..(top + Len(children))
               /\ \A i \in 1..(top - 1) : stack'[i] = stack[i]
               /\ stack'[top] = Leave(n)
               /\ \A k \in DOMAIN children : stack'[top + k] = Visit(children[k])
<1> DEFINE top == Len(stack)
           children == Children(n)
<1>2. /\ top \in Nat \ {0} /\ DOMAIN stack = 1..top /\ stack[top] = Visit(n) /\ stack \in Seq(Entries)
      /\ Below \in Seq(Entries) /\ Len(Below) = top - 1 /\ \A i \in 1..(top - 1) : Below[i] = stack[i]
  <2>1. stack \in Seq(Entries) /\ stack # <<>> /\ Top = Visit(n)
    BY DEF Enter, Walks, Inv, Typed
  <2>2. /\ top \in Nat \ {0} /\ Below \in Seq(Entries) /\ Len(Below) = top - 1
        /\ \A i \in 1..(top - 1) : Below[i] = stack[i]
    BY <2>1, BelowIs
  <2> QED BY <2>1, <2>2 DEF Top
<1>3. children \in Seq(Ids) /\ Len(children) \in Nat /\ DOMAIN children = 1..Len(children)
  BY DEF Inv, Typed, Children
<1>4. /\ Entered(n) \in Seq(Entries) /\ Len(Entered(n)) = 1 + Len(children) /\ Entered(n)[1] = Leave(n)
      /\ \A k \in DOMAIN children : Entered(n)[k + 1] = Visit(children[k])
  BY <1>3, EnteredIs
<1>5. stack' = Below \o Entered(n)
  BY DEF Enter
<1>6. stack' \in Seq(Entries) /\ Len(stack') = top + Len(children) /\ DOMAIN stack' = 1..(top + Len(children))
  <2>1. stack' \in Seq(Entries) /\ Len(stack') = Len(Below) + Len(Entered(n))
    BY <1>2, <1>4, <1>5, ConcatProperties
  <2>2. Len(stack') = top + Len(children)
    BY <1>2, <1>3, <1>4, <2>1
  <2> QED BY <2>1, <2>2
<1>7. /\ \A i \in 1..(top - 1) : stack'[i] = stack[i]
      /\ stack'[top] = Leave(n)
      /\ \A k \in DOMAIN children : stack'[top + k] = Visit(children[k])
  <2> DEFINE entered == Entered(n)
  <2>0. \A i \in 1..(Len(Below) + Len(entered)) : stack'[i] = IF i <= Len(Below) THEN Below[i] ELSE entered[i - Len(Below)]
    BY <1>2, <1>4, <1>5, ConcatProperties
  <2> HIDE DEF entered
  <2>1. \A i \in 1..(top - 1) : stack'[i] = Below[i]
    <3> SUFFICES ASSUME NEW i \in 1..(top - 1) PROVE stack'[i] = Below[i]
      OBVIOUS
    <3>1. i \in 1..(Len(Below) + Len(entered)) /\ i <= Len(Below)
      BY <1>2, <1>3, <1>4 DEF entered
    <3> QED BY <2>0, <3>1
  <2>2. \A k \in 1..(1 + Len(children)) : stack'[(top - 1) + k] = Entered(n)[k]
    <3> SUFFICES ASSUME NEW k \in 1..(1 + Len(children)) PROVE stack'[(top - 1) + k] = Entered(n)[k]
      OBVIOUS
    <3> DEFINE i == (top - 1) + k
    <3>1. i \in 1..(Len(Below) + Len(entered)) /\ ~(i <= Len(Below)) /\ i - Len(Below) = k
      BY <1>2, <1>3, <1>4 DEF entered
    <3> HIDE DEF i
    <3>2. stack'[i] = entered[k]
      BY <2>0, <3>1
    <3> QED BY <3>2 DEF i, entered
  <2>3. stack'[top] = Entered(n)[1]
    BY <1>2, <1>3, <2>2
  <2>4. \A k \in DOMAIN children : stack'[top + k] = Entered(n)[k + 1]
    <3> SUFFICES ASSUME NEW k \in DOMAIN children PROVE stack'[top + k] = Entered(n)[k + 1]
      OBVIOUS
    <3>1. k + 1 \in 1..(1 + Len(children)) /\ (top - 1) + (k + 1) = top + k
      BY <1>2, <1>3
    <3> QED BY <2>2, <3>1
  <2> QED BY <1>2, <1>4, <2>1, <2>3, <2>4
<1> QED BY <1>2, <1>3, <1>6, <1>7

LEMMA EnterKeeps ==
    ASSUME Inv, NEW n \in Nodes, Enter(n)
    PROVE  Inv'
<1> DEFINE top == Len(stack)
           children == Children(n)
<1>1. /\ marks' = [marks EXCEPT ![n] = "inProgress"] /\ order' = order /\ doc' = doc
      /\ outcome' = outcome /\ outcome = "walking" /\ marks[n] = "unvisited"
  BY DEF Enter, Walks
<1>2. top \in Nat \ {0} /\ DOMAIN stack = 1..top /\ stack[top] = Visit(n) /\ stack \in Seq(Entries)
  BY EnterStack
<1>3. children \in Seq(Ids) /\ Len(children) \in Nat /\ DOMAIN children = 1..Len(children)
  BY EnterStack
<1>6. stack' \in Seq(Entries) /\ Len(stack') = top + Len(children) /\ DOMAIN stack' = 1..(top + Len(children))
  BY EnterStack
<1>7. /\ \A i \in 1..(top - 1) : stack'[i] = stack[i]
      /\ stack'[top] = Leave(n)
      /\ \A k \in DOMAIN children : stack'[top + k] = Visit(children[k])
  BY EnterStack
<1>8. \A k \in DOMAIN stack' : stack'[k].childrenDone => k \in 1..top
  <2> SUFFICES ASSUME NEW k \in DOMAIN stack', k \notin 1..top PROVE ~stack'[k].childrenDone
    OBVIOUS
  <2>1. \E c \in DOMAIN children : k = top + c
    <3>1. k - top \in DOMAIN children /\ k = top + (k - top)
      BY <1>2, <1>3, <1>6
    <3> QED BY <3>1
  <2>2. PICK c \in DOMAIN children : k = top + c
    BY <2>1
  <2>3. stack'[k] = Visit(children[c])
    BY <1>7, <2>2
  <2> QED BY <2>3 DEF Visit
<1>9. \A k \in 1..(top - 1) : stack[k].childrenDone => stack[k].id \in Nodes \ {n} /\ stack[k] # Leave(n)
  <2> SUFFICES ASSUME NEW k \in 1..(top - 1), stack[k].childrenDone
               PROVE  stack[k].id \in Nodes \ {n} /\ stack[k] # Leave(n)
    OBVIOUS
  <2>1. k \in DOMAIN stack
    BY <1>2
  <2>2. stack[k].id \in Nodes /\ marks[stack[k].id] = "inProgress"
    BY <2>1 DEF Inv, OpenIsLeft
  <2>3. stack[k].id # n
    BY <1>1, <2>2
  <2> QED BY <2>2, <2>3 DEF Leave
<1>10. Typed' /\ DoneIsOrdered' /\ OperandsBefore' /\ EndsEmpty'
  BY <1>1, <1>6 DEF Inv, Typed, DoneIsOrdered, OperandsBefore, EndsEmpty, Ordered, Children
<1>11. OpenIsLeft'
  <2>1. \A k \in DOMAIN stack' : stack'[k].childrenDone => stack'[k].id \in Nodes /\ marks'[stack'[k].id] = "inProgress"
    <3> SUFFICES ASSUME NEW k \in DOMAIN stack', stack'[k].childrenDone
                 PROVE  stack'[k].id \in Nodes /\ marks'[stack'[k].id] = "inProgress"
      OBVIOUS
    <3>1. CASE k = top
      BY <1>1, <1>7, <3>1 DEF Leave, Inv, Typed
    <3>2. CASE k # top
      <4>1. k \in 1..(top - 1) /\ k \in DOMAIN stack
        BY <1>2, <1>8, <3>2
      <4> QED BY <1>1, <1>7, <1>9, <4>1 DEF Inv, Typed, OpenIsLeft
    <3> QED BY <3>1, <3>2
  <2>2. ASSUME NEW m \in Nodes, marks'[m] = "inProgress" PROVE \E k \in DOMAIN stack' : stack'[k] = Leave(m)
    <3>1. CASE m = n
      BY <1>2, <1>3, <1>6, <1>7, <3>1
    <3>2. CASE m # n
      <4>1. PICK k \in DOMAIN stack : stack[k] = Leave(m)
        BY <1>1, <2>2, <3>2 DEF Inv, Typed, OpenIsLeft
      <4>2. k \in 1..(top - 1)
        BY <1>2, <4>1 DEF Leave, Visit
      <4>3. k \in DOMAIN stack'
        BY <1>2, <1>3, <1>6, <4>2
      <4> QED BY <1>7, <4>1, <4>2, <4>3
    <3> QED BY <3>1, <3>2
  <2>3. \A k, l \in DOMAIN stack' : stack'[k].childrenDone /\ stack'[k] = stack'[l] => k = l
    <3> SUFFICES ASSUME NEW k \in DOMAIN stack', NEW l \in DOMAIN stack', stack'[k].childrenDone, stack'[k] = stack'[l]
                 PROVE  k = l
      OBVIOUS
    <3>0. stack'[l].childrenDone
      OBVIOUS
    <3>1. k \in 1..top /\ l \in 1..top
      BY <1>8, <3>0
    <3>2. \A i \in 1..(top - 1) : stack'[i].childrenDone => stack'[i] # Leave(n)
      BY <1>7, <1>9
    <3>3. CASE k = top \/ l = top
      <4>1. stack'[k] = Leave(n) /\ stack'[l] = Leave(n)
        BY <1>7, <3>3
      <4>2. k \notin 1..(top - 1) /\ l \notin 1..(top - 1)
        BY <3>0, <3>2, <4>1
      <4> QED BY <1>2, <3>1, <4>2
    <3>4. CASE k # top /\ l # top
      <4>1. k \in 1..(top - 1) /\ l \in 1..(top - 1) /\ k \in DOMAIN stack /\ l \in DOMAIN stack
        BY <1>2, <3>1, <3>4
      <4> QED BY <1>7, <4>1 DEF Inv, OpenIsLeft
    <3> QED BY <3>3, <3>4
  <2> QED BY <2>1, <2>2, <2>3 DEF OpenIsLeft
<1>12. OperandsAbove'
  <2> SUFFICES ASSUME NEW k \in DOMAIN stack', stack'[k].childrenDone,
                      NEW c \in DOMAIN Children(stack'[k].id), NEW child, child = Children(stack'[k].id)[c]
               PROVE  Ordered(child) \/ \E l \in DOMAIN stack' : k < l /\ stack'[l].id = child
    BY <1>1 DEF OperandsAbove, Children, Ordered
  <2>1. CASE k = top
    <3>1. c \in DOMAIN children /\ child = children[c]
      BY <1>7, <2>1 DEF Leave
    <3>2. top + c \in DOMAIN stack' /\ k < top + c
      BY <1>2, <1>3, <1>6, <2>1, <3>1
    <3>3. stack'[top + c] = Visit(child)
      BY <1>7, <3>1
    <3>4. stack'[top + c].id = child
      BY <3>3 DEF Visit
    <3> QED BY <3>2, <3>4
  <2>2. CASE k # top
    <3>1. k \in 1..(top - 1) /\ k \in DOMAIN stack /\ stack'[k] = stack[k]
      BY <1>2, <1>7, <1>8, <2>2
    <3>2. Ordered(child) \/ \E l \in DOMAIN stack : k < l /\ stack[l].id = child
      BY <3>1 DEF Inv, OperandsAbove
    <3>3. ASSUME NEW l \in DOMAIN stack, k < l, stack[l].id = child PROVE l \in DOMAIN stack' /\ stack'[l].id = child
      <4>1. l \in DOMAIN stack'
        BY <1>2, <1>3, <1>6
      <4>2. CASE l = top
        BY <1>2, <1>7, <3>3, <4>1, <4>2 DEF Visit, Leave
      <4>3. CASE l # top
        <5>1. l \in 1..(top - 1)
          BY <1>2, <4>3
        <5> QED BY <1>7, <3>3, <4>1, <5>1
      <4> QED BY <4>2, <4>3
    <3> QED BY <3>2, <3>3
  <2> QED BY <2>1, <2>2
<1>13. RootToCome'
  <2>1. CASE Ordered(Root)
    BY <1>1, <2>1 DEF Ordered, RootToCome
  <2>2. CASE \E k \in DOMAIN stack : stack[k].id = Root
    <3>1. PICK k \in DOMAIN stack : stack[k].id = Root
      BY <2>2
    <3>2. k \in DOMAIN stack'
      BY <1>2, <1>3, <1>6
    <3>3. CASE k = top
      BY <1>2, <1>7, <3>1, <3>2, <3>3 DEF RootToCome, Visit, Leave
    <3>4. CASE k # top
      <4>1. k \in 1..(top - 1)
        BY <1>2, <3>4
      <4> QED BY <1>7, <3>1, <3>2, <4>1 DEF RootToCome
    <3> QED BY <3>3, <3>4
  <2> QED BY <2>1, <2>2 DEF Inv, RootToCome
<1> QED BY <1>10, <1>11, <1>12, <1>13 DEF Inv

(* The steps that leave the walk as it is. *)
LEMMA RestKeeps ==
    ASSUME Inv, UNCHANGED <<doc, walkVars>>, outcome' \in Outcomes,
           outcome' \in {"ordered", "misplaced", "bodies", "rest"} => stack = <<>>
    PROVE  Inv'
<1>1. marks' = marks /\ order' = order /\ doc' = doc /\ stack' = stack
  BY DEF walkVars
<1>2. Typed' /\ EndsEmpty'
  BY <1>1 DEF Inv, Typed, EndsEmpty
<1>3. DoneIsOrdered' /\ OperandsBefore' /\ RootToCome'
  BY <1>1 DEF Inv, DoneIsOrdered, OperandsBefore, RootToCome, Ordered, Children
<1>4. OpenIsLeft' /\ OperandsAbove'
  BY <1>1 DEF Inv, OpenIsLeft, OperandsAbove, Ordered, Children
<1> QED BY <1>2, <1>3, <1>4 DEF Inv

LEMMA InvNext == Inv /\ [Next]_vars => Inv'
<1> SUFFICES ASSUME Inv, [Next]_vars PROVE Inv'
  OBVIOUS
<1>1. ASSUME NEW n \in Nodes, Finish(n) PROVE Inv'
  BY <1>1, FinishKeeps
<1>2. ASSUME NEW n \in Nodes, Skip(n) PROVE Inv'
  BY <1>2, SkipKeeps
<1>3. ASSUME NEW n \in Nodes, Enter(n) PROVE Inv'
  BY <1>3, EnterKeeps
<1>4. ASSUME NEW n \in Nodes, Cycle(n) PROVE Inv'
  BY <1>4, RestKeeps DEF Cycle, Outcomes
<1>5. ASSUME NEW id \in Ids, Missing(id) PROVE Inv'
  BY <1>5, RestKeeps DEF Missing, Outcomes
<1>6. CASE Judge
  BY <1>6, RestKeeps DEF Judge, Outcomes
<1>7. outcome \in Outcomes /\ EndsEmpty
  BY DEF Inv, Typed
<1>8. CASE Start
  BY <1>7, <1>8, RestKeeps DEF Start, EndsEmpty
<1>9. ASSUME NEW n \in Nodes, LookAt(n) PROVE Inv'
  <2>1. UNCHANGED <<doc, walkVars>> /\ outcome' = outcome
    BY <1>9 DEF LookAt
  <2> QED BY <1>7, <2>1, RestKeeps DEF EndsEmpty
<1>10. CASE UNCHANGED vars
  <2>1. UNCHANGED <<doc, walkVars>> /\ outcome' = outcome
    BY <1>10 DEF vars, walkVars
  <2> QED BY <1>7, <2>1, RestKeeps DEF EndsEmpty
<1> QED BY <1>1, <1>2, <1>3, <1>4, <1>5, <1>6, <1>8, <1>9, <1>10 DEF Next

------------------------------------------------------------------------------
(* The theorems *)

(* The invariant holds of every walk (graph.rs topo_order). *)
THEOREM Walking == Spec => []Inv
BY InvInit, InvNext, PTL DEF Spec

(* Every variable has its type, and the order is no longer than the part has nodes, for any graph: each
   node is finished once at most (graph.rs topo_order). *)
THEOREM Typing == Spec => []TypeOK
<1>1. Inv => TypeOK
  BY OnceIsBounded DEF Inv, Typed, DoneIsOrdered, TypeOK
<1> QED BY <1>1, Walking, PTL

(* The order of any graph lists a node once and after its operands (graph.rs topo_order). *)
THEOREM OperandsFirst == Spec => []ChildrenFirst
<1>1. Inv => ChildrenFirst
  BY DEF Inv, DoneIsOrdered, OperandsBefore, ChildrenFirst
<1> QED BY <1>1, Walking, PTL

------------------------------------------------------------------------------
(* What is refused has its cause: all that the walk meets is live, and what is above a node that is in
   progress is what that node is made of, so a node met again there is made of itself. *)

AllLive == /\ \A k \in DOMAIN stack : stack[k].id \in Live
           /\ \A i \in DOMAIN order : order[i] \in Live
AboveIsUnder == \A m \in Ids : \A k, l \in DOMAIN stack : k < l /\ stack[k] = Leave(m) => stack[l].id \in Under(m)
HasCause ==
    /\ outcome = "cycle" => \E n \in Live \intersect Nodes : n \in Under(n)
    /\ outcome = "missing" => ~(Live \subseteq Nodes)
CauseInv == AllLive /\ AboveIsUnder /\ HasCause

(* What is under a node is closed, and the least that is. *)
LEMMA UnderIs ==
    ASSUME Typed, NEW n \in Ids
    PROVE  /\ ChildrenOf({n}) \subseteq Under(n) /\ Closed(Under(n)) /\ Under(n) \subseteq Ids
           /\ \A S \in SUBSET Ids : ChildrenOf({n}) \subseteq S /\ Closed(S) => Under(n) \subseteq S
<1>1. \A S : ChildrenOf(S) \subseteq Ids
  BY DEF Typed, ChildrenOf, Children
<1>2. ChildrenOf({n}) \subseteq Under(n)
  BY <1>1 DEF Under
<1>3. ASSUME NEW S \in SUBSET Ids, ChildrenOf({n}) \subseteq S, Closed(S) PROVE Under(n) \subseteq S
  BY <1>3 DEF Under
<1>4. Closed(Under(n))
  <2> SUFFICES ASSUME NEW c \in ChildrenOf(Under(n)), NEW S \in SUBSET Ids, ChildrenOf({n}) \subseteq S, Closed(S)
               PROVE  c \in S
    BY <1>1 DEF Under, Closed
  <2>1. Under(n) \subseteq S
    BY <1>3
  <2>2. ChildrenOf(Under(n)) \subseteq ChildrenOf(S)
    BY <2>1 DEF ChildrenOf
  <2> QED BY <2>2 DEF Closed
<1> QED BY <1>2, <1>3, <1>4 DEF Under

(* What a closed set has, it has with its operands. *)
LEMMA ClosedHas ==
    ASSUME NEW S, Closed(S), NEW n \in S, n \in Nodes
    PROVE  ChildrenOf({n}) \subseteq S
<1>1. ChildrenOf({n}) \subseteq ChildrenOf(S)
  BY DEF ChildrenOf
<1> QED BY <1>1 DEF Closed

LEMMA HasAllIsClosed ==
    ASSUME NEW S, \A n \in S : ChildrenOf({n}) \subseteq S
    PROVE  Closed(S)
<1> SUFFICES ASSUME NEW c \in ChildrenOf(S) PROVE c \in S
  BY DEF Closed
<1>1. PICK n \in S \intersect Nodes : c \in {Children(n)[k] : k \in DOMAIN Children(n)}
  BY DEF ChildrenOf
<1>2. c \in ChildrenOf({n})
  BY <1>1 DEF ChildrenOf
<1> QED BY <1>1, <1>2

LEMMA LiveHas ==
    ASSUME Typed, NEW n \in Live, n \in Nodes
    PROVE  ChildrenOf({n}) \subseteq Live
<1>1. CASE n = Root
  BY <1>1, IdsType, UnderIs DEF Live
<1>2. CASE n # Root
  <2>1. n \in Under(Root) /\ Closed(Under(Root))
    BY <1>2, IdsType, UnderIs DEF Live
  <2> QED BY <2>1, ClosedHas DEF Live
<1> QED BY <1>1, <1>2

LEMMA SameDocSameUnder ==
    ASSUME doc' = doc
    PROVE  Live' = Live /\ \A n : Under(n)' = Under(n)
<1>1. \A S : ChildrenOf(S)' = ChildrenOf(S)
  BY DEF ChildrenOf, Children
<1>2. \A n : Under(n)' = Under(n)
  BY <1>1 DEF Under, Closed
<1> QED BY <1>2 DEF Live

LEMMA CauseInit == Init => CauseInv
<1> SUFFICES ASSUME Init PROVE CauseInv
  OBVIOUS
<1>1. stack = <<Visit(Root)>> /\ order = <<>> /\ outcome = "walking"
  BY DEF Init
<1>2. DOMAIN stack = {1} /\ stack[1].id = Root /\ ~stack[1].childrenDone /\ DOMAIN order = {}
  BY <1>1 DEF Visit
<1> QED BY <1>1, <1>2 DEF CauseInv, AllLive, AboveIsUnder, HasCause, Live

(* A step that takes the top away, and may list it. *)
LEMMA PopCause ==
    ASSUME Inv, CauseInv, stack # <<>>, stack' = Below, doc' = doc, outcome' = outcome,
           order' = order \/ (Top.id \in Nodes /\ order' = Append(order, Top.id))
    PROVE  CauseInv'
<1>1. /\ DOMAIN stack = 1..Len(stack) /\ Len(stack) \in Nat \ {0} /\ DOMAIN stack' = 1..(Len(stack) - 1)
      /\ \A k \in DOMAIN stack' : k \in DOMAIN stack /\ stack'[k] = stack[k]
  BY PopKeeps
<1>2. Live' = Live /\ \A n : Under(n)' = Under(n)
  BY SameDocSameUnder
<1>3. Top = stack[Len(stack)] /\ Top.id \in Live
  BY <1>1 DEF Top, CauseInv, AllLive
<1>4. \A i \in DOMAIN order' : order'[i] \in Live
  <2>1. CASE order' = order
    BY <2>1 DEF CauseInv, AllLive
  <2>2. CASE Top.id \in Nodes /\ order' = Append(order, Top.id)
    <3>1. order \in Seq(Nodes)
      BY DEF Inv, Typed
    <3>2. \A i \in DOMAIN order' : (i \in DOMAIN order /\ order'[i] = order[i]) \/ order'[i] = Top.id
      BY <2>2, <3>1
    <3> QED BY <1>3, <3>2 DEF CauseInv, AllLive
  <2> QED BY <2>1, <2>2
<1>5. AllLive'
  BY <1>1, <1>2, <1>4 DEF CauseInv, AllLive
<1>6. AboveIsUnder'
  <2> SUFFICES ASSUME NEW m \in Ids, NEW k \in DOMAIN stack', NEW l \in DOMAIN stack', k < l, stack'[k] = Leave(m)
               PROVE  stack'[l].id \in Under(m)
    BY <1>2 DEF AboveIsUnder, Leave
  <2> QED BY <1>1 DEF CauseInv, AboveIsUnder
<1>7. HasCause'
  BY <1>2 DEF CauseInv, HasCause
<1> QED BY <1>5, <1>6, <1>7 DEF CauseInv

LEMMA EnterCause ==
    ASSUME Inv, CauseInv, NEW n \in Nodes, Enter(n)
    PROVE  CauseInv'
<1> DEFINE top == Len(stack)
           children == Children(n)
<1>1. doc' = doc /\ order' = order /\ outcome' = outcome
  BY DEF Enter, Walks
<1>2. /\ top \in Nat \ {0} /\ DOMAIN stack = 1..top /\ stack[top] = Visit(n)
      /\ Len(children) \in Nat /\ DOMAIN children = 1..Len(children)
  BY EnterStack
<1>3. stack[top].id = n
  BY <1>2 DEF Visit
<1>4. Live' = Live /\ \A m : Under(m)' = Under(m)
  BY <1>1, SameDocSameUnder
<1>5. /\ DOMAIN stack' = 1..(top + Len(children))
      /\ \A k \in 1..(top - 1) : stack'[k] = stack[k]
      /\ stack'[top] = Leave(n)
      /\ \A k \in DOMAIN stack' : k > top => \E c \in DOMAIN children : stack'[k] = Visit(children[c])
  <2>1. /\ DOMAIN stack' = 1..(top + Len(children))
        /\ \A k \in 1..(top - 1) : stack'[k] = stack[k]
        /\ stack'[top] = Leave(n)
        /\ \A c \in DOMAIN children : stack'[top + c] = Visit(children[c])
    BY EnterStack
  <2>2. ASSUME NEW k \in DOMAIN stack', k > top PROVE \E c \in DOMAIN children : stack'[k] = Visit(children[c])
    <3>1. k - top \in DOMAIN children /\ k = top + (k - top)
      BY <1>2, <2>1, <2>2
    <3> QED BY <2>1, <3>1
  <2> QED BY <2>1, <2>2
<1>6. \A c \in DOMAIN children : children[c] \in ChildrenOf({n})
  BY DEF ChildrenOf
<1> HIDE DEF children
<1>7. n \in Live /\ n \in Ids
  BY <1>2, <1>3, IdsType DEF CauseInv, AllLive
<1>8. ChildrenOf({n}) \subseteq Live /\ ChildrenOf({n}) \subseteq Under(n)
  BY <1>7, LiveHas, UnderIs DEF Inv
<1>9. AllLive'
  <2>1. ASSUME NEW k \in DOMAIN stack' PROVE stack'[k].id \in Live
    <3>1. CASE k < top
      BY <1>2, <1>5, <3>1 DEF CauseInv, AllLive
    <3>2. CASE k = top
      BY <1>5, <1>7, <3>2 DEF Leave
    <3>3. CASE k > top
      <4>1. PICK c \in DOMAIN children : stack'[k] = Visit(children[c])
        BY <1>5, <3>3
      <4> QED BY <1>6, <1>8, <4>1 DEF Visit
    <3> QED BY <1>2, <1>5, <3>1, <3>2, <3>3
  <2> QED BY <1>1, <1>4, <2>1 DEF CauseInv, AllLive
<1>10. AboveIsUnder'
  <2> SUFFICES ASSUME NEW m \in Ids, NEW k \in DOMAIN stack', NEW l \in DOMAIN stack', k < l, stack'[k] = Leave(m)
               PROVE  stack'[l].id \in Under(m)
    BY <1>4 DEF AboveIsUnder, Leave
  <2>1. k \in Nat /\ l \in Nat /\ ~(k > top)
    BY <1>2, <1>5 DEF Visit, Leave
  <2>2. CASE k = top
    <3>1. l > top /\ m = n
      BY <1>2, <1>5, <2>1, <2>2 DEF Leave
    <3>2. PICK c \in DOMAIN children : stack'[l] = Visit(children[c])
      BY <1>5, <3>1
    <3>3. stack'[l].id = children[c] /\ children[c] \in Under(n)
      BY <1>6, <1>8, <3>2 DEF Visit
    <3> QED BY <3>1, <3>3
  <2>3. CASE k < top
    <3>1. k \in 1..(top - 1) /\ stack[k] = Leave(m)
      BY <1>2, <1>5, <2>1, <2>3
    <3>2. n \in Under(m)
      BY <1>2, <1>3, <2>3, <3>1 DEF CauseInv, AboveIsUnder
    <3>3. ChildrenOf({n}) \subseteq Under(m)
      BY <3>2, UnderIs, ClosedHas DEF Inv
    <3>4. CASE l < top
      BY <1>2, <1>5, <2>1, <3>1, <3>4 DEF CauseInv, AboveIsUnder
    <3>5. CASE l = top
      BY <1>5, <3>2, <3>5 DEF Leave
    <3>6. CASE l > top
      <4>1. PICK c \in DOMAIN children : stack'[l] = Visit(children[c])
        BY <1>5, <3>6
      <4> QED BY <1>6, <3>3, <4>1 DEF Visit
    <3> QED BY <1>2, <2>1, <3>4, <3>5, <3>6
  <2> QED BY <1>2, <2>1, <2>2, <2>3
<1>11. HasCause'
  BY <1>1, <1>4 DEF CauseInv, HasCause
<1> QED BY <1>9, <1>10, <1>11 DEF CauseInv

LEMMA RefusalCause ==
    ASSUME Inv, CauseInv, NEW id \in Ids,
           (id \in Nodes /\ Cycle(id)) \/ Missing(id)
    PROVE  CauseInv'
<1>1. doc' = doc /\ stack' = stack /\ order' = order /\ stack # <<>> /\ Top = Visit(id)
  BY DEF Cycle, Missing, Walks, walkVars
<1>2. Live' = Live /\ \A m : Under(m)' = Under(m)
  BY <1>1, SameDocSameUnder
<1>3. Len(stack) \in DOMAIN stack /\ stack[Len(stack)] = Visit(id) /\ DOMAIN stack = 1..Len(stack) /\ Len(stack) \in Nat
  BY <1>1 DEF Inv, Typed, Top
<1>4. id \in Live
  BY <1>3 DEF CauseInv, AllLive, Visit
<1>5. AllLive' /\ AboveIsUnder'
  BY <1>1, <1>2 DEF CauseInv, AllLive, AboveIsUnder
<1>6. CASE id \in Nodes /\ Cycle(id)
  <2>1. outcome' = "cycle" /\ marks[id] = "inProgress"
    BY <1>6 DEF Cycle
  <2>2. PICK k \in DOMAIN stack : stack[k] = Leave(id)
    BY <1>6, <2>1 DEF Inv, OpenIsLeft
  <2>3. k # Len(stack)
    BY <1>3, <2>2 DEF Leave, Visit
  <2>4. id \in Under(id)
    <3>1. stack[Len(stack)].id = id
      BY <1>3 DEF Visit
    <3>2. k < Len(stack)
      BY <1>3, <2>3
    <3> QED BY <1>3, <2>2, <3>1, <3>2 DEF CauseInv, AboveIsUnder
  <2> QED BY <1>2, <1>4, <1>5, <1>6, <2>1, <2>4 DEF CauseInv, HasCause
<1>7. CASE Missing(id)
  <2>1. outcome' = "missing" /\ id \notin Nodes
    BY <1>7 DEF Missing
  <2> QED BY <1>2, <1>4, <1>5, <2>1 DEF CauseInv, HasCause
<1> QED BY <1>6, <1>7

LEMMA RestCause ==
    ASSUME CauseInv, UNCHANGED <<doc, walkVars>>, outcome' = outcome \/ outcome' \notin {"cycle", "missing"}
    PROVE  CauseInv'
<1>1. stack' = stack /\ order' = order /\ doc' = doc
  BY DEF walkVars
<1>2. Live' = Live /\ \A m : Under(m)' = Under(m)
  BY <1>1, SameDocSameUnder
<1> QED BY <1>1, <1>2 DEF CauseInv, AllLive, AboveIsUnder, HasCause

LEMMA CauseNext == Inv /\ CauseInv /\ [Next]_vars => CauseInv'
<1> SUFFICES ASSUME Inv, CauseInv, [Next]_vars PROVE CauseInv'
  OBVIOUS
<1>1. ASSUME NEW n \in Nodes, Finish(n) PROVE CauseInv'
  <2>1. stack # <<>> /\ stack' = Below /\ doc' = doc /\ outcome' = outcome /\ Top = Leave(n) /\ order' = Append(order, n)
    BY <1>1 DEF Finish, Walks
  <2>2. Top.id = n
    BY <2>1 DEF Leave
  <2> QED BY <2>1, <2>2, PopCause
<1>2. ASSUME NEW n \in Nodes, Skip(n) PROVE CauseInv'
  BY <1>2, PopCause DEF Skip, Walks
<1>3. ASSUME NEW n \in Nodes, Enter(n) PROVE CauseInv'
  BY <1>3, EnterCause
<1>4. ASSUME NEW n \in Nodes, Cycle(n) PROVE CauseInv'
  BY <1>4, RefusalCause, IdsType
<1>5. ASSUME NEW id \in Ids, Missing(id) PROVE CauseInv'
  BY <1>5, RefusalCause
<1>6. CASE Judge
  BY <1>6, RestCause DEF Judge
<1>7. CASE Start
  BY <1>7, RestCause DEF Start
<1>8. ASSUME NEW n \in Nodes, LookAt(n) PROVE CauseInv'
  BY <1>8, RestCause DEF LookAt
<1>9. CASE UNCHANGED vars
  BY <1>9, RestCause DEF vars, walkVars
<1> QED BY <1>1, <1>2, <1>3, <1>4, <1>5, <1>6, <1>7, <1>8, <1>9 DEF Next

(* Where a walk ended well, what it ordered is closed, and so is what comes before any place. *)
LEMMA OrderedForCause ==
    ASSUME Inv, CauseInv, outcome \notin {"walking", "cycle", "missing"}
    PROVE  Live = OrderedNodes /\ \A n \in Live : n \notin Under(n)
<1>1. stack = <<>> /\ Ordered(Root)
  BY DEF Inv, EndsEmpty, RootToCome, Typed, Outcomes
<1>2. OrderedNodes \in SUBSET Nodes /\ OrderedNodes \in SUBSET Ids
  BY IdsType DEF Inv, Typed, OrderedNodes
<1> DEFINE Upto(i) == {order[j] : j \in {k \in DOMAIN order : k < i}}
<1>3. ASSUME NEW i \in DOMAIN order
      PROVE  ChildrenOf({order[i]}) \subseteq Upto(i)
  <2>1. \A k \in DOMAIN Children(order[i]) : \E j \in DOMAIN order : j < i /\ order[j] = Children(order[i])[k]
    BY DEF Inv, OperandsBefore
  <2> QED BY <2>1 DEF ChildrenOf
<1>5. OrderedNodes \subseteq Live
  BY DEF CauseInv, AllLive, OrderedNodes
<1>6. Closed(OrderedNodes) /\ Root \in OrderedNodes
  <2>1. \A i \in DOMAIN order : ChildrenOf({order[i]}) \subseteq OrderedNodes
    BY <1>3 DEF OrderedNodes
  <2>2. \A n \in OrderedNodes : ChildrenOf({n}) \subseteq OrderedNodes
    BY <2>1 DEF OrderedNodes
  <2> QED BY <1>1, <2>2, HasAllIsClosed DEF Ordered, OrderedNodes
<1>7. Live \subseteq OrderedNodes
  <2>1. ChildrenOf({Root}) \subseteq OrderedNodes
    BY <1>2, <1>6, ClosedHas
  <2> QED BY <1>2, <1>6, <2>1, UnderIs, IdsType DEF Live, Inv
<1>8. ASSUME NEW i \in DOMAIN order PROVE order[i] \notin Under(order[i])
  <2>1. \A j \in DOMAIN order : j < i => ChildrenOf({order[j]}) \subseteq Upto(i)
    <3> SUFFICES ASSUME NEW j \in DOMAIN order, j < i PROVE Upto(j) \subseteq Upto(i)
      BY <1>3
    <3>1. DOMAIN order \subseteq Nat
      BY DEF Inv, Typed
    <3> QED BY <3>1
  <2>2. \A n \in Upto(i) : ChildrenOf({n}) \subseteq Upto(i)
    BY <2>1
  <2>3. Closed(Upto(i)) /\ Upto(i) \in SUBSET Ids
    BY <1>2, <2>2, HasAllIsClosed DEF OrderedNodes
  <2>4. Under(order[i]) \subseteq Upto(i)
    <3>1. order[i] \in Ids
      BY <1>2 DEF OrderedNodes
    <3> QED BY <1>3, <2>3, <3>1, UnderIs DEF Inv
  <2>5. order[i] \notin Upto(i)
    <3>1. DOMAIN order \subseteq Nat
      BY DEF Inv, Typed
    <3> QED BY <3>1 DEF Inv, DoneIsOrdered
  <2> QED BY <2>4, <2>5
<1> QED BY <1>5, <1>7, <1>8 DEF OrderedNodes

(* A document is refused for a cycle or a missing node only when its root depends on one, and never
   ordered when it does, for any graph (graph.rs topo_order). *)
THEOREM ForCause == Spec => []RefusedForCause
<1>1. Inv /\ CauseInv => RefusedForCause
  BY OrderedForCause DEF RefusedForCause, CauseInv, HasCause
<1> QED BY <1>1, InvInit, InvNext, CauseInit, CauseNext, PTL DEF Spec

(* What has been ordered can be built in that order, and what is refused cannot be ordered, for any
   graph (graph.rs topo_order). *)
THEOREM Stands == Spec => []OrderStands
BY Typing, OperandsFirst, ForCause, PTL DEF OrderStands
------------------------------------------------------------------------------
(* What is worn.  Worn is a function defined by recursion over the operands: it is what its definition
   says because every operand of a node comes before it in the order, and the induction is over the
   places of the order. *)

LEMMA SmallestOf ==
    ASSUME NEW U \in SUBSET Nat, U # {}
    PROVE  \E m \in U : \A k \in U : m <= k
<1> DEFINE R == OpToRel(<, Nat)
<1>1. IsWellFoundedOn(R, Nat)
  BY NatLessThanWellFounded
<1>2. \A x, y \in Nat : x < y => <<x, y>> \in R
  BY DEF OpToRel
<1> HIDE DEF R
<1>3. PICK m \in U : \A y \in U : ~ (<<y, m>> \in R)
  BY <1>1, WFMin
<1>4. ASSUME NEW k \in U PROVE m <= k
  <2>1. ~(k < m) /\ k \in Nat /\ m \in Nat
    BY <1>2, <1>3
  <2> QED BY <2>1
<1> QED
  BY <1>4

LEMMA PlaceByPlace ==
    ASSUME NEW U, 0 \in U, \A n \in Nat : n \in U => n + 1 \in U
    PROVE  Nat \subseteq U
<1> SUFFICES ASSUME Nat \ U # {} PROVE FALSE
  OBVIOUS
<1>1. PICK m \in Nat \ U : \A k \in Nat \ U : m <= k
  BY SmallestOf
<1>2. m # 0 /\ m - 1 \in Nat
  BY <1>1
<1>3. m - 1 \in U
  BY <1>1, <1>2
<1> QED
  BY <1>1, <1>2, <1>3

LEMMA FirstIs ==
    ASSUME NEW s, NEW m \in Nat, DOMAIN s = 1..m
    PROVE  \/ FirstOf(s) = Plain /\ \A i \in 1..m : s[i] = Plain
           \/ \E i \in 1..m : s[i] # Plain /\ (\A j \in 1..(i - 1) : s[j] = Plain) /\ FirstOf(s) = s[i]
<1> DEFINE First(i) == s[i] # Plain /\ \A j \in 1..(i - 1) : s[j] = Plain
<1>1. CASE \A i \in 1..m : s[i] = Plain
  BY <1>1 DEF FirstOf
<1>2. CASE \E i \in 1..m : s[i] # Plain
  <2>1. PICK i \in {k \in 1..m : s[k] # Plain} : \A k \in {k \in 1..m : s[k] # Plain} : i <= k
    <3>1. {k \in 1..m : s[k] # Plain} \in SUBSET Nat /\ {k \in 1..m : s[k] # Plain} # {}
      BY <1>2
    <3> QED BY <3>1, SmallestOf
  <2>2. First(i) /\ i \in DOMAIN s
    BY <2>1
  <2> DEFINE c == CHOOSE k \in DOMAIN s : First(k)
  <2>3. c \in DOMAIN s /\ First(c)
    BY <2>2
  <2>4. FirstOf(s) = s[c]
    BY <1>2 DEF FirstOf
  <2> QED BY <2>3, <2>4
<1> QED BY <1>1, <1>2

(* The operands of a node, and what it wears if w is what they wear. *)
LooksAt(d, n) == IF d.op[n] = "difference" THEN <<d.children[n][1]>> ELSE d.children[n]
Takes(d, w, n) == IF d.material[n] # Plain THEN d.material[n]
                  ELSE FirstOf([i \in 1..Len(LooksAt(d, n)) |-> w[LooksAt(d, n)[i]]])

Before(a, b) == \E i, j \in DOMAIN order : i < j /\ order[i] = a /\ order[j] = b

(* A difference has a base. *)
HasBase == \A n \in Nodes : doc.op[n] = "difference" => doc.children[n] # <<>>

LEMMA OperandsAre ==
    ASSUME Inv, HasBase, NEW j \in DOMAIN order
    PROVE  /\ LooksAt(doc, order[j]) = Operands(order[j])
           /\ Operands(order[j]) \in Seq(OrderedNodes)
           /\ \A i \in 1..Len(Operands(order[j])) : \E k \in DOMAIN order : k < j /\ order[k] = Operands(order[j])[i]
<1> DEFINE n == order[j]
           of == Operands(n)
<1>1. n \in Nodes /\ Children(n) \in Seq(Ids)
  BY DEF Inv, Typed, Children
<1>2. \A c \in DOMAIN Children(n) : \E k \in DOMAIN order : k < j /\ order[k] = Children(n)[c]
  BY DEF Inv, OperandsBefore
<1>3. LooksAt(doc, n) = of
  BY DEF LooksAt, Operands, Children
<1>4. /\ of \in Seq(Ids)
      /\ \A i \in 1..Len(of) : \E k \in DOMAIN order : k < j /\ order[k] = of[i]
  <2>1. CASE doc.op[n] = "difference"
    <3>1. 1 \in DOMAIN Children(n) /\ Children(n)[1] \in Ids
      BY <1>1, <2>1 DEF HasBase, Children
    <3>2. of = <<Children(n)[1]>>
      BY <2>1 DEF Operands
    <3> HIDE DEF of
    <3>3. Len(of) = 1 /\ of[1] = Children(n)[1] /\ of \in Seq(Ids)
      BY <3>1, <3>2
    <3> QED BY <1>2, <3>1, <3>3
  <2>2. CASE doc.op[n] # "difference"
    <3>1. of = Children(n)
      BY <2>2 DEF Operands
    <3> QED BY <1>1, <1>2, <3>1
  <2> QED BY <2>1, <2>2
<1> HIDE DEF of
<1>5. \A i \in 1..Len(of) : of[i] \in OrderedNodes
  BY <1>4 DEF OrderedNodes
<1>6. of \in Seq(OrderedNodes)
  BY <1>4, <1>5
<1> QED BY <1>3, <1>4, <1>6 DEF of

(* What a node takes depends on what its operands wear, and on nothing later in the order. *)
LEMMA TakesFromBefore ==
    ASSUME Inv, HasBase, NEW j \in DOMAIN order, NEW f, NEW g,
           \A k \in DOMAIN order : k < j => f[order[k]] = g[order[k]]
    PROVE  Takes(doc, f, order[j]) = Takes(doc, g, order[j])
<1> DEFINE n == order[j]
           of == LooksAt(doc, n)
<1>1. \A i \in 1..Len(of) : f[of[i]] = g[of[i]]
  BY OperandsAre
<1>2. [i \in 1..Len(of) |-> f[of[i]]] = [i \in 1..Len(of) |-> g[of[i]]]
  BY <1>1
<1> QED BY <1>2 DEF Takes

LEMMA WornIs ==
    ASSUME Inv, HasBase
    PROVE  \A n \in OrderedNodes : Worn[n] = Takes(doc, Worn, n)
<1> DEFINE Right(f, m) == \A i \in DOMAIN order : i <= m => f[order[i]] = Takes(doc, f, order[i])
           U == {m \in Nat : \E f : f = [n \in OrderedNodes |-> f[n]] /\ Right(f, m)}
<1>0. /\ Len(order) \in Nat /\ DOMAIN order = 1..Len(order)
      /\ \A i \in DOMAIN order : order[i] \in OrderedNodes
      /\ \A i, j \in DOMAIN order : i # j => order[i] # order[j]
  BY DEF Inv, Typed, DoneIsOrdered, OrderedNodes
<1>1. 0 \in U
  <2> DEFINE f == [n \in OrderedNodes |-> Plain]
  <2>1. f = [n \in OrderedNodes |-> f[n]] /\ Right(f, 0)
    BY <1>0
  <2> QED BY <2>1
<1>2. ASSUME NEW m \in Nat, m \in U PROVE m + 1 \in U
  <2>1. PICK f : f = [n \in OrderedNodes |-> f[n]] /\ Right(f, m)
    BY <1>2
  <2>2. CASE m + 1 \in DOMAIN order
    <3> DEFINE top == order[m + 1]
               g == [n \in OrderedNodes |-> IF n = top THEN Takes(doc, f, top) ELSE f[n]]
    <3>1. g = [n \in OrderedNodes |-> g[n]]
      OBVIOUS
    <3>2. \A i \in DOMAIN order : i < m + 1 => g[order[i]] = f[order[i]]
      BY <1>0, <2>2
    <3>3. g[top] = Takes(doc, f, top)
      BY <1>0, <2>2
    <3> HIDE DEF g
    <3>4. ASSUME NEW i \in DOMAIN order, i <= m + 1 PROVE g[order[i]] = Takes(doc, g, order[i])
      <4>1. \A k \in DOMAIN order : k < i => g[order[k]] = f[order[k]]
        BY <1>0, <3>2, <3>4
      <4>2. Takes(doc, g, order[i]) = Takes(doc, f, order[i])
        BY <4>1, TakesFromBefore
      <4>3. CASE i = m + 1
        BY <3>3, <4>2, <4>3
      <4>4. CASE i # m + 1
        <5>1. i < m + 1 /\ i <= m
          BY <1>0, <3>4, <4>4
        <5> QED BY <2>1, <3>2, <4>2, <5>1
      <4> QED BY <4>3, <4>4
    <3> QED BY <3>1, <3>4
  <2>3. CASE m + 1 \notin DOMAIN order
    <3>1. \A i \in DOMAIN order : i <= m + 1 => i <= m
      BY <1>0, <2>3
    <3> QED BY <2>1, <3>1
  <2> QED BY <2>2, <2>3
<1>3. Len(order) \in U
  <2> HIDE DEF U
  <2> QED BY <1>0, <1>1, <1>2, PlaceByPlace
<1>4. PICK f : f = [n \in OrderedNodes |-> f[n]] /\ Right(f, Len(order))
  BY <1>3
<1>5. \A n \in OrderedNodes : f[n] = Takes(doc, f, n)
  BY <1>0, <1>4 DEF OrderedNodes
<1>6. f = [n \in OrderedNodes |-> Takes(doc, f, n)]
  BY <1>4, <1>5
<1>7. Worn = CHOOSE w : w = [n \in OrderedNodes |-> Takes(doc, w, n)]
  BY DEF Worn, WornIn, Takes, LooksAt
<1>8. Worn = [n \in OrderedNodes |-> Takes(doc, Worn, n)]
  BY <1>6, <1>7
<1> QED BY <1>8

------------------------------------------------------------------------------
(* The walk down from a body: the first of what is to be looked at, from the top, that wears a material
   wears the body's; and a node that was seen is done with, or that first is below it. *)

Shows(w, s, q) == q \in DOMAIN s /\ w[s[q]] # Plain /\ \A p \in DOMAIN s : p > q => w[s[p]] = Plain
AllBare(w, s) == \A p \in DOMAIN s : w[s[p]] = Plain
Reveals(w, s, m) == (\E q \in DOMAIN s : Shows(w, s, q) /\ w[s[q]] = m) \/ (m = Plain /\ AllBare(w, s))
SeenStand(w, s, seen) ==
    \A n \in seen : n \in OrderedNodes /\ (w[n] # Plain => \E q \in DOMAIN s : Shows(w, s, q) /\ Before(s[q], n))

(* The stack with operands in place of its top. *)
Opened(s, of) == Left(s) \o Pushed(of)

LEMMA LeftIs ==
    ASSUME NEW S, NEW s \in Seq(S), s # <<>>
    PROVE  /\ Len(s) \in Nat \ {0} /\ DOMAIN s = 1..Len(s) /\ Left(s) \in Seq(S) /\ Len(Left(s)) = Len(s) - 1
           /\ \A i \in 1..(Len(s) - 1) : Left(s)[i] = s[i]
<1>1. Len(s) \in Nat \ {0} /\ DOMAIN s = 1..Len(s)
  OBVIOUS
<1>2. /\ SubSeq(s, 1, Len(s) - 1) \in Seq(S) /\ Len(SubSeq(s, 1, Len(s) - 1)) = Len(s) - 1
      /\ \A i \in 1..(Len(s) - 1) : SubSeq(s, 1, Len(s) - 1)[i] = s[i]
  BY <1>1
<1> QED BY <1>1, <1>2 DEF Left

LEMMA PushedIs ==
    ASSUME NEW S, NEW of \in Seq(S)
    PROVE  /\ Pushed(of) \in Seq(S) /\ Len(Pushed(of)) = Len(of) /\ Len(of) \in Nat
           /\ \A i \in 1..Len(of) : Pushed(of)[i] = of[Len(of) + 1 - i]
<1>1. Len(of) \in Nat /\ \A i \in 1..Len(of) : Len(of) + 1 - i \in 1..Len(of) /\ of[i] \in S
  OBVIOUS
<1>2. Pushed(of) = [i \in 1..Len(of) |-> of[Len(of) + 1 - i]]
  BY DEF Pushed
<1>3. \A i \in 1..Len(of) : of[Len(of) + 1 - i] \in S
  BY <1>1
<1> QED BY <1>1, <1>2, <1>3

(* The places of the operands, the first of them on top: n is the length of the stack, m their number. *)
LEMMA Mirrored ==
    ASSUME NEW n \in Nat \ {0}, NEW m \in Nat
    PROVE  /\ \A i \in 1..m : n + m - i \in 1..(n - 1 + m) /\ ~(n + m - i <= n - 1) /\ (n + m - i) - (n - 1) = m + 1 - i
           /\ \A i \in 1..m : m + 1 - i \in 1..m /\ m + 1 - (m + 1 - i) = i
           /\ \A p \in 1..(n - 1 + m) : p \notin 1..(n - 1) => n + m - p \in 1..m /\ n + m - (n + m - p) = p
OBVIOUS

LEMMA OpenedIs ==
    ASSUME NEW S, NEW s \in Seq(S), s # <<>>, NEW of \in Seq(S)
    PROVE  /\ Opened(s, of) \in Seq(S) /\ DOMAIN Opened(s, of) = 1..(Len(s) - 1 + Len(of))
           /\ DOMAIN s = 1..Len(s) /\ Len(s) \in Nat \ {0} /\ Len(of) \in Nat
           /\ \A i \in 1..(Len(s) - 1) : Opened(s, of)[i] = s[i]
           /\ \A i \in 1..Len(of) : Opened(s, of)[Len(s) + Len(of) - i] = of[i]
<1> DEFINE a == Left(s)
           b == Pushed(of)
           t == Opened(s, of)
           n == Len(s)
           m == Len(of)
<1>1. /\ a \in Seq(S) /\ Len(a) = n - 1 /\ n \in Nat \ {0} /\ DOMAIN s = 1..n
      /\ \A i \in 1..(n - 1) : a[i] = s[i]
  BY LeftIs
<1>2. b \in Seq(S) /\ Len(b) = m /\ m \in Nat /\ \A i \in 1..m : b[i] = of[m + 1 - i]
  BY PushedIs
<1>3. t = a \o b
  BY DEF Opened
<1> HIDE DEF a, b, t, n, m
<1>4. /\ t \in Seq(S) /\ Len(t) = n - 1 + m
      /\ \A i \in 1..(n - 1 + m) : t[i] = IF i <= n - 1 THEN a[i] ELSE b[i - (n - 1)]
  <2>1. /\ a \o b \in Seq(S) /\ Len(a \o b) = Len(a) + Len(b)
        /\ \A i \in 1..(Len(a) + Len(b)) : (a \o b)[i] = IF i <= Len(a) THEN a[i] ELSE b[i - Len(a)]
    BY <1>1, <1>2, ConcatProperties
  <2> QED BY <1>1, <1>2, <1>3, <2>1
<1>5. DOMAIN t = 1..(n - 1 + m)
  BY <1>4
<1>6. \A i \in 1..(n - 1) : t[i] = s[i]
  <2>1. \A i \in 1..(n - 1) : i \in 1..(n - 1 + m) /\ i <= n - 1
    BY <1>1, <1>2
  <2> QED BY <1>1, <1>4, <2>1
<1>7. \A i \in 1..m : t[n + m - i] = of[i]
  <2> SUFFICES ASSUME NEW i \in 1..m PROVE t[n + m - i] = of[i]
    OBVIOUS
  <2>1. n + m - i \in 1..(n - 1 + m) /\ ~(n + m - i <= n - 1) /\ (n + m - i) - (n - 1) = m + 1 - i
    BY <1>1, <1>2, Mirrored
  <2>2. m + 1 - i \in 1..m /\ m + 1 - (m + 1 - i) = i
    BY <1>1, <1>2, Mirrored
  <2>3. t[n + m - i] = b[m + 1 - i]
    BY <1>4, <2>1
  <2> QED BY <1>2, <2>2, <2>3
<1> QED BY <1>1, <1>2, <1>4, <1>5, <1>6, <1>7 DEF t, n, m

(* A node that wears nothing is passed over, and nothing changes. *)
LEMMA PassedOver ==
    ASSUME NEW S, NEW s \in Seq(S), s # <<>>, NEW of \in Seq(S),
           NEW w, w[s[Len(s)]] = Plain, AllBare(w, of)
    PROVE  /\ \A q : Shows(w, s, q) => Shows(w, Opened(s, of), q) /\ Opened(s, of)[q] = s[q]
           /\ \A m : Reveals(w, s, m) => Reveals(w, Opened(s, of), m)
<1> DEFINE t == Opened(s, of)
           n == Len(s)
           m == Len(of)
<1>1. /\ DOMAIN s = 1..n /\ n \in Nat \ {0} /\ m \in Nat /\ DOMAIN t = 1..(n - 1 + m)
      /\ \A i \in 1..(n - 1) : t[i] = s[i]
      /\ \A i \in 1..m : t[n + m - i] = of[i]
  <2>1. DOMAIN s = 1..n
    OBVIOUS
  <2>2. n \in Nat \ {0} /\ m \in Nat /\ DOMAIN t = 1..(n - 1 + m)
    BY OpenedIs
  <2>3. \A i \in 1..(n - 1) : t[i] = s[i]
    BY OpenedIs
  <2>4. \A i \in 1..m : t[n + m - i] = of[i]
    BY OpenedIs
  <2> QED BY <2>1, <2>2, <2>3, <2>4
<1>0. w[s[n]] = Plain /\ \A i \in 1..m : w[of[i]] = Plain
  <2>1. DOMAIN of = 1..m
    OBVIOUS
  <2> QED BY <2>1 DEF AllBare
<1> HIDE DEF t, n, m
<1>2. ASSUME NEW p \in DOMAIN t, p \notin 1..(n - 1) PROVE w[t[p]] = Plain
  <2>1. n + m - p \in 1..m /\ n + m - (n + m - p) = p
    BY <1>1, <1>2, Mirrored
  <2>2. t[p] = of[n + m - p]
    BY <1>1, <2>1
  <2> QED BY <1>0, <2>1, <2>2
<1>3. ASSUME NEW q, Shows(w, s, q) PROVE Shows(w, t, q) /\ t[q] = s[q]
  <2>0. q \in 1..n /\ q # n
    BY <1>0, <1>1, <1>3 DEF Shows
  <2>1. q \in 1..(n - 1)
    BY <1>1, <2>0
  <2>2. q \in DOMAIN t /\ t[q] = s[q] /\ w[t[q]] # Plain
    BY <1>1, <1>3, <2>1 DEF Shows
  <2>3. ASSUME NEW p \in DOMAIN t, p > q PROVE w[t[p]] = Plain
    <3>1. CASE p \in 1..(n - 1)
      BY <1>1, <1>3, <2>3, <3>1 DEF Shows
    <3> QED BY <1>2, <3>1
  <2> QED BY <2>2, <2>3 DEF Shows
<1>4. ASSUME NEW x, Reveals(w, s, x) PROVE Reveals(w, t, x)
  <2>1. CASE \E q \in DOMAIN s : Shows(w, s, q) /\ w[s[q]] = x
    <3>1. PICK q \in DOMAIN s : Shows(w, s, q) /\ w[s[q]] = x
      BY <2>1
    <3>2. Shows(w, t, q) /\ t[q] = s[q]
      BY <1>3, <3>1
    <3> QED BY <3>1, <3>2 DEF Reveals, Shows
  <2>2. CASE x = Plain /\ AllBare(w, s)
    <3>1. \A p \in 1..(n - 1) : w[t[p]] = Plain
      BY <1>1, <2>2 DEF AllBare
    <3>2. \A p \in DOMAIN t : w[t[p]] = Plain
      BY <1>2, <3>1
    <3> QED BY <2>2, <3>2 DEF Reveals, AllBare
  <2> QED BY <1>4, <2>1, <2>2 DEF Reveals
<1> QED BY <1>3, <1>4 DEF t

(* Where an operand wears a material and those before it none, it shows. *)
FirstAt(w, of, k) == k \in 1..Len(of) /\ w[of[k]] # Plain /\ \A i \in 1..(k - 1) : w[of[i]] = Plain

LEMMA OperandShows ==
    ASSUME NEW S, NEW s \in Seq(S), s # <<>>, NEW of \in Seq(S), NEW w,
           NEW k, FirstAt(w, of, k)
    PROVE  \E q \in DOMAIN Opened(s, of) : Shows(w, Opened(s, of), q) /\ Opened(s, of)[q] = of[k]
<1> DEFINE t == Opened(s, of)
           n == Len(s)
           m == Len(of)
           q == n + m - k
<1>1. /\ n \in Nat \ {0} /\ m \in Nat /\ DOMAIN t = 1..(n - 1 + m)
      /\ \A i \in 1..m : t[n + m - i] = of[i]
  <2>1. n \in Nat \ {0} /\ m \in Nat /\ DOMAIN t = 1..(n - 1 + m)
    BY OpenedIs
  <2>2. \A i \in 1..m : t[n + m - i] = of[i]
    BY OpenedIs
  <2> QED BY <2>1, <2>2
<1>0. k \in 1..m /\ w[of[k]] # Plain /\ \A i \in 1..(k - 1) : w[of[i]] = Plain
  BY DEF FirstAt
<1> HIDE DEF t, n, m
<1>2. q \in DOMAIN t /\ t[q] = of[k]
  BY <1>0, <1>1, Mirrored
<1>3. ASSUME NEW p \in DOMAIN t, p > q PROVE w[t[p]] = Plain
  <2>0. p \in Int /\ k \in Int /\ n \in Int /\ m \in Int /\ p <= n - 1 + m
    BY <1>0, <1>1
  <2>1. n + m - p \in 1..(k - 1) /\ p \notin 1..(n - 1)
    BY <1>0, <1>3, <2>0
  <2>2. n + m - p \in 1..m /\ n + m - (n + m - p) = p
    BY <1>1, <2>1, Mirrored
  <2>3. t[p] = of[n + m - p]
    BY <1>1, <2>2
  <2> QED BY <1>0, <2>1, <2>3
<1>4. Shows(w, t, q)
  BY <1>0, <1>2, <1>3 DEF Shows
<1> QED BY <1>2, <1>4 DEF t

(* What each body given so far wears is right, and the walk tells what the next does. *)
LookInv ==
    /\ HasBase
    /\ wears \in Seq({Plain} \union {doc.material[n] : n \in Nodes})
    /\ look = [todo |-> look.todo, seen |-> look.seen]
    /\ outcome # "ordered" => wears = <<>> /\ look.todo = <<>> /\ look.seen = {}
    /\ outcome = "ordered" =>
           /\ \A k \in DOMAIN wears : wears[k] = Worn[Roots[k]]
           /\ look.todo \in Seq(OrderedNodes)
           /\ SeenStand(Worn, look.todo, look.seen)
           /\ look.todo # <<>> => Reveals(Worn, look.todo, Worn[Roots[Len(wears) + 1]])

LEMMA NotBeforeItself ==
    ASSUME Inv
    PROVE  /\ \A a : ~Before(a, a)
           /\ \A a, b, c : Before(a, b) /\ Before(b, c) => Before(a, c)
<1>1. \A i, j \in DOMAIN order : i # j => order[i] # order[j]
  BY DEF Inv, DoneIsOrdered
<1>2. \A i \in DOMAIN order : i \in Nat
  BY DEF Inv, Typed
<1>3. \A a : ~Before(a, a)
  BY <1>1, <1>2 DEF Before
<1>4. ASSUME NEW a, NEW b, NEW c, Before(a, b), Before(b, c) PROVE Before(a, c)
  <2>1. PICK i, j \in DOMAIN order : i < j /\ order[i] = a /\ order[j] = b
    BY <1>4 DEF Before
  <2>2. PICK k, l \in DOMAIN order : k < l /\ order[k] = b /\ order[l] = c
    BY <1>4 DEF Before
  <2>3. j = k
    BY <1>1, <2>1, <2>2
  <2>4. i < l
    BY <1>2, <2>1, <2>2, <2>3
  <2> QED BY <2>1, <2>2, <2>4 DEF Before
<1> QED BY <1>3, <1>4

LEMMA SameWorn ==
    ASSUME doc' = doc, order' = order
    PROVE  /\ Worn' = Worn /\ Roots' = Roots /\ OrderedNodes' = OrderedNodes
           /\ \A a, b : Before(a, b)' <=> Before(a, b)
<1>1. OrderedNodes' = OrderedNodes
  BY DEF OrderedNodes
<1>2. Worn' = Worn
  BY <1>1 DEF Worn
<1>3. Roots' = Roots
  BY DEF Roots, IsBodies, Children
<1>4. \A a, b : Before(a, b)' <=> Before(a, b)
  BY DEF Before
<1> QED BY <1>1, <1>2, <1>3, <1>4

LEMMA RootsAre ==
    ASSUME Inv, outcome = "ordered"
    PROVE  Roots \in Seq(OrderedNodes)
<1>1. Ordered(Root)
  <2>1. stack = <<>>
    BY DEF Inv, EndsEmpty
  <2> QED BY <2>1 DEF Inv, RootToCome
<1>2. PICK i \in DOMAIN order : order[i] = Root
  BY <1>1 DEF Ordered
<1>3. Root \in OrderedNodes /\ Root \in Nodes
  BY <1>2 DEF OrderedNodes, Inv, Typed
<1>4. Children(Root) \in Seq(Ids)
  BY <1>3 DEF Inv, Typed, Children
<1>5. \A k \in DOMAIN Children(Root) : Children(Root)[k] \in OrderedNodes
  BY <1>2 DEF Inv, OperandsBefore, OrderedNodes
<1>6. Children(Root) \in Seq(OrderedNodes)
  BY <1>4, <1>5
<1> QED BY <1>3, <1>6 DEF Roots

(* The top shows whatever it wears. *)
LEMMA TopShows ==
    ASSUME NEW S, NEW s \in Seq(S), s # <<>>, NEW w, w[s[Len(s)]] # Plain
    PROVE  /\ \A q : Shows(w, s, q) => q = Len(s)
           /\ \A m : Reveals(w, s, m) => m = w[s[Len(s)]]
<1> DEFINE n == Len(s)
<1>1. n \in Nat \ {0} /\ DOMAIN s = 1..n /\ w[s[n]] # Plain
  OBVIOUS
<1> HIDE DEF n
<1>2. ASSUME NEW q, Shows(w, s, q) PROVE q = n
  <2>1. q \in 1..n /\ n \in DOMAIN s /\ ~(n > q)
    BY <1>1, <1>2 DEF Shows
  <2> QED BY <1>1, <2>1
<1>3. ~AllBare(w, s)
  BY <1>1 DEF AllBare
<1> QED BY <1>2, <1>3 DEF Reveals, n

LEMMA NothingTells ==
    ASSUME NEW w, NEW m, Reveals(w, <<>>, m)
    PROVE  m = Plain
BY DEF Reveals

LEMMA OpenedEmpty ==
    ASSUME NEW S, NEW s \in Seq(S), s # <<>>
    PROVE  Opened(s, <<>>) = Left(s)
<1>1. Left(s) \in Seq(S)
  BY LeftIs
<1>2. Pushed(<<>>) = <<>>
  BY DEF Pushed
<1> QED BY <1>1, <1>2 DEF Opened

(* A node is seen once it is done with, or what shows is below it. *)
LEMMA SeenIsPlain ==
    ASSUME Inv, NEW s \in Seq(OrderedNodes), s # <<>>, NEW w, NEW seen, SeenStand(w, s, seen), s[Len(s)] \in seen
    PROVE  w[s[Len(s)]] = Plain
<1> SUFFICES ASSUME w[s[Len(s)]] # Plain PROVE FALSE
  OBVIOUS
<1>1. PICK q \in DOMAIN s : Shows(w, s, q) /\ Before(s[q], s[Len(s)])
  BY DEF SeenStand
<1>2. q = Len(s)
  BY <1>1, TopShows
<1> QED BY <1>1, <1>2, NotBeforeItself

LEMMA SeenPassed ==
    ASSUME NEW s, NEW t, NEW w, NEW seen, SeenStand(w, s, seen), \A q : Shows(w, s, q) => Shows(w, t, q) /\ t[q] = s[q]
    PROVE  SeenStand(w, t, seen)
<1>1. \A q : Shows(w, t, q) => q \in DOMAIN t
  BY DEF Shows
<1> QED BY <1>1 DEF SeenStand

LEMMA LookInit == Init => LookInv
<1> SUFFICES ASSUME Init PROVE LookInv
  OBVIOUS
<1>1. look = [todo |-> <<>>, seen |-> {}] /\ wears = <<>> /\ outcome = "walking"
  BY DEF Init
<1>2. HasBase
  BY DEF Init, Read, HasBase
<1> QED BY <1>1, <1>2 DEF LookInv

(* Until the order is there, there is nothing to look at. *)
LEMMA WalkLooks ==
    ASSUME LookInv, doc' = doc, UNCHANGED lookVars, outcome # "ordered"
    PROVE  LookInv'
<1>1. look' = look /\ wears' = wears /\ wears = <<>> /\ look.todo = <<>> /\ look.seen = {}
  BY DEF LookInv, lookVars
<1>2. HasBase' /\ look' = [todo |-> look'.todo, seen |-> look'.seen]
  BY <1>1 DEF LookInv, HasBase
<1>3. /\ \A k \in DOMAIN wears' : wears'[k] = Worn'[Roots'[k]]
      /\ look'.todo \in Seq(OrderedNodes') /\ SeenStand(Worn, look.todo, look.seen)'
  BY <1>1 DEF SeenStand
<1> QED BY <1>1, <1>2, <1>3 DEF LookInv

(* What a step of the look leaves: the order, and so what is worn. *)
LEMMA LookStays ==
    ASSUME LookInv, doc' = doc, order' = order, outcome = "ordered", outcome' = "ordered",
           NEW t \in Seq(OrderedNodes), NEW seen, look' = [todo |-> t, seen |-> seen],
           wears' \in Seq({Plain} \union {doc.material[n] : n \in Nodes}),
           \A k \in DOMAIN wears' : wears'[k] = Worn[Roots[k]],
           SeenStand(Worn, t, seen),
           t # <<>> => Reveals(Worn, t, Worn[Roots[Len(wears') + 1]])
    PROVE  LookInv'
<1>1. /\ Worn' = Worn /\ Roots' = Roots /\ OrderedNodes' = OrderedNodes
      /\ \A a, b : Before(a, b)' <=> Before(a, b)
  BY SameWorn
<1>2. look'.todo = t /\ look'.seen = seen
  OBVIOUS
<1>3. HasBase'
  BY DEF LookInv, HasBase
<1>4. SeenStand(Worn, look.todo, look.seen)'
  <2>1. \A q : Shows(Worn, look.todo, q)' <=> Shows(Worn, t, q)
    BY <1>1, <1>2 DEF Shows
  <2> QED BY <1>1, <1>2, <2>1 DEF SeenStand
<1>5. look'.todo # <<>> => Reveals(Worn, look.todo, Worn[Roots[Len(wears) + 1]])'
  BY <1>1, <1>2 DEF Reveals, Shows, AllBare
<1> QED BY <1>1, <1>2, <1>3, <1>4, <1>5 DEF LookInv

LEMMA StartLooks ==
    ASSUME Inv, LookInv, Start
    PROVE  LookInv'
<1> DEFINE k == Len(wears) + 1
           t == <<Roots[k]>>
<1>1. /\ doc' = doc /\ order' = order /\ outcome = "ordered" /\ outcome' = "ordered" /\ wears' = wears
      /\ Len(wears) < Len(Roots) /\ look' = NextBody(k)
  BY DEF Start, Looking, walkVars
<1>2. k \in 1..Len(Roots) /\ Roots[k] \in OrderedNodes
  <2>1. Len(wears) \in Nat
    BY DEF LookInv
  <2>2. Roots \in Seq(OrderedNodes) /\ Len(Roots) \in Nat
    BY <1>1, RootsAre
  <2>3. k \in 1..Len(Roots)
    BY <1>1, <2>1, <2>2
  <2> QED BY <2>2, <2>3
<1>3. look' = [todo |-> t, seen |-> {}]
  BY <1>1, <1>2 DEF NextBody
<1>4. t \in Seq(OrderedNodes) /\ DOMAIN t = {1} /\ t[1] = Roots[k]
  BY <1>2
<1> HIDE DEF t
<1>5. Reveals(Worn, t, Worn[Roots[k]])
  <2>1. CASE Worn[Roots[k]] = Plain
    BY <1>4, <2>1 DEF Reveals, AllBare
  <2>2. CASE Worn[Roots[k]] # Plain
    BY <1>4, <2>2 DEF Reveals, Shows
  <2> QED BY <2>1, <2>2
<1>6. SeenStand(Worn, t, {})
  BY DEF SeenStand
<1> QED BY <1>1, <1>3, <1>4, <1>5, <1>6, LookStays DEF LookInv

(* A body is given what the walk tells. *)
LEMMA WearLooks ==
    ASSUME Inv, LookInv, Looking, UNCHANGED <<doc, walkVars, outcome>>,
           NEW m \in {Plain} \union {doc.material[n] : n \in Nodes}, m = Worn[Roots[Len(wears) + 1]], Wear(m)
    PROVE  LookInv'
<1>1. /\ doc' = doc /\ order' = order /\ outcome = "ordered" /\ outcome' = "ordered"
      /\ wears' = Append(wears, m) /\ look' = [todo |-> <<>>, seen |-> {}]
  BY DEF Looking, walkVars, Wear
<1>2. /\ wears \in Seq({Plain} \union {doc.material[n] : n \in Nodes})
      /\ \A k \in DOMAIN wears : wears[k] = Worn[Roots[k]]
  BY <1>1 DEF LookInv
<1> DEFINE Met == {Plain} \union {doc.material[n] : n \in Nodes}
<1> HIDE DEF Met
<1>3. wears \in Seq(Met) /\ m \in Met
  BY <1>2 DEF Met
<1>4. /\ wears' \in Seq(Met) /\ DOMAIN wears' = 1..(Len(wears) + 1) /\ Len(wears) \in Nat /\ DOMAIN wears = 1..Len(wears)
      /\ wears'[Len(wears) + 1] = m /\ \A k \in 1..Len(wears) : wears'[k] = wears[k]
  BY <1>1, <1>3
<1>5. \A k \in DOMAIN wears' : wears'[k] = Worn[Roots[k]]
  <2> SUFFICES ASSUME NEW k \in DOMAIN wears' PROVE wears'[k] = Worn[Roots[k]]
    OBVIOUS
  <2>1. CASE k = Len(wears) + 1
    BY <1>4, <2>1
  <2>2. CASE k # Len(wears) + 1
    <3>1. k \in 1..Len(wears)
      BY <1>4, <2>2
    <3> QED BY <1>2, <1>4, <3>1
  <2> QED BY <2>1, <2>2
<1>6. SeenStand(Worn, <<>>, {}) /\ <<>> \in Seq(OrderedNodes)
  BY DEF SeenStand
<1>7. wears' \in Seq({Plain} \union {doc.material[n] : n \in Nodes})
  BY <1>4 DEF Met
<1> QED BY <1>1, <1>5, <1>6, <1>7, LookStays

LEMMA LookAtLooks ==
    ASSUME Inv, LookInv, NEW n \in Nodes, LookAt(n)
    PROVE  LookInv'
<1> DEFINE s == look.todo
           w == Worn
           m == Worn[Roots[Len(wears) + 1]]
           of == Operands(n)
           Met == {Plain} \union {doc.material[k] : k \in Nodes}
<1>1. /\ Looking /\ UNCHANGED <<doc, walkVars, outcome>> /\ outcome = "ordered" /\ outcome' = "ordered"
      /\ doc' = doc /\ order' = order
      /\ s # <<>> /\ n = s[Len(s)]
  BY DEF LookAt, Looking, walkVars
<1>2. /\ s \in Seq(OrderedNodes) /\ SeenStand(w, s, look.seen) /\ Reveals(w, s, m)
      /\ \A k \in DOMAIN wears : wears[k] = Worn[Roots[k]]
      /\ wears \in Seq(Met) /\ look = [todo |-> s, seen |-> look.seen]
  BY <1>1 DEF LookInv
<1>3. n \in OrderedNodes
  <2>1. Len(s) \in DOMAIN s
    BY <1>1, <1>2
  <2> QED BY <1>1, <1>2, <2>1
<1>4. /\ n \in look.seen => w[n] = Plain
      /\ w[n] = Plain => Reveals(w, Left(s), m) /\ SeenStand(w, Left(s), look.seen)
      /\ w[n] = Plain /\ Left(s) = <<>> => m = Plain
  <2>0. s \in Seq(OrderedNodes) /\ s # <<>> /\ n = s[Len(s)] /\ Reveals(w, s, m)
    BY <1>1, <1>2
  <2> HIDE DEF s, w, m, of, Met
  <2>1. n \in look.seen => w[n] = Plain
    BY <1>2, <2>0, SeenIsPlain
  <2>2. ASSUME w[n] = Plain PROVE Reveals(w, Left(s), m) /\ SeenStand(w, Left(s), look.seen)
    <3>1. AllBare(w, <<>>) /\ <<>> \in Seq(OrderedNodes)
      BY DEF AllBare
    <3>2. /\ \A q : Shows(w, s, q) => Shows(w, Opened(s, <<>>), q) /\ Opened(s, <<>>)[q] = s[q]
          /\ Reveals(w, Opened(s, <<>>), m)
      <4>1. w[s[Len(s)]] = Plain
        BY <2>0, <2>2
      <4>2. /\ \A q : Shows(w, s, q) => Shows(w, Opened(s, <<>>), q) /\ Opened(s, <<>>)[q] = s[q]
            /\ \A x : Reveals(w, s, x) => Reveals(w, Opened(s, <<>>), x)
        BY <2>0, <3>1, <4>1, PassedOver
      <4> QED BY <2>0, <4>2
    <3>3. Opened(s, <<>>) = Left(s)
      BY <2>0, OpenedEmpty
    <3> QED BY <1>2, <3>2, <3>3, SeenPassed
  <2>3. Reveals(w, Left(s), m) /\ Left(s) = <<>> => m = Plain
    BY NothingTells
  <2> QED BY <2>1, <2>2, <2>3
<1>5. Left(s) \in Seq(OrderedNodes)
  BY <1>1, <1>2, LeftIs
<1>6. /\ w[n] = Takes(doc, w, n)
      /\ of \in Seq(OrderedNodes) /\ \A i \in 1..Len(of) : Before(of[i], n)
      /\ LooksAt(doc, n) = of
  <2>1. PICK j \in DOMAIN order : order[j] = n
    BY <1>3 DEF OrderedNodes
  <2>2. /\ LooksAt(doc, n) = of /\ of \in Seq(OrderedNodes)
        /\ \A i \in 1..Len(of) : \E k \in DOMAIN order : k < j /\ order[k] = of[i]
    BY <2>1, OperandsAre DEF LookInv
  <2>3. w[n] = Takes(doc, w, n)
    BY <1>3, WornIs DEF LookInv
  <2> QED BY <2>1, <2>2, <2>3 DEF Before
<1>7. Plain \in Met /\ doc.material[n] \in Met
  OBVIOUS
<1> HIDE DEF s, m, of, Met, w
<1>8. CASE n \in look.seen /\ Left(s) # <<>> /\ look' = [look EXCEPT !.todo = Left(s)] /\ UNCHANGED wears
  <2>1. look' = [todo |-> Left(s), seen |-> look.seen]
    BY <1>2, <1>8
  <2> QED BY <1>1, <1>2, <1>4, <1>5, <1>8, <2>1, LookStays DEF w, m, Met
<1>9. CASE n \in look.seen /\ Left(s) = <<>> /\ Wear(Plain)
  <2>1. m = Plain
    BY <1>4, <1>9
  <2> QED BY <1>1, <1>9, <2>1, WearLooks DEF m
<1>10. CASE n \notin look.seen /\ doc.material[n] # Plain /\ Wear(doc.material[n])
  <2>1. w[n] = doc.material[n]
    BY <1>6, <1>10 DEF Takes
  <2>2. m = doc.material[n]
    BY <1>1, <1>2, <1>10, <2>1, TopShows
  <2> QED BY <1>1, <1>7, <1>10, <2>2, WearLooks DEF m, Met
<1>11. CASE /\ n \notin look.seen /\ doc.material[n] = Plain
            /\ IF Opened(s, of) = <<>> THEN Wear(Plain)
               ELSE look' = [todo |-> Opened(s, of), seen |-> look.seen \union {n}] /\ UNCHANGED wears
  <2> DEFINE t == Opened(s, of)
             worn == [i \in 1..Len(of) |-> w[of[i]]]
  <2>1. w[n] = FirstOf(worn)
    BY <1>6, <1>11 DEF Takes
  <2>2. Len(of) \in Nat /\ DOMAIN worn = 1..Len(of) /\ \A i \in 1..Len(of) : worn[i] = w[of[i]]
    BY <1>6
  <2>3. t \in Seq(OrderedNodes)
    BY <1>1, <1>2, <1>6, OpenedIs
  <2> HIDE DEF worn, t
  <2>4. Reveals(w, t, m) /\ SeenStand(w, t, look.seen \union {n})
    <3>1. CASE w[n] = Plain /\ \A i \in 1..Len(of) : worn[i] = Plain
      <4>1. AllBare(w, of)
        BY <1>6, <2>2, <3>1 DEF AllBare
      <4>2. /\ \A q : Shows(w, s, q) => Shows(w, t, q) /\ t[q] = s[q]
            /\ Reveals(w, t, m)
        BY <1>1, <1>2, <1>6, <3>1, <4>1, PassedOver DEF t
      <4>3. SeenStand(w, t, look.seen)
        BY <1>2, <4>2, SeenPassed
      <4> QED BY <1>3, <3>1, <4>2, <4>3 DEF SeenStand
    <3>2. CASE \E i \in 1..Len(of) : worn[i] # Plain /\ (\A j \in 1..(i - 1) : worn[j] = Plain) /\ w[n] = worn[i]
      <4>1. PICK k \in 1..Len(of) : worn[k] # Plain /\ (\A j \in 1..(k - 1) : worn[j] = Plain) /\ w[n] = worn[k]
        BY <3>2
      <4>2. w[of[k]] # Plain /\ (\A j \in 1..(k - 1) : w[of[j]] = Plain) /\ w[n] = w[of[k]]
        <5>1. \A j \in 1..(k - 1) : j \in 1..Len(of)
          BY <2>2
        <5> QED BY <2>2, <4>1, <5>1
      <4>3. PICK q \in DOMAIN t : Shows(w, t, q) /\ t[q] = of[k]
        <5>1. s \in Seq(OrderedNodes) /\ s # <<>> /\ of \in Seq(OrderedNodes)
          BY <1>1, <1>2, <1>6
        <5>2. FirstAt(w, of, k)
          BY <4>2 DEF FirstAt
        <5> QED BY <5>1, <5>2, OperandShows DEF t
      <4>4. m = w[n]
        BY <1>1, <1>2, <4>2, TopShows
      <4>5. Reveals(w, t, m)
        BY <4>2, <4>3, <4>4 DEF Reveals
      <4>6. Before(t[q], n)
        BY <1>6, <4>3
      <4>7. ASSUME NEW x \in look.seen, w[x] # Plain PROVE Before(t[q], x)
        <5>1. PICK p \in DOMAIN s : Shows(w, s, p) /\ Before(s[p], x)
          BY <1>2, <4>7 DEF SeenStand
        <5>2. p = Len(s)
          BY <1>1, <1>2, <4>2, <5>1, TopShows
        <5> QED BY <1>1, <4>6, <5>1, <5>2, NotBeforeItself
      <4>8. \A x \in look.seen : x \in OrderedNodes
        BY <1>2 DEF SeenStand
      <4> QED BY <1>3, <4>3, <4>5, <4>6, <4>7, <4>8 DEF SeenStand
    <3> QED BY <2>1, <2>2, <3>1, <3>2, FirstIs
  <2>5. CASE t = <<>>
    <3>1. m = Plain
      BY <2>4, <2>5, NothingTells
    <3>2. Wear(Plain)
      BY <1>11, <2>5 DEF t
    <3> QED BY <1>1, <3>1, <3>2, WearLooks DEF m
  <2>6. CASE t # <<>>
    <3>1. look' = [todo |-> t, seen |-> look.seen \union {n}] /\ wears' = wears
      BY <1>11, <2>6 DEF t
    <3> QED BY <1>1, <1>2, <2>3, <2>4, <3>1, LookStays DEF w, m, Met
  <2> QED BY <2>5, <2>6
<1> QED
  <2>1. look.todo = s /\ Operands(n) = of /\ SubSeq(look.todo, 1, Len(look.todo) - 1) = Left(s)
    BY DEF s, of, Left
  <2>2. Left(s) \o Pushed(of) = Opened(s, of)
    BY DEF Opened
  <2> QED BY <1>8, <1>9, <1>10, <1>11, <2>1, <2>2 DEF LookAt

LEMMA LookNext == Inv /\ LookInv /\ [Next]_vars => LookInv'
<1> SUFFICES ASSUME Inv, LookInv, [Next]_vars PROVE LookInv'
  OBVIOUS
<1>1. ASSUME NEW n \in Nodes, Finish(n) \/ Skip(n) \/ Enter(n) \/ Cycle(n) PROVE LookInv'
  BY <1>1, WalkLooks DEF Finish, Skip, Enter, Cycle, Walks
<1>2. ASSUME NEW id \in Ids, Missing(id) PROVE LookInv'
  BY <1>2, WalkLooks DEF Missing, Walks
<1>3. CASE Judge
  BY <1>3, WalkLooks DEF Judge
<1>4. CASE Start
  BY <1>4, StartLooks
<1>5. ASSUME NEW n \in Nodes, LookAt(n) PROVE LookInv'
  BY <1>5, LookAtLooks
<1>6. CASE UNCHANGED vars
  <2>1. doc' = doc /\ order' = order /\ outcome' = outcome /\ look' = look /\ wears' = wears /\ UNCHANGED lookVars
    BY <1>6 DEF vars, lookVars
  <2>2. CASE outcome # "ordered"
    BY <2>1, <2>2, WalkLooks
  <2>3. CASE outcome = "ordered"
    <3> DEFINE t == look.todo
               seen == look.seen
    <3>1. /\ t \in Seq(OrderedNodes) /\ look' = [todo |-> t, seen |-> seen] /\ SeenStand(Worn, t, seen)
          /\ t # <<>> => Reveals(Worn, t, Worn[Roots[Len(wears') + 1]])
          /\ wears' \in Seq({Plain} \union {doc.material[n] : n \in Nodes})
          /\ \A k \in DOMAIN wears' : wears'[k] = Worn[Roots[k]]
      BY <2>1, <2>3 DEF LookInv
    <3> HIDE DEF t, seen
    <3> QED BY <2>1, <2>3, <3>1, LookStays
  <2> QED BY <2>2, <2>3
<1> QED BY <1>1, <1>2, <1>3, <1>4, <1>5, <1>6 DEF Next

(* Each body of any document that is ordered wears the material its shape says, then the first of its
   operands that has one, all the way down it before the next, and never that of a cutter; the nodes
   that were seen and are passed over change no answer (graph.rs body_materials). *)
THEOREM Wears == Spec => []WearsTheFirst
<1>1. LookInv => WearsTheFirst
  BY DEF LookInv, WearsTheFirst
<1>2. Init => Inv /\ LookInv
  BY InvInit, LookInit
<1>3. (Inv /\ LookInv) /\ [Next]_vars => (Inv /\ LookInv)'
  BY InvNext, LookNext
<1> QED BY <1>1, <1>2, <1>3, PTL DEF Spec

------------------------------------------------------------------------------
(* A mechanism is read as a tree *)

(* What is read is a mechanism as it is written. *)
JointsOf == [body : STRING, on : STRING, kind : STRING, motion : STRING, sound : BOOLEAN]
Total == Len(joints)
AsRead == M!AsWritten([bodies |-> bodies, joints |-> joints, law |-> law])

LEMMA AsReadIs ==
    ASSUME AsRead
    PROVE  /\ bodies \in Seq(STRING) /\ Ground \notin M!Names
           /\ joints \in Seq(JointsOf) /\ Total \in Nat /\ DOMAIN joints = 1..Total
           /\ law \in Seq(Int \X Int) /\ Len(law) # 1 /\ Len(law) \in Nat
           /\ \A i \in 1..(Len(law) - 1) : law[i][1] < law[i + 1][1]
<1>1. /\ bodies \in Seq(STRING) /\ Ground \notin M!ToSet(bodies)
      /\ joints \in Seq(JointsOf) /\ law \in Seq(Int \X Int) /\ Len(law) # 1
      /\ \A i \in 1..(Len(law) - 1) : law[i][1] < law[i + 1][1]
  BY DEF AsRead, M!AsWritten, JointsOf
<1>2. Total \in Nat /\ DOMAIN joints = 1..Total
  BY <1>1 DEF Total
<1>3. Len(law) \in Nat
  BY <1>1
<1> QED BY <1>1, <1>2, <1>3 DEF M!Names

(* The joint of a body is the first that is declared for it. *)
LEMMA JointDef ==
    \A body : LET I == {i \in 1..Len(joints) : joints[i].body = body} IN M!Joint(body) = IF I # {} THEN M!Min(I) ELSE 0
BY DEF M!Joint, M!SelectInSeq

(* The first joint of a body is one of the body, if it has any. *)
LEMMA JointIs ==
    ASSUME AsRead, NEW body
    PROVE  /\ M!Joint(body) \in 0..Total
           /\ M!Joint(body) # 0 => M!Joint(body) \in 1..Total /\ joints[M!Joint(body)].body = body
           /\ \A i \in 1..Total : joints[i].body = body => M!Joint(body) # 0
<1> DEFINE I == {i \in 1..Len(joints) : joints[i].body = body}
<1>1. M!Joint(body) = IF I # {} THEN M!Min(I) ELSE 0
  BY JointDef
<1>2. Total \in Nat /\ I \in SUBSET Nat /\ I \subseteq 1..Total
  BY AsReadIs DEF Total
<1>3. I # {} => M!Min(I) \in I
  <2> HIDE DEF I
  <2>1. I # {} => \E m \in I : \A k \in I : m <= k
    BY <1>2, SmallestOf
  <2> QED BY <2>1 DEF M!Min
<1>4. \A i \in 1..Total : joints[i].body = body => i \in I
  BY DEF Total
<1>5. \A i \in I : joints[i].body = body
  OBVIOUS
<1> HIDE DEF I
<1>6. CASE I = {}
  <2>1. M!Joint(body) = 0
    BY <1>1, <1>6
  <2> QED BY <1>2, <1>4, <1>6, <2>1
<1>7. CASE I # {}
  <2>1. M!Joint(body) \in I
    BY <1>1, <1>3, <1>7
  <2>2. M!Joint(body) \in 1..Total
    BY <1>2, <2>1
  <2>3. M!Joint(body) \in 0..Total /\ M!Joint(body) # 0
    BY <1>2, <2>2
  <2> QED BY <1>5, <2>1, <2>2, <2>3
<1> QED BY <1>6, <1>7

(* What was read is sound, and of a body each. *)
Sound(count) ==
    \A i \in 1..count :
        /\ joints[i].body \in M!Names /\ M!WellSaid(joints[i])
        /\ \A j \in 1..count : joints[j].body = joints[i].body => j = i

(* So a body that was read has one joint, and it is sound. *)
LEMMA OneJoint ==
    ASSUME AsRead, Sound(Total), NEW i \in 1..Total
    PROVE  /\ M!Joint(joints[i].body) = i /\ M!Carrier(joints[i].body) = joints[i].on
           /\ joints[i].body \in M!Names /\ joints[i].on \in M!Names \union {Ground} /\ joints[i].on # joints[i].body
           /\ joints[i].body # Ground
<1>1. M!Joint(joints[i].body) # 0 /\ M!Joint(joints[i].body) \in 1..Total
      /\ joints[M!Joint(joints[i].body)].body = joints[i].body
  BY JointIs
<1>2. M!Joint(joints[i].body) = i
  BY <1>1 DEF Sound
<1>3. i # 0
  BY AsReadIs
<1> QED BY <1>2, <1>3, AsReadIs DEF Sound, M!WellSaid, M!Carrier

(* What carries a body that was read is another, or the ground. *)
LEMMA CarrierIs ==
    ASSUME AsRead, Sound(Total), NEW body, M!Carrier(body) # Ground
    PROVE  /\ M!Joint(body) \in 1..Total /\ joints[M!Joint(body)].body = body /\ M!Carrier(body) = joints[M!Joint(body)].on
           /\ M!Carrier(body) \in M!Names /\ body \in M!Names
<1>1. M!Joint(body) # 0 /\ M!Carrier(body) = joints[M!Joint(body)].on
  BY DEF M!Carrier
<1>2. M!Joint(body) \in 1..Total /\ joints[M!Joint(body)].body = body
  BY <1>1, JointIs
<1> QED BY <1>1, <1>2, OneJoint

(* A way up: each body is carried by the next. *)
GoesUp(way) ==
    /\ way \in Seq(M!Names) /\ way # <<>>
    /\ \A k \in 1..(Len(way) - 1) : way[k + 1] = M!Carrier(way[k])

(* A way up from a body to the ground. *)
Ends(way, body) == GoesUp(way) /\ way[1] = body /\ M!Carrier(way[Len(way)]) = Ground
Grounded(i) ==
    /\ joints[i].on = Ground \/ joints[i].on \in M!Seen
    /\ \E way \in Seq(M!Names) : Ends(way, joints[i].body)

(* A walk under way meets each body once, so far. *)
PathStands ==
    /\ from < Total /\ Len(path) >= 2 /\ GoesUp(path) /\ path[1] = joints[from + 1].body
    /\ joints[from + 1].on = Ground \/ joints[from + 1].on \in M!Seen
    /\ \A k, l \in 1..(Len(path) - 1) : path[k] = path[l] => k = l

(* All that was read is sound, and each joint walked from has its way up to the ground. *)
MechanismInv ==
    /\ AsRead
    /\ verdict \in {"reading", "tree", "no bodies", "no joints", "unknown", "twice", "ill said", "carrier stays", "cycle"}
    /\ read \in 0..Total /\ from \in 0..Total
    /\ Sound(read)
    /\ read < Total => from = 0 /\ path = <<>>
    /\ \A i \in 1..from : Grounded(i)
    /\ path # <<>> => PathStands
    /\ verdict = "tree" => read = Total /\ from = Total
    /\ verdict = "cycle" => \E body \in M!Names : M!RidesOnItself(body)

(* What is read of a mechanism stays with it. *)
LEMMA Stays ==
    ASSUME UNCHANGED M!asRead
    PROVE  /\ bodies' = bodies /\ joints' = joints /\ law' = law /\ (AsRead' <=> AsRead) /\ Total' = Total /\ M!Names' = M!Names
           /\ \A body : M!Joint(body)' = M!Joint(body) /\ M!Carrier(body)' = M!Carrier(body)
           /\ M!On' = M!On /\ M!Places' = M!Places
<1>1. bodies' = bodies /\ joints' = joints /\ law' = law
  BY DEF M!asRead
<1>2. \A body : M!Joint(body)' = M!Joint(body)
  BY <1>1, Zenon DEF M!Joint, M!SelectInSeq
<1> QED BY <1>1, <1>2 DEF AsRead, Total, M!Names, M!Carrier, M!On, M!Places

LEMMA WayStays ==
    ASSUME UNCHANGED M!asRead
    PROVE  /\ \A way : GoesUp(way)' <=> GoesUp(way)
           /\ \A way, body : Ends(way, body)' <=> Ends(way, body)
           /\ \A body : M!RidesOnItself(body)' <=> M!RidesOnItself(body)
           /\ \A count : Sound(count)' <=> Sound(count)
<1>1. \A way : GoesUp(way)' <=> GoesUp(way)
  BY Stays DEF GoesUp
<1>2. \A way, body : Ends(way, body)' <=> Ends(way, body)
  BY <1>1, Stays DEF Ends
<1>3. \A body : M!RidesOnItself(body)' <=> M!RidesOnItself(body)
  BY Stays DEF M!RidesOnItself
<1>4. \A count : Sound(count)' <=> Sound(count)
  BY Stays DEF Sound, M!WellSaid
<1> QED BY <1>1, <1>2, <1>3, <1>4

LEMMA WalkStays ==
    ASSUME UNCHANGED <<M!asRead, read>>
    PROVE  /\ M!Seen' = M!Seen /\ \A i : Grounded(i)' <=> Grounded(i)
           /\ UNCHANGED <<from, path>> => (PathStands' <=> PathStands)
           /\ UNCHANGED <<read, from, path>> /\ MechanismInv /\ verdict' # "tree"
              /\ (verdict' = "cycle" => \E body \in M!Names : M!RidesOnItself(body))
              /\ verdict' \in {"reading", "tree", "no bodies", "no joints", "unknown", "twice", "ill said", "carrier stays", "cycle"}
              => MechanismInv'
<1>0. UNCHANGED M!asRead /\ read' = read
  OBVIOUS
<1>1. M!Seen' = M!Seen
  BY <1>0, Stays DEF M!Seen
<1>2. \A i : Grounded(i)' <=> Grounded(i)
  BY <1>0, <1>1, Stays, WayStays DEF Grounded
<1>3. UNCHANGED <<from, path>> => (PathStands' <=> PathStands)
  BY <1>0, <1>1, Stays, WayStays DEF PathStands
<1>4. ASSUME UNCHANGED <<read, from, path>>, MechanismInv, verdict' # "tree",
             verdict' = "cycle" => \E body \in M!Names : M!RidesOnItself(body),
             verdict' \in {"reading", "tree", "no bodies", "no joints", "unknown", "twice", "ill said", "carrier stays", "cycle"}
      PROVE  MechanismInv'
  <2>1. from' = from /\ path' = path
    BY <1>4
  <2>2. AsRead' /\ read' \in 0..Total' /\ from' \in 0..Total' /\ Sound(read)' /\ \A i \in 1..from' : Grounded(i)'
    BY <1>0, <1>2, <1>4, <2>1, Stays, WayStays DEF MechanismInv
  <2>3. (path' # <<>> => PathStands') /\ (read' < Total' => from' = 0 /\ path' = <<>>)
    BY <1>0, <1>3, <1>4, <2>1, Stays DEF MechanismInv
  <2>4. verdict' = "cycle" => \E body \in M!Names' : M!RidesOnItself(body)'
    BY <1>0, <1>4, Stays, WayStays
  <2> QED BY <1>4, <2>2, <2>3, <2>4 DEF MechanismInv
<1> QED BY <1>1, <1>2, <1>3, <1>4

LEMMA MechanismBegins == M!Init => MechanismInv
<1> SUFFICES ASSUME M!Init PROVE MechanismInv
  OBVIOUS
<1>1. PICK m \in Mechanisms : bodies = m.bodies /\ joints = m.joints /\ law = m.law
  BY DEF M!Init
<1>2. AsRead
  BY <1>1, MechanismAssumption DEF AsRead, M!AsWritten
<1>3. Total \in Nat
  BY <1>2, AsReadIs
<1>4. verdict = "reading" /\ read = 0 /\ from = 0 /\ path = <<>>
  BY DEF M!Init
<1>5. Sound(0)
  BY DEF Sound
<1> QED BY <1>2, <1>3, <1>4, <1>5 DEF MechanismInv

(* The rest of a walk: reading on, or an answer. *)
LEMMA PathIs ==
    ASSUME MechanismInv, M!Walking, path # <<>>
    PROVE  /\ PathStands /\ read = Total /\ Sound(Total) /\ path \in Seq(M!Names) /\ Len(path) \in Nat
           /\ M!Last(path) = path[Len(path)] /\ M!Last(path) \in M!Names
           /\ Len(M!Front(path)) = Len(path) - 1 /\ \A k \in 1..(Len(path) - 1) : M!Front(path)[k] = path[k]
           /\ M!ToSet(M!Front(path)) = {path[k] : k \in 1..(Len(path) - 1)}
<1>1. PathStands /\ read = Total /\ Sound(Total)
  BY DEF MechanismInv, M!Walking, Total
<1>2. path \in Seq(M!Names) /\ Len(path) \in Nat /\ Len(path) >= 2
  BY <1>1 DEF PathStands, GoesUp
<1>3. M!Last(path) = path[Len(path)] /\ M!Last(path) \in M!Names
  BY <1>2 DEF M!Last
<1>4. M!Front(path) = [k \in 1..(Len(path) - 1) |-> path[k]]
  BY <1>2 DEF M!Front, SubSeq
<1>5. Len(M!Front(path)) = Len(path) - 1 /\ DOMAIN M!Front(path) = 1..(Len(path) - 1)
  BY <1>2, <1>4
<1>6. M!ToSet(M!Front(path)) = {path[k] : k \in 1..(Len(path) - 1)}
  BY <1>4, <1>5 DEF M!ToSet
<1> QED BY <1>1, <1>2, <1>3, <1>4, <1>5, <1>6

(* A body met again is carried, in the end, by itself. *)
LEMMA MetIsCycle ==
    ASSUME MechanismInv, M!Walking, path # <<>>, M!Met(M!Last(path), M!Front(path))
    PROVE  \E body \in M!Names : M!RidesOnItself(body)
<1> DEFINE q == Len(path)
           here == path[q]
<1>1. /\ PathStands /\ read = Total /\ Sound(Total) /\ path \in Seq(M!Names) /\ q \in Nat /\ M!Last(path) = here /\ here \in M!Names
      /\ M!ToSet(M!Front(path)) = {path[k] : k \in 1..(q - 1)}
  BY PathIs
<1>2. PICK k \in 1..(q - 1) : path[k] = here
  BY <1>1 DEF M!Met
<1>3. AsRead
  BY DEF MechanismInv
<1>4. ASSUME NEW j \in 1..(q - 1) PROVE <<path[j], path[j + 1]>> \in M!On
  <2>1. path[j + 1] = M!Carrier(path[j]) /\ path[j + 1] \in M!Names
    BY <1>1, <1>4 DEF PathStands, GoesUp
  <2>2. M!Carrier(path[j]) # Ground
    BY <1>3, <2>1, AsReadIs
  <2>3. M!Joint(path[j]) \in 1..Total /\ joints[M!Joint(path[j])].body = path[j] /\ M!Carrier(path[j]) = joints[M!Joint(path[j])].on
    BY <1>1, <1>3, <2>2, CarrierIs
  <2> QED BY <1>3, <2>1, <2>3, AsReadIs DEF M!On
<1>5. ASSUME NEW S \in SUBSET M!Places, \A p \in M!On : p[1] \in S \union {here} => p[2] \in S
      PROVE  here \in S
  <2> DEFINE U == {n \in Nat : k + 1 + n <= q => path[k + 1 + n] \in S}
  <2>1. path[k + 1] \in S
    BY <1>2, <1>4, <1>5
  <2>2. 0 \in U
    BY <1>2, <2>1
  <2>3. ASSUME NEW n \in Nat, n \in U PROVE n + 1 \in U
    <3>1. CASE k + 1 + (n + 1) <= q
      <4>1. k + 1 + n \in 1..(q - 1) /\ path[k + 1 + n] \in S
        BY <1>1, <1>2, <2>3, <3>1
      <4>2. <<path[k + 1 + n], path[(k + 1 + n) + 1]>> \in M!On
        BY <1>4, <4>1
      <4>3. path[(k + 1 + n) + 1] \in S
        BY <1>5, <4>1, <4>2
      <4> QED BY <1>2, <4>3
    <3> QED BY <3>1
  <2>4. Nat \subseteq U
    <3> HIDE DEF U
    <3> QED BY <2>2, <2>3, PlaceByPlace
  <2>5. q - (k + 1) \in Nat
    BY <1>1, <1>2
  <2>6. k + 1 + (q - (k + 1)) = q
    BY <1>1, <1>2
  <2>7. k + 1 + (q - (k + 1)) <= q => path[k + 1 + (q - (k + 1))] \in S
    BY <2>4, <2>5
  <2>8. path[q] \in S
    <3> HIDE DEF q
    <3> QED BY <1>1, <2>6, <2>7
  <2> QED BY <2>8
<1> QED BY <1>1, <1>5 DEF M!RidesOnItself

(* Every step of the reading. *)
LEMMA MechanismStep ==
    ASSUME MechanismInv, M!Next
    PROVE  MechanismInv'
<1>0. AsRead /\ Total \in Nat
  BY AsReadIs DEF MechanismInv
<1>1. ASSUME UNCHANGED <<M!asRead, read, from, path>>, verdict' # "tree", verdict' # "cycle",
             verdict' \in {"reading", "tree", "no bodies", "no joints", "unknown", "twice", "ill said", "carrier stays", "cycle"}
      PROVE  MechanismInv'
  BY <1>1, WalkStays
<1>2. CASE M!NoBodies \/ M!NoJoints
  BY <1>1, <1>2 DEF M!NoBodies, M!NoJoints, M!Refuse
<1>3. CASE M!ReadJoint
  <2> DEFINE joint == joints[read + 1]
  <2>1. CASE M!Refuse("unknown") \/ M!Refuse("twice") \/ M!Refuse("ill said")
    BY <1>1, <2>1 DEF M!Refuse
  <2>2. CASE /\ joint.body \in M!Names /\ ~M!Declared(joint.body) /\ M!WellSaid(joint)
             /\ read' = read + 1 /\ UNCHANGED <<M!asRead, verdict, from, path>>
    <3>1. read \in 0..Total /\ read < Total /\ verdict = "reading"
      BY <1>3 DEF M!ReadJoint, MechanismInv, Total
    <3>2. Sound(read + 1)
      <4>1. Sound(read) /\ \A j \in 1..read : joints[j].body # joint.body
        BY <2>2 DEF MechanismInv, M!Declared, M!Seen
      <4>2. \A i \in 1..(read + 1) : i \in 1..read \/ i = read + 1
        BY <3>1
      <4> QED BY <2>2, <4>1, <4>2 DEF Sound
    <3>3. from = 0 /\ path = <<>> /\ read + 1 \in 0..Total
      BY <3>1, <1>0 DEF MechanismInv
    <3>5. AsRead' /\ Total' = Total
      BY <1>0, <2>2, Stays
    <3>6. Sound(read)'
      BY <2>2, <3>2, WayStays
    <3> QED BY <1>0, <2>2, <3>1, <3>3, <3>5, <3>6 DEF MechanismInv
  <2> QED BY <1>3, <2>1, <2>2 DEF M!ReadJoint
<1>4. ASSUME M!Walking, UNCHANGED <<M!asRead, verdict, read>>, from' \in 0..Total,
             \A i \in 1..from' : Grounded(i), path' # <<>> => PathStands'
      PROVE  MechanismInv'
  <2>1. read = Total /\ verdict = "reading"
    BY <1>4 DEF M!Walking, Total
  <2>2. \A i \in 1..from' : Grounded(i)'
    BY <1>4, WalkStays
  <2>3. Sound(read)'
    BY <1>4, WayStays DEF MechanismInv
  <2>4. AsRead' /\ Total' = Total
    BY <1>0, <1>4, Stays
  <2> QED BY <1>0, <1>4, <2>1, <2>2, <2>3, <2>4 DEF MechanismInv
<1>5. CASE M!StartWalk
  <2> DEFINE joint == joints[from + 1]
  <2>1. /\ M!Walking /\ path = <<>> /\ from < Total /\ from \in 0..Total /\ read = Total /\ Sound(Total)
        /\ from + 1 \in 1..Total /\ \A i \in 1..from : Grounded(i)
    <3>1. M!Walking /\ path = <<>> /\ from < Total /\ read = Total
      BY <1>5 DEF M!StartWalk, M!Walking, Total
    <3>2. from \in 0..Total /\ Sound(read) /\ \A i \in 1..from : Grounded(i)
      BY DEF MechanismInv
    <3>3. from + 1 \in 1..Total
      BY <1>0, <3>1, <3>2
    <3> QED BY <3>1, <3>2, <3>3
  <2>2. /\ M!Carrier(joint.body) = joint.on /\ joint.body \in M!Names /\ joint.on \in M!Names \union {Ground} /\ joint.on # joint.body
    BY <1>0, <2>1, OneJoint
  <2>3. CASE M!Refuse("carrier stays")
    BY <1>1, <2>3 DEF M!Refuse
  <2>4. CASE joint.on = Ground /\ from' = from + 1 /\ UNCHANGED <<M!asRead, verdict, read, path>>
    <3> DEFINE b == joint.body
               way == <<b>>
    <3>1. Ends(way, b)
      <4>1. b \in M!Names /\ M!Carrier(b) = Ground
        BY <2>2, <2>4
      <4> HIDE DEF b
      <4>2. way \in Seq(M!Names) /\ way # <<>> /\ Len(way) = 1 /\ way[1] = b
        BY <4>1
      <4> HIDE DEF way
      <4> QED BY <4>1, <4>2 DEF Ends, GoesUp
    <3>2. way \in Seq(M!Names)
      BY <3>1 DEF Ends, GoesUp
    <3> HIDE DEF way
    <3>3. Grounded(from + 1)
      BY <2>4, <3>1, <3>2 DEF Grounded
    <3>4. \A i \in 1..(from + 1) : i \in 1..from \/ i = from + 1
      BY <2>1
    <3>5. from' \in 0..Total /\ (\A i \in 1..from' : Grounded(i)) /\ path' = <<>>
      BY <1>0, <2>1, <2>4, <3>3, <3>4
    <3> QED BY <1>4, <2>1, <2>4, <3>5
  <2>5. CASE joint.on \in M!Seen /\ path' = <<joint.body, joint.on>> /\ UNCHANGED <<M!asRead, verdict, read, from>>
    <3> DEFINE b == joint.body
               c == joint.on
               way == <<b, c>>
    <3>1. b \in M!Names /\ c \in M!Names /\ c = M!Carrier(b) /\ c \in M!Seen
      <4>1. M!Seen \subseteq M!Names
        BY <1>0, <2>1 DEF Sound, M!Seen
      <4> QED BY <2>2, <2>5, <4>1
    <3> HIDE DEF b, c
    <3>2. way \in Seq(M!Names) /\ way # <<>> /\ Len(way) = 2 /\ way[1] = b /\ way[2] = c
      BY <3>1
    <3> HIDE DEF way
    <3>3. GoesUp(way)
      BY <3>1, <3>2 DEF GoesUp
    <3>4. \A k, l \in 1..(Len(way) - 1) : way[k] = way[l] => k = l
      BY <3>2
    <3>5. path' = way
      BY <2>5 DEF way, b, c
    <3>7. PathStands'
      <4>1. joints' = joints /\ from' = from /\ read' = read /\ bodies' = bodies
        BY <2>5 DEF M!asRead
      <4>2. GoesUp(path)'
        BY <2>5, <3>3, <3>5, WayStays
      <4>3. Len(path') >= 2 /\ path'[1] = joints[from + 1].body /\ joints[from + 1].on \in M!Seen
        BY <2>5, <3>2, <3>5 DEF b
      <4>4. \A k, l \in 1..(Len(path') - 1) : path'[k] = path'[l] => k = l
        BY <3>4, <3>5
      <4>5. Total' = Total /\ M!Seen' = M!Seen
        BY <2>5, Stays, WalkStays
      <4> QED BY <2>1, <4>1, <4>2, <4>3, <4>4, <4>5 DEF PathStands
    <3>8. from' \in 0..Total /\ \A i \in 1..from' : Grounded(i)
      BY <2>1, <2>5
    <3> QED BY <1>4, <2>1, <2>5, <3>7, <3>8
  <2> QED BY <1>5, <2>3, <2>4, <2>5 DEF M!StartWalk
<1>6. CASE M!Climb
  <2> DEFINE q == Len(path)
             here == M!Last(path)
  <2>1. /\ M!Walking /\ path # <<>>
        /\ \/ M!Met(here, M!Front(path)) /\ M!Refuse("cycle")
           \/ /\ ~M!Met(here, M!Front(path)) /\ M!Carrier(here) # Ground
              /\ path' = Append(path, M!Carrier(here))
              /\ UNCHANGED <<M!asRead, verdict, read, from>>
           \/ /\ ~M!Met(here, M!Front(path)) /\ M!Carrier(here) = Ground
              /\ path' = <<>> /\ from' = from + 1
              /\ UNCHANGED <<M!asRead, verdict, read>>
    BY <1>6 DEF M!Climb
  <2>2. /\ PathStands /\ read = Total /\ Sound(Total) /\ path \in Seq(M!Names) /\ q \in Nat /\ here = path[q] /\ here \in M!Names
        /\ M!ToSet(M!Front(path)) = {path[k] : k \in 1..(q - 1)}
    BY <2>1, PathIs
  <2>3. /\ from < Total /\ q >= 2 /\ GoesUp(path) /\ path[1] = joints[from + 1].body
        /\ (joints[from + 1].on = Ground \/ joints[from + 1].on \in M!Seen)
        /\ (\A k, l \in 1..(q - 1) : path[k] = path[l] => k = l)
        /\ from \in 0..Total /\ \A i \in 1..from : Grounded(i)
    BY <2>2 DEF PathStands, MechanismInv
  <2>4. CASE M!Met(here, M!Front(path)) /\ M!Refuse("cycle")
    <3>1. \E body \in M!Names : M!RidesOnItself(body)
      BY <2>1, <2>4, MetIsCycle
    <3>2. UNCHANGED <<M!asRead, read, from, path>> /\ verdict' = "cycle"
      BY <2>4 DEF M!Refuse
    <3> QED BY <3>1, <3>2, WalkStays
  <2>5. CASE /\ ~M!Met(here, M!Front(path)) /\ M!Carrier(here) # Ground
             /\ path' = Append(path, M!Carrier(here)) /\ UNCHANGED <<M!asRead, verdict, read, from>>
    <3> DEFINE c == M!Carrier(here)
               way == Append(path, c)
    <3>1. c \in M!Names
      BY <1>0, <2>2, <2>5, CarrierIs
    <3> HIDE DEF c, here
    <3>2. /\ way \in Seq(M!Names) /\ way # <<>> /\ Len(way) = q + 1 /\ way[q + 1] = c
          /\ \A k \in 1..q : way[k] = path[k]
      BY <2>2, <3>1
    <3> HIDE DEF way
    <3>3. GoesUp(way)
      <4>1. ASSUME NEW k \in 1..(Len(way) - 1) PROVE way[k + 1] = M!Carrier(way[k])
        <5>1. CASE k = q
          BY <2>2, <3>2, <5>1 DEF c
        <5>2. CASE k # q
          <6>1. k \in 1..(q - 1) /\ k \in 1..q /\ k + 1 \in 1..q
            BY <2>2, <3>2, <5>2
          <6> QED BY <2>3, <3>2, <6>1 DEF GoesUp
        <5> QED BY <5>1, <5>2
      <4> QED BY <3>2, <4>1 DEF GoesUp
    <3>4. \A k, l \in 1..(Len(way) - 1) : way[k] = way[l] => k = l
      <4>1. \A k \in 1..(q - 1) : path[k] # path[q]
        BY <2>2, <2>5 DEF M!Met
      <4>2. \A k, l \in 1..q : path[k] = path[l] => k = l
        BY <2>2, <2>3, <4>1
      <4> QED BY <2>2, <3>2, <4>2
    <3>5. path' = way
      BY <2>5 DEF way, c
    <3>6. PathStands'
      <4>1. joints' = joints /\ from' = from /\ read' = read /\ bodies' = bodies
        BY <2>5 DEF M!asRead
      <4>2. GoesUp(path)'
        BY <2>5, <3>3, <3>5, WayStays
      <4>3. Len(path') >= 2 /\ path'[1] = joints[from + 1].body
        BY <2>2, <2>3, <3>2, <3>5
      <4>4. \A k, l \in 1..(Len(path') - 1) : path'[k] = path'[l] => k = l
        BY <3>4, <3>5
      <4>5. Total' = Total /\ M!Seen' = M!Seen
        BY <2>5, Stays, WalkStays
      <4> QED BY <2>3, <4>1, <4>2, <4>3, <4>4, <4>5 DEF PathStands
    <3>7. from' \in 0..Total /\ \A i \in 1..from' : Grounded(i)
      BY <2>3, <2>5
    <3> QED BY <1>4, <2>1, <2>5, <3>6, <3>7
  <2>6. CASE /\ ~M!Met(here, M!Front(path)) /\ M!Carrier(here) = Ground
             /\ path' = <<>> /\ from' = from + 1 /\ UNCHANGED <<M!asRead, verdict, read>>
    <3>1. Ends(path, joints[from + 1].body)
      BY <2>2, <2>3, <2>6 DEF Ends
    <3>2. Grounded(from + 1)
      BY <2>2, <2>3, <3>1 DEF Grounded
    <3>3. \A i \in 1..(from + 1) : i \in 1..from \/ i = from + 1
      BY <2>3
    <3>4. from' \in 0..Total /\ \A i \in 1..from' : Grounded(i)
      BY <1>0, <2>3, <2>6, <3>2, <3>3
    <3> QED BY <1>4, <2>1, <2>6, <3>4
  <2> QED BY <2>1, <2>4, <2>5, <2>6
<1>7. CASE M!Accept
  <2>1. verdict' = "tree" /\ UNCHANGED <<M!asRead, read, from, path>> /\ read = Total /\ from = Total
    BY <1>7 DEF M!Accept, M!Walking, Total
  <2>2. UNCHANGED M!asRead /\ AsRead' /\ Total' = Total /\ Sound(read)' /\ from' = from /\ path' = path /\ read' = read
    BY <1>0, <2>1, Stays, WayStays DEF MechanismInv
  <2>3. (\A i \in 1..from' : Grounded(i)') /\ (path' # <<>> => PathStands')
    BY <2>1, <2>2, WalkStays DEF MechanismInv
  <2> QED BY <2>1, <2>2, <2>3 DEF MechanismInv
<1> QED BY <1>2, <1>3, <1>5, <1>6, <1>7 DEF M!Next

LEMMA MechanismWaits ==
    ASSUME MechanismInv, UNCHANGED mechanismVars
    PROVE  MechanismInv'
<1>1. UNCHANGED <<M!asRead, read, from, path>> /\ verdict' = verdict /\ read' = read /\ from' = from /\ path' = path /\ UNCHANGED M!asRead
  BY DEF mechanismVars, M!asRead
<1>2. CASE verdict # "tree"
  BY <1>1, <1>2, WalkStays DEF MechanismInv
<1>3. CASE verdict = "tree"
  <2>1. AsRead' /\ Total' = Total /\ Sound(read)' /\ (\A i \in 1..from' : Grounded(i)') /\ (path' # <<>> => PathStands')
    BY <1>1, Stays, WayStays, WalkStays DEF MechanismInv
  <2> QED BY <1>1, <1>3, <2>1 DEF MechanismInv
<1> QED BY <1>2, <1>3

(* Where another reading moves, nothing is read of the mechanism. *)
Unread == verdict = "reading" /\ law = <<>> /\ read = 0 /\ from = 0 /\ path = <<>> /\ joints = One
EitherWay == IF part = "mechanism" THEN MechanismInv ELSE Unread

LEMMA MechanismInvHolds == DocumentsSpec => []EitherWay
<1>1. DocumentsInit => EitherWay
  <2> SUFFICES ASSUME DocumentsInit PROVE EitherWay
    OBVIOUS
  <2>1. CASE part = "mechanism"
    <3>1. M!Init
      BY <2>1 DEF DocumentsInit
    <3> QED BY <2>1, <3>1, MechanismBegins DEF EitherWay
  <2>2. CASE part # "mechanism"
    <3>1. M0!Init
      BY <2>2 DEF DocumentsInit
    <3>3. verdict = "reading" /\ read = 0 /\ from = 0 /\ path = <<>>
      BY <3>1 DEF M0!Init
    <3>4. PICK m \in {Carried(One, <<>>)} : joints = m.joints /\ law = m.law
      BY <3>1 DEF M0!Init
    <3>5. joints = One /\ law = <<>>
      BY <3>4 DEF Carried
    <3> QED BY <2>2, <3>3, <3>5 DEF EitherWay, Unread
  <2> QED BY <2>1, <2>2
<1>2. EitherWay /\ [OrderMoves \/ CacheMoves \/ MechanismMoves]_allVars => EitherWay'
  <2> SUFFICES ASSUME EitherWay, [OrderMoves \/ CacheMoves \/ MechanismMoves]_allVars PROVE EitherWay'
    OBVIOUS
  <2>1. CASE MechanismMoves
    <3>1. part = "mechanism" /\ M!Next /\ part' = part
      BY <2>1 DEF MechanismMoves
    <3> QED BY <3>1, MechanismStep DEF EitherWay
  <2>2. CASE ~MechanismMoves
    <3>1. UNCHANGED mechanismVars /\ part' = part
      BY <2>2 DEF OrderMoves, CacheMoves, allVars
    <3>2. CASE part = "mechanism"
      BY <3>1, <3>2, MechanismWaits DEF EitherWay
    <3>3. CASE part # "mechanism"
      BY <3>1, <3>3 DEF EitherWay, Unread, mechanismVars
    <3> QED BY <3>2, <3>3
  <2> QED BY <2>1, <2>2
<1> QED BY <1>1, <1>2, PTL DEF DocumentsSpec

(* A walk up meets every body but its last once, so it is no longer than there are joints. *)
LEMMA WalkIsShort ==
    ASSUME MechanismInv
    PROVE  M!ToSet(path) \subseteq M!Names /\ Len(path) <= Len(joints) + 1
<1>0. AsRead /\ Total \in Nat
  BY AsReadIs DEF MechanismInv
<1>1. CASE path = <<>>
  <2>1. Len(path) = 0 /\ M!ToSet(path) = {}
    BY <1>1 DEF M!ToSet
  <2> QED BY <1>0, <2>1 DEF Total
<1>2. CASE path # <<>>
  <2> DEFINE q == Len(path)
  <2>1. PathStands /\ read = Total /\ Sound(Total)
    <3>1. read \in 0..Total /\ ~(read < Total)
      BY <1>2 DEF MechanismInv
    <3>2. read = Total
      BY <1>0, <3>1
    <3> QED BY <1>2, <3>2 DEF MechanismInv
  <2>2. path \in Seq(M!Names) /\ q \in Nat /\ q >= 2 /\ \A k \in 1..(q - 1) : path[k + 1] = M!Carrier(path[k])
    BY <2>1 DEF PathStands, GoesUp
  <2>3. M!ToSet(path) \subseteq M!Names
    BY <2>2 DEF M!ToSet
  <2>4. ASSUME NEW k \in 1..(q - 1) PROVE M!Joint(path[k]) \in 1..Total /\ joints[M!Joint(path[k])].body = path[k]
    <3>1. path[k + 1] \in M!Names
      BY <2>2
    <3>2. M!Carrier(path[k]) # Ground
      BY <1>0, <2>2, <3>1, AsReadIs
    <3> QED BY <1>0, <2>1, <3>2, CarrierIs
  <2> DEFINE f == [k \in 1..(q - 1) |-> M!Joint(path[k])]
  <2>5. f \in Injection(1..(q - 1), 1..Total)
    <3>1. f \in [1..(q - 1) -> 1..Total]
      BY <2>4
    <3>2. ASSUME NEW k \in 1..(q - 1), NEW l \in 1..(q - 1), f[k] = f[l] PROVE k = l
      <4>1. path[k] = path[l]
        BY <2>4, <3>2
      <4> QED BY <2>1, <4>1 DEF PathStands
    <3> HIDE DEF f
    <3> QED BY <3>1, <3>2 DEF Injection, IsInjective
  <2> HIDE DEF f
  <2>6. IsFiniteSet(1..Total) /\ Cardinality(1..Total) = Total /\ Cardinality(1..(q - 1)) = q - 1
    <3>1. 1 \in Int /\ Total \in Int /\ q - 1 \in Int /\ Total >= 0 /\ q - 1 >= 1
      BY <1>0, <2>2
    <3> HIDE DEF q
    <3>2. IsFiniteSet(1..Total) /\ Cardinality(1..Total) = IF 1 > Total THEN 0 ELSE Total - 1 + 1
      BY <3>1, FS_Interval
    <3>3. Cardinality(1..(q - 1)) = IF 1 > q - 1 THEN 0 ELSE (q - 1) - 1 + 1
      BY <3>1, FS_Interval
    <3> QED BY <3>1, <3>2, <3>3
  <2>7. q - 1 <= Total
    <3>1. Cardinality(1..(q - 1)) <= Cardinality(1..Total)
      BY <2>5, <2>6, FS_Injection
    <3> QED BY <2>6, <3>1
  <2>8. q <= Total + 1
    <3> HIDE DEF q
    <3> QED BY <1>0, <2>2, <2>7
  <2> QED BY <2>3, <2>8 DEF Total
<1> QED BY <1>1, <1>2

LEMMA MechanismTyped == MechanismInv => M!TypeOK
<1> SUFFICES ASSUME MechanismInv PROVE M!TypeOK
  OBVIOUS
<1>1. M!ToSet(path) \subseteq M!Names /\ Len(path) <= Len(joints) + 1
  BY WalkIsShort
<1> QED BY <1>1 DEF M!TypeOK, MechanismInv, Total

------------------------------------------------------------------------------
(* What is accepted is a tree *)

(* Every joint has its way up to the ground. *)
Tree == AsRead /\ Sound(Total) /\ \A i \in 1..Total : (joints[i].on = Ground \/ M!Joint(joints[i].on) # 0)
                                                    /\ \E way \in Seq(M!Names) : Ends(way, joints[i].body)

LEMMA AcceptedIsTree ==
    ASSUME MechanismInv, verdict = "tree"
    PROVE  Tree
<1>1. AsRead /\ read = Total /\ from = Total /\ Sound(Total) /\ \A i \in 1..Total : Grounded(i)
  BY DEF MechanismInv
<1>2. ASSUME NEW i \in 1..Total, joints[i].on # Ground PROVE M!Joint(joints[i].on) # 0
  <2>1. joints[i].on \in M!Seen
    BY <1>1, <1>2 DEF Grounded
  <2>2. PICK j \in 1..Total : joints[j].body = joints[i].on
    BY <1>1, <2>1 DEF M!Seen
  <2> QED BY <1>1, <2>2, JointIs
<1>3. \A i \in 1..Total : \E way \in Seq(M!Names) : Ends(way, joints[i].body)
  BY <1>1 DEF Grounded
<1> QED BY <1>1, <1>2, <1>3 DEF Tree

(* A joint's place is above that of the joint it hangs from. *)
Placed(place) == \A i \in 1..Total : place[M!Parent(i)] < place[i]

(* The joint it hangs from is one, or none. *)
LEMMA ParentIs ==
    ASSUME Tree, NEW i \in 1..Total
    PROVE  /\ M!Parent(i) \in 0..Total /\ (M!Parent(i) = 0 <=> joints[i].on = Ground)
           /\ M!Parent(i) # 0 => M!Parent(i) \in 1..Total /\ joints[M!Parent(i)].body = joints[i].on
<1>1. AsRead
  BY DEF Tree
<1>2. M!Parent(i) = M!Joint(joints[i].on)
  BY DEF M!Parent
<1>3. joints[i].on = Ground => M!Joint(joints[i].on) = 0
  <2> SUFFICES ASSUME joints[i].on = Ground, M!Joint(joints[i].on) # 0 PROVE FALSE
    OBVIOUS
  <2>1. M!Joint(Ground) \in 1..Total /\ joints[M!Joint(Ground)].body = Ground
    BY <1>1, JointIs
  <2> QED BY <1>1, <2>1, OneJoint DEF Tree
<1>4. joints[i].on # Ground => M!Joint(joints[i].on) # 0
  BY DEF Tree
<1> QED BY <1>1, <1>2, <1>3, <1>4, JointIs

(* What is left of a way up when its first body is passed. *)
LEMMA WayOn ==
    ASSUME AsRead, NEW way, NEW body, Ends(way, body), M!Carrier(body) # Ground
    PROVE  \E rest \in Seq(M!Names) : Ends(rest, M!Carrier(body)) /\ Len(rest) = Len(way) - 1
<1> DEFINE q == Len(way)
           rest == [k \in 1..(q - 1) |-> way[k + 1]]
<1>1. way \in Seq(M!Names) /\ q \in Nat /\ q >= 1 /\ way[1] = body /\ M!Carrier(way[q]) = Ground
      /\ \A k \in 1..(q - 1) : way[k + 1] = M!Carrier(way[k])
  BY DEF Ends, GoesUp
<1>2. q >= 2
  BY <1>1
<1>3. rest \in Seq(M!Names) /\ Len(rest) = q - 1
  <2>1. q - 1 \in Nat /\ \A k \in 1..(q - 1) : way[k + 1] \in M!Names
    BY <1>1, <1>2
  <2>2. rest \in [1..(q - 1) -> M!Names]
    BY <2>1
  <2> QED BY <2>1, <2>2
<1>4. \A k \in 1..(q - 1) : rest[k] = way[k + 1]
  OBVIOUS
<1> HIDE DEF rest
<1>5. GoesUp(rest)
  <2>1. ASSUME NEW k \in 1..(Len(rest) - 1) PROVE rest[k + 1] = M!Carrier(rest[k])
    <3>1. k \in 1..(q - 1) /\ k + 1 \in 1..(q - 1)
      BY <1>1, <1>3, <2>1
    <3> QED BY <1>1, <1>4, <3>1
  <2>2. rest # <<>>
    BY <1>2, <1>3
  <2> QED BY <1>3, <2>1, <2>2 DEF GoesUp
<1>6. rest[1] = M!Carrier(body) /\ M!Carrier(rest[Len(rest)]) = Ground
  <2>1. 1 \in 1..(q - 1) /\ q - 1 \in 1..(q - 1) /\ (q - 1) + 1 = q
    BY <1>1, <1>2
  <2>2. rest[1] = way[1 + 1] /\ way[1 + 1] = M!Carrier(way[1])
    BY <1>1, <1>4, <2>1
  <2>3. rest[q - 1] = way[q]
    <3>1. rest[q - 1] = way[(q - 1) + 1]
      BY <1>4, <2>1
    <3> HIDE DEF q
    <3> QED BY <2>1, <3>1
  <2> QED BY <1>1, <1>3, <2>2, <2>3
<1> QED BY <1>3, <1>5, <1>6 DEF Ends

(* There are such places: the lengths of the ways up. *)
LEMMA PlacesExist ==
    ASSUME Tree
    PROVE  \E place \in [0..Total -> Nat] : Placed(place)
<1>0. AsRead /\ Total \in Nat /\ Sound(Total)
  BY AsReadIs DEF Tree
<1> DEFINE Long(i) == {n \in Nat : \E way \in Seq(M!Names) : Ends(way, joints[i].body) /\ Len(way) = n}
           Least(i) == CHOOSE n \in Long(i) : \A m \in Long(i) : n <= m
           place == [i \in 0..Total |-> IF i = 0 THEN 0 ELSE Least(i)]
<1>1. ASSUME NEW i \in 1..Total
      PROVE  Least(i) \in Nat /\ Least(i) >= 1 /\ (\A m \in Long(i) : Least(i) <= m)
             /\ \E way \in Seq(M!Names) : Ends(way, joints[i].body) /\ Len(way) = Least(i)
  <2>1. Long(i) # {} /\ Long(i) \subseteq Nat
    BY DEF Tree
  <2>2. \A n \in Long(i) : n \in Nat /\ n >= 1 /\ \E way \in Seq(M!Names) : Ends(way, joints[i].body) /\ Len(way) = n
    BY DEF Ends, GoesUp
  <2> HIDE DEF Long
  <2>3. Least(i) \in Long(i) /\ \A m \in Long(i) : Least(i) <= m
    BY <2>1, SmallestOf
  <2> HIDE DEF Least
  <2> QED BY <2>2, <2>3
<1>2. ASSUME NEW i \in 1..Total, M!Parent(i) # 0 PROVE Least(M!Parent(i)) < Least(i)
  <2> DEFINE p == M!Parent(i)
  <2>1. p \in 1..Total /\ joints[p].body = joints[i].on /\ joints[i].on # Ground
    BY <1>2, ParentIs
  <2>2. M!Carrier(joints[i].body) = joints[i].on
    BY <1>0, OneJoint
  <2>3. PICK way \in Seq(M!Names) : Ends(way, joints[i].body) /\ Len(way) = Least(i)
    BY <1>1
  <2>4. PICK rest \in Seq(M!Names) : Ends(rest, joints[p].body) /\ Len(rest) = Len(way) - 1
    BY <1>0, <2>1, <2>2, <2>3, WayOn
  <2>5. Len(rest) \in Long(p)
    BY <2>4
  <2>6. Least(p) <= Len(rest) /\ Least(p) \in Nat /\ Least(i) \in Nat /\ Len(rest) \in Nat
    BY <1>1, <2>1, <2>5
  <2> HIDE DEF Least, p
  <2>7. Least(p) < Least(i)
    BY <2>3, <2>4, <2>6
  <2> QED BY <2>7 DEF p
<1> HIDE DEF Least
<1>3. place \in [0..Total -> Nat]
  BY <1>1
<1>4. \A i \in 0..Total : place[i] = IF i = 0 THEN 0 ELSE Least(i)
  OBVIOUS
<1> HIDE DEF place
<1>5. ASSUME NEW i \in 1..Total PROVE place[M!Parent(i)] < place[i]
  <2>1. i \in 0..Total /\ i # 0 /\ place[i] = Least(i) /\ Least(i) >= 1 /\ Least(i) \in Nat
    BY <1>0, <1>1, <1>4
  <2>2. M!Parent(i) \in 0..Total
    BY ParentIs
  <2>3. CASE M!Parent(i) = 0
    BY <1>4, <2>1, <2>2, <2>3
  <2>4. CASE M!Parent(i) # 0
    BY <1>2, <1>4, <2>1, <2>2, <2>4
  <2> QED BY <2>3, <2>4
<1> QED BY <1>3, <1>5 DEF Placed

(* Nothing in a tree is carried by itself: what carries a body has a smaller place. *)
LEMMA NothingRidesOnItself ==
    ASSUME Tree, NEW body \in M!Names
    PROVE  ~M!RidesOnItself(body)
<1>0. AsRead /\ Total \in Nat /\ Sound(Total) /\ DOMAIN joints = 1..Total /\ Ground \notin M!Names
  BY AsReadIs DEF Tree
<1>1. PICK place \in [0..Total -> Nat] : Placed(place)
  BY PlacesExist
<1> DEFINE H(p) == place[M!Joint(p)]
           S == {p \in M!Places : p = Ground \/ H(p) < H(body)}
<1>2. \A p : M!Joint(p) \in 0..Total /\ H(p) \in Nat
  BY <1>0, <1>1, JointIs
<1>3. ASSUME NEW p \in M!On, p[1] \in S \union {body} PROVE p[2] \in S
  <2>1. PICK i \in 1..Total : p = <<joints[i].body, joints[i].on>>
    BY <1>0 DEF M!On
  <2>2. p[1] = joints[i].body /\ p[2] = joints[i].on
    BY <2>1
  <2>3. M!Joint(p[1]) = i /\ p[1] # Ground
    BY <1>0, <2>2, OneJoint
  <2>4. H(p[2]) < H(p[1])
    BY <1>1, <2>2, <2>3 DEF Placed, M!Parent
  <2>5. H(p[1]) <= H(body)
    BY <1>2, <1>3, <2>3
  <2>6. p[2] \in M!Places
    BY <1>0, <2>2 DEF M!Places
  <2>7. H(p[1]) \in Nat /\ H(p[2]) \in Nat /\ H(body) \in Nat
    BY <1>2
  <2> HIDE DEF H
  <2> QED BY <2>4, <2>5, <2>6, <2>7
<1>4. body \notin S /\ S \in SUBSET M!Places
  BY <1>0, <1>2
<1> HIDE DEF S
<1> QED BY <1>3, <1>4 DEF M!RidesOnItself

LEMMA TreesOnly == MechanismInv => M!OnlyTrees
<1> SUFFICES ASSUME MechanismInv PROVE M!OnlyTrees
  OBVIOUS
<1>1. verdict = "cycle" => \E body \in M!Names : M!RidesOnItself(body)
  BY DEF MechanismInv
<1>2. ASSUME verdict = "tree"
      PROVE  /\ \A i, j \in DOMAIN joints : i # j => joints[i].body # joints[j].body
             /\ \A i \in DOMAIN joints : joints[i].on = Ground \/ M!Joint(joints[i].on) # 0
             /\ \A body \in M!Names : ~M!RidesOnItself(body)
  <2>1. Tree
    BY <1>2, AcceptedIsTree
  <2>2. DOMAIN joints = 1..Total /\ Sound(Total)
    BY <2>1, AsReadIs DEF Tree
  <2>3. \A i, j \in 1..Total : i # j => joints[i].body # joints[j].body
    BY <2>2 DEF Sound
  <2>4. \A i \in 1..Total : joints[i].on = Ground \/ M!Joint(joints[i].on) # 0
    BY <2>1 DEF Tree
  <2> QED BY <2>1, <2>2, <2>3, <2>4, NothingRidesOnItself
<1> QED BY <1>1, <1>2 DEF M!OnlyTrees

(* Places are numbers below some number. *)
LEMMA PlacesEnd ==
    ASSUME NEW n \in Nat, NEW place \in [0..n -> Nat]
    PROVE  \E m \in Nat : \A i \in 0..n : place[i] < m
<1> DEFINE U == {k \in Nat : k <= n => \E m \in Nat : \A i \in 0..k : place[i] < m}
<1>1. 0 \in U
  <2>1. place[0] + 1 \in Nat /\ \A i \in 0..0 : i = 0 /\ place[0] < place[0] + 1
    OBVIOUS
  <2>2. \A i \in 0..0 : place[i] < place[0] + 1
    BY <2>1
  <2> QED BY <2>1, <2>2
<1>2. ASSUME NEW k \in Nat, k \in U PROVE k + 1 \in U
  <2> SUFFICES ASSUME k + 1 <= n PROVE \E m \in Nat : \A i \in 0..(k + 1) : place[i] < m
    OBVIOUS
  <2>1. PICK m \in Nat : \A i \in 0..k : place[i] < m
    BY <1>2
  <2> DEFINE w == place[k + 1]
             l == m + w + 1
  <2>2. w \in Nat
    OBVIOUS
  <2>3. \A i \in 0..(k + 1) : i \in 0..k \/ i = k + 1
    OBVIOUS
  <2>4. \A i \in 0..(k + 1) : place[i] \in Nat
    OBVIOUS
  <2>5. ASSUME NEW i \in 0..(k + 1) PROVE place[i] < l
    <3>1. CASE i \in 0..k
      <4>1. place[i] < m /\ place[i] \in Nat
        BY <2>1, <2>4, <3>1
      <4> HIDE DEF w
      <4> QED BY <2>2, <4>1
    <3>2. CASE i = k + 1
      <4>1. place[i] = w
        BY <3>2
      <4> HIDE DEF w
      <4> QED BY <2>2, <4>1
    <3> QED BY <2>3, <3>1, <3>2
  <2>6. l \in Nat
    BY <2>2
  <2> HIDE DEF l
  <2> QED BY <2>5, <2>6
<1>3. Nat \subseteq U
  <2> HIDE DEF U
  <2> QED BY <1>1, <1>2, PlaceByPlace
<1>4. n \in U
  BY <1>3
<1> QED BY <1>4

(* What is said of each joint by what is said of the one it hangs from, is said. *)
Hanging(n, V, z, par, step, place) ==
    /\ n \in Nat /\ z \in V /\ par \in [1..n -> 0..n] /\ step \in [(1..n) \X V -> V]
    /\ place \in [0..n -> Nat] /\ \A i \in 1..n : place[par[i]] < place[i]
Says(f, n, V, z, par, step) ==
    f \in [0..n -> V] /\ \A i \in 0..n : f[i] = IF i = 0 THEN z ELSE step[<<i, f[par[i]]>>]

(* So Chains and Poses, which recurse from a joint to the one it hangs from, are what they say. *)
LEMMA ByPlaces ==
    ASSUME NEW n, NEW V, NEW z, NEW par, NEW step, NEW place, Hanging(n, V, z, par, step, place)
    PROVE  \E f : Says(f, n, V, z, par, step)
<1>0. /\ n \in Nat /\ z \in V /\ par \in [1..n -> 0..n] /\ step \in [(1..n) \X V -> V]
      /\ place \in [0..n -> Nat] /\ \A i \in 1..n : place[par[i]] < place[i]
  BY DEF Hanging
<1> DEFINE Right(f, k) == \A i \in 0..n : place[i] < k => f[i] = IF i = 0 THEN z ELSE step[<<i, f[par[i]]>>]
           U == {k \in Nat : \E f \in [0..n -> V] : Right(f, k)}
<1>1. 0 \in U
  <2> DEFINE f == [i \in 0..n |-> z]
  <2>1. f \in [0..n -> V] /\ Right(f, 0)
    BY <1>0
  <2> QED BY <2>1
<1>2. ASSUME NEW k \in Nat, k \in U PROVE k + 1 \in U
  <2>1. PICK f \in [0..n -> V] : Right(f, k)
    BY <1>2
  <2> DEFINE g == [i \in 0..n |-> IF place[i] = k THEN (IF i = 0 THEN z ELSE step[<<i, f[par[i]]>>]) ELSE f[i]]
  <2>2. g \in [0..n -> V]
    <3>1. \A i \in 1..n : step[<<i, f[par[i]]>>] \in V
      BY <1>0
    <3>2. \A i \in 0..n : i # 0 => i \in 1..n
      BY <1>0
    <3> QED BY <1>0, <3>1, <3>2
  <2>3. \A i \in 0..n : g[i] = IF place[i] = k THEN (IF i = 0 THEN z ELSE step[<<i, f[par[i]]>>]) ELSE f[i]
    OBVIOUS
  <2> HIDE DEF g
  <2>4. ASSUME NEW i \in 0..n, place[i] < k + 1 PROVE g[i] = IF i = 0 THEN z ELSE step[<<i, g[par[i]]>>]
    <3>1. i # 0 => par[i] \in 0..n /\ place[par[i]] < place[i] /\ place[par[i]] # k
      BY <1>0, <2>4
    <3>2. i # 0 => g[par[i]] = f[par[i]]
      BY <2>3, <3>1
    <3>3. CASE place[i] = k
      BY <2>3, <3>2, <3>3
    <3>4. CASE place[i] # k
      <4>1. place[i] < k
        BY <1>0, <2>4, <3>4
      <4>2. f[i] = IF i = 0 THEN z ELSE step[<<i, f[par[i]]>>]
        BY <2>1, <4>1
      <4> QED BY <2>3, <3>2, <3>4, <4>2
    <3> QED BY <3>3, <3>4
  <2>5. Right(g, k + 1)
    BY <2>4
  <2> HIDE DEF Right
  <2> QED BY <2>2, <2>5
<1>3. Nat \subseteq U
  <2> HIDE DEF U
  <2> QED BY <1>1, <1>2, PlaceByPlace
<1>4. PICK m \in Nat : \A i \in 0..n : place[i] < m
  BY <1>0, PlacesEnd
<1>5. PICK f \in [0..n -> V] : Right(f, m)
  BY <1>3
<1> QED BY <1>0, <1>4, <1>5 DEF Says

------------------------------------------------------------------------------
(* Chains and poses *)

(* The chain of a joint and its pose, each by that of the joint it hangs from. *)
OwnOf(i) == IF M!Rides(i) THEN <<>> ELSE <<i>>
ChainBy(f, i) == IF i = 0 THEN <<>> ELSE OwnOf(i) \o f[M!Parent(i)]
Indexes == 1..Total
Motion(i) == joints[i].motion
MotionOf(i) == IF M!Rides(i) THEN <<>> ELSE <<Motion(i)>>
PoseBy(f, i) == IF i = 0 THEN <<>> ELSE f[M!Parent(i)] \o MotionOf(i)

LEMMA ParentsAre ==
    ASSUME Tree
    PROVE  \E par \in [1..Total -> 0..Total] : \A i \in 1..Total : par[i] = M!Parent(i)
<1>1. [i \in 1..Total |-> M!Parent(i)] \in [1..Total -> 0..Total]
  BY ParentIs
<1> QED BY <1>1

(* Chains says of every joint what ChainBy does. *)
LEMMA ChainsAre ==
    ASSUME Tree
    PROVE  \A i \in 0..Total : M!Chains[i] = ChainBy(M!Chains, i)
<1>0. Total \in Nat /\ Total = Len(joints)
  BY AsReadIs DEF Tree, Total
<1>1. PICK place \in [0..Total -> Nat] : Placed(place)
  BY PlacesExist
<1>2. PICK par \in [1..Total -> 0..Total] : \A i \in 1..Total : par[i] = M!Parent(i)
  BY ParentsAre
<1> DEFINE V == Seq(Nat)
           step == [p \in (1..Total) \X V |-> OwnOf(p[1]) \o p[2]]
<1>3. step \in [(1..Total) \X V -> V]
  <2>1. ASSUME NEW p \in (1..Total) \X V PROVE OwnOf(p[1]) \o p[2] \in V
    <3>1. p[1] \in Nat /\ p[2] \in Seq(Nat)
      BY <1>0, <2>1
    <3>2. OwnOf(p[1]) \in Seq(Nat)
      BY <3>1 DEF OwnOf
    <3> QED BY <3>1, <3>2, ConcatProperties
  <2> QED BY <2>1
<1>4. \A i \in 1..Total : \A v \in V : step[<<i, v>>] = OwnOf(i) \o v
  <2>1. \A i \in 1..Total : \A v \in V : <<i, v>> \in (1..Total) \X V /\ <<i, v>>[1] = i /\ <<i, v>>[2] = v
    OBVIOUS
  <2> QED BY <2>1
<1>5. <<>> \in V
  OBVIOUS
<1> HIDE DEF step, V
<1>6. \A i \in 1..Total : place[par[i]] < place[i]
  BY <1>1, <1>2 DEF Placed
<1>7. PICK f \in [0..Total -> V] : \A i \in 0..Total : f[i] = IF i = 0 THEN <<>> ELSE step[<<i, f[par[i]]>>]
  <2>1. Hanging(Total, V, <<>>, par, step, place)
    BY <1>0, <1>3, <1>5, <1>6 DEF Hanging
  <2>2. \E f : Says(f, Total, V, <<>>, par, step)
    BY <2>1, ByPlaces
  <2> QED BY <2>2 DEF Says
<1>8. \A i \in 0..Total : f[i] = ChainBy(f, i)
  <2>1. ASSUME NEW i \in 0..Total, i # 0 PROVE f[i] = OwnOf(i) \o f[M!Parent(i)]
    <3>1. i \in 1..Total /\ par[i] = M!Parent(i) /\ f[par[i]] \in V
      BY <1>0, <1>2, <2>1
    <3> QED BY <1>4, <1>7, <2>1, <3>1
  <2>2. ASSUME NEW i \in 0..Total, i = 0 PROVE f[i] = <<>>
    BY <1>7, <2>2
  <2> QED BY <2>1, <2>2 DEF ChainBy
<1>9. f = [i \in 0..Total |-> ChainBy(f, i)]
  BY <1>8
<1>10. M!Chains = CHOOSE chain : chain = [i \in 0..Total |-> ChainBy(chain, i)]
  BY DEF M!Chains, ChainBy, OwnOf, Total
<1>11. M!Chains = [i \in 0..Total |-> ChainBy(M!Chains, i)]
  BY <1>9, <1>10
<1> QED BY <1>11

LEMMA MotionsAre == ASSUME Tree PROVE \A i \in Indexes : Motion(i) \in STRING
<1>1. joints \in Seq(JointsOf)
  BY AsReadIs DEF Tree
<1>2. \A i \in 1..Len(joints) : joints[i] \in JointsOf
  BY <1>1
<1> QED BY <1>2 DEF JointsOf, Motion, Indexes, Total

(* Poses says of every joint what PoseBy does. *)
LEMMA PosesAre ==
    ASSUME Tree
    PROVE  \A i \in 0..Total : M!Poses[i] = PoseBy(M!Poses, i)
<1>0. Total \in Nat /\ Total = Len(joints)
  BY AsReadIs DEF Tree, Total
<1>1. PICK place \in [0..Total -> Nat] : Placed(place)
  BY PlacesExist
<1>2. PICK par \in [1..Total -> 0..Total] : \A i \in 1..Total : par[i] = M!Parent(i)
  BY ParentsAre
<1> DEFINE V == Seq(STRING)
           step == [p \in (1..Total) \X V |-> p[2] \o MotionOf(p[1])]
<1>3. step \in [(1..Total) \X V -> V]
  <2>1. ASSUME NEW p \in (1..Total) \X V PROVE p[2] \o MotionOf(p[1]) \in V
    <3>1. p[1] \in 1..Total /\ p[2] \in Seq(STRING)
      BY <1>0, <2>1
    <3>2. Motion(p[1]) \in STRING
      BY <3>1, MotionsAre DEF Indexes
    <3>3. \A S : \A w \in S : <<w>> \in Seq(S) /\ <<>> \in Seq(S)
      OBVIOUS
    <3>4. MotionOf(p[1]) \in Seq(STRING)
      BY <3>2, <3>3, Zenon DEF MotionOf
    <3> QED BY <3>1, <3>4, ConcatProperties
  <2> QED BY <2>1
<1>4. \A i \in 1..Total : \A v \in V : step[<<i, v>>] = v \o MotionOf(i)
  <2>1. \A i \in 1..Total : \A v \in V : <<i, v>> \in (1..Total) \X V /\ <<i, v>>[1] = i /\ <<i, v>>[2] = v
    OBVIOUS
  <2> QED BY <2>1
<1>5. <<>> \in V
  OBVIOUS
<1> HIDE DEF step, V
<1>6. \A i \in 1..Total : place[par[i]] < place[i]
  BY <1>1, <1>2 DEF Placed
<1>7. PICK f \in [0..Total -> V] : \A i \in 0..Total : f[i] = IF i = 0 THEN <<>> ELSE step[<<i, f[par[i]]>>]
  <2>1. Hanging(Total, V, <<>>, par, step, place)
    BY <1>0, <1>3, <1>5, <1>6 DEF Hanging
  <2>2. \E f : Says(f, Total, V, <<>>, par, step)
    BY <2>1, ByPlaces
  <2> QED BY <2>2 DEF Says
<1>8. \A i \in 0..Total : f[i] = PoseBy(f, i)
  <2>1. ASSUME NEW i \in 0..Total, i # 0 PROVE f[i] = f[M!Parent(i)] \o MotionOf(i)
    <3>1. i \in 1..Total /\ par[i] = M!Parent(i) /\ f[par[i]] \in V
      BY <1>0, <1>2, <2>1
    <3> QED BY <1>4, <1>7, <2>1, <3>1
  <2>2. ASSUME NEW i \in 0..Total, i = 0 PROVE f[i] = <<>>
    BY <1>7, <2>2
  <2> QED BY <2>1, <2>2 DEF PoseBy
<1>9. f = [i \in 0..Total |-> PoseBy(f, i)]
  BY <1>8
<1>10. M!Poses = CHOOSE pose : pose = [i \in 0..Total |-> PoseBy(pose, i)]
  BY DEF M!Poses, PoseBy, MotionOf, Total
<1>11. M!Poses = [i \in 0..Total |-> PoseBy(M!Poses, i)]
  BY <1>9, <1>10
<1> QED BY <1>11

(* A pose is its chain from the other end. *)
Reversed(c) == [k \in 1..Len(c) |-> Motion(c[Len(c) + 1 - k])]

LEMMA PoseIsChain ==
    ASSUME Tree
    PROVE  \A i \in 0..Total : M!Chains[i] \in Seq(Indexes) /\ M!Poses[i] = Reversed(M!Chains[i])
<1>0. Total \in Nat
  BY AsReadIs DEF Tree
<1>1. PICK place \in [0..Total -> Nat] : Placed(place)
  BY PlacesExist
<1> DEFINE Good(i) == M!Chains[i] \in Seq(Indexes) /\ M!Poses[i] = Reversed(M!Chains[i])
           U == {k \in Nat : \A i \in 0..Total : place[i] < k => Good(i)}
<1>2. 0 \in U
  BY <1>1
<1>3. ASSUME NEW k \in Nat, k \in U PROVE k + 1 \in U
  <2>1. ASSUME NEW i \in 0..Total, place[i] < k + 1 PROVE Good(i)
    <3>1. M!Chains[i] = ChainBy(M!Chains, i) /\ M!Poses[i] = PoseBy(M!Poses, i)
      BY ChainsAre, PosesAre
    <3>2. CASE i = 0
      <4>1. M!Chains[i] = <<>> /\ M!Poses[i] = <<>>
        BY <3>1, <3>2 DEF ChainBy, PoseBy
      <4>2. Reversed(<<>>) = <<>>
        BY DEF Reversed
      <4> QED BY <4>1, <4>2
    <3>3. CASE i # 0
      <4> DEFINE p == M!Parent(i)
                 c == M!Chains[p]
                 d == M!Chains[i]
      <4>1. i \in 1..Total /\ i \in Nat /\ p \in 0..Total /\ place[p] < place[i]
        BY <1>0, <1>1, <3>3, ParentIs DEF Placed
      <4>2. place[p] < k
        BY <1>1, <2>1, <4>1
      <4>3. c \in Seq(Indexes) /\ M!Poses[p] = Reversed(c)
        BY <1>3, <4>1, <4>2
      <4>4. d = OwnOf(i) \o c /\ M!Poses[i] = Reversed(c) \o MotionOf(i)
        BY <3>1, <3>3, <4>3 DEF ChainBy, PoseBy
      <4> HIDE DEF c, d, p
      <4>5. Reversed(c) \in Seq(STRING) /\ Len(Reversed(c)) = Len(c) /\ Len(c) \in Nat
        <5>1. Len(c) \in Nat /\ \A l \in 1..Len(c) : c[Len(c) + 1 - l] \in Indexes
          BY <4>3
        <5>2. \A l \in 1..Len(c) : Motion(c[Len(c) + 1 - l]) \in STRING
          BY <5>1, MotionsAre
        <5> DEFINE t == Reversed(c)
                   L == STRING
        <5>3. t \in [1..Len(c) -> L]
          BY <5>2 DEF Reversed
        <5> HIDE DEF t, L
        <5>4. t \in Seq(L) /\ Len(t) = Len(c)
          BY <5>1, <5>3
        <5> QED BY <5>1, <5>4 DEF t, L
      <4>6. CASE M!Rides(i)
        <5>1. d = <<>> \o c /\ M!Poses[i] = Reversed(c) \o <<>>
          BY <4>4, <4>6 DEF OwnOf, MotionOf
        <5>2. d = c /\ M!Poses[i] = Reversed(c)
          <6> DEFINE t == Reversed(c)
          <6>1. t \in Seq(STRING) /\ c \in Seq(Indexes)
            BY <4>3, <4>5
          <6> HIDE DEF t
          <6>2. t \o <<>> = t /\ <<>> \o c = c
            BY <6>1, ConcatEmptySeq
          <6> QED BY <5>1, <6>2 DEF t
        <5> QED BY <4>3, <5>2 DEF d
      <4>7. CASE ~M!Rides(i)
        <5> DEFINE a == <<i>>
                   l == <<Motion(i)>>
                   t == Reversed(c)
                   m == Len(c)
        <5>1. d = a \o c /\ M!Poses[i] = t \o l
          BY <4>4, <4>7 DEF OwnOf, MotionOf
        <5>2. a \in Seq(Indexes) /\ Len(a) = 1 /\ a[1] = i
          BY <4>1 DEF Indexes
        <5>3. l \in Seq(STRING) /\ Len(l) = 1 /\ l[1] = Motion(i)
          BY <4>1, MotionsAre DEF Indexes
        <5>4. t \in Seq(STRING) /\ Len(t) = m /\ m \in Nat /\ c \in Seq(Indexes)
              /\ \A x \in 1..m : t[x] = Motion(c[m + 1 - x])
          BY <4>3, <4>5 DEF Reversed
        <5> HIDE DEF a, l, t, m
        <5>5. /\ a \o c \in Seq(Indexes) /\ Len(a \o c) = m + 1
              /\ \A x \in 1..(m + 1) : (a \o c)[x] = IF x = 1 THEN i ELSE c[x - 1]
          <6>1. a \o c \in Seq(Indexes) /\ Len(a \o c) = Len(a) + Len(c)
                /\ \A x \in 1..(Len(a) + Len(c)) : (a \o c)[x] = IF x <= Len(a) THEN a[x] ELSE c[x - Len(a)]
            BY <5>2, <5>4, ConcatProperties
          <6> QED BY <5>2, <5>4, <6>1 DEF m
        <5>6. /\ t \o l \in Seq(STRING) /\ Len(t \o l) = m + 1
              /\ \A x \in 1..(m + 1) : (t \o l)[x] = IF x = m + 1 THEN Motion(i) ELSE t[x]
          <6>1. t \o l \in Seq(STRING) /\ Len(t \o l) = Len(t) + Len(l)
                /\ \A x \in 1..(Len(t) + Len(l)) : (t \o l)[x] = IF x <= Len(t) THEN t[x] ELSE l[x - Len(t)]
            <7> DEFINE L == STRING
            <7> HIDE DEF L
            <7>1. t \in Seq(L) /\ l \in Seq(L)
              BY <5>3, <5>4 DEF L
            <7>2. t \o l \in Seq(L) /\ Len(t \o l) = Len(t) + Len(l)
                  /\ \A x \in 1..(Len(t) + Len(l)) : (t \o l)[x] = IF x <= Len(t) THEN t[x] ELSE l[x - Len(t)]
              BY <7>1, ConcatProperties
            <7> QED BY <7>2 DEF L
          <6>2. \A x \in 1..(m + 1) : (x <= m <=> x # m + 1) /\ (x = m + 1 => x - m = 1)
            BY <5>4
          <6> QED BY <5>3, <5>4, <6>1, <6>2
        <5>7. t \o l = Reversed(a \o c)
          <6> DEFINE r == a \o c
                     s == t \o l
          <6>1. r \in Seq(Indexes) /\ Len(r) = m + 1 /\ \A x \in 1..(m + 1) : r[x] = IF x = 1 THEN i ELSE c[x - 1]
            BY <5>5
          <6>2. Len(s) = m + 1 /\ \A x \in 1..(m + 1) : s[x] = IF x = m + 1 THEN Motion(i) ELSE t[x]
            BY <5>6
          <6>3. s = [x \in 1..Len(s) |-> s[x]]
            <7> DEFINE L == STRING
            <7>1. s \in Seq(L)
              BY <5>6
            <7> HIDE DEF s, L
            <7> QED BY <7>1
          <6> HIDE DEF r, s
          <6>4. ASSUME NEW x \in 1..(m + 1) PROVE s[x] = Motion(r[(m + 1) + 1 - x])
            <7>1. CASE x = m + 1
              <8>1. (m + 1) + 1 - x = 1 /\ 1 \in 1..(m + 1)
                BY <5>4, <7>1
              <8> QED BY <6>1, <6>2, <7>1, <8>1
            <7>2. CASE x # m + 1
              <8>1. x \in 1..m /\ (m + 1) + 1 - x \in 1..(m + 1) /\ (m + 1) + 1 - x # 1 /\ ((m + 1) + 1 - x) - 1 = m + 1 - x
                BY <5>4, <7>2
              <8>2. s[x] = t[x] /\ t[x] = Motion(c[m + 1 - x])
                BY <5>4, <6>2, <7>2, <8>1
              <8>3. r[(m + 1) + 1 - x] = c[((m + 1) + 1 - x) - 1]
                BY <6>1, <8>1
              <8>4. c[((m + 1) + 1 - x) - 1] = c[m + 1 - x]
                BY <8>1
              <8> QED BY <8>2, <8>3, <8>4
            <7> QED BY <7>1, <7>2
          <6>5. s = Reversed(r)
            <7>1. s = [x \in 1..(m + 1) |-> Motion(r[(m + 1) + 1 - x])]
              <8>1. s = [x \in 1..(m + 1) |-> s[x]]
                BY <6>2, <6>3
              <8> QED BY <6>4, <8>1
            <7> QED BY <6>1, <7>1 DEF Reversed
          <6> QED BY <6>5 DEF r, s
        <5> QED BY <5>1, <5>5, <5>7 DEF d
      <4> QED BY <4>6, <4>7
    <3> QED BY <3>2, <3>3
  <2> QED BY <2>1
<1>4. Nat \subseteq U
  <2> HIDE DEF U
  <2> QED BY <1>2, <1>3, PlaceByPlace
<1>5. PICK m \in Nat : \A i \in 0..Total : place[i] < m
  BY <1>0, <1>1, PlacesEnd
<1> QED BY <1>4, <1>5

(* One joint more, nearest the body, is one motion more at the end of the pose. *)
LEMMA OneMotionMore ==
    ASSUME Tree, NEW c \in Seq(Indexes), c # <<>>
    PROVE  Reversed(c) = Append(Reversed(Tail(c)), Motion(c[1]))
<1> DEFINE d == Tail(c)
           n == Len(d)
           t == Reversed(d)
<1>1. d \in Seq(Indexes) /\ n \in Nat /\ Len(c) = n + 1 /\ \A k \in 1..n : d[k] = c[k + 1]
  BY HeadTailProperties
<1>2. \A k \in 1..(n + 1) : c[k] \in Indexes
  BY <1>1
<1> HIDE DEF d, n
<1>3. t = [k \in 1..n |-> Motion(d[n + 1 - k])] /\ \A k \in 1..n : n + 1 - k \in 1..n
  BY <1>1 DEF Reversed, n
<1>4. \A k \in 1..n : Motion(d[n + 1 - k]) \in STRING
  BY <1>1, <1>3, MotionsAre
<1> HIDE DEF t
<1>5. t \in [1..n -> STRING]
  BY <1>3, <1>4
<1>6. t \in Seq(STRING) /\ Len(t) = n
  BY <1>1, <1>5
<1>7. Motion(c[1]) \in STRING
  BY <1>1, <1>2, MotionsAre
<1>8. Append(t, Motion(c[1])) = [k \in 1..(n + 1) |-> IF k = n + 1 THEN Motion(c[1]) ELSE t[k]]
  <2> DEFINE u == Append(t, Motion(c[1]))
  <2>1. u \in Seq(STRING) /\ Len(u) = n + 1 /\ u[n + 1] = Motion(c[1]) /\ \A k \in 1..n : u[k] = t[k]
    BY <1>6, <1>7, AppendProperties
  <2> HIDE DEF u
  <2>2. u = [k \in 1..(n + 1) |-> u[k]]
    BY <2>1
  <2>3. ASSUME NEW k \in 1..(n + 1) PROVE u[k] = IF k = n + 1 THEN Motion(c[1]) ELSE t[k]
    BY <1>1, <2>1
  <2> QED BY <2>2, <2>3 DEF u
<1>9. ASSUME NEW k \in 1..(n + 1)
      PROVE  Motion(c[(n + 1) + 1 - k]) = IF k = n + 1 THEN Motion(c[1]) ELSE t[k]
  <2>1. CASE k = n + 1
    <3>1. (n + 1) + 1 - k = 1
      BY <1>1, <2>1
    <3> QED BY <2>1, <3>1
  <2>2. CASE k # n + 1
    <3>1. k \in 1..n /\ n + 1 - k \in 1..n /\ (n + 1 - k) + 1 = (n + 1) + 1 - k
      BY <1>1, <2>2
    <3>2. t[k] = Motion(d[n + 1 - k]) /\ d[n + 1 - k] = c[(n + 1 - k) + 1]
      BY <1>1, <1>3, <3>1
    <3> QED BY <2>2, <3>1, <3>2
  <2> QED BY <2>1, <2>2
<1>10. Reversed(c) = [k \in 1..(n + 1) |-> Motion(c[(n + 1) + 1 - k])]
  BY <1>1 DEF Reversed
<1> QED BY <1>8, <1>9, <1>10 DEF t, d

------------------------------------------------------------------------------
(* What the sweep is told of a pair *)

(* A body's pose is its chain from the other end. *)
LEMMA PoseOf ==
    ASSUME Tree, NEW body
    PROVE  M!Chain(body) \in Seq(Indexes) /\ M!Pose(body) = Reversed(M!Chain(body))
<1>1. M!Joint(body) \in 0..Total
  BY JointIs DEF Tree
<1> QED BY <1>1, PoseIsChain DEF M!Chain, M!Pose

(* Bodies of one chain have one pose. *)
LEMMA PairsMove == MechanismInv => M!MovingPairsMove
<1>1. ASSUME MechanismInv, verdict = "tree", NEW a \in M!Names, NEW b \in M!Names, M!Chain(a) = M!Chain(b)
      PROVE  M!Pose(a) = M!Pose(b)
  BY <1>1, AcceptedIsTree, PoseOf
<1> QED BY <1>1 DEF M!MovingPairsMove, M!MovesRelative

(* One joint is between them where one chain is the other without its first. *)
LEMMA SinglesAreSingle == MechanismInv => M!SingleIsSingle
<1>1. ASSUME MechanismInv, verdict = "tree", NEW a \in M!Names, NEW b \in M!Names, NEW j
      PROVE  /\ M!SingleJoint(a, b) = <<j, TRUE>> => M!Pose(a) = Append(M!Pose(b), Motion(j))
             /\ M!SingleJoint(a, b) = <<j, FALSE>> => M!Pose(b) = Append(M!Pose(a), Motion(j))
  <2> DEFINE ca == M!Chain(a)
             cb == M!Chain(b)
  <2>1. Tree
    BY <1>1, AcceptedIsTree
  <2>2. /\ ca \in Seq(Indexes) /\ cb \in Seq(Indexes)
        /\ M!Pose(a) = Reversed(ca) /\ M!Pose(b) = Reversed(cb)
    BY <2>1, PoseOf
  <2>3. M!SingleJoint(a, b) = IF ca # <<>> /\ Tail(ca) = cb THEN <<ca[1], TRUE>>
                            ELSE IF cb # <<>> /\ Tail(cb) = ca THEN <<cb[1], FALSE>> ELSE <<>>
    BY DEF M!SingleJoint
  <2> HIDE DEF ca, cb
  <2>5. \A c, d, e, f : <<c, d>> = <<e, f>> <=> c = e /\ d = f
    OBVIOUS
  <2>6. \A c, d : <<c, d>> # <<>>
    OBVIOUS
  <2>7. CASE ca # <<>> /\ Tail(ca) = cb
    <3>1. M!SingleJoint(a, b) = <<ca[1], TRUE>>
      BY <2>3, <2>7
    <3>2. Reversed(ca) = Append(Reversed(cb), Motion(ca[1]))
      BY <2>1, <2>2, <2>7, OneMotionMore
    <3> QED BY <2>2, <2>5, <3>1, <3>2
  <2>8. CASE ~(ca # <<>> /\ Tail(ca) = cb) /\ cb # <<>> /\ Tail(cb) = ca
    <3>1. M!SingleJoint(a, b) = <<cb[1], FALSE>>
      BY <2>3, <2>8
    <3>2. Reversed(cb) = Append(Reversed(ca), Motion(cb[1]))
      BY <2>1, <2>2, <2>8, OneMotionMore
    <3> QED BY <2>2, <2>5, <3>1, <3>2
  <2>9. CASE ~(ca # <<>> /\ Tail(ca) = cb) /\ ~(cb # <<>> /\ Tail(cb) = ca)
    <3>1. M!SingleJoint(a, b) = <<>>
      BY <2>3, <2>9
    <3> QED BY <2>6, <3>1
  <2> QED BY <2>7, <2>8, <2>9
<1> QED BY <1>1 DEF M!SingleIsSingle, Motion

(* All that is read of the joints is true of the poses. *)
LEMMA JointsRight == MechanismInv => M!JointsAreRight
BY MechanismTyped, TreesOnly, PairsMove, SinglesAreSingle DEF M!JointsAreRight

------------------------------------------------------------------------------
(* Of products *)
LEMMA Cancelled == ASSUME NEW x \in Int, NEW y \in Int, NEW r \in Int, r > 0, x * r <= y * r PROVE x <= y
BY SMT

LEMMA CancelledEqual == ASSUME NEW x \in Int, NEW y \in Int, NEW r \in Int, r > 0, x * r = y * r PROVE x = y
BY SMT

LEMMA Multiplied == ASSUME NEW x \in Int, NEW y \in Int, NEW r \in Int, r >= 0, x <= y PROVE x * r <= y * r
BY SMT

LEMMA MultipliedLess == ASSUME NEW x \in Int, NEW y \in Int, NEW r \in Int, r > 0, x < y PROVE x * r < y * r
BY SMT

LEMMA Positive == ASSUME NEW x \in Int, NEW y \in Int, x > 0, y > 0 PROVE x * y \in Int /\ x * y > 0
BY SMT

(* Of quotients *)
LEMMA SteeperStill ==
    ASSUME NEW a \in Int, NEW b \in Int, NEW c \in Int, NEW d \in Int, NEW e \in Int, NEW f \in Int,
           b > 0, d > 0, f > 0, a * d <= c * b, c * f <= e * d
    PROVE  a * f <= e * b
<1>1. (a * d) * f <= (c * b) * f
  BY Multiplied
<1>2. (c * f) * b <= (e * d) * b
  BY Multiplied
<1>3. (a * f) * d <= (e * b) * d
  <2>1. (a * d) * f = (a * f) * d /\ (c * b) * f = (c * f) * b /\ (e * d) * b = (e * b) * d
    BY SMT
  <2>2. (a * d) * f \in Int /\ (c * b) * f \in Int /\ (e * d) * b \in Int
    BY SMT
  <2> QED BY <1>1, <1>2, <2>1, <2>2
<1> QED
  <2>1. a * f \in Int /\ e * b \in Int
    BY SMT
  <2> QED BY <1>3, <2>1, Cancelled

------------------------------------------------------------------------------
(* A law *)

(* The knots of a law: where and how much. *)
T(i) == law[i][1]
V(i) == law[i][2]
Knots == Len(law)
LawStands == /\ law \in Seq(Int \X Int) /\ Knots \in Nat /\ Knots >= 2
             /\ \A i \in 1..(Knots - 1) : T(i) < T(i + 1)
Segment(i) == <<law[i], law[i + 1]>>

(* A law that is read has two knots or more, one after the other. *)
LEMMA LawIs ==
    ASSUME MechanismInv, law # <<>>
    PROVE  LawStands
<1>1. law \in Seq(Int \X Int) /\ Len(law) # 1 /\ Len(law) \in Nat /\ \A i \in 1..(Len(law) - 1) : law[i][1] < law[i + 1][1]
  BY AsReadIs DEF MechanismInv
<1>2. Len(law) # 0
  BY <1>1
<1>3. Knots = Len(law) /\ \A i : T(i) = law[i][1]
  BY DEF Knots, T
<1>4. Knots \in Nat /\ Knots >= 2
  BY <1>1, <1>2, <1>3
<1>5. \A i \in 1..(Knots - 1) : T(i) < T(i + 1)
  BY <1>1, <1>3
<1> QED BY <1>1, <1>4, <1>5 DEF LawStands

LEMMA KnotsAre ==
    ASSUME LawStands
    PROVE  \A i \in 1..Knots : T(i) \in Int /\ V(i) \in Int
BY DEF LawStands, Knots, T, V

(* Its segments go from a knot to the next. *)
LEMMA SegmentsAre ==
    ASSUME LawStands
    PROVE  /\ M!Segments = {Segment(i) : i \in 1..(Knots - 1)}
           /\ \A i \in 1..(Knots - 1) :
                  /\ Segment(i)[1] = law[i] /\ Segment(i)[2] = law[i + 1]
                  /\ M!Rise(Segment(i)) = V(i + 1) - V(i) /\ M!Run(Segment(i)) = T(i + 1) - T(i)
                  /\ T(i) \in Int /\ T(i + 1) \in Int /\ V(i) \in Int /\ V(i + 1) \in Int /\ T(i) < T(i + 1)
<1>1. M!Segments = {Segment(i) : i \in 1..(Knots - 1)}
  BY DEF M!Segments, Segment, Knots
<1>2. ASSUME NEW i \in 1..(Knots - 1)
      PROVE  /\ Segment(i)[1] = law[i] /\ Segment(i)[2] = law[i + 1]
             /\ M!Rise(Segment(i)) = V(i + 1) - V(i) /\ M!Run(Segment(i)) = T(i + 1) - T(i)
             /\ T(i) \in Int /\ T(i + 1) \in Int /\ V(i) \in Int /\ V(i + 1) \in Int /\ T(i) < T(i + 1)
  <2>1. Segment(i)[1] = law[i] /\ Segment(i)[2] = law[i + 1]
    BY DEF Segment
  <2>2. i \in 1..Knots /\ i + 1 \in 1..Knots
    BY DEF LawStands
  <2> QED BY <2>1, <2>2, KnotsAre DEF M!Rise, M!Run, T, V, LawStands
<1> QED BY <1>1, <1>2

(* A knot is after every knot before it. *)
LEMMA TimesGrow ==
    ASSUME LawStands, NEW i \in 1..Knots, NEW j \in 1..Knots, i < j
    PROVE  T(i) < T(j)
<1> DEFINE U == {n \in Nat : i + 1 + n <= Knots => T(i) < T(i + 1 + n)}
<1>0. Knots \in Nat
  BY DEF LawStands
<1>1. 0 \in U
  <2>1. i \in 1..(Knots - 1) /\ i + 1 + 0 = i + 1
    BY <1>0
  <2>2. T(i) < T(i + 1)
    BY <2>1 DEF LawStands
  <2> QED BY <2>1, <2>2
<1>2. ASSUME NEW n \in Nat, n \in U PROVE n + 1 \in U
  <2> SUFFICES ASSUME i + 1 + (n + 1) <= Knots PROVE T(i) < T(i + 1 + (n + 1))
    OBVIOUS
  <2>1. T(i) < T(i + 1 + n)
    BY <1>0, <1>2
  <2>2. i + 1 + n \in 1..(Knots - 1) /\ (i + 1 + n) + 1 = i + 1 + (n + 1) /\ i + 1 + n \in 1..Knots /\ i + 1 + (n + 1) \in 1..Knots
    BY <1>0
  <2>3. T(i + 1 + n) < T((i + 1 + n) + 1)
    BY <2>2 DEF LawStands
  <2>4. T(i) \in Int /\ T(i + 1 + n) \in Int /\ T(i + 1 + (n + 1)) \in Int
    BY <2>2, KnotsAre
  <2> QED BY <2>1, <2>2, <2>3, <2>4
<1>3. Nat \subseteq U
  <2> HIDE DEF U
  <2> QED BY <1>1, <1>2, PlaceByPlace
<1>4. j - (i + 1) \in Nat /\ i + 1 + (j - (i + 1)) = j /\ j <= Knots
  BY <1>0
<1>5. j - (i + 1) \in U
  BY <1>3, <1>4
<1> QED BY <1>4, <1>5

(* A time within the law is within one of its segments. *)
LEMMA SomeSegment ==
    ASSUME LawStands, NEW n \in Int, NEW d \in Int, d > 0, T(1) * d <= n, n <= T(Knots) * d
    PROVE  /\ \E i \in 1..(Knots - 1) : T(i) * d <= n /\ n <= T(i + 1) * d
           /\ T(1) * d < n => \E i \in 1..(Knots - 1) : T(i) * d < n /\ n <= T(i + 1) * d
           /\ n < T(Knots) * d => \E i \in 1..(Knots - 1) : T(i) * d <= n /\ n < T(i + 1) * d
<1>0. Knots \in Nat /\ Knots >= 2 /\ 1 \in 1..Knots /\ Knots \in 1..Knots
  BY DEF LawStands
<1> DEFINE U == {m \in 1..Knots : n <= T(m) * d}
           W == {m \in 1..Knots : n < T(m) * d}
<1>a. \A m \in 1..Knots : T(m) * d \in Int
  BY KnotsAre, SMT
<1>1. PICK m \in U : \A k \in U : m <= k
  <2>1. U \in SUBSET Nat /\ Knots \in U
    BY <1>0
  <2> HIDE DEF U
  <2> QED BY <2>1, SmallestOf
<1>2. m # 1 => \E i \in 1..(Knots - 1) : T(i) * d < n /\ n <= T(i + 1) * d
  <2> SUFFICES ASSUME m # 1 PROVE \E i \in 1..(Knots - 1) : T(i) * d < n /\ n <= T(i + 1) * d
    OBVIOUS
  <2>1. m - 1 \in 1..(Knots - 1) /\ m - 1 \in 1..Knots /\ (m - 1) + 1 = m /\ ~(m <= m - 1)
    BY <1>0
  <2>2. m - 1 \notin U
    BY <1>1, <2>1
  <2>3. T(m - 1) * d < n
    BY <1>a, <2>1, <2>2
  <2>4. n <= T((m - 1) + 1) * d
    BY <1>1, <2>1
  <2> QED BY <2>1, <2>3, <2>4
<1>3. m = 1 => n = T(1) * d
  BY <1>0, <1>1, <1>a
<1>4. n < T(Knots) * d => \E i \in 1..(Knots - 1) : T(i) * d <= n /\ n < T(i + 1) * d
  <2> SUFFICES ASSUME n < T(Knots) * d PROVE \E i \in 1..(Knots - 1) : T(i) * d <= n /\ n < T(i + 1) * d
    OBVIOUS
  <2>1. PICK l \in W : \A k \in W : l <= k
    <3>1. W \in SUBSET Nat /\ Knots \in W
      BY <1>0
    <3> HIDE DEF W
    <3> QED BY <3>1, SmallestOf
  <2>2. l # 1
    BY <1>0, <1>a
  <2>3. l - 1 \in 1..(Knots - 1) /\ l - 1 \in 1..Knots /\ (l - 1) + 1 = l /\ ~(l <= l - 1)
    BY <1>0, <2>2
  <2>4. l - 1 \notin W
    BY <2>1, <2>3
  <2>5. T(l - 1) * d <= n
    BY <1>a, <2>3, <2>4
  <2>6. n < T((l - 1) + 1) * d
    BY <2>1, <2>3
  <2> QED BY <2>3, <2>5, <2>6
<1>5. \E i \in 1..(Knots - 1) : T(i) * d <= n /\ n <= T(i + 1) * d
  <2>1. CASE m = 1
    <3>1. 1 \in 1..(Knots - 1) /\ 1 + 1 \in 1..Knots
      BY <1>0
    <3>2. T(1) < T(1 + 1) /\ T(1) \in Int /\ T(1 + 1) \in Int
      BY <1>0, <3>1, KnotsAre DEF LawStands
    <3>3. T(1) * d <= T(1 + 1) * d
      BY <3>2, Multiplied
    <3> QED BY <1>3, <2>1, <3>1, <3>3
  <2>2. CASE m # 1
    <3>1. PICK i \in 1..(Knots - 1) : T(i) * d < n /\ n <= T(i + 1) * d
      BY <1>2, <2>2
    <3>2. T(i) * d \in Int
      BY <1>0, <1>a
    <3> QED BY <3>1, <3>2
  <2> QED BY <2>1, <2>2
<1>6. T(1) * d < n => m # 1
  BY <1>0, <1>3, <1>a
<1> QED BY <1>2, <1>4, <1>5, <1>6

(* What the value is at a quotient n over d, the segment it is read on named by its number. *)
OnSegment(i, n, d) == T(i) * d <= n /\ n < T(i + 1) * d
OnLine(v, i, n, d) ==
    /\ v[1] \in Int /\ v[2] \in Int /\ v[2] > 0
    /\ v[1] * ((T(i + 1) - T(i)) * d) = v[2] * (V(i) * ((T(i + 1) - T(i)) * d) + (V(i + 1) - V(i)) * (n - T(i) * d))

(* The value before the first knot, after the last, and within a segment. *)
LEMMA ValueFirst ==
    ASSUME LawStands, NEW n \in Int, NEW d \in Int, d > 0, n = T(1) * d
    PROVE  M!Value(<<n, d>>) = <<V(1), 1>>
BY DEF M!Value, T, V

LEMMA ValueLast ==
    ASSUME LawStands, NEW n \in Int, NEW d \in Int, d > 0, T(1) * d < n, T(Knots) * d <= n
    PROVE  M!Value(<<n, d>>) = <<V(Knots), 1>>
<1>1. Knots \in 1..Knots /\ 1 \in 1..Knots /\ M!Last(law) = law[Knots]
  BY DEF LawStands, Knots, M!Last
<1>2. T(1) \in Int /\ T(Knots) \in Int
  BY <1>1, KnotsAre
<1>3. T(1) * d \in Int /\ T(Knots) * d \in Int
  BY <1>2, SMT
<1>4. ~(T(1) * d > n \/ n = T(1) * d) /\ ~(T(Knots) * d > n)
  BY <1>3
<1> DEFINE t == <<n, d>>
<1>5. t[1] = n /\ t[2] = d
  OBVIOUS
<1> HIDE DEF t
<1>6. law[1][1] = T(1) /\ M!Last(law)[1] = T(Knots) /\ M!Last(law)[2] = V(Knots)
  BY <1>1 DEF T, V
<1>7. ~(law[1][1] * t[2] > t[1] \/ t[1] = law[1][1] * t[2]) /\ ~(M!Last(law)[1] * t[2] > t[1])
  BY <1>4, <1>5, <1>6
<1> QED BY <1>6, <1>7 DEF M!Value, t

LEMMA ValueBetween ==
    ASSUME LawStands, NEW n \in Int, NEW d \in Int, d > 0, T(1) * d < n, n < T(Knots) * d,
           NEW i \in 1..(Knots - 1), OnSegment(i, n, d)
    PROVE  M!Value(<<n, d>>) = <<V(i) * (T(i + 1) - T(i)) * d + (V(i + 1) - V(i)) * (n - T(i) * d), (T(i + 1) - T(i)) * d>>
<1> DEFINE t == <<n, d>>
           q == CHOOSE s \in M!Segments : ~(s[1][1] * d > n) /\ s[2][1] * d > n
<1>1. Knots \in 1..Knots /\ 1 \in 1..Knots /\ M!Last(law) = law[Knots]
  BY DEF LawStands, Knots, M!Last
<1>a. \A m \in 1..Knots : T(m) \in Int /\ T(m) * d \in Int
  BY KnotsAre, SMT
<1>2. ~(T(1) * d > n \/ n = T(1) * d) /\ T(Knots) * d > n
  BY <1>1, <1>a
<1>3. t[1] = n /\ t[2] = d
  OBVIOUS
<1>4. \A j \in 1..(Knots - 1) : Segment(j)[1][1] = T(j) /\ Segment(j)[2][1] = T(j + 1)
  BY SegmentsAre DEF T
<1>5. Segment(i) \in M!Segments /\ ~(Segment(i)[1][1] * d > n) /\ Segment(i)[2][1] * d > n
  <2>1. Segment(i) \in M!Segments
    BY SegmentsAre
  <2>2. T(i) * d \in Int /\ T(i + 1) * d \in Int
    BY <1>1, <1>a
  <2> QED BY <1>4, <2>1, <2>2 DEF OnSegment
<1>6. ASSUME NEW s \in M!Segments, ~(s[1][1] * d > n), s[2][1] * d > n PROVE s = Segment(i)
  <2>1. PICK j \in 1..(Knots - 1) : s = Segment(j)
    BY SegmentsAre
  <2>2. i \in 1..Knots /\ j \in 1..Knots /\ i + 1 \in 1..Knots /\ j + 1 \in 1..Knots /\ i \in Int /\ j \in Int
    BY <1>1
  <2>3. T(j) * d <= n /\ n < T(j + 1) * d
    BY <1>4, <1>6, <1>a, <2>1, <2>2
  <2>4. ~(i < j)
    <3> SUFFICES ASSUME i < j PROVE FALSE
      OBVIOUS
    <3>1. T(i + 1) <= T(j)
      <4>1. CASE i + 1 = j
        BY <1>a, <2>2, <4>1
      <4>2. CASE i + 1 < j
        BY <1>a, <2>2, <4>2, TimesGrow
      <4> QED BY <2>2, <4>1, <4>2
    <3>2. T(i + 1) * d <= T(j) * d
      BY <1>a, <2>2, <3>1, Multiplied
    <3> QED BY <1>a, <2>2, <2>3, <3>2 DEF OnSegment
  <2>5. ~(j < i)
    <3> SUFFICES ASSUME j < i PROVE FALSE
      OBVIOUS
    <3>1. T(j + 1) <= T(i)
      <4>1. CASE j + 1 = i
        BY <1>a, <2>2, <4>1
      <4>2. CASE j + 1 < i
        BY <1>a, <2>2, <4>2, TimesGrow
      <4> QED BY <2>2, <4>1, <4>2
    <3>2. T(j + 1) * d <= T(i) * d
      BY <1>a, <2>2, <3>1, Multiplied
    <3> QED BY <1>a, <2>2, <2>3, <3>2 DEF OnSegment
  <2> QED BY <2>1, <2>2, <2>4, <2>5
<1>7. q = Segment(i)
  BY <1>5, <1>6
<1> HIDE DEF t
<1>8. law[1][1] = T(1) /\ M!Last(law)[1] = T(Knots)
  BY <1>1 DEF T, V
<1>9. ~(law[1][1] * t[2] > t[1] \/ t[1] = law[1][1] * t[2]) /\ M!Last(law)[1] * t[2] > t[1]
  BY <1>2, <1>3, <1>8
<1>10. M!Value(t) = LET s == CHOOSE s \in M!Segments : ~(s[1][1] * t[2] > t[1]) /\ s[2][1] * t[2] > t[1]
                  IN  <<s[1][2] * M!Run(s) * t[2] + M!Rise(s) * (t[1] - s[1][1] * t[2]), M!Run(s) * t[2]>>
  BY <1>9 DEF M!Value
<1>11. M!Value(t) = <<q[1][2] * M!Run(q) * d + M!Rise(q) * (n - q[1][1] * d), M!Run(q) * d>>
  BY <1>3, <1>10
<1> HIDE DEF q
<1>12. q[1][2] = V(i) /\ q[1][1] = T(i) /\ M!Run(q) = T(i + 1) - T(i) /\ M!Rise(q) = V(i + 1) - V(i)
  BY <1>7, SegmentsAre DEF T, V
<1> QED BY <1>11, <1>12 DEF t

------------------------------------------------------------------------------
(* Of lines *)

(* A line within its ends, and at each. *)
LEMMA LineInside ==
    ASSUME NEW v \in Int, NEW w \in Int, NEW s \in Int, NEW u \in Int, NEW n \in Int, NEW d \in Int, s < u, d > 0,
           NEW a \in Int, a = v * (u - s) * d + (w - v) * (n - s * d)
    PROVE  a * ((u - s) * d) = ((u - s) * d) * (v * ((u - s) * d) + (w - v) * (n - s * d))
BY SMT

LEMMA LineBegin ==
    ASSUME NEW v \in Int, NEW w \in Int, NEW s \in Int, NEW u \in Int, NEW n \in Int, NEW d \in Int, n = s * d
    PROVE  v * ((u - s) * d) = 1 * (v * ((u - s) * d) + (w - v) * (n - s * d))
BY SMT

LEMMA LineEnd ==
    ASSUME NEW v \in Int, NEW w \in Int, NEW s \in Int, NEW u \in Int, NEW n \in Int, NEW d \in Int, n = u * d, NEW r \in Int
    PROVE  (w * r) * ((u - s) * d) = r * (v * ((u - s) * d) + (w - v) * (n - s * d))
<1>1. n - s * d = (u - s) * d
  BY SMT
<1> DEFINE k == (u - s) * d
<1>2. k \in Int
  BY SMT
<1> HIDE DEF k
<1>3. (w * r) * k = r * (v * k + (w - v) * k)
  BY <1>2, SMT
<1> QED BY <1>1, <1>3 DEF k

(* Whatever segment a time is within, ends included, the value is on that segment's line. *)
LEMMA ValueOn ==
    ASSUME LawStands, NEW i \in 1..(Knots - 1), NEW n \in Int, NEW d \in Int, d > 0, T(i) * d <= n, n <= T(i + 1) * d
    PROVE  OnLine(M!Value(<<n, d>>), i, n, d)
<1> DEFINE s == T(i)
           u == T(i + 1)
           v == V(i)
           w == V(i + 1)
<1>1. Knots \in Nat /\ Knots >= 2 /\ 1 \in 1..Knots /\ Knots \in 1..Knots /\ i \in 1..Knots /\ i + 1 \in 1..Knots /\ i \in Nat
  BY DEF LawStands
<1>a. \A m \in 1..Knots : T(m) \in Int /\ V(m) \in Int /\ T(m) * d \in Int
  BY KnotsAre, SMT
<1>2. s \in Int /\ u \in Int /\ v \in Int /\ w \in Int /\ s < u
  BY SegmentsAre
<1>3. T(1) * d <= n
  <2>1. CASE i = 1
    BY <2>1
  <2>2. CASE i # 1
    <3>1. T(1) < T(i)
      BY <1>1, <2>2, TimesGrow
    <3>2. T(1) * d <= T(i) * d
      BY <1>1, <1>a, <3>1, Multiplied
    <3> QED BY <1>1, <1>a, <3>2
  <2> QED BY <2>1, <2>2
<1>4. CASE n = T(1) * d
  <2>1. M!Value(<<n, d>>) = <<V(1), 1>>
    BY <1>4, ValueFirst
  <2>2. i = 1
    <3> SUFFICES ASSUME i # 1 PROVE FALSE
      OBVIOUS
    <3>1. T(1) < T(i)
      BY <1>1, TimesGrow
    <3>2. T(1) * d < T(i) * d
      BY <1>1, <1>a, <3>1, MultipliedLess
    <3> QED BY <1>1, <1>4, <1>a, <3>2
  <2>3. v * ((u - s) * d) = 1 * (v * ((u - s) * d) + (w - v) * (n - s * d))
    <3>1. n = s * d
      BY <1>4, <2>2
    <3> HIDE DEF s, u, v, w
    <3> QED BY <1>2, <3>1, LineBegin
  <2>4. M!Value(<<n, d>>)[1] = v /\ M!Value(<<n, d>>)[2] = 1
    BY <2>1, <2>2
  <2> QED BY <1>2, <2>3, <2>4 DEF OnLine
<1>5. CASE n # T(1) * d /\ ~(n < T(Knots) * d)
  <2>1. T(1) * d < n /\ T(Knots) * d <= n
    BY <1>1, <1>3, <1>5, <1>a
  <2>2. M!Value(<<n, d>>) = <<V(Knots), 1>>
    BY <2>1, ValueLast
  <2>3. i + 1 = Knots
    <3> SUFFICES ASSUME i + 1 # Knots PROVE FALSE
      OBVIOUS
    <3>1. T(i + 1) < T(Knots)
      BY <1>1, TimesGrow
    <3>2. T(i + 1) * d < T(Knots) * d
      BY <1>1, <1>a, <3>1, MultipliedLess
    <3> QED BY <1>1, <1>a, <2>1, <3>2
  <2>4. n = u * d
    BY <1>1, <1>a, <2>1, <2>3
  <2>5. (w * 1) * ((u - s) * d) = 1 * (v * ((u - s) * d) + (w - v) * (n - s * d))
    <3> HIDE DEF s, u, v, w
    <3> QED BY <1>2, <2>4, LineEnd
  <2>6. M!Value(<<n, d>>)[1] = w /\ M!Value(<<n, d>>)[2] = 1 /\ w * 1 = w
    BY <1>2, <2>2, <2>3
  <2> QED BY <1>2, <2>5, <2>6 DEF OnLine
<1>6. CASE n # T(1) * d /\ n < T(Knots) * d /\ n < T(i + 1) * d
  <2>1. T(1) * d < n /\ OnSegment(i, n, d)
    BY <1>1, <1>3, <1>6, <1>a DEF OnSegment
  <2> DEFINE a == v * (u - s) * d + (w - v) * (n - s * d)
             b == (u - s) * d
  <2>2. M!Value(<<n, d>>) = <<a, b>>
    BY <1>6, <2>1, ValueBetween
  <2>3. a \in Int /\ b \in Int /\ b > 0
    <3> HIDE DEF s, u, v, w
    <3>1. u - s \in Int /\ u - s > 0
      BY <1>2
    <3>2. b \in Int /\ b > 0
      BY <3>1, Positive
    <3>3. a \in Int
      BY <1>2, SMT
    <3> QED BY <3>2, <3>3
  <2>4. a * ((u - s) * d) = ((u - s) * d) * (v * ((u - s) * d) + (w - v) * (n - s * d))
    <3> HIDE DEF s, u, v, w
    <3>1. a = v * (u - s) * d + (w - v) * (n - s * d)
      OBVIOUS
    <3> HIDE DEF a
    <3> QED BY <1>2, <2>3, <3>1, LineInside
  <2>5. M!Value(<<n, d>>)[1] = a /\ M!Value(<<n, d>>)[2] = b
    BY <2>2
  <2> HIDE DEF a
  <2> QED BY <2>3, <2>4, <2>5 DEF OnLine
<1>7. CASE n # T(1) * d /\ n < T(Knots) * d /\ ~(n < T(i + 1) * d)
  <2> DEFINE j == i + 1
             x == T(j + 1)
             y == V(j + 1)
             r == (x - u) * d
  <2>1. n = u * d
    BY <1>1, <1>7, <1>a
  <2>2. j \in 1..(Knots - 1)
    <3>1. j # Knots
      BY <1>7, <2>1, <1>1, <1>a
    <3> QED BY <1>1, <3>1
  <2>3. x \in Int /\ y \in Int /\ u < x
    BY <2>2, SegmentsAre
  <2>4. u * d < x * d
    <3> HIDE DEF u, x
    <3> QED BY <1>2, <2>3, MultipliedLess
  <2>5. T(1) * d < n /\ OnSegment(j, n, d)
    <3>1. T(1) * d < n
      BY <1>1, <1>3, <1>7, <1>a
    <3>2. T(j) * d <= n /\ n < T(j + 1) * d
      BY <1>1, <1>a, <2>1, <2>4
    <3> QED BY <3>1, <3>2 DEF OnSegment
  <2>6. M!Value(<<n, d>>) = <<w * (x - u) * d + (y - w) * (n - u * d), r>>
    BY <1>7, <2>2, <2>5, ValueBetween
  <2>7. w * (x - u) * d + (y - w) * (n - u * d) = w * r
    <3> HIDE DEF u, w, x, y, j
    <3>1. n - u * d = 0
      BY <1>2, <2>1
    <3>2. (y - w) * 0 = 0 /\ w * (x - u) * d = w * ((x - u) * d) /\ w * (x - u) * d \in Int
      BY <1>2, <2>3, SMT
    <3> QED BY <3>1, <3>2
  <2>8. r \in Int /\ r > 0 /\ w * r \in Int
    <3> HIDE DEF u, w, x, y, j
    <3>1. x - u \in Int /\ x - u > 0
      BY <1>2, <2>3
    <3>2. r \in Int /\ r > 0
      BY <3>1, Positive
    <3> HIDE DEF r
    <3>3. w * r \in Int
      BY <1>2, <3>2, SMT
    <3> QED BY <3>2, <3>3
  <2>9. (w * r) * ((u - s) * d) = r * (v * ((u - s) * d) + (w - v) * (n - s * d))
    <3> HIDE DEF r, s, u, v, w
    <3> QED BY <1>2, <2>1, <2>8, LineEnd
  <2>10. M!Value(<<n, d>>)[1] = w * r /\ M!Value(<<n, d>>)[2] = r
    BY <2>6, <2>7
  <2> HIDE DEF r
  <2> QED BY <2>8, <2>9, <2>10 DEF OnLine
<1> QED BY <1>4, <1>5, <1>6, <1>7

(* How long a segment is and how far it climbs, and the rate that bounds it. *)
Span(i) == T(i + 1) - T(i)
Climbs(i) == V(i + 1) - V(i)
Bounds(r, i) == M!Size(Climbs(i)) * r[2] <= r[1] * Span(i)

LEMMA SizeIs ==
    ASSUME NEW x \in Int
    PROVE  M!Size(x) \in Int /\ M!Size(x) >= 0 /\ x <= M!Size(x) /\ -x <= M!Size(x) /\ (M!Size(x) = x \/ M!Size(x) = -x)
BY DEF M!Size

(* The rate of an interval bounds each segment the interval overlaps. *)
LEMMA RateIs ==
    ASSUME LawStands, NEW lo \in Int, NEW hi \in Int
    PROVE  /\ M!Rate(lo, hi)[1] \in Int /\ M!Rate(lo, hi)[1] >= 0 /\ M!Rate(lo, hi)[2] \in Int /\ M!Rate(lo, hi)[2] > 0
           /\ \A i \in 1..(Knots - 1) : T(i + 1) > lo /\ T(i) < hi => Bounds(M!Rate(lo, hi), i)
<1> DEFINE I == {i \in 1..(Knots - 1) : T(i + 1) > lo /\ T(i) < hi}
           O(i) == <<M!Size(Climbs(i)), Span(i)>>
           over == {<<M!Size(M!Rise(s)), M!Run(s)>> : s \in M!Overlapped(lo, hi)}
           r == M!Rate(lo, hi)
<1>0. Knots \in Nat /\ Knots >= 2
  BY DEF LawStands
<1>1. ASSUME NEW i \in 1..(Knots - 1)
      PROVE  /\ Segment(i)[1][1] = T(i) /\ Segment(i)[2][1] = T(i + 1)
             /\ M!Rise(Segment(i)) = Climbs(i) /\ M!Run(Segment(i)) = Span(i)
             /\ M!Size(Climbs(i)) \in Int /\ M!Size(Climbs(i)) >= 0 /\ Span(i) \in Int /\ Span(i) > 0 /\ Climbs(i) \in Int
             /\ O(i)[1] = M!Size(Climbs(i)) /\ O(i)[2] = Span(i)
  <2>1. /\ Segment(i)[1] = law[i] /\ Segment(i)[2] = law[i + 1]
        /\ M!Rise(Segment(i)) = V(i + 1) - V(i) /\ M!Run(Segment(i)) = T(i + 1) - T(i)
        /\ T(i) \in Int /\ T(i + 1) \in Int /\ V(i) \in Int /\ V(i + 1) \in Int /\ T(i) < T(i + 1)
    BY SegmentsAre
  <2>2. Climbs(i) \in Int /\ Span(i) \in Int /\ Span(i) > 0
    BY <2>1 DEF Climbs, Span
  <2> QED BY <2>1, <2>2, SizeIs DEF Climbs, Span, T
<1>2. M!Overlapped(lo, hi) = {Segment(i) : i \in I}
  <2>1. ASSUME NEW i \in 1..(Knots - 1) PROVE (Segment(i)[2][1] > lo /\ Segment(i)[1][1] < hi) <=> i \in I
    BY <1>1
  <2>2. M!Segments = {Segment(i) : i \in 1..(Knots - 1)}
    BY SegmentsAre
  <2>3. I \subseteq 1..(Knots - 1)
    OBVIOUS
  <2> HIDE DEF I
  <2> QED BY <2>1, <2>2, <2>3 DEF M!Overlapped
<1>3. over = {O(i) : i \in I}
  <2>1. \A i \in I : <<M!Size(M!Rise(Segment(i))), M!Run(Segment(i))>> = O(i)
    BY <1>1
  <2> HIDE DEF I, O
  <2> QED BY <1>2, <2>1
<1>4. M!Rate(lo, hi) = IF over = {} THEN <<0, 1>> ELSE CHOOSE r1 \in over : \A q \in over : q[1] * r1[2] <= r1[1] * q[2]
  BY DEF M!Rate
<1> DEFINE Most(k, m) == m \in I /\ m <= k /\ \A i \in I : i <= k => O(i)[1] * O(m)[2] <= O(m)[1] * O(i)[2]
           U == {k \in Nat : (\A i \in I : i > k) \/ \E m \in I : Most(k, m)}
<1> HIDE DEF over, r
<1>5. \A i \in I : i \in 1..(Knots - 1) /\ i \in Nat /\ O(i)[1] \in Int /\ O(i)[2] \in Int /\ O(i)[2] > 0 /\ O(i)[1] >= 0
  BY <1>0, <1>1
<1>a. \A i \in 1..(Knots - 1) : T(i + 1) > lo /\ T(i) < hi => i \in I
  OBVIOUS
<1>b. \A i \in 1..(Knots - 1) : O(i)[1] = M!Size(Climbs(i)) /\ O(i)[2] = Span(i)
  BY <1>1
<1> HIDE DEF I, O
<1>6. 0 \in U
  BY <1>5
<1>7. ASSUME NEW k \in Nat, k \in U PROVE k + 1 \in U
  <2>1. CASE k + 1 \notin I
    <3>1. \A i \in I : i <= k + 1 <=> i <= k
      BY <1>5, <2>1
    <3>2. CASE \A i \in I : i > k
      <4>1. \A i \in I : i > k + 1
        BY <1>5, <2>1, <3>2
      <4> QED BY <4>1
    <3>3. CASE \E m \in I : Most(k, m)
      BY <1>5, <3>1, <3>3
    <3> QED BY <1>7, <3>2, <3>3
  <2>2. CASE k + 1 \in I
    <3> DEFINE n == k + 1
    <3>1. \A i \in I : i <= n <=> i <= k \/ i = n
      BY <1>5
    <3>2. O(n)[1] \in Int /\ O(n)[2] \in Int /\ O(n)[2] > 0
      BY <1>5, <2>2
    <3>3. CASE \A i \in I : i > k
      <4>1. ASSUME NEW i \in I, i <= n PROVE i = n
        BY <1>5, <3>3, <4>1
      <4>2. O(n)[1] * O(n)[2] <= O(n)[1] * O(n)[2]
        <5>1. O(n)[1] * O(n)[2] \in Int
          BY <3>2, SMT
        <5> QED BY <5>1
      <4>3. Most(n, n)
        BY <2>2, <4>1, <4>2
      <4> QED BY <2>2, <4>3
    <3>4. CASE \E m \in I : Most(k, m)
      <4>1. PICK m \in I : Most(k, m)
        BY <3>4
      <4>2. O(m)[1] \in Int /\ O(m)[2] \in Int /\ O(m)[2] > 0 /\ m <= k /\ m \in Nat
        BY <1>5, <4>1
      <4>3. O(n)[1] * O(m)[2] \in Int /\ O(m)[1] * O(n)[2] \in Int /\ O(n)[1] * O(n)[2] \in Int
        BY <3>2, <4>2, SMT
      <4>4. CASE O(n)[1] * O(m)[2] <= O(m)[1] * O(n)[2]
        <5>1. Most(n, m)
          BY <3>1, <4>1, <4>2, <4>4
        <5> QED BY <5>1
      <4>5. CASE ~(O(n)[1] * O(m)[2] <= O(m)[1] * O(n)[2])
        <5>1. O(m)[1] * O(n)[2] <= O(n)[1] * O(m)[2]
          BY <4>3, <4>5
        <5>2. ASSUME NEW i \in I, i <= n PROVE O(i)[1] * O(n)[2] <= O(n)[1] * O(i)[2]
          <6>1. CASE i = n
            BY <4>3, <6>1
          <6>2. CASE i # n
            <7>1. O(i)[1] * O(m)[2] <= O(m)[1] * O(i)[2]
              BY <3>1, <4>1, <5>2, <6>2
            <7>2. O(i)[1] \in Int /\ O(i)[2] \in Int /\ O(i)[2] > 0
              BY <1>5
            <7> DEFINE a == O(i)[1]
                       b == O(i)[2]
                       c == O(m)[1]
                       d == O(m)[2]
                       e == O(n)[1]
                       f == O(n)[2]
            <7>3. a \in Int /\ b \in Int /\ c \in Int /\ d \in Int /\ e \in Int /\ f \in Int
                  /\ b > 0 /\ d > 0 /\ f > 0 /\ a * d <= c * b /\ c * f <= e * d
              BY <3>2, <4>2, <5>1, <7>1, <7>2
            <7> HIDE DEF a, b, c, d, e, f
            <7>4. a * f <= e * b
              BY <7>3, SteeperStill
            <7> QED BY <7>4 DEF a, b, e, f
          <6> QED BY <6>1, <6>2
        <5>3. Most(n, n)
          BY <2>2, <5>2
        <5> QED BY <2>2, <5>3
      <4> QED BY <4>4, <4>5
    <3> QED BY <1>7, <3>3, <3>4
  <2> QED BY <2>1, <2>2
<1>8. Nat \subseteq U
  <2> HIDE DEF U
  <2> QED BY <1>6, <1>7, PlaceByPlace
<1>9. CASE I = {}
  <2>1. r = <<0, 1>>
    BY <1>3, <1>4, <1>9 DEF r
  <2>2. r[1] = 0 /\ r[2] = 1
    BY <2>1
  <2> QED BY <1>a, <1>9, <2>2 DEF r
<1>10. CASE I # {}
  <2>1. PICK m \in I : Most(Knots, m)
    <3>1. ~(\A i \in I : i > Knots)
      BY <1>0, <1>5, <1>10
    <3> QED BY <1>0, <1>8, <3>1
  <2>2. \A i \in I : i <= Knots
    BY <1>0, <1>5
  <2>3. O(m) \in over /\ \A q \in over : q[1] * O(m)[2] <= O(m)[1] * q[2]
    BY <1>3, <2>1, <2>2
  <2>4. r \in over /\ \A q \in over : q[1] * r[2] <= r[1] * q[2]
    BY <1>4, <2>3 DEF r
  <2>5. PICK l \in I : r = O(l)
    BY <1>3, <2>4
  <2>6. r[1] \in Int /\ r[1] >= 0 /\ r[2] \in Int /\ r[2] > 0
    BY <1>5, <2>5
  <2>7. ASSUME NEW i \in I PROVE Bounds(r, i)
    <3>1. O(i)[1] * r[2] <= r[1] * O(i)[2]
      BY <1>3, <2>4
    <3>2. O(i)[1] = M!Size(Climbs(i)) /\ O(i)[2] = Span(i)
      BY <1>5, <1>b
    <3> QED BY <3>1, <3>2 DEF Bounds
  <2> QED BY <1>a, <2>6, <2>7 DEF r
<1> QED BY <1>9, <1>10

------------------------------------------------------------------------------
(* How far two values lie from each other *)

(* No further than y from nothing. *)
Near(z, y) == z <= y /\ -z <= y

(* The values a at x and b at y lie no further from each other than the rate r allows. *)
Close(r, a, x, b, y) == Near((b[1] * a[2] - a[1] * b[2]) * r[2], r[1] * (y - x) * a[2] * b[2])

(* Two values on one line. *)
LEMMA LineRise ==
    ASSUME NEW a1 \in Int, NEW a2 \in Int, NEW b1 \in Int, NEW b2 \in Int, NEW v \in Int, NEW c \in Int, NEW k \in Int,
           NEW e \in Int, NEW f \in Int, a1 * k = a2 * (v * k + c * e), b1 * k = b2 * (v * k + c * f)
    PROVE  (b1 * a2 - a1 * b2) * k = (a2 * b2 * (f - e)) * c
<1>1. (b1 * a2 - a1 * b2) * k = (b1 * k) * a2 - (a1 * k) * b2
  BY SMT
<1>2. (b2 * (v * k + c * f)) * a2 - (a2 * (v * k + c * e)) * b2 = (a2 * b2 * (f - e)) * c
  BY SMT
<1> QED BY <1>1, <1>2

LEMMA SameLine ==
    ASSUME NEW a1 \in Int, NEW a2 \in Int, NEW b1 \in Int, NEW b2 \in Int, NEW v \in Int, NEW c \in Int, NEW k \in Int,
           NEW e \in Int, NEW f \in Int, NEW r1 \in Int, NEW r2 \in Int,
           a1 * k = a2 * (v * k + c * e), b1 * k = b2 * (v * k + c * f),
           a2 > 0, b2 > 0, k > 0, e <= f, c * r2 <= r1 * k, (-c) * r2 <= r1 * k
    PROVE  Near((b1 * a2 - a1 * b2) * r2, r1 * (f - e) * a2 * b2)
<1> DEFINE z == b1 * a2 - a1 * b2
           w == a2 * b2 * (f - e)
<1>1. z * k = w * c
  BY LineRise
<1>2. w \in Int /\ w >= 0 /\ z \in Int
  <2>1. a2 * b2 \in Int /\ a2 * b2 > 0 /\ f - e \in Int /\ f - e >= 0
    BY Positive
  <2> DEFINE g == a2 * b2
             h == f - e
  <2>2. g \in Int /\ g > 0 /\ h \in Int /\ h >= 0
    BY <2>1
  <2>3. w = g * h /\ z \in Int
    BY SMT
  <2> HIDE DEF g, h, w
  <2>4. g * h \in Int /\ g * h >= 0
    BY <2>2, SMT
  <2> QED BY <2>3, <2>4
<1>3. r1 * (f - e) * a2 * b2 = r1 * w
  BY SMT
<1> HIDE DEF z, w
<1>4. z * r2 <= r1 * w
  <2>1. (c * r2) * w <= (r1 * k) * w
    <3>1. c * r2 \in Int /\ r1 * k \in Int
      BY SMT
    <3> QED BY <1>2, <3>1, Multiplied
  <2>2. (c * r2) * w = (z * r2) * k
    <3>1. (c * r2) * w = (w * c) * r2 /\ (z * k) * r2 = (z * r2) * k
      BY <1>2, SMT
    <3> QED BY <1>1, <3>1
  <2>3. (r1 * k) * w = (r1 * w) * k
    BY <1>2, SMT
  <2>4. z * r2 \in Int /\ r1 * w \in Int
    BY <1>2, SMT
  <2> QED BY <2>1, <2>2, <2>3, <2>4, Cancelled
<1>5. -(z * r2) <= r1 * w
  <2>1. ((-c) * r2) * w <= (r1 * k) * w
    <3>1. (-c) * r2 \in Int /\ r1 * k \in Int
      BY SMT
    <3> QED BY <1>2, <3>1, Multiplied
  <2>2. ((-c) * r2) * w = (-(z * r2)) * k
    <3>1. ((-c) * r2) * w = -((w * c) * r2) /\ -((z * k) * r2) = (-(z * r2)) * k
      BY <1>2, SMT
    <3> QED BY <1>1, <3>1
  <2>3. (r1 * k) * w = (r1 * w) * k
    BY <1>2, SMT
  <2>4. -(z * r2) \in Int /\ r1 * w \in Int
    BY <1>2, SMT
  <2> QED BY <2>1, <2>2, <2>3, <2>4, Cancelled
<1> QED BY <1>3, <1>4, <1>5 DEF Near, z

(* What is close to a knot from both sides is close. *)
LEMMA OverAKnot ==
    ASSUME NEW a1 \in Int, NEW a2 \in Int, NEW b1 \in Int, NEW b2 \in Int, NEW v \in Int, NEW r1 \in Int, NEW r2 \in Int,
           NEW x \in Int, NEW m \in Int, NEW y \in Int, a2 > 0, b2 > 0,
           Near((v * a2 - a1 * 1) * r2, r1 * (m - x) * a2 * 1), Near((b1 * 1 - v * b2) * r2, r1 * (y - m) * 1 * b2)
    PROVE  Near((b1 * a2 - a1 * b2) * r2, r1 * (y - x) * a2 * b2)
<1> DEFINE p == (v * a2 - a1) * r2
           q == (b1 - v * b2) * r2
           s == r1 * (m - x) * a2
           t == r1 * (y - m) * b2
<1>1. p \in Int /\ q \in Int /\ s \in Int /\ t \in Int
  BY SMT
<1>2. p <= s /\ -p <= s /\ q <= t /\ -q <= t
  <2>1. (v * a2 - a1 * 1) * r2 = p /\ r1 * (m - x) * a2 * 1 = s /\ (b1 * 1 - v * b2) * r2 = q /\ r1 * (y - m) * 1 * b2 = t
    BY SMT
  <2> QED BY <2>1 DEF Near
<1>3. (b1 * a2 - a1 * b2) * r2 = q * a2 + p * b2
  BY SMT
<1>4. r1 * (y - x) * a2 * b2 = t * a2 + s * b2
  BY SMT
<1> HIDE DEF p, q, s, t
<1>5. q * a2 <= t * a2 /\ (-q) * a2 <= t * a2 /\ p * b2 <= s * b2 /\ (-p) * b2 <= s * b2
  <2>1. -q \in Int /\ -p \in Int /\ a2 >= 0 /\ b2 >= 0
    BY <1>1
  <2> QED BY <1>1, <1>2, <2>1, Multiplied
<1>6. (-q) * a2 = -(q * a2) /\ (-p) * b2 = -(p * b2)
  BY <1>1, SMT
<1>7. q * a2 \in Int /\ p * b2 \in Int /\ t * a2 \in Int /\ s * b2 \in Int
  BY <1>1, SMT
<1>8. q * a2 + p * b2 <= t * a2 + s * b2 /\ -(q * a2 + p * b2) <= t * a2 + s * b2
  <2> DEFINE k == q * a2
             l == p * b2
             m1 == t * a2
             n1 == s * b2
  <2>1. k \in Int /\ l \in Int /\ m1 \in Int /\ n1 \in Int /\ k <= m1 /\ -k <= m1 /\ l <= n1 /\ -l <= n1
    BY <1>5, <1>6, <1>7
  <2> HIDE DEF k, l, m1, n1
  <2>2. k + l <= m1 + n1 /\ -(k + l) <= m1 + n1
    BY <2>1
  <2> QED BY <2>2 DEF k, l, m1, n1
<1> QED BY <1>3, <1>4, <1>8 DEF Near

(* What a rate allows, said of both ways *)
LEMMA BothWays ==
    ASSUME NEW c \in Int, NEW r1 \in Int, NEW r2 \in Int, NEW k \in Int, r2 > 0, M!Size(c) * r2 <= r1 * k
    PROVE  c * r2 <= r1 * k /\ (-c) * r2 <= r1 * k
<1>1. M!Size(c) \in Int /\ c <= M!Size(c) /\ -c <= M!Size(c) /\ -c \in Int
  BY SizeIs
<1>2. c * r2 <= M!Size(c) * r2 /\ (-c) * r2 <= M!Size(c) * r2
  BY <1>1, Multiplied
<1>3. c * r2 \in Int /\ (-c) * r2 \in Int /\ M!Size(c) * r2 \in Int /\ r1 * k \in Int
  BY <1>1, SMT
<1> QED BY <1>2, <1>3

LEMMA OnLineAt ==
    ASSUME LawStands, NEW a, NEW i \in 1..(Knots - 1), NEW n \in Int, OnLine(a, i, n, 1)
    PROVE  a[1] * Span(i) = a[2] * (V(i) * Span(i) + Climbs(i) * (n - T(i))) /\ a[1] \in Int /\ a[2] \in Int /\ a[2] > 0
<1>1. T(i) \in Int /\ T(i + 1) \in Int /\ V(i) \in Int /\ V(i + 1) \in Int
  BY SegmentsAre
<1>2. (T(i + 1) - T(i)) * 1 = T(i + 1) - T(i) /\ T(i) * 1 = T(i)
  BY <1>1
<1> QED BY <1>2 DEF OnLine, Span, Climbs

(* On one segment *)
LEMMA CloseOnSegment ==
    ASSUME LawStands, NEW i \in 1..(Knots - 1), NEW r, r[1] \in Int, r[2] \in Int, r[2] > 0, Bounds(r, i),
           NEW x \in Int, NEW y \in Int, x <= y, NEW a, NEW b, OnLine(a, i, x, 1), OnLine(b, i, y, 1)
    PROVE  Close(r, a, x, b, y)
<1> DEFINE a1 == a[1]
           a2 == a[2]
           b1 == b[1]
           b2 == b[2]
           r1 == r[1]
           r2 == r[2]
           k == Span(i)
           c == Climbs(i)
           v == V(i)
           e == x - T(i)
           f == y - T(i)
<1>1. /\ T(i) \in Int /\ T(i + 1) \in Int /\ V(i) \in Int /\ V(i + 1) \in Int /\ T(i) < T(i + 1)
  BY SegmentsAre
<1>2. k \in Int /\ k > 0 /\ c \in Int /\ v \in Int /\ e \in Int /\ f \in Int /\ e <= f /\ f - e = y - x
  BY <1>1 DEF Span, Climbs
<1>3. a1 \in Int /\ a2 \in Int /\ a2 > 0 /\ b1 \in Int /\ b2 \in Int /\ b2 > 0
      /\ a1 * k = a2 * (v * k + c * e) /\ b1 * k = b2 * (v * k + c * f)
  BY OnLineAt
<1>4. r1 \in Int /\ r2 \in Int /\ r2 > 0 /\ M!Size(c) * r2 <= r1 * k
  BY DEF Bounds
<1> HIDE DEF a1, a2, b1, b2, r1, r2, k, c, v, e, f
<1>5. c * r2 <= r1 * k /\ (-c) * r2 <= r1 * k
  BY <1>2, <1>4, BothWays
<1>6. Near((b1 * a2 - a1 * b2) * r2, r1 * (f - e) * a2 * b2)
  BY <1>2, <1>3, <1>4, <1>5, SameLine
<1>7. Near((b1 * a2 - a1 * b2) * r2, r1 * (y - x) * a2 * b2)
  BY <1>2, <1>6
<1> QED BY <1>7 DEF Close, a1, a2, b1, b2, r1, r2

(* Over a knot *)
LEMMA CloseOverAKnot ==
    ASSUME NEW r, r[1] \in Int, r[2] \in Int, NEW a, a[1] \in Int, a[2] \in Int, a[2] > 0, NEW b, b[1] \in Int, b[2] \in Int, b[2] > 0,
           NEW v \in Int, NEW x \in Int, NEW m \in Int, NEW y \in Int, Close(r, a, x, <<v, 1>>, m), Close(r, <<v, 1>>, m, b, y)
    PROVE  Close(r, a, x, b, y)
<1> DEFINE a1 == a[1]
           a2 == a[2]
           b1 == b[1]
           b2 == b[2]
           r1 == r[1]
           r2 == r[2]
<1>1. <<v, 1>>[1] = v /\ <<v, 1>>[2] = 1
  OBVIOUS
<1>2. Near((v * a2 - a1 * 1) * r2, r1 * (m - x) * a2 * 1)
  BY <1>1 DEF Close
<1>3. Near((b1 * 1 - v * b2) * r2, r1 * (y - m) * 1 * b2)
  BY <1>1 DEF Close
<1>4. a1 \in Int /\ a2 \in Int /\ a2 > 0 /\ b1 \in Int /\ b2 \in Int /\ b2 > 0 /\ r1 \in Int /\ r2 \in Int
  OBVIOUS
<1> HIDE DEF a1, a2, b1, b2, r1, r2
<1>5. Near((b1 * a2 - a1 * b2) * r2, r1 * (y - x) * a2 * b2)
  BY <1>2, <1>3, <1>4, OverAKnot
<1> QED BY <1>5 DEF Close, a1, a2, b1, b2, r1, r2

LEMMA KnotOnLine ==
    ASSUME LawStands, NEW i \in 1..(Knots - 1)
    PROVE  OnLine(<<V(i), 1>>, i, T(i), 1) /\ OnLine(<<V(i + 1), 1>>, i, T(i + 1), 1)
<1> DEFINE s == T(i)
           u == T(i + 1)
           v == V(i)
           w == V(i + 1)
<1>1. s \in Int /\ u \in Int /\ v \in Int /\ w \in Int
  BY SegmentsAre
<1>2. \A x : <<x, 1>>[1] = x /\ <<x, 1>>[2] = 1
  OBVIOUS
<1> HIDE DEF s, u, v, w
<1>3. s * 1 = s /\ u * 1 = u /\ w * 1 = w
  BY <1>1
<1>4. v * ((u - s) * 1) = 1 * (v * ((u - s) * 1) + (w - v) * (s - s * 1))
  BY <1>1, <1>3, LineBegin
<1>5. (w * 1) * ((u - s) * 1) = 1 * (v * ((u - s) * 1) + (w - v) * (u - s * 1))
  BY <1>1, <1>3, LineEnd
<1>6. w * ((u - s) * 1) = 1 * (v * ((u - s) * 1) + (w - v) * (u - s * 1))
  BY <1>3, <1>5
<1>7. OnLine(<<v, 1>>, i, s, 1)
  <2> DEFINE p == <<v, 1>>
  <2>1. p[1] = v /\ p[2] = 1
    OBVIOUS
  <2> HIDE DEF p
  <2>2. p[1] \in Int /\ p[2] \in Int /\ p[2] > 0
        /\ p[1] * ((T(i + 1) - T(i)) * 1) = p[2] * (V(i) * ((T(i + 1) - T(i)) * 1) + (V(i + 1) - V(i)) * (s - T(i) * 1))
    BY <1>1, <1>4, <2>1 DEF s, u, v, w
  <2> QED BY <2>2 DEF OnLine, p
<1>8. OnLine(<<w, 1>>, i, u, 1)
  <2> DEFINE p == <<w, 1>>
  <2>1. p[1] = w /\ p[2] = 1
    OBVIOUS
  <2> HIDE DEF p
  <2>2. p[1] \in Int /\ p[2] \in Int /\ p[2] > 0
        /\ p[1] * ((T(i + 1) - T(i)) * 1) = p[2] * (V(i) * ((T(i + 1) - T(i)) * 1) + (V(i + 1) - V(i)) * (u - T(i) * 1))
    BY <1>1, <1>6, <2>1 DEF s, u, v, w
  <2> QED BY <2>2 DEF OnLine, p
<1> QED BY <1>7, <1>8 DEF s, u, v, w

(* Knot by knot: two values lie no further apart than the rate of the interval allows. *)
LEMMA RateOfValues ==
    ASSUME LawStands, NEW lo \in Int, NEW hi \in Int, lo < hi, T(1) <= lo, hi <= T(Knots)
    PROVE  Close(M!Rate(lo, hi), M!Value(<<lo, 1>>), lo, M!Value(<<hi, 1>>), hi)
<1> DEFINE r == M!Rate(lo, hi)
           a == M!Value(<<lo, 1>>)
           b == M!Value(<<hi, 1>>)
<1>0. Knots \in Nat /\ Knots >= 2 /\ 1 \in 1..Knots /\ Knots \in 1..Knots
  BY DEF LawStands
<1>a. \A m \in 1..Knots : T(m) \in Int /\ V(m) \in Int /\ T(m) * 1 = T(m)
  BY KnotsAre
<1>1. r[1] \in Int /\ r[2] \in Int /\ r[2] > 0 /\ \A i \in 1..(Knots - 1) : T(i + 1) > lo /\ T(i) < hi => Bounds(r, i)
  BY RateIs
<1>2. PICK i \in 1..(Knots - 1) : T(i) <= lo /\ lo < T(i + 1)
  <2>1. T(1) * 1 <= lo /\ lo < T(Knots) * 1 /\ lo <= T(Knots) * 1
    BY <1>0, <1>a
  <2>2. PICK i \in 1..(Knots - 1) : T(i) * 1 <= lo /\ lo < T(i + 1) * 1
    BY <2>1, SomeSegment
  <2>3. i \in 1..Knots /\ i + 1 \in 1..Knots
    BY <1>0
  <2> QED BY <1>a, <2>2, <2>3
<1>3. PICK j \in 1..(Knots - 1) : T(j) < hi /\ hi <= T(j + 1)
  <2>1. T(1) * 1 < hi /\ T(1) * 1 <= hi /\ hi <= T(Knots) * 1
    BY <1>0, <1>a
  <2>2. PICK j \in 1..(Knots - 1) : T(j) * 1 < hi /\ hi <= T(j + 1) * 1
    BY <2>1, SomeSegment
  <2>3. j \in 1..Knots /\ j + 1 \in 1..Knots
    BY <1>0
  <2> QED BY <1>a, <2>2, <2>3
<1>4. i \in Nat /\ j \in Nat /\ i \in 1..Knots /\ i + 1 \in 1..Knots /\ j \in 1..Knots /\ j + 1 \in 1..Knots
  BY <1>0
<1>5. OnLine(a, i, lo, 1)
  <2>1. T(i) * 1 <= lo /\ lo <= T(i + 1) * 1
    BY <1>2, <1>4, <1>a
  <2> QED BY <2>1, ValueOn
<1>6. OnLine(b, j, hi, 1)
  <2>1. T(j) * 1 <= hi /\ hi <= T(j + 1) * 1
    BY <1>3, <1>4, <1>a
  <2> QED BY <2>1, ValueOn
<1>7. a[1] \in Int /\ a[2] \in Int /\ a[2] > 0 /\ b[1] \in Int /\ b[2] \in Int /\ b[2] > 0
  BY <1>5, <1>6 DEF OnLine
<1> HIDE DEF r, a, b
<1>8. i <= j
  <2> SUFFICES ASSUME j < i PROVE FALSE
    BY <1>4
  <2>1. T(j + 1) <= T(i)
    <3>1. CASE j + 1 = i
      BY <1>4, <1>a, <3>1
    <3>2. CASE j + 1 < i
      BY <1>4, <1>a, <3>2, TimesGrow
    <3> QED BY <1>4, <3>1, <3>2
  <2> QED BY <1>2, <1>3, <1>4, <1>a, <2>1
<1>9. ASSUME NEW m \in 1..(Knots - 1), i <= m, m <= j PROVE Bounds(r, m)
  <2>1. m \in 1..Knots /\ m + 1 \in 1..Knots
    BY <1>0
  <2>2. T(m + 1) > lo
    <3>1. CASE m = i
      BY <1>2, <1>4, <1>a, <2>1, <3>1
    <3>2. CASE m # i
      <4>1. T(i + 1) < T(m + 1)
        BY <1>4, <1>9, <2>1, <3>2, TimesGrow
      <4> QED BY <1>2, <1>4, <1>a, <2>1, <4>1
    <3> QED BY <3>1, <3>2
  <2>3. T(m) < hi
    <3>1. CASE m = j
      BY <1>3, <3>1
    <3>2. CASE m # j
      <4>1. T(m) < T(j)
        BY <1>4, <1>9, <2>1, <3>2, TimesGrow
      <4> QED BY <1>3, <1>4, <1>a, <2>1, <4>1
    <3> QED BY <3>1, <3>2
  <2> QED BY <1>1, <2>2, <2>3
<1>10. CASE i = j
  <2>1. Bounds(r, i) /\ OnLine(b, i, hi, 1)
    BY <1>6, <1>9, <1>4, <1>10
  <2>2. Close(r, a, lo, b, hi)
    BY <1>1, <1>5, <2>1, CloseOnSegment
  <2> QED BY <2>2 DEF r, a, b
<1>11. CASE i # j
  <2> DEFINE At1(m) == Close(r, a, lo, <<V(m), 1>>, T(m))
             U == {n \in Nat : i + 1 + n <= j => At1(i + 1 + n)}
  <2>0. \A m \in 1..Knots : <<V(m), 1>>[1] \in Int /\ <<V(m), 1>>[2] \in Int /\ <<V(m), 1>>[2] > 0
    BY <1>a
  <2>1. 0 \in U
    <3>1. Bounds(r, i)
      BY <1>4, <1>8, <1>9
    <3>2. OnLine(<<V(i + 1), 1>>, i, T(i + 1), 1)
      BY KnotOnLine
    <3>3. T(i + 1) \in Int /\ lo <= T(i + 1)
      BY <1>2, <1>4, <1>a
    <3>4. At1(i + 1)
      BY <1>1, <1>5, <3>1, <3>2, <3>3, CloseOnSegment
    <3> HIDE DEF At1
    <3>5. i + 1 + 0 = i + 1
      BY <1>4
    <3> QED BY <3>4, <3>5
  <2>2. ASSUME NEW n \in Nat, n \in U PROVE n + 1 \in U
    <3> SUFFICES ASSUME i + 1 + (n + 1) <= j PROVE At1(i + 1 + (n + 1))
      OBVIOUS
    <3> DEFINE m == i + 1 + n
    <3>1. m \in 1..(Knots - 1) /\ m + 1 = i + 1 + (n + 1) /\ i <= m /\ m <= j /\ m \in 1..Knots /\ m + 1 \in 1..Knots
      BY <1>0, <1>4
    <3>2. At1(m)
      BY <2>2, <3>1
    <3>3. Bounds(r, m)
      BY <1>9, <3>1
    <3> HIDE DEF m
    <3>4. OnLine(<<V(m), 1>>, m, T(m), 1) /\ OnLine(<<V(m + 1), 1>>, m, T(m + 1), 1)
      BY <3>1, KnotOnLine
    <3>5. T(m) \in Int /\ T(m + 1) \in Int /\ T(m) <= T(m + 1) /\ V(m) \in Int /\ V(m + 1) \in Int
      BY <3>1, SegmentsAre
    <3>6. Close(r, <<V(m), 1>>, T(m), <<V(m + 1), 1>>, T(m + 1))
      BY <1>1, <3>1, <3>3, <3>4, <3>5, CloseOnSegment
    <3>7. Close(r, a, lo, <<V(m + 1), 1>>, T(m + 1))
      <4> DEFINE c == <<V(m + 1), 1>>
      <4>1. c[1] \in Int /\ c[2] \in Int /\ c[2] > 0
        BY <3>5
      <4> HIDE DEF c
      <4>2. Close(r, a, lo, c, T(m + 1))
        BY <1>1, <1>7, <3>2, <3>5, <3>6, <4>1, CloseOverAKnot DEF c
      <4> QED BY <4>2 DEF c
    <3> QED BY <3>1, <3>7
  <2>3. Nat \subseteq U
    <3> HIDE DEF U
    <3> QED BY <2>1, <2>2, PlaceByPlace
  <2>4. At1(j)
    <3>1. j - (i + 1) \in Nat /\ i + 1 + (j - (i + 1)) = j /\ j <= j
      BY <1>4, <1>8, <1>11
    <3>2. i + 1 + (j - (i + 1)) <= j => At1(i + 1 + (j - (i + 1)))
      BY <2>3, <3>1
    <3> HIDE DEF At1
    <3> QED BY <3>1, <3>2
  <2>5. Bounds(r, j)
    BY <1>4, <1>8, <1>9
  <2>6. OnLine(<<V(j), 1>>, j, T(j), 1)
    BY KnotOnLine
  <2>7. T(j) \in Int /\ V(j) \in Int /\ T(j) <= hi
    BY <1>3, <1>4, <1>a
  <2>8. Close(r, <<V(j), 1>>, T(j), b, hi)
    BY <1>1, <1>6, <2>5, <2>6, <2>7, CloseOnSegment
  <2>9. Close(r, a, lo, b, hi)
    BY <1>1, <1>7, <2>4, <2>7, <2>8, CloseOverAKnot
  <2> QED BY <2>9 DEF r, a, b
<1> QED BY <1>10, <1>11

(* A value is a quotient. *)
LEMMA ValueIsQuotient ==
    ASSUME LawStands, NEW n \in Int, T(1) <= n, n <= T(Knots)
    PROVE  M!Value(<<n, 1>>)[1] \in Int /\ M!Value(<<n, 1>>)[2] \in Int
<1>1. T(1) \in Int /\ T(Knots) \in Int
  BY KnotsAre DEF LawStands
<1>2. PICK i \in 1..(Knots - 1) : T(i) * 1 <= n /\ n <= T(i + 1) * 1
  BY <1>1, SomeSegment
<1>3. OnLine(M!Value(<<n, 1>>), i, n, 1)
  BY <1>2, ValueOn
<1> QED BY <1>3 DEF OnLine

(* No joint travels further than its rate allows. *)
LEMMA RatesBound == MechanismInv => M!RateBounds
<1> SUFFICES ASSUME MechanismInv, law # <<>>, NEW lo \in law[1][1]..M!Last(law)[1], NEW hi \in law[1][1]..M!Last(law)[1], lo < hi
             PROVE  LET a == M!Value(<<lo, 1>>)
                        b == M!Value(<<hi, 1>>)
                        r == M!Rate(lo, hi)
                    IN  M!Size(b[1] * a[2] - a[1] * b[2]) * r[2] <= r[1] * (hi - lo) * a[2] * b[2]
  BY DEF M!RateBounds
<1>1. LawStands
  BY LawIs
<1>2. law[1][1] = T(1) /\ M!Last(law)[1] = T(Knots) /\ 1 \in 1..Knots /\ Knots \in 1..Knots
  BY <1>1 DEF T, Knots, M!Last, LawStands
<1>3. lo \in Int /\ hi \in Int /\ T(1) <= lo /\ hi <= T(Knots)
  BY <1>1, <1>2, KnotsAre
<1>a. T(1) <= hi /\ lo <= T(Knots)
  BY <1>1, <1>2, <1>3, KnotsAre
<1> DEFINE a == M!Value(<<lo, 1>>)
           b == M!Value(<<hi, 1>>)
           r == M!Rate(lo, hi)
           z == b[1] * a[2] - a[1] * b[2]
           y == r[1] * (hi - lo) * a[2] * b[2]
<1>4. Close(r, a, lo, b, hi)
  BY <1>1, <1>3, RateOfValues
<1>5. z * r[2] <= y /\ -(z * r[2]) <= y
  BY <1>4 DEF Close, Near
<1>6. a[1] \in Int /\ a[2] \in Int /\ b[1] \in Int /\ b[2] \in Int
  BY <1>1, <1>2, <1>3, <1>a, ValueIsQuotient
<1>7. r[2] \in Int
  BY <1>1, <1>3, RateIs
<1> HIDE DEF a, b, r, y
<1>8. z \in Int
  BY <1>6, SMT
<1> HIDE DEF z
<1>9. M!Size(z) = z \/ M!Size(z) = -z
  BY <1>8, SizeIs
<1>10. (-z) * r[2] = -(z * r[2])
  BY <1>7, <1>8, SMT
<1>11. M!Size(z) * r[2] <= y
  BY <1>5, <1>9, <1>10
<1> QED BY <1>11 DEF z, y, a, b, r

(* Products of three *)
LEMMA OnTheLine ==
    ASSUME NEW p \in Int, NEW q \in Int, NEW x \in Int, NEW l \in Int, NEW g \in Int, q > 0, p = x * q, p * l = q * g
    PROVE  x * l = g
<1>1. (x * l) * q = g * q
  <2>1. (x * q) * l = (x * l) * q /\ q * g = g * q
    BY SMT
  <2> QED BY <2>1
<1>2. x * l \in Int
  BY SMT
<1> QED BY <1>1, <1>2, CancelledEqual

(* A line that reads x between its ends has x between theirs. *)
LEMMA ReadBetween ==
    ASSUME NEW x \in Int, NEW v \in Int, NEW c \in Int, NEW l \in Int, NEW e \in Int, l > 0, 0 <= e, e <= l,
           x * l = v * l + c * e
    PROVE  (v - x) * (v + c - x) <= 0
<1> DEFINE a == v - x
           b == v + c - x
<1>1. a * l = -(c * e)
  BY SMT
<1>2. b * l = c * (l - e)
  <2>1. b * l = (v * l + c * l) - x * l /\ c * (l - e) = c * l - c * e /\ v * l \in Int /\ c * l \in Int /\ c * e \in Int /\ x * l \in Int
    BY SMT
  <2> QED BY <2>1
<1>3. a \in Int /\ b \in Int /\ l - e \in Int /\ l - e >= 0
  OBVIOUS
<1> DEFINE f == l - e
<1>4. (a * b) * (l * l) = -((c * c) * (e * f))
  <2>1. (a * b) * (l * l) = (a * l) * (b * l)
    BY <1>3, SMT
  <2>2. (-(c * e)) * (c * (l - e)) = -((c * c) * (e * (l - e)))
    BY SMT
  <2> QED BY <1>1, <1>2, <2>1, <2>2
<1>5. f \in Int /\ f >= 0
  BY <1>3
<1> HIDE DEF a, b, f
<1>6. e * f \in Int /\ e * f >= 0 /\ c * c \in Int /\ c * c >= 0
  BY <1>5, SMT
<1> DEFINE g == e * f
           h == c * c
           k == l * l
           m == a * b
<1>7. g \in Int /\ g >= 0 /\ h \in Int /\ h >= 0 /\ k \in Int /\ k > 0 /\ m \in Int
  BY <1>3, <1>6, SMT
<1>8. m * k = -(h * g)
  BY <1>4
<1> HIDE DEF g, h, k, m
<1>9. h * g >= 0 /\ h * g \in Int
  BY <1>7, SMT
<1>10. m * k <= 0 * k
  BY <1>7, <1>8, <1>9
<1>11. m <= 0
  BY <1>7, <1>10, Cancelled
<1> QED BY <1>11 DEF m, a, b

(* Squares and products of what is not negative. *)
LEMMA SquareIsNone ==
    ASSUME NEW a \in Int, a * a <= 0
    PROVE  a = 0
BY SMT

LEMMA WithinSpan ==
    ASSUME NEW g \in Int, NEW d \in Int, d > 0, g * (d - g) >= 0
    PROVE  0 <= g /\ g <= d
BY SMT

------------------------------------------------------------------------------
(* The first segment that reads a value *)

(* A segment whose ends lie on either side of x, and where its line reads x. *)
Crosses(x, i) == (V(i) - x) * (V(i + 1) - x) <= 0
Facing(c) == IF c < 0 THEN -1 ELSE 1
DriveOn(x, j) == IF Climbs(j) = 0 THEN <<T(j), 1>>
                 ELSE <<Facing(Climbs(j)) * (T(j) * Climbs(j) + Span(j) * (x - V(j))), M!Size(Climbs(j))>>

(* DriveAt is that place on the first such segment. *)
LEMMA DriveIs ==
    ASSUME LawStands, NEW x \in Int, NEW i \in 1..(Knots - 1), Crosses(x, i)
    PROVE  \E j \in 1..(Knots - 1) : j <= i /\ Crosses(x, j) /\ M!DriveAt(x) = DriveOn(x, j)
<1> DEFINE reads == {s \in M!Segments : (s[1][2] - x) * (s[2][2] - x) <= 0}
           I == {j \in 1..(Knots - 1) : Crosses(x, j)}
<1>0. Knots \in Nat /\ Knots >= 2
  BY DEF LawStands
<1>1. \A j \in 1..(Knots - 1) : /\ Segment(j)[1][2] = V(j) /\ Segment(j)[2][2] = V(j + 1) /\ Segment(j)[1][1] = T(j)
                                /\ M!Rise(Segment(j)) = Climbs(j) /\ M!Run(Segment(j)) = Span(j)
  BY SegmentsAre DEF V, T, Climbs, Span
<1>2. reads = {Segment(j) : j \in I}
  <2>1. M!Segments = {Segment(j) : j \in 1..(Knots - 1)}
    BY SegmentsAre
  <2>2. \A j \in 1..(Knots - 1) : (Segment(j)[1][2] - x) * (Segment(j)[2][2] - x) <= 0 <=> j \in I
    BY <1>1 DEF Crosses
  <2>3. I \subseteq 1..(Knots - 1)
    OBVIOUS
  <2> HIDE DEF I
  <2> QED BY <2>1, <2>2, <2>3
<1>3. PICK j \in I : \A k \in I : j <= k
  <2>1. I \in SUBSET Nat /\ i \in I
    OBVIOUS
  <2> HIDE DEF I
  <2> QED BY <2>1, SmallestOf
<1>4. i \in I /\ I \subseteq 1..(Knots - 1) /\ j <= i /\ Crosses(x, j)
  BY <1>3
<1> HIDE DEF I
<1>5. \A k \in I : k = j \/ T(j) < T(k)
  <2>1. ASSUME NEW k \in I, k # j PROVE T(j) < T(k)
    <3>1. j \in 1..Knots /\ k \in 1..Knots /\ j < k
      BY <1>0, <1>3, <1>4, <2>1
    <3> QED BY <3>1, TimesGrow
  <2> QED BY <2>1
<1>6. \A k \in I : T(k) \in Int
  BY <1>4, SegmentsAre
<1>7. Segment(j) \in reads /\ \A q \in reads : Segment(j)[1][1] <= q[1][1]
  BY <1>1, <1>2, <1>3, <1>4, <1>5, <1>6
<1>8. ASSUME NEW s \in reads, \A q \in reads : s[1][1] <= q[1][1] PROVE s = Segment(j)
  <2>1. PICK k \in I : s = Segment(k)
    BY <1>2
  <2>2. T(k) <= T(j)
    BY <1>1, <1>3, <1>4, <1>7, <1>8, <2>1
  <2> QED BY <1>3, <1>5, <1>6, <2>1, <2>2
<1>9. M!First(reads) = Segment(j)
  <2> HIDE DEF reads
  <2> QED BY <1>7, <1>8 DEF M!First
<1>10. reads # {}
  BY <1>7
<1>11. M!DriveAt(x) = LET s == M!First(reads)
                        sign == IF M!Rise(s) < 0 THEN -1 ELSE 1
                    IN  IF M!Rise(s) = 0 THEN <<s[1][1], 1>>
                        ELSE <<sign * (s[1][1] * M!Rise(s) + M!Run(s) * (x - s[1][2])), M!Size(M!Rise(s))>>
  BY <1>10 DEF M!DriveAt
<1> HIDE DEF reads
<1>12. M!DriveAt(x) = DriveOn(x, j)
  BY <1>1, <1>4, <1>3, <1>9, <1>11 DEF DriveOn, Facing
<1> QED BY <1>3, <1>4, <1>12

(* The value a line reads where it is said to. *)
LEMMA ReadsThere ==
    ASSUME LawStands, NEW x \in Int, NEW j \in 1..(Knots - 1), Crosses(x, j)
    PROVE  LET at == DriveOn(x, j)
           IN  /\ at[1] \in Int /\ at[2] \in Int /\ at[2] > 0 /\ T(j) * at[2] <= at[1] /\ at[1] <= T(j + 1) * at[2]
               /\ M!Value(at)[1] = x * M!Value(at)[2]
               /\ Climbs(j) # 0 => at[1] = T(j) * at[2] + Span(j) * (Facing(Climbs(j)) * (x - V(j)))
<1> DEFINE at == DriveOn(x, j)
           c == Climbs(j)
           k == Span(j)
           s == T(j)
           v == V(j)
<1>1. c \in Int /\ k \in Int /\ k > 0 /\ s \in Int /\ v \in Int /\ T(j + 1) = s + k /\ V(j + 1) = v + c
  BY SegmentsAre DEF Climbs, Span
<1>2. (v - x) * (v + c - x) <= 0
  BY <1>1 DEF Crosses
<1>3. CASE c = 0
  <2>1. at = <<s, 1>>
    BY <1>3 DEF DriveOn
  <2>2. v - x = 0
    <3>1. v - x \in Int /\ (v - x) * (v - x) <= 0
      BY <1>1, <1>2, <1>3
    <3> QED BY <3>1, SquareIsNone
  <2>3. at[1] = s /\ at[2] = 1
    BY <2>1
  <2>4. T(j) * 1 <= s /\ s <= T(j + 1) * 1
    BY <1>1
  <2>5. OnLine(M!Value(<<s, 1>>), j, s, 1)
    BY <1>1, <2>4, ValueOn
  <2> DEFINE w == M!Value(<<s, 1>>)
  <2>6. w[1] * k = w[2] * (v * k + c * (s - s)) /\ w[1] \in Int /\ w[2] \in Int /\ w[2] > 0
    BY <1>1, <2>5, OnLineAt
  <2> HIDE DEF w
  <2>7. w[1] = x * w[2]
    <3>1. v * k + c * (s - s) = v * k /\ v * k \in Int /\ w[2] * v \in Int /\ w[2] * (v * k) = (w[2] * v) * k
      <4>1. c * (s - s) = 0
        BY <1>1, <1>3
      <4> QED BY <1>1, <2>6, <4>1, SMT
    <3>2. w[1] * k = (w[2] * v) * k
      BY <2>6, <3>1
    <3>3. w[1] = w[2] * v
      BY <1>1, <2>6, <3>1, <3>2, CancelledEqual
    <3>4. v = x
      BY <1>1, <2>2
    <3> QED BY <1>1, <2>6, <3>3, <3>4, SMT
  <2> QED BY <1>1, <1>3, <2>1, <2>3, <2>4, <2>7 DEF w
<1>4. CASE c # 0
  <2> DEFINE d == M!Size(c)
             o == Facing(c)
             n == o * (s * c + k * (x - v))
             g == o * (x - v)
             w == M!Value(<<n, d>>)
  <2>1. at = <<n, d>>
    BY <1>4 DEF DriveOn
  <2>2. d \in Int /\ d > 0 /\ o * c = d /\ (o = 1 \/ o = -1) /\ o \in Int /\ o * o = 1
    BY <1>1, <1>4 DEF M!Size, Facing
  <2>a. n = o * (s * c + k * (x - v)) /\ g = o * (x - v)
    OBVIOUS
  <2> HIDE DEF d, o
  <2>b. c = o * d
    BY <1>1, <2>2
  <2>3. n \in Int /\ g \in Int
    BY <1>1, <2>2, SMT
  <2>4. n = s * d + k * g
    <3>1. o * (s * c + k * (x - v)) = s * (o * c) + k * (o * (x - v))
      BY <1>1, <2>2, SMT
    <3> QED BY <2>2, <3>1
  <2>5. g * (d - g) >= 0
    <3>1. (v - x) * (v + c - x) = -(g * (d - g))
      <4>1. CASE o = 1
        <5>1. g = x - v /\ d = c
          BY <1>1, <2>2, <4>1
        <5>2. (v - x) * (v + c - x) = -((x - v) * (c - (x - v)))
          BY <1>1, SMT
        <5> QED BY <5>1, <5>2
      <4>2. CASE o = -1
        <5>1. g = v - x /\ d = -c
          BY <1>1, <2>2, <4>2
        <5>2. (v - x) * (v + c - x) = -((v - x) * (-c - (v - x)))
          BY <1>1, SMT
        <5> QED BY <5>1, <5>2
      <4> QED BY <2>2, <4>1, <4>2
    <3>2. g * (d - g) \in Int
      BY <2>2, <2>3, SMT
    <3> QED BY <1>2, <3>1, <3>2
  <2> HIDE DEF n, g
  <2>6. 0 <= g /\ g <= d
    BY <2>2, <2>3, <2>5, WithinSpan
  <2>7. T(j) * d <= n /\ n <= T(j + 1) * d
    <3>1. 0 <= k * g /\ k * g <= k * d /\ k * g \in Int /\ k * d \in Int /\ s * d \in Int /\ (s + k) * d = s * d + k * d
      BY <1>1, <2>2, <2>3, <2>6, SMT
    <3> QED BY <1>1, <2>4, <3>1
  <2>8. OnLine(w, j, n, d)
    BY <2>2, <2>3, <2>7, ValueOn
  <2>9. w[1] \in Int /\ w[2] \in Int /\ w[2] > 0 /\ w[1] * (k * d) = w[2] * (v * (k * d) + c * (n - s * d))
    <3>1. T(j + 1) - T(j) = k /\ V(j + 1) - V(j) = c
      BY <1>1
    <3> HIDE DEF w, k, c
    <3> QED BY <2>8, <3>1 DEF OnLine
  <2>c. M!Value(at) = w /\ at[1] = n /\ at[2] = d
    BY <2>1
  <2> HIDE DEF w, at, s, v, c, k
  <2>10. w[1] = x * w[2]
    <3>1. n - s * d = k * g
      <4>1. s * d \in Int /\ k * g \in Int
        BY <1>1, <2>2, <2>3, SMT
      <4> QED BY <2>4, <4>1
    <3>2. c * (k * g) = (x - v) * (k * d)
      <4>1. c * g = d * (x - v)
        <5>1. c * g = (o * c) * (x - v)
          BY <1>1, <2>2, SMT DEF g
        <5> QED BY <2>2, <5>1
      <4>2. c * (k * g) = k * (c * g) /\ (x - v) * (k * d) = k * (d * (x - v))
        BY <1>1, <2>2, <2>3, SMT
      <4> QED BY <4>1, <4>2
    <3>3. v * (k * d) + (x - v) * (k * d) = x * (k * d)
      BY <1>1, <2>2, SMT
    <3>4. w[1] * (k * d) = w[2] * (x * (k * d))
      BY <2>9, <3>1, <3>2, <3>3
    <3> DEFINE l == k * d
               p == w[1]
               q == w[2]
    <3>5. l \in Int /\ l > 0
      BY <1>1, <2>2, Positive
    <3>6. p \in Int /\ q \in Int /\ p * l = q * (x * l)
      BY <2>9, <3>4
    <3> HIDE DEF l, p, q
    <3>7. p * l = (x * q) * l /\ x * q \in Int
      <4>1. q * (x * l) = (x * q) * l /\ x * q \in Int
        BY <3>5, <3>6, SMT
      <4> QED BY <3>6, <4>1
    <3>8. p = x * q
      BY <3>5, <3>6, <3>7, CancelledEqual
    <3> QED BY <3>8 DEF p, q
  <2>11. n = s * d + k * (o * (x - v))
    BY <2>4 DEF g
  <2> QED BY <2>2, <2>3, <2>7, <2>10, <2>c, <2>11 DEF at, s, k, v, c, o
<1> QED BY <1>3, <1>4

(* No time before it reads the value. *)
LEMMA ReadsNoneBefore ==
    ASSUME LawStands, NEW x \in Int, NEW n \in Int, NEW d \in Int, d > 0, T(1) * d <= n, n <= T(Knots) * d,
           M!Value(<<n, d>>)[1] = x * M!Value(<<n, d>>)[2]
    PROVE  LET at == M!DriveAt(x)
           IN  M!Value(at)[1] = x * M!Value(at)[2] /\ at[1] * d <= n * at[2]
<1>0. Knots \in Nat /\ Knots >= 2
  BY DEF LawStands
<1>1. PICK i \in 1..(Knots - 1) : T(i) * d <= n /\ n <= T(i + 1) * d
  BY SomeSegment
<1> DEFINE w == M!Value(<<n, d>>)
           c == Climbs(i)
           k == Span(i)
           s == T(i)
           v == V(i)
           l == k * d
           e == n - s * d
<1>2. c \in Int /\ k \in Int /\ k > 0 /\ s \in Int /\ v \in Int /\ T(i + 1) = s + k /\ V(i + 1) = v + c
      /\ T(i + 1) - T(i) = k /\ V(i + 1) - V(i) = c
  BY SegmentsAre DEF Climbs, Span
<1>3. OnLine(w, i, n, d)
  BY <1>1, ValueOn
<1>4. w[1] \in Int /\ w[2] \in Int /\ w[2] > 0 /\ w[1] * l = w[2] * (v * l + c * e) /\ w[1] = x * w[2]
  BY <1>2, <1>3 DEF OnLine
<1>5. l \in Int /\ l > 0 /\ e \in Int /\ 0 <= e /\ e <= l
  <2>1. l \in Int /\ l > 0
    <3> HIDE DEF k
    <3> QED BY <1>2, Positive
  <2>2. s * d \in Int /\ (s + k) * d = s * d + k * d
    <3> HIDE DEF s, k
    <3> QED BY <1>2, SMT
  <2> QED BY <1>1, <1>2, <2>1, <2>2
<1> HIDE DEF w, c, k, s, v, l, e
<1>6. x * l = v * l + c * e
  <2> DEFINE p == w[1]
             q == w[2]
             g == v * l + c * e
  <2>1. p \in Int /\ q \in Int /\ q > 0 /\ p = x * q /\ p * l = q * g
    BY <1>4
  <2>2. g \in Int
    BY <1>2, <1>5, SMT
  <2> HIDE DEF p, q, g
  <2>3. x * l = g
    BY <1>5, <2>1, <2>2, OnTheLine
  <2> QED BY <2>3 DEF g
<1>7. (v - x) * (v + c - x) <= 0
  BY <1>2, <1>5, <1>6, ReadBetween
<1>8. Crosses(x, i)
  BY <1>2, <1>7 DEF Crosses, v
<1>9. PICK j \in 1..(Knots - 1) : j <= i /\ Crosses(x, j) /\ M!DriveAt(x) = DriveOn(x, j)
  BY <1>8, DriveIs
<1> DEFINE at == DriveOn(x, j)
<1>10. /\ at[1] \in Int /\ at[2] \in Int /\ at[2] > 0 /\ T(j) * at[2] <= at[1] /\ at[1] <= T(j + 1) * at[2]
       /\ M!Value(at)[1] = x * M!Value(at)[2]
       /\ Climbs(j) # 0 => at[1] = T(j) * at[2] + Span(j) * (Facing(Climbs(j)) * (x - V(j)))
  BY <1>9, ReadsThere
<1>b. Climbs(j) # 0 => at[2] = M!Size(Climbs(j))
  <2> SUFFICES ASSUME Climbs(j) # 0 PROVE at[2] = M!Size(Climbs(j))
    OBVIOUS
  <2>1. at = <<Facing(Climbs(j)) * (T(j) * Climbs(j) + Span(j) * (x - V(j))), M!Size(Climbs(j))>>
    BY DEF DriveOn
  <2> QED BY <2>1
<1>c. Climbs(j) = 0 => at[1] = T(j) /\ at[2] = 1
  <2> SUFFICES ASSUME Climbs(j) = 0 PROVE at[1] = T(j) /\ at[2] = 1
    OBVIOUS
  <2>1. at = <<T(j), 1>>
    BY DEF DriveOn
  <2> QED BY <2>1
<1> DEFINE b == at[1]
           f == at[2]
<1>11. b * d <= n * f
  <2>0. b \in Int /\ f \in Int /\ f > 0 /\ T(j) * f <= b /\ b <= T(j + 1) * f
    BY <1>10
  <2>1. T(j) \in Int /\ T(j + 1) \in Int /\ i \in 1..Knots /\ j \in 1..Knots /\ j + 1 \in 1..Knots /\ j \in Nat /\ i \in Nat
    BY <1>0, SegmentsAre
  <2>2. CASE j # i
    <3>1. T(j + 1) <= T(i)
      <4>1. CASE j + 1 = i
        BY <2>1, <4>1
      <4>2. CASE j + 1 # i
        <5>1. j + 1 < i
          BY <1>9, <2>1, <2>2, <4>2
        <5>2. T(j + 1) < T(i) /\ T(i) \in Int
          BY <2>1, <5>1, TimesGrow, KnotsAre
        <5> QED BY <2>1, <5>2
      <4> QED BY <4>1, <4>2
    <3> HIDE DEF b, f
    <3> DEFINE u == T(j + 1)
    <3>2. u \in Int /\ u <= s /\ b <= u * f /\ s * d <= n
      BY <1>1, <2>0, <2>1, <3>1 DEF s
    <3> HIDE DEF u
    <3>3. u * f <= s * f
      BY <1>2, <2>0, <3>2, Multiplied
    <3>4. b <= s * f
      <4>1. u * f \in Int /\ s * f \in Int
        BY <1>2, <2>0, <3>2, SMT
      <4> QED BY <2>0, <3>2, <3>3, <4>1
    <3>5. b * d <= (s * f) * d
      <4>1. s * f \in Int
        BY <1>2, <2>0, SMT
      <4> QED BY <2>0, <3>4, <4>1, Multiplied
    <3>6. (s * d) * f <= n * f
      <4>1. s * d \in Int
        BY <1>2, SMT
      <4> QED BY <2>0, <3>2, <4>1, Multiplied
    <3>7. (s * f) * d = (s * d) * f /\ b * d \in Int /\ (s * d) * f \in Int /\ n * f \in Int
      BY <1>2, <2>0, SMT
    <3> QED BY <3>5, <3>6, <3>7
  <2>3. CASE j = i /\ c = 0
    <3>1. b = s /\ f = 1
      BY <1>c, <2>3 DEF c, s
    <3>2. s * d <= n /\ n * 1 = n
      BY <1>1 DEF s
    <3> HIDE DEF b, f
    <3> QED BY <3>1, <3>2
  <2>4. CASE j = i /\ c # 0
    <3> DEFINE o == Facing(c)
    <3>1. b = s * f + k * (o * (x - v)) /\ f = M!Size(c)
      BY <1>10, <1>b, <2>4 DEF c, s, k, v
    <3>2. o * c = f /\ o \in Int
      BY <1>2, <2>4, <3>1 DEF Facing, M!Size
    <3> HIDE DEF o, b, f
    <3>3. (x - v) * (k * d) = c * e
      <4>1. x * (k * d) = v * (k * d) + c * e
        BY <1>6 DEF l
      <4>2. (x - v) * (k * d) = x * (k * d) - v * (k * d) /\ x * (k * d) \in Int /\ v * (k * d) \in Int /\ c * e \in Int
        BY <1>2, <1>5, SMT
      <4> QED BY <4>1, <4>2
    <3>4. (k * (o * (x - v))) * d = o * ((x - v) * (k * d))
      BY <1>2, <3>2, SMT
    <3>5. o * (c * e) = f * e
      <4>1. o * (c * e) = (o * c) * e
        BY <1>2, <1>5, <3>2, SMT
      <4> QED BY <3>2, <4>1
    <3>6. f * e = f * n - (s * f) * d
      <4>1. f * (n - s * d) = f * n - (s * f) * d
        BY <1>2, <2>0, SMT
      <4> QED BY <4>1 DEF e
    <3>7. b * d = (s * f) * d + (k * (o * (x - v))) * d
      <4>1. (s * f + k * (o * (x - v))) * d = (s * f) * d + (k * (o * (x - v))) * d
        BY <1>2, <2>0, <3>2, SMT
      <4> QED BY <3>1, <4>1
    <3>8. b * d = n * f
      <4>1. (k * (o * (x - v))) * d = f * n - (s * f) * d
        BY <3>3, <3>4, <3>5, <3>6
      <4>2. f * n \in Int /\ (s * f) * d \in Int /\ f * n = n * f
        BY <1>2, <2>0, SMT
      <4> QED BY <3>7, <4>1, <4>2
    <3>9. n * f \in Int
      BY <2>0, SMT
    <3> QED BY <3>8, <3>9
  <2> QED BY <2>2, <2>3, <2>4
<1> QED BY <1>9, <1>10, <1>11

(* A value is read where it is said to be, and not before. *)
LEMMA FirstIsRead == MechanismInv => M!ReadsFirst
<1> SUFFICES ASSUME MechanismInv, law # <<>>, NEW value \in {law[i][2] : i \in DOMAIN law} \union {0}, NEW t \in M!Times,
                    M!Value(t)[1] = value * M!Value(t)[2]
             PROVE  LET at == M!DriveAt(value)
                    IN  M!Value(at)[1] = value * M!Value(at)[2] /\ at[1] * t[2] <= t[1] * at[2]
  BY DEF M!ReadsFirst
<1>1. LawStands
  BY LawIs
<1>2. law[1][1] = T(1) /\ M!Last(law)[1] = T(Knots) /\ 1 \in 1..Knots /\ Knots \in 1..Knots /\ DOMAIN law = 1..Knots
  BY <1>1 DEF T, Knots, M!Last, LawStands
<1>3. value \in Int
  BY <1>1, <1>2, KnotsAre DEF V
<1>4. PICK n \in (2 * T(1))..(2 * T(Knots)) : t = <<n, 2>>
  BY <1>2 DEF M!Times
<1>5. T(1) \in Int /\ T(Knots) \in Int
  BY <1>1, <1>2, KnotsAre
<1>6. n \in Int /\ T(1) * 2 <= n /\ n <= T(Knots) * 2 /\ t[1] = n /\ t[2] = 2
  BY <1>4, <1>5
<1>7. M!Value(<<n, 2>>)[1] = value * M!Value(<<n, 2>>)[2]
  BY <1>4
<1>8. 2 \in Int /\ 2 > 0
  OBVIOUS
<1>9. LET at == M!DriveAt(value) IN M!Value(at)[1] = value * M!Value(at)[2] /\ at[1] * 2 <= n * at[2]
  BY <1>1, <1>3, <1>6, <1>7, <1>8, ReadsNoneBefore
<1> QED BY <1>6, <1>9


------------------------------------------------------------------------------
(* The theorem *)

(* A mechanism of any bodies, joints and laws is accepted as a tree and refused as a cycle for cause;
   two bodies the sweep is not told of have one pose, and of two that hang from one joint the one has the
   other's pose and that joint's motion; no joint outruns its rate, and a value is first read where it is
   said to be (mechanism.rs validate, moves_relative, single_joint_between,
   rate, drive_at). *)
THEOREM MechanismAlwaysRight == DocumentsSpec => []MechanismIsRight
<1>1. EitherWay => MechanismIsRight
  <2>1. ASSUME MechanismInv PROVE MechanismIsRight
    BY <2>1, JointsRight, RatesBound, FirstIsRead DEF MechanismIsRight, M!LawsAreRight
  <2>2. ASSUME Unread PROVE MechanismIsRight
    <3>1. M!TypeOK
      <4>1. Len(joints) \in Nat /\ M!ToSet(<<>>) = {} /\ Len(<<>>) = 0
        BY <2>2 DEF Unread, One, M!ToSet
      <4> QED BY <2>2, <4>1 DEF Unread, M!TypeOK
    <3>2. M!OnlyTrees /\ M!MovingPairsMove /\ M!SingleIsSingle
      BY <2>2 DEF Unread, M!OnlyTrees, M!MovingPairsMove, M!SingleIsSingle
    <3>3. M!RateBounds /\ M!ReadsFirst
      BY <2>2 DEF Unread, M!RateBounds, M!ReadsFirst
    <3> QED BY <3>1, <3>2, <3>3 DEF MechanismIsRight, M!JointsAreRight, M!LawsAreRight
  <2> QED BY <2>1, <2>2 DEF EitherWay
<1> QED BY <1>1, MechanismInvHolds, PTL
==============================================================================
