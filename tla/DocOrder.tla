------------------------------ MODULE DocOrder -------------------------------
(***************************************************************************)
(* What every reader of a document does first (crates/parcad-core/src/     *)
(* graph.rs): topo_order walks the graph from its root with a stack of its *)
(* own, in place of recursion, and refuses a cycle, a node that does not   *)
(* exist and bodies that are not a part's; body_materials then walks down  *)
(* from each body for what it wears.  A node is its operands and what its  *)
(* operation is to these walks; numbers, tags and checks are one answer,   *)
(* whether the rest of the document is valid.                              *)
(***************************************************************************)
EXTENDS Naturals, Sequences, FiniteSets

CONSTANTS
    Nodes,   \* the nodes of a document
    Ids,     \* what an operand may name: a node, or one that does not exist
    Root,    \* the node that is the part
    Docs,    \* the documents that are read
    Plain    \* no material

ASSUME NodesFinite == IsFiniteSet(Nodes)
ASSUME IdsType == Nodes \subseteq Ids /\ Root \in Ids

VARIABLES
    doc,      \* the document
    marks,    \* per node: "unvisited", "inProgress" or "done"
    stack,    \* what is left to visit, the top last
    order,    \* the order so far
    outcome,  \* "walking", "ordered", or why the document is refused
    look,     \* body_materials: the stack and the nodes seen, for the body it is at
    wears     \* what each body wears, so far

walkVars == <<marks, stack, order>>
lookVars == <<look, wears>>
vars == <<doc, marks, stack, order, outcome, look, wears>>

Outcomes == {"walking", "ordered", "missing", "cycle", "misplaced", "bodies", "rest"}

Visit(id) == [id |-> id, childrenDone |-> FALSE]
Leave(id) == [id |-> id, childrenDone |-> TRUE]
Entries == [id : Ids, childrenDone : BOOLEAN]

Children(n) == doc.children[n]
Top == stack[Len(stack)]

Below == SubSeq(stack, 1, Len(stack) - 1)
Visits(s) == [i \in 1..Len(s) |-> Visit(s[i])]

Walks(entry) == outcome = "walking" /\ stack # <<>> /\ Top = entry

------------------------------------------------------------------------------
(* topo_order: one turn of its loop each *)

(* The operands of a node are in the order: now the node is. *)
Finish(n) ==
    /\ Walks(Leave(n))
    /\ marks' = [marks EXCEPT ![n] = "done"]
    /\ order' = Append(order, n)
    /\ stack' = Below
    /\ UNCHANGED <<doc, outcome, lookVars>>

Skip(n) ==
    /\ Walks(Visit(n)) /\ marks[n] = "done"
    /\ stack' = Below
    /\ UNCHANGED <<doc, marks, order, outcome, lookVars>>

(* Mutant of Entered: the operands go under the node. *)
UnderIt(n) == Visits(Children(n)) \o <<Leave(n)>>

Entered(n) == <<Leave(n)>> \o Visits(Children(n))

Enter(n) ==
    /\ Walks(Visit(n)) /\ marks[n] = "unvisited"
    /\ marks' = [marks EXCEPT ![n] = "inProgress"]
    /\ stack' = Below \o Entered(n)
    /\ UNCHANGED <<doc, order, outcome, lookVars>>

Cycle(n) ==
    /\ Walks(Visit(n)) /\ marks[n] = "inProgress"
    /\ outcome' = "cycle"
    /\ UNCHANGED <<doc, walkVars, lookVars>>

Missing(id) ==
    /\ Walks(Visit(id)) /\ id \notin Nodes
    /\ outcome' = "missing"
    /\ UNCHANGED <<doc, walkVars, lookVars>>

IsBodies(n) == doc.op[n] = "bodies"

(* validate_bodies: several bodies are the root or nothing, and the root's are some, not all of
   them references, each of a name of its own. *)
Misplaced == \E i \in DOMAIN order : IsBodies(order[i]) /\ order[i] # Root
BodiesStand ==
    IsBodies(Root) =>
        /\ doc.bodies # <<>>
        /\ \E i \in DOMAIN doc.bodies : ~doc.bodies[i].reference
        /\ \A i, j \in DOMAIN doc.bodies : i # j => doc.bodies[i].name # doc.bodies[j].name

Judge ==
    /\ outcome = "walking" /\ stack = <<>>
    /\ outcome' = IF Misplaced THEN "misplaced"
                  ELSE IF ~BodiesStand THEN "bodies"
                  ELSE IF ~doc.rest THEN "rest" ELSE "ordered"
    /\ UNCHANGED <<doc, walkVars, lookVars>>

------------------------------------------------------------------------------
(* body_materials *)

Roots == IF IsBodies(Root) THEN Children(Root) ELSE <<Root>>

Looking == outcome = "ordered" /\ Len(wears) < Len(Roots)

(* The next body, or the end. *)
NextBody(k) == [todo |-> IF k <= Len(Roots) THEN <<Roots[k]>> ELSE <<>>, seen |-> {}]

Start ==
    /\ Looking /\ look.todo = <<>> /\ look.seen = {}
    /\ look' = NextBody(Len(wears) + 1)
    /\ UNCHANGED <<doc, walkVars, outcome, wears>>

Wear(material) ==
    /\ wears' = Append(wears, material)
    /\ look' = [todo |-> <<>>, seen |-> {}]

(* A cutter leaves no solid of its own, so it cannot colour one. *)
Operands(n) == IF doc.op[n] = "difference" THEN <<Children(n)[1]>> ELSE Children(n)

(* Mutant of Pushed: the last operand is looked at first. *)
Forward(s) == s

Pushed(s) == [i \in 1..Len(s) |-> s[Len(s) + 1 - i]]

(* Mutant of Left: the top is looked at and stays. *)
Whole(s) == s

Left(s) == SubSeq(s, 1, Len(s) - 1)

(* One turn of the loop: a node met before, a node with a material, or its operands. *)
LookAt(n) ==
    /\ Looking /\ look.todo # <<>> /\ n = look.todo[Len(look.todo)]
    /\ LET left == Left(look.todo)
       IN  \/ /\ n \in look.seen /\ left # <<>>
              /\ look' = [look EXCEPT !.todo = left]
              /\ UNCHANGED wears
           \/ /\ n \in look.seen /\ left = <<>>
              /\ Wear(Plain)
           \/ /\ n \notin look.seen /\ doc.material[n] # Plain
              /\ Wear(doc.material[n])
           \/ /\ n \notin look.seen /\ doc.material[n] = Plain
              /\ LET todo == left \o Pushed(Operands(n))
                 IN  IF todo = <<>> THEN Wear(Plain)
                     ELSE look' = [todo |-> todo, seen |-> look.seen \union {n}] /\ UNCHANGED wears
    /\ UNCHANGED <<doc, walkVars, outcome>>

------------------------------------------------------------------------------
(* A document as it is read: the types are serde's, and a difference has a base. *)
Read(d) ==
    /\ d.children \in [Nodes -> Seq(Ids)]
    /\ \A n \in Nodes : d.op[n] = "difference" => d.children[n] # <<>>

Init ==
    /\ doc \in {d \in Docs : Read(d)}
    /\ marks = [n \in Nodes |-> "unvisited"]
    /\ stack = <<Visit(Root)>>
    /\ order = <<>>
    /\ outcome = "walking"
    /\ look = [todo |-> <<>>, seen |-> {}]
    /\ wears = <<>>

Next ==
    \/ \E n \in Nodes : Finish(n) \/ Skip(n) \/ Enter(n) \/ Cycle(n)
    \/ \E id \in Ids : Missing(id)
    \/ Judge
    \/ Start
    \/ \E n \in Nodes : LookAt(n)

Spec == Init /\ [][Next]_vars
Fairness == WF_vars(Next)
FairSpec == Spec /\ Fairness

------------------------------------------------------------------------------
(* Properties *)

(* Every variable has its type, and the order is no longer than the part has nodes. *)
TypeOK ==
    /\ doc.children \in [Nodes -> Seq(Ids)]
    /\ marks \in [Nodes -> {"unvisited", "inProgress", "done"}]
    /\ stack \in Seq(Entries)
    /\ order \in Seq(Nodes) /\ Len(order) <= Cardinality(Nodes)
    /\ outcome \in Outcomes

OrderedNodes == {order[i] : i \in DOMAIN order}

(* The order lists a node once, and after everything it is made of: whoever builds along it has the
   operands of a node when they come to it (graph.rs topo_order). *)
ChildrenFirst ==
    /\ \A i, j \in DOMAIN order : i # j => order[i] # order[j]
    /\ \A i \in DOMAIN order : \A k \in DOMAIN Children(order[i]) :
           \E j \in DOMAIN order : j < i /\ order[j] = Children(order[i])[k]

ChildrenOf(S) == UNION {{Children(n)[k] : k \in DOMAIN Children(n)} : n \in S \intersect Nodes}
Closed(S) == ChildrenOf(S) \subseteq S
(* All that a node is made of: what is in every closed set that has its operands. *)
Under(n) == {id \in Ids : \A S \in SUBSET Ids : ChildrenOf({n}) \subseteq S /\ Closed(S) => id \in S}
Live == {Root} \union Under(Root)

(* A document is refused as a cycle or for a missing node only when its root does depend on one, and
   never passes when it does: a node that is shared is no cycle, and no part of the root is left
   unbuilt (graph.rs topo_order). *)
RefusedForCause ==
    /\ outcome = "cycle" => \E n \in Live \intersect Nodes : n \in Under(n)
    /\ outcome = "missing" => ~(Live \subseteq Nodes)
    /\ outcome \notin {"walking", "cycle", "missing"} =>
           /\ Live = OrderedNodes
           /\ \A n \in Live : n \notin Under(n)

(* What has been ordered can be built in that order, and what is refused cannot be ordered. *)
OrderStands == TypeOK /\ ChildrenFirst /\ RefusedForCause

(* The first material met walking down through each first operand before the next. *)
FirstOf(s) == IF \E i \in DOMAIN s : s[i] # Plain
              THEN s[CHOOSE i \in DOMAIN s : s[i] # Plain /\ \A j \in 1..(i - 1) : s[j] = Plain]
              ELSE Plain
WornIn(d, nodes) ==
    LET worn[n \in nodes] ==
            IF d.material[n] # Plain THEN d.material[n]
            ELSE LET of == IF d.op[n] = "difference" THEN <<d.children[n][1]>> ELSE d.children[n]
                 IN  FirstOf([i \in 1..Len(of) |-> worn[of[i]]])
    IN  worn
Worn == WornIn(doc, OrderedNodes)

(* Each body wears the material its shape says, then the first of its operands that has one, all the
   way down it before the next, and never that of a cutter: the nodes the walk has seen and passes
   over change no answer (graph.rs body_materials). *)
WearsTheFirst == outcome = "ordered" => \A k \in DOMAIN wears : wears[k] = Worn[Roots[k]]

(* The walk of any graph ends for good, with an order or with a refusal, and where there is an order
   each body is given its material (graph.rs topo_order, body_materials). *)
WalkEnds == <>[](outcome # "walking" /\ (outcome = "ordered" => Len(wears) = Len(Roots)))
==============================================================================
