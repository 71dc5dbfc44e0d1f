---- MODULE MCDocuments ----
(* Three readings of a document that share no state: the order of its nodes, the subtrees a worker
   keeps of it, and its mechanism.  One of them moves in a behaviour; the others wait with one document
   of their own. *)
EXTENDS DocOrder, Integers

Lists(S) == {<<>>} \union {<<a>> : a \in S} \union {<<a, b>> : a, b \in S}
Colours == [n \in 0..2 |-> {"", <<"red", "green", "blue">>[n + 1]}]
Of(a, b, c) == [n \in 0..2 |-> <<a, b, c>>[n + 1]]
Written(children, ops, material, named, rest) ==
    [children |-> children, op |-> ops, material |-> material, bodies |-> named, rest |-> rest]
Bare == Of("", "", "")
Other == Of("other", "other", "other")

(* Graphs of three nodes with up to two operands each, one of which may not exist. *)
Graphs3 == {Written(Of(a, b, c), Other, Bare, <<>>, TRUE) : a, b \in Lists(0..3), c \in {<<>>, <<0>>, <<1>>, <<2>>, <<3>>}}
(* Graphs without a cycle, with cuts and colours, and bodies in their place or out of it. *)
Trees == {Of(a, b, <<>>) : a \in Lists({1, 2}), b \in Lists({2})}
Wearing == {m \in [0..2 -> {"", "red", "green", "blue"}] : \A n \in 0..2 : m[n] \in Colours[n]}
Coloured == {Written(c, Of(o, p, "other"), m, <<>>, TRUE) : c \in Trees, o, p \in {"other", "difference"}, m \in Wearing}
Named == [name : {"base", "lid"}, reference : BOOLEAN]
Several == {Written(c, Of("bodies", p, "other"), m, b, TRUE) :
               c \in Trees, p \in {"other", "difference", "bodies"}, m \in Wearing, b \in Lists(Named)}
Unsound == {Written(c, Other, Bare, <<>>, FALSE) : c \in Trees}
MCDocs == Graphs3 \union Unsound \union Coloured
          \union {d \in Several : Len(d.bodies) = Len(d.children[0])}
D0 == INSTANCE DocOrder WITH Docs <- {Written(Of(<<>>, <<>>, <<>>), Other, Bare, <<>>, TRUE)}

CONSTANTS Documents, Requests, MaxBuilds
VARIABLES cache, generation, recent, asked, entries, work, pending, answer, rebuilt
C == INSTANCE WorkerCache
ASSUME CacheAssumption ==
    /\ \A d \in Documents : C!Ordered(d)
    /\ Requests \subseteq [docs : Seq(Documents) \ {<<>>}, uncached : BOOLEAN]
    /\ MaxBuilds \in Nat
cacheVars == <<cache, generation, recent, asked, entries, work, pending, answer, rebuilt>>

Text(op, children) == [op |-> op, children |-> children, root |-> Len(op)]
(* A rounded box beside a ball, the same with its lines in another order, and with another root. *)
Part == Text(<<"box", "round", "ball", "move", "union">>, <<<<>>, <<1>>, <<>>, <<3>>, <<2, 4>>>>)
Moved == Text(<<"ball", "move", "box", "round", "union">>, <<<<>>, <<1>>, <<>>, <<3>>, <<4, 2>>>>)
Cutting == Text(<<"box", "round", "ball", "move", "cut">>, <<<<>>, <<1>>, <<>>, <<3>>, <<2, 4>>>>)
(* A rounded box used twice, and the same with the box written twice. *)
Shared == Text(<<"box", "round", "move", "union">>, <<<<>>, <<1>>, <<2>>, <<2, 3>>>>)
Twice == Text(<<"box", "round", "box", "round", "move", "union">>, <<<<>>, <<1>>, <<>>, <<3>>, <<4>>, <<2, 5>>>>)
(* The part with an operation the kernel refuses, and a turned one. *)
Bad == Text(<<"box", "round", "ball", "move", "bad", "union">>, <<<<>>, <<1>>, <<>>, <<3>>, <<4>>, <<2, 5>>>>)
Turned == Text(<<"box", "round", "move", "turn", "move">>, <<<<>>, <<1>>, <<2>>, <<3>>, <<4>>>>)
(* The rounded box trimmed by the ball. *)
Trimmed == Text(<<"box", "round", "ball", "trim">>, <<<<>>, <<1>>, <<>>, <<2, 3>>>>)
MCTexts == {Part, Moved, Cutting, Shared, Twice, Bad, Turned, Trimmed}
Built(docs) == [docs |-> docs, uncached |-> FALSE]
MCRequests == {Built(<<d>>) : d \in {Part, Moved, Cutting, Shared, Twice, Bad, Trimmed}}
              \union {Built(<<Part, Cutting>>), Built(<<Turned, Shared>>), [docs |-> <<Part>>, uncached |-> TRUE]}

CONSTANTS Mechanisms, Ground
VARIABLES bodies, joints, law, verdict, read, from, path
M == INSTANCE Mechanism
ASSUME MechanismAssumption == \A m \in Mechanisms : M!AsWritten(m)
mechanismVars == <<bodies, joints, law, verdict, read, from, path>>

(* The arm and the clip are moved alike. *)
Said(b, o, k, sound) ==
    [body |-> b, on |-> o, kind |-> k, motion |-> IF b \in {"arm", "clip"} THEN "up" ELSE "round", sound |-> sound]
Bodies4 == <<"base", "arm", "slider", "clip">>
One == <<Said("arm", "ground", "turns", TRUE)>>
Carried(j, l) == [bodies |-> Bodies4, joints |-> j, law |-> l]
(* Up to two joints of any bodies on any others, four that are a tree or lead into a cycle, and laws
   of three segments. *)
Joints == {Said(b, o, k, TRUE) : b \in {"arm", "slider", "clip"}, o \in {"ground", "base", "arm", "slider", "clip"},
                                 k \in {"turns", "rides"}}
          \union {Said("arm", "ground", "slides", FALSE), Said("lid", "ground", "turns", TRUE)}
Ways == {<<"ground", "arm", "slider", "base">>, <<"base", "base", "arm", "slider">>, <<"clip", "clip", "arm", "slider">>,
         <<"ground", "arm", "arm", "slider">>, <<"ground", "base", "base", "arm">>}
Four == {[i \in 1..4 |-> Said(Bodies4[i], w[i], IF w[i] = "ground" \/ i \in m THEN "turns" ELSE "rides", TRUE)] :
            w \in Ways, m \in SUBSET (1..4)}
Laws == {<<<<0, 0>>, <<t, a>>, <<3, b>>, <<5, c>>>> : t \in {1, 2}, a, b, c \in -2..2}
MCMechanisms == {Carried(j, <<>>) : j \in UNION {[1..n -> Joints] : n \in 0..2} \union Four}
                \union {Carried(One, l) : l \in Laws}
                \union {[bodies |-> <<>>, joints |-> One, law |-> <<>>]}
M0 == INSTANCE Mechanism WITH Mechanisms <- {Carried(One, <<>>)}

VARIABLE part

DocumentsInit ==
    /\ C!Init
    /\ \/ part = "order" /\ Init /\ M0!Init
       \/ part = "cache" /\ D0!Init /\ M0!Init
       \/ part = "mechanism" /\ D0!Init /\ M!Init
OrderMoves == part = "order" /\ Next /\ UNCHANGED <<cacheVars, mechanismVars, part>>
CacheMoves == part = "cache" /\ C!Next /\ UNCHANGED <<vars, mechanismVars, part>>
MechanismMoves == part = "mechanism" /\ M!Next /\ UNCHANGED <<vars, cacheVars, part>>
allVars == <<vars, cacheVars, mechanismVars, part>>
DocumentsSpec == /\ DocumentsInit /\ [][OrderMoves \/ CacheMoves \/ MechanismMoves]_allVars
                 /\ WF_allVars(OrderMoves)

(* A walk ends, with an order or a refusal. *)
WalkAnswers == part = "order" => WalkEnds

(* The cache is of the last two requests, with all that is below what it keeps: nothing they had
   finished is built again. *)
OnlyTheEdit == C!CacheStands /\ C!OnlyTheEdit
(* What is answered is what a build without a cache answers, in this document's numbers. *)
RightAnswer == C!RightAnswer

(* Trees are accepted and cycles refused; no pair whose poses differ is passed over; no joint
   outruns its rate, and a value is first read where it is said to be. *)
MechanismIsRight == M!JointsAreRight /\ M!LawsAreRight
====
