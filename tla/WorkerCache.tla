---------------------------- MODULE WorkerCache -----------------------------
(***************************************************************************)
(* The subtrees a kernel worker keeps from one build to the next (crates/  *)
(* parcad-occt/src/backend.rs, BuildCache, with_reuse and build_node).     *)
(* build_node calls itself for the operands of a node: the calls that have *)
(* not returned are a stack of frames, the innermost last.  A shape is the *)
(* text it was built from, so that a shape that is reused for another      *)
(* part's shows; a feature is the node of a treatment it names.            *)
(***************************************************************************)
EXTENDS Naturals, Sequences, FiniteSets, SequencesExt

CONSTANTS
    Documents, \* what can be built: per node its operation and its children, and the root
    Requests,  \* what is asked: documents to be built one after the other, two of them for a fit, and whether the cache is to be left as it is
    MaxBuilds  \* bound: requests that use the cache of one worker

VARIABLES
    cache,       \* BuildCache.entries of the worker, per key
    generation,  \* BuildCache.generation
    recent,      \* what the last two requests that used the cache built, the newest first
    asked,       \* the request in progress
    entries,     \* the entries it uses (Reuse.cache)
    work,        \* the calls of build_node under way
    pending,     \* the keys touch has still to visit
    answer,      \* what each document was built to
    rebuilt      \* what the kernel built for this request
kept == <<cache, generation, recent>>
vars == <<cache, generation, recent, asked, entries, work, pending, answer, rebuilt>>

NodesOf(d) == DOMAIN d.op
Op(d, n) == d.op[n]
Children(d, n) == d.children[n]
Treatments == {"round"}

(* A document as topo_order lets it pass: there is an order in which operands come first. *)
Ordered(d) ==
    /\ d.op \in Seq(STRING) /\ d.root \in NodesOf(d)
    /\ d.children \in [NodesOf(d) -> Seq(NodesOf(d))]
    /\ \A n \in NodesOf(d) : Op(d, n) = "trim" => Len(Children(d, n)) = 2
    /\ \E place \in [NodesOf(d) -> NodesOf(d)] :
           \A n \in NodesOf(d) : \A i \in DOMAIN Children(d, n) : place[Children(d, n)[i]] < place[n]

Nothing == [docs |-> <<>>, uncached |-> FALSE]

(* Where a node's children are built: a translation is pushed down, a rotation starts anew. *)
At(d, n, offset) == CASE Op(d, n) = "move" -> offset + 1
                      [] Op(d, n) = "turn" -> 0
                      [] OTHER -> offset

------------------------------------------------------------------------------
(* Keys *)

(* Mutant of Blanked: the operation with its children's numbers. *)
Numbered(d, n) == <<Op(d, n), Children(d, n)>>

(* An operation as it is written, without its children's numbers; the tool of a trim keeps its own. *)
Blanked(d, n) == IF Op(d, n) = "trim" THEN <<"trim", Children(d, n)[2]>> ELSE <<Op(d, n), 0>>

(* Per node what its subtree is, and the subtree's nodes in pre-order, a shared one once per use. *)
Subtrees ==
    [d \in Documents |->
        LET sub[n \in NodesOf(d)] ==
                LET of == [i \in DOMAIN Children(d, n) |-> sub[Children(d, n)[i]]]
                IN  [key |-> <<Blanked(d, n), [i \in DOMAIN of |-> of[i].key]>>,
                     ids |-> <<n>> \o FlattenSeq([i \in DOMAIN of |-> of[i].ids])]
        IN  sub]
SubtreeKey(d, n) == Subtrees[d][n].key
SubtreeIds(d, n) == Subtrees[d][n].ids

Key(d, n, offset) == <<SubtreeKey(d, n), offset>>

(* The old numbers and the new, side by side; of two new ones for the same old, the later. *)
Renumbered(features, from, to) ==
    LET New(n) == to[CHOOSE i \in DOMAIN from : from[i] = n /\ \A j \in DOMAIN from : from[j] = n => j <= i]
    IN  [i \in DOMAIN features |-> New(features[i])]

------------------------------------------------------------------------------
(* Building *)

Failed == [ok |-> FALSE]
Solid(shape, features) == [ok |-> TRUE, shape |-> shape, features |-> features]

(* What a node is, as the kernel builds it from what its children were built to. *)
Shape(d, n, offset, of) == <<Op(d, n), offset, [i \in DOMAIN of |-> of[i].shape]>>
Features(d, n, of) == FlattenSeq([i \in DOMAIN of |-> of[i].features])
                      \o (IF Op(d, n) \in Treatments THEN <<n>> ELSE <<>>)
Afresh(d, n, offset, of) ==
    IF Op(d, n) = "bad" \/ (\E i \in DOMAIN of : ~of[i].ok) THEN Failed
    ELSE Solid(Shape(d, n, offset, of), Features(d, n, of))

(* All the parts of a whole are built, or one has failed. *)
Enough(made, whole) == Len(made) = Len(whole) \/ (made # <<>> /\ ~Last(made).ok)

Busy == asked # Nothing
Doc == asked.docs[Len(answer) + 1]
Now == IF asked.uncached THEN 0 ELSE generation

(* Mutant of Indexed: a second document's keys are read from what was noted of the first. *)
Outer == asked.docs[1]

(* The document whose keys are noted by node number (Reuse.doc). *)
Indexed == Doc

Frame(n, offset) == [node |-> n, offset |-> offset, made |-> <<>>, deps |-> {}]
FrameKey(frame) == Key(Indexed, frame.node, frame.offset)
Top == Last(work)
Complete(frame) == Enough(frame.made, Children(Doc, frame.node))

(* The call that comes next: of the root, or of the innermost frame's next child. *)
Calls == IF work = <<>> THEN ~Enough(answer, asked.docs) ELSE ~Complete(Top)
Called == IF work = <<>> THEN Frame(Doc.root, 0)
          ELSE Frame(Children(Doc, Top.node)[Len(Top.made) + 1], At(Doc, Top.node, Top.offset))

(* A call returns, to the frames around it: its key is noted as a part of the one that called. *)
Return(built, key, frames) ==
    IF frames = <<>>
    THEN answer' = Append(answer, built) /\ work' = <<>>
    ELSE /\ work' = [frames EXCEPT ![Len(frames)].made = Append(@, built),
                                   ![Len(frames)].deps = IF built.ok THEN @ \union {key} ELSE @]
         /\ UNCHANGED answer

(* with_reuse installs the worker's cache, or an empty one that nobody keeps. *)
Ask(request) ==
    /\ ~Busy
    /\ request.uncached \/ generation < MaxBuilds
    /\ asked' = request
    /\ entries' = IF request.uncached THEN <<>> ELSE cache
    /\ UNCHANGED <<kept, work, pending, answer, rebuilt>>

(* build_node, where the cache has the node: its shape, named in this document. *)
Hit ==
    /\ Busy /\ pending = {} /\ Calls /\ FrameKey(Called) \in DOMAIN entries
    /\ LET key   == FrameKey(Called)
           entry == entries[key]
           named == Renumbered(entry.features, entry.ids, SubtreeIds(Doc, Called.node))
       IN  /\ Return(Solid(entry.shape, named), key, work)
           /\ pending' = {key}
    /\ UNCHANGED <<kept, asked, entries, rebuilt>>

Beneath(key) == entries[key].deps

(* touch: a hit is a use of all that is beneath it. *)
Touch ==
    /\ pending # {}
    /\ LET key == CHOOSE k \in pending : TRUE
       IN  IF key \in DOMAIN entries /\ entries[key].used # Now
           THEN /\ entries' = [entries EXCEPT ![key].used = Now]
                /\ pending' = (pending \ {key}) \union Beneath(key)
           ELSE pending' = pending \ {key} /\ UNCHANGED entries
    /\ UNCHANGED <<kept, asked, work, answer, rebuilt>>

(* build_node, where it has not: the children come first. *)
Descend ==
    /\ Busy /\ pending = {} /\ Calls /\ FrameKey(Called) \notin DOMAIN entries
    /\ work' = Append(work, Called)
    /\ UNCHANGED <<kept, asked, entries, pending, answer, rebuilt>>

(* The node itself, put in the cache if it went well. *)
Entry(frame, built) == [shape |-> built.shape, features |-> built.features,
                        ids |-> SubtreeIds(Doc, frame.node), used |-> Now, deps |-> frame.deps]
Finish ==
    /\ pending = {} /\ work # <<>> /\ Complete(Top)
    /\ LET key   == FrameKey(Top)
           built == Afresh(Doc, Top.node, Top.offset, Top.made)
       IN  /\ entries' = IF ~built.ok THEN entries
                         ELSE [k \in DOMAIN entries \union {key} |-> IF k = key THEN Entry(Top, built) ELSE entries[k]]
           /\ rebuilt' = IF ~built.ok THEN rebuilt ELSE rebuilt \union {built.shape}
           /\ Return(built, key, Front(work))
    /\ UNCHANGED <<kept, asked, pending>>

Young(entry, now) == now - entry.used <= 2

Aged(now) == [k \in {key \in DOMAIN entries : Young(entries[key], now)} |-> entries[k]]

(* with_reuse ages the cache: what two requests have not touched is gone. *)
End ==
    /\ Busy /\ pending = {} /\ work = <<>> /\ Enough(answer, asked.docs)
    /\ IF asked.uncached THEN UNCHANGED kept
       ELSE /\ generation' = generation + 1
            /\ cache' = Aged(generation + 1)
            /\ recent' = IF recent = <<>> THEN <<asked.docs>> ELSE <<asked.docs, recent[1]>>
    /\ asked' = Nothing /\ entries' = <<>> /\ answer' = <<>> /\ rebuilt' = {}
    /\ UNCHANGED <<work, pending>>

(* A crash or a deadline ends the worker, and its cache with it. *)
Restart ==
    /\ Busy
    /\ asked' = Nothing /\ entries' = <<>> /\ work' = <<>> /\ pending' = {} /\ answer' = <<>> /\ rebuilt' = {}
    /\ cache' = <<>> /\ generation' = 0 /\ recent' = <<>>

Init == /\ asked = Nothing /\ entries = <<>> /\ work = <<>> /\ pending = {} /\ answer = <<>> /\ rebuilt = {}
        /\ cache = <<>> /\ generation = 0 /\ recent = <<>>
Next == Hit \/ Touch \/ Descend \/ Finish \/ End \/ Restart \/ \E request \in Requests : Ask(request)
Spec == Init /\ [][Next]_vars

------------------------------------------------------------------------------
(* Properties *)

(* Per node and place, a build without a cache: what it comes to, and what the kernel finishes on the
   way, up to the first child that fails. *)
Builds ==
    [d \in Documents |->
        LET build[n \in NodesOf(d)] ==
                [offset \in Nat |->
                    LET of    == [i \in DOMAIN Children(d, n) |-> build[Children(d, n)[i]][At(d, n, offset)]]
                        built == Afresh(d, n, offset, [i \in DOMAIN of |-> of[i].built])
                    IN  [built    |-> built,
                         finished |-> (IF built.ok THEN {built.shape} ELSE {})
                                      \union UNION {of[i].finished : i \in {j \in DOMAIN of : \A k \in 1..(j - 1) : of[k].built.ok}}]]
        IN  build]
Reference(d) == Builds[d][d.root][0].built
Finished(docs) == UNION {Builds[docs[i]][docs[i].root][0].finished :
                            i \in {j \in DOMAIN docs : \A k \in 1..(j - 1) : Reference(docs[k]).ok}}

(* Every variable has its type, and the cache holds nothing but pieces of the last two requests: it is
   bounded by two parts' worth of geometry (backend.rs BuildCache). *)
TypeOK ==
    /\ asked \in Requests \union {Nothing}
    /\ generation \in 0..MaxBuilds
    /\ Len(recent) <= 2
    /\ \A key \in DOMAIN cache : cache[key].used \in 0..generation
    /\ {cache[key].shape : key \in DOMAIN cache} \subseteq UNION {Finished(recent[i]) : i \in DOMAIN recent}

(* A piece is kept as long as a whole that was made of it: while the root of a part keeps hitting,
   what is below it does not age out (backend.rs touch). *)
PartsOutliveWholes ==
    \A key \in DOMAIN cache : \A dep \in cache[key].deps : dep \in DOMAIN cache /\ cache[dep].used >= cache[key].used

(* What the worker keeps, between two requests. *)
CacheStands == TypeOK /\ PartsOutliveWholes

(* An edit rebuilds what it changed and the operations above it, and nothing that one of the two
   requests before it had finished, wherever its lines now are, also when that request failed in the
   end (backend.rs BuildCache). *)
OnlyTheEdit == ~asked.uncached => rebuilt \intersect UNION {Finished(recent[i]) : i \in DOMAIN recent} = {}

(* What is answered is what a worker without a cache would have answered: no other subtree, no other
   document's node of the same number, no other place (backend.rs build_node, in_document). *)
RightShape ==
    \A i \in DOMAIN answer :
        LET r == Reference(asked.docs[i])
        IN  answer[i].ok = r.ok /\ (r.ok => answer[i].shape = r.shape)

(* Each feature of an answer is a treatment of this document, written as the one a fresh build names:
   a number of the document it was first built in is never reported (backend.rs renumbered). *)
NamesItsOwn ==
    \A i \in DOMAIN answer : answer[i].ok =>
        LET d == asked.docs[i]
            named == answer[i].features
            fresh == Reference(d).features
        IN  /\ Len(named) = Len(fresh)
            /\ \A k \in DOMAIN named : named[k] \in NodesOf(d) /\ SubtreeKey(d, named[k]) = SubtreeKey(d, fresh[k])

(* An answer is a fresh build's, in shape and in names. *)
RightAnswer == RightShape /\ NamesItsOwn

(* An answer names every treatment of its document (backend.rs treatment_edges).  Where one node was
   used twice and the edit made two of it, Renumbered takes both uses for the later. *)
EveryTreatment ==
    \A i \in DOMAIN answer : answer[i].ok => ToSet(Reference(asked.docs[i]).features) \subseteq ToSet(answer[i].features)
=============================================================================
