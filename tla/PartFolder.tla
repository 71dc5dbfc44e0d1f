----------------------------- MODULE PartFolder ------------------------------
(***************************************************************************)
(* The folder of parts (crates/parcad-host/src/projects.rs): a part at a   *)
(* path is a loose .js file or a bundle, a folder with a source in it; what*)
(* is deleted goes to .trash; the shipped parts are seeded once, recorded  *)
(* in .seeded.  Each operation is the file system's steps it makes, one    *)
(* operation at a time (the host of a tab has one thread).  A write empties*)
(* its file before it fills it.  The host may stop between any two steps,  *)
(* and starts again by seeding, perhaps in another version; or a step      *)
(* fails, and ends its operation with an error.                            *)
(* A script is a value, and Shell one that is empty or not all there;      *)
(* manifest and README are not modelled.                                   *)
(***************************************************************************)
EXTENDS Naturals, Sequences, FiniteSets, SequencesExt

CONSTANTS
    Paths,     \* paths a part may have
    Releases,  \* the shipped parts of each version, in the order they are seeded
    Earlier,   \* paths with a loose part from before
    MaxOps,    \* bound: operations asked for
    MaxStops,  \* bound: times the host stops
    MaxFailed  \* bound: steps that fail

VARIABLES
    loose,    \* per path: the script of a .js file, or None
    bundle,   \* per path: None, or the script in the bundle (Shell: also one without a source)
    trash,    \* the scripts in .trash, by file
    seeded,   \* the record .seeded
    ships,    \* the release that runs
    op,       \* the operation that runs, or Idle
    asked,    \* operations so far; an operation's script is its number
    stops,    \* times the host stopped
    failed,   \* steps that failed
    owed,     \* scripts the host has said it keeps, and no save has replaced since
    cut,      \* those of them whose file a save has emptied and not filled
    hurt,     \* paths of parts a stop or a failure came in the middle of, or that were moved from such
    torn,     \* one came in the middle of writing the record, or ended a seeding the host went on without
    arrived,  \* shipped parts whose source was written, or that were found in the folder
    gone      \* paths a person deleted or moved a shipped part away from

files == <<loose, bundle, trash, seeded>>
scars == <<cut, hurt, torn>>
vars == <<loose, bundle, trash, seeded, ships, op, asked, stops, failed, owed, cut, hurt, torn, arrived, gone>>

None == [is |-> "none"]
Shell == [is |-> "shell"]
Written(n) == [is |-> "written", n |-> n]
EarlierPart(p) == [is |-> "earlier", path |-> p]
Shipped(p) == [is |-> "shipped", path |-> p]
Idle == [do |-> "idle"]

IsBundle(p) == bundle[p] # None

Taken(p) == IsBundle(p) \/ loose[p] # None

(* locate(): a bundle before a loose file. *)
Located(p) == Taken(p)
ScriptAt(p) == IF IsBundle(p) THEN bundle[p] ELSE loose[p]

Everywhere == {loose[p] : p \in Paths} \union {bundle[p] : p \in Paths} \union Range(trash)

End == op' = Idle
Step(s) == op' = [op EXCEPT !.at = s]

(* A step of an operation: nobody asks, stops or fails. *)
Goes == UNCHANGED <<ships, asked, stops, failed>>

(* A request begins, with a script of its own. *)
Ask(do, p, to) ==
    /\ op = Idle /\ asked < MaxOps
    /\ asked' = asked + 1
    /\ op' = [do |-> do, at |-> "begin", path |-> p, to |-> to, script |-> Written(asked + 1), old |-> None]
    /\ UNCHANGED <<files, ships, stops, failed, owed, scars, arrived, gone>>

------------------------------------------------------------------------------
(* write(), create() *)

Empty ==
    /\ op.do \in {"save", "create"} /\ op.at = "begin"
    /\ op.do = "create" => ~Taken(op.path)
    /\ cut' = cut \union ({ScriptAt(op.path)} \intersect owed)
    /\ IF loose[op.path] # None /\ ~IsBundle(op.path)
       THEN loose' = [loose EXCEPT ![op.path] = Shell] /\ UNCHANGED bundle
       ELSE bundle' = [bundle EXCEPT ![op.path] = Shell] /\ UNCHANGED loose
    /\ op' = [op EXCEPT !.at = "fill", !.old = ScriptAt(op.path)]
    /\ Goes /\ UNCHANGED <<trash, seeded, owed, hurt, torn, arrived, gone>>

(* Only now is the script that was there replaced by another. *)
Fill ==
    /\ op.do \in {"save", "create"} /\ op.at = "fill"
    /\ IF IsBundle(op.path)
       THEN bundle' = [bundle EXCEPT ![op.path] = op.script] /\ UNCHANGED loose
       ELSE loose' = [loose EXCEPT ![op.path] = op.script] /\ UNCHANGED bundle
    /\ owed' = (owed \ {op.old}) \union {op.script}
    /\ cut' = cut \ {op.old}
    /\ arrived' = arrived \union {op.path}
    /\ End
    /\ Goes /\ UNCHANGED <<trash, seeded, hurt, torn, gone>>

------------------------------------------------------------------------------
(* rename(), remove() *)

(* fs::rename puts a loose file over another. *)
RenamePart ==
    /\ op.do = "rename" /\ op.at = "begin"
    /\ Located(op.path) /\ ~Taken(op.to)
    /\ IF IsBundle(op.path)
       THEN bundle' = [bundle EXCEPT ![op.path] = None, ![op.to] = bundle[op.path]] /\ UNCHANGED loose
       ELSE loose' = [loose EXCEPT ![op.path] = None, ![op.to] = loose[op.path]] /\ UNCHANGED bundle
    /\ hurt' = IF op.path \in hurt THEN hurt \union {op.to} ELSE hurt
    /\ gone' = gone \union ({op.path} \intersect Range(ships))
    /\ End
    /\ Goes /\ UNCHANGED <<trash, seeded, owed, cut, torn, arrived>>

(* Mutant of IntoTrash: the part takes its own name there, over an earlier one. *)
OverTrash(p, s) == <<s>>

(* A name that is free in the trash. *)
IntoTrash(p, s) == Append(trash, s)

RemovePart ==
    /\ op.do = "remove" /\ op.at = "begin"
    /\ Located(op.path)
    /\ trash' = IntoTrash(op.path, ScriptAt(op.path))
    /\ IF IsBundle(op.path)
       THEN bundle' = [bundle EXCEPT ![op.path] = None] /\ UNCHANGED loose
       ELSE loose' = [loose EXCEPT ![op.path] = None] /\ UNCHANGED bundle
    /\ gone' = gone \union ({op.path} \intersect Range(ships))
    /\ End
    /\ Goes /\ UNCHANGED <<seeded, owed, scars, arrived>>

------------------------------------------------------------------------------
(* convert(): the script is read, written into a bundle, and only then the file removed *)

MakeBundle ==
    /\ op.do = "convert" /\ op.at = "begin"
    /\ Located(op.path) /\ ~IsBundle(op.path)
    /\ bundle' = [bundle EXCEPT ![op.path] = Shell]
    /\ op' = [op EXCEPT !.at = "copy", !.script = loose[op.path]]
    /\ Goes /\ UNCHANGED <<loose, trash, seeded, owed, scars, arrived, gone>>

Copy ==
    /\ op.do = "convert" /\ op.at = "copy"
    /\ bundle' = [bundle EXCEPT ![op.path] = op.script]
    /\ Step("unlink")
    /\ Goes /\ UNCHANGED <<loose, trash, seeded, owed, scars, arrived, gone>>

Unlinked(p) == [loose EXCEPT ![p] = None]

Unlink ==
    /\ op.do = "convert" /\ op.at = "unlink"
    /\ loose' = Unlinked(op.path)
    /\ End
    /\ Goes /\ UNCHANGED <<bundle, trash, seeded, owed, scars, arrived, gone>>

(* What an operation refuses. *)
Refuse ==
    /\ op.do \in {"create", "rename", "remove", "convert"} /\ op.at = "begin"
    /\ CASE op.do = "create" -> Taken(op.path)
         [] op.do = "rename" -> ~Located(op.path) \/ Taken(op.to)
         [] op.do = "remove" -> ~Located(op.path)
         [] OTHER -> ~Located(op.path) \/ IsBundle(op.path)
    /\ End
    /\ Goes /\ UNCHANGED <<files, owed, scars, arrived, gone>>

------------------------------------------------------------------------------
(* seed_from(): runs when the host starts *)

Seeding(release) == [do |-> "seed", at |-> "next", left |-> release, record |-> seeded]

(* Mutant of Adopted: a part that is found there is not recorded. *)
NotAdopted(p) == op.record

(* A part that is in the folder already is recorded as seeded. *)
Adopted(p) == op.record \union {p}

SeedNext ==
    /\ op.do = "seed" /\ op.at = "next" /\ op.left # <<>>
    /\ LET p == Head(op.left)
       IN  CASE p \in op.record ->
                  op' = [op EXCEPT !.left = Tail(@)] /\ UNCHANGED <<bundle, arrived>>
             [] p \notin op.record /\ Taken(p) ->
                  /\ op' = [op EXCEPT !.left = Tail(@), !.record = Adopted(p)]
                  /\ arrived' = IF ScriptAt(p) = Shell THEN arrived ELSE arrived \union {p}
                  /\ UNCHANGED bundle
             [] OTHER ->
                  /\ bundle' = [bundle EXCEPT ![p] = Shell]
                  /\ op' = [op EXCEPT !.at = "source"]
                  /\ UNCHANGED arrived
    /\ Goes /\ UNCHANGED <<loose, trash, seeded, owed, scars, gone>>

SeedSource ==
    /\ op.do = "seed" /\ op.at = "source"
    /\ LET p == Head(op.left)
       IN  /\ bundle' = [bundle EXCEPT ![p] = Shipped(p)]
           /\ arrived' = arrived \union {p}
           /\ op' = [op EXCEPT !.at = "next", !.left = Tail(@), !.record = @ \union {p}]
    /\ Goes /\ UNCHANGED <<loose, trash, seeded, owed, scars, gone>>

(* The record is written last, and is a file like the others: some of its  *)
(* lines, or none, before it is all there.                                 *)
SeedEmpties ==
    /\ op.do = "seed" /\ op.at = "next" /\ op.left = <<>>
    /\ seeded' \in SUBSET op.record
    /\ Step("record")
    /\ Goes /\ UNCHANGED <<loose, bundle, trash, owed, scars, arrived, gone>>

SeedRecord ==
    /\ op.do = "seed" /\ op.at = "record"
    /\ seeded' = op.record
    /\ End
    /\ Goes /\ UNCHANGED <<loose, bundle, trash, owed, scars, arrived, gone>>

------------------------------------------------------------------------------
(* The part that is being written. *)
InWork == IF op.do \in {"save", "create", "convert"} /\ op.at # "begin" THEN {op.path}
          ELSE IF op.do = "seed" /\ op.at = "source" THEN {Head(op.left)}
          ELSE {}

(* The host stops between two steps, and starts again. *)
Stop ==
    /\ stops < MaxStops
    /\ stops' = stops + 1
    /\ \E release \in Releases : ships' = release /\ op' = Seeding(release)
    /\ hurt' = hurt \union InWork
    /\ torn' = (torn \/ (op.do = "seed" /\ op.at = "record"))
    /\ UNCHANGED <<files, asked, failed, owed, cut, arrived, gone>>

(* A step fails: the operation ends with an error and what it has done     *)
(* stays; a host on the desktop goes on with a seeding that failed.        *)
Fail ==
    /\ op # Idle /\ failed < MaxFailed
    /\ failed' = failed + 1
    /\ hurt' = hurt \union InWork
    /\ torn' = (torn \/ op.do = "seed")
    /\ End
    /\ UNCHANGED <<files, ships, asked, stops, owed, cut, arrived, gone>>

------------------------------------------------------------------------------
Init ==
    /\ loose = [p \in Paths |-> IF p \in Earlier THEN EarlierPart(p) ELSE None]
    /\ bundle = [p \in Paths |-> None]
    /\ trash = <<>> /\ seeded = {}
    /\ ships \in Releases /\ op = Seeding(ships)
    /\ asked = 0 /\ stops = 0 /\ failed = 0
    /\ owed = {EarlierPart(p) : p \in Earlier}
    /\ cut = {} /\ hurt = {} /\ torn = FALSE
    /\ arrived = {} /\ gone = {}

Next ==
    \/ \E p \in Paths : \/ \E do \in {"save", "create", "remove", "convert"} : Ask(do, p, p)
                        \/ \E to \in Paths \ {p} : Ask("rename", p, to)
    \/ Empty \/ Fill
    \/ RenamePart \/ RemovePart
    \/ MakeBundle \/ Copy \/ Unlink
    \/ Refuse
    \/ SeedNext \/ SeedSource \/ SeedEmpties \/ SeedRecord
    \/ Stop \/ Fail

Spec == Init /\ [][Next]_vars

------------------------------------------------------------------------------
(* Properties *)

(* Every variable has its type. *)
Scripts == [is : {"written"}, n : 1..MaxOps] \union [is : {"earlier", "shipped"}, path : Paths]
TypeOK ==
    /\ loose \in [Paths -> Scripts \union {None, Shell}]
    /\ bundle \in [Paths -> Scripts \union {None, Shell}]
    /\ Range(trash) \subseteq Scripts \union {Shell}
    /\ seeded \subseteq Paths

(* A script the host has said it keeps, and that no save of its own part has replaced, is a part's
   source or in the trash, whatever is moved, deleted, converted or seeded after it and wherever the
   host stops or a write fails.  The one that is lost is that of a part whose save was cut short, as
   the code writes over the file it replaces; and each stop and each failure costs one at most
   (projects.rs). *)
NothingLost ==
    /\ owed \subseteq Everywhere \union cut
    /\ op = Idle => Cardinality(cut) <= stops + failed

(* While nothing is being done, every part has its source and one form: no bundle is without a script,
   and none hides a loose file (projects.rs locate reads the bundle alone).  A stop or a failed write
   breaks that of the part it came in the middle of, and of no other. *)
FolderIsWhole ==
    op = Idle =>
        \A p \in Paths \ hurt : bundle[p] # Shell /\ loose[p] # Shell /\ (bundle[p] # None => loose[p] = None)

(* The folder at any time, between two operations and within one. *)
FolderStands == TypeOK /\ NothingLost /\ FolderIsWhole

(* A shipped part that a person deleted or moved is not put back by a later start, in whichever version,
   even one from before the record was kept (projects.rs seed_from), unless the record was torn: it is
   emptied before it is filled, and a seeding that fails leaves none of what it did. *)
DeletedStaysDeleted ==
    [][\A p \in gone : op.do = "seed" /\ bundle'[p] # None => bundle[p] # None \/ torn]_vars

(* ... whatever happened: the test says that a deleted one must stay gone, and the comment at the end of
   seed_from that a crash midway leaves a record of nothing and seeding again is harmless. *)
NeverPutBack ==
    [][\A p \in gone : op.do = "seed" /\ bundle'[p] # None => bundle[p] # None]_vars

(* A shipped part is recorded as seeded only once it was in the folder with its source: the comment
   at the end of seed_from says a record of parts that were not written would lose them
   permanently, and that seeding again after a crash is harmless. *)
RecordedWereWritten == seeded \subseteq arrived
=============================================================================
