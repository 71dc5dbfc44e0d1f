----------------------------- MODULE Mechanism ------------------------------
(***************************************************************************)
(* A part's mechanism (crates/parcad-core/src/mechanism.rs): the joints as *)
(* they are declared, the walk that refuses all but a tree, and what the   *)
(* sweep then reads of it: which pairs move, by how many joints, and how   *)
(* fast.  A joint's motion, what its axis and its law come to, is a value, *)
(* which two joints may share; a pose is the motions it is made of, in     *)
(* order, so bodies of one pose stand to each other as they were drawn     *)
(* whatever the motions are.  A law is its knots; times and values are     *)
(* whole, and a quotient is a pair.  That the drive's range is one         *)
(* (validate's first check of its numbers) is taken.                       *)
(***************************************************************************)
EXTENDS Integers, Sequences, FiniteSets, SequencesExt

CONSTANTS
    Mechanisms,  \* what is read: the part's bodies, the joints, and the law of those that move
    Ground       \* what a body that no other carries rides on

VARIABLES
    bodies,   \* the bodies the part returns, in order
    joints,   \* per joint: the body, the one it is carried by, turns or slides or rides, its motion, and whether its law is sound
    law,      \* the knots of every joint that turns or slides
    verdict,  \* "reading", "tree", or why the mechanism is refused
    read,     \* how many joints were read
    from,     \* the joint the walk went up from
    path      \* the bodies on the way up, <<>> between two walks
asRead == <<bodies, joints, law>>
vars == <<bodies, joints, law, verdict, read, from, path>>

Names == ToSet(bodies)
Seen == {joints[i].body : i \in 1..read}

Declared(body) == body \in Seen

(* A mechanism as it is written: the names of bodies, none of them the ground's, the joints, and the
   knots one after the other, as a law that is sound has them. *)
AsWritten(m) ==
    /\ m.bodies \in Seq(STRING) /\ Ground \notin ToSet(m.bodies)
    /\ m.joints \in Seq([body : STRING, on : STRING, kind : STRING, motion : STRING, sound : BOOLEAN])
    /\ m.law \in Seq(Int \X Int) /\ Len(m.law) # 1
    /\ \A i \in 1..(Len(m.law) - 1) : m.law[i][1] < m.law[i + 1][1]

------------------------------------------------------------------------------
(* Mechanism::validate *)

Refuse(why) == verdict' = why /\ UNCHANGED <<asRead, read, from, path>>

NoBodies == verdict = "reading" /\ read = 0 /\ bodies = <<>> /\ Refuse("no bodies")
NoJoints == verdict = "reading" /\ bodies # <<>> /\ joints = <<>> /\ Refuse("no joints")

(* A joint is of a body the part has, of one no joint before it is of, and reads as written: it does
   not ride on itself, rides on a body of the part, and moves, or is carried. *)
WellSaid(joint) ==
    /\ joint.on # joint.body /\ joint.on \in Names \union {Ground}
    /\ joint.kind = "rides" => joint.on # Ground
    /\ joint.sound

ReadJoint ==
    /\ verdict = "reading" /\ bodies # <<>> /\ read < Len(joints)
    /\ LET joint == joints[read + 1]
       IN  \/ joint.body \notin Names /\ Refuse("unknown")
           \/ joint.body \in Names /\ Declared(joint.body) /\ Refuse("twice")
           \/ joint.body \in Names /\ ~Declared(joint.body) /\ ~WellSaid(joint) /\ Refuse("ill said")
           \/ /\ joint.body \in Names /\ ~Declared(joint.body) /\ WellSaid(joint)
              /\ read' = read + 1
              /\ UNCHANGED <<asRead, verdict, from, path>>

Walking == verdict = "reading" /\ joints # <<>> /\ read = Len(joints)

(* The first joint of a body, 0 for none. *)
Joint(body) == SelectInSeq(joints, LAMBDA j : j.body = body)
Carrier(body) == IF Joint(body) = 0 THEN Ground ELSE joints[Joint(body)].on

StartWalk ==
    /\ Walking /\ path = <<>> /\ from < Len(joints)
    /\ LET joint == joints[from + 1]
       IN  \/ joint.on = Ground /\ from' = from + 1 /\ UNCHANGED <<asRead, verdict, read, path>>
           \/ joint.on \notin Seen \union {Ground} /\ Refuse("carrier stays")
           \/ /\ joint.on \in Seen
              /\ path' = <<joint.body, joint.on>>
              /\ UNCHANGED <<asRead, verdict, read, from>>

Met(here, above) == here \in ToSet(above)

(* One turn of the loop up the tree: a body met before is a cycle. *)
Climb ==
    /\ Walking /\ path # <<>>
    /\ LET here == Last(path)
       IN  \/ Met(here, Front(path)) /\ Refuse("cycle")
           \/ /\ ~Met(here, Front(path)) /\ Carrier(here) # Ground
              /\ path' = Append(path, Carrier(here))
              /\ UNCHANGED <<asRead, verdict, read, from>>
           \/ /\ ~Met(here, Front(path)) /\ Carrier(here) = Ground
              /\ path' = <<>> /\ from' = from + 1
              /\ UNCHANGED <<asRead, verdict, read>>

Accept ==
    /\ Walking /\ path = <<>> /\ from = Len(joints)
    /\ verdict' = "tree"
    /\ UNCHANGED <<asRead, read, from, path>>

Init == /\ \E m \in Mechanisms : bodies = m.bodies /\ joints = m.joints /\ law = m.law
        /\ verdict = "reading" /\ read = 0 /\ from = 0 /\ path = <<>>
Next == NoBodies \/ NoJoints \/ ReadJoint \/ StartWalk \/ Climb \/ Accept
Spec == Init /\ [][Next]_vars

------------------------------------------------------------------------------
(* Linkage *)

Parent(here) == Joint(joints[here].on)
Rides(here) == joints[here].kind = "rides"

(* The joints that move a body, nearest first. *)
Chains == LET chain[here \in 0..Len(joints)] ==
                  IF here = 0 THEN <<>> ELSE (IF Rides(here) THEN <<>> ELSE <<here>>) \o chain[Parent(here)]
          IN  chain
Chain(body) == Chains[Joint(body)]

(* Mutant of MovesRelative: two bodies moved by as many joints are taken to move together. *)
OtherDepth(a, b) == Len(Chain(a)) # Len(Chain(b))

MovesRelative(a, b) == Chain(a) # Chain(b)

SingleJoint(a, b) ==
    LET ca == Chain(a)
        cb == Chain(b)
    IN  IF ca # <<>> /\ Tail(ca) = cb THEN <<ca[1], TRUE>>
        ELSE IF cb # <<>> /\ Tail(cb) = ca THEN <<cb[1], FALSE>> ELSE <<>>

(* The segments of a law, and those an interval of the drive overlaps. *)
Segments == {<<law[i], law[i + 1]>> : i \in 1..(Len(law) - 1)}
Rise(s) == s[2][2] - s[1][2]
Run(s) == s[2][1] - s[1][1]
Size(v) == IF v < 0 THEN -v ELSE v

Overlapped(lo, hi) == {s \in Segments : s[2][1] > lo /\ s[1][1] < hi}

(* The steepest segment's rise and run, <<0, 1>> for none. *)
Rate(lo, hi) ==
    LET over == {<<Size(Rise(s)), Run(s)>> : s \in Overlapped(lo, hi)}
    IN  IF over = {} THEN <<0, 1>> ELSE CHOOSE r \in over : \A q \in over : q[1] * r[2] <= r[1] * q[2]

(* The value at t, a quotient like it. *)
Value(t) ==
    LET After(k) == k[1] * t[2] > t[1]
    IN  IF After(law[1]) \/ t[1] = law[1][1] * t[2] THEN <<law[1][2], 1>>
        ELSE IF ~After(Last(law)) THEN <<Last(law)[2], 1>>
        ELSE LET s == CHOOSE q \in Segments : ~After(q[1]) /\ After(q[2])
             IN  <<s[1][2] * Run(s) * t[2] + Rise(s) * (t[1] - s[1][1] * t[2]), Run(s) * t[2]>>

(* Mutant of First: the last segment that reads the value. *)
Latest(segments) == CHOOSE s \in segments : \A q \in segments : q[1][1] <= s[1][1]

First(segments) == CHOOSE s \in segments : \A q \in segments : s[1][1] <= q[1][1]

(* The first drive value at which the joint reads a value, the drive's start if it never does. *)
DriveAt(value) ==
    LET reads == {s \in Segments : (s[1][2] - value) * (s[2][2] - value) <= 0}
    IN  IF reads = {} THEN <<law[1][1], 1>>
        ELSE LET s    == First(reads)
                 sign == IF Rise(s) < 0 THEN -1 ELSE 1
             IN  IF Rise(s) = 0 THEN <<s[1][1], 1>>
                 ELSE <<sign * (s[1][1] * Rise(s) + Run(s) * (value - s[1][2])), Size(Rise(s))>>

------------------------------------------------------------------------------
(* Properties *)

Places == Names \union {joints[i].body : i \in DOMAIN joints} \union {joints[i].on : i \in DOMAIN joints}
On == {<<joints[i].body, joints[i].on>> : i \in DOMAIN joints}
(* What carries a body, and what carries that, is the least set that is closed: is the body in it? *)
RidesOnItself(body) ==
    \A S \in SUBSET Places : (\A p \in On : p[1] \in S \union {body} => p[2] \in S) => body \in S

(* Every variable has its type, and no walk up goes round for ever: it holds each body once at most,
   and one met again (mechanism.rs validate). *)
TypeOK ==
    /\ verdict \in {"reading", "tree", "no bodies", "no joints", "unknown", "twice", "ill said", "carrier stays", "cycle"}
    /\ read \in 0..Len(joints) /\ from \in 0..Len(joints)
    /\ ToSet(path) \subseteq Names /\ Len(path) <= Len(joints) + 1

(* What is accepted is a tree whose every body has one joint, and what is refused as a cycle has one:
   a joint that only leads into a cycle ends the walk too (mechanism.rs validate). *)
OnlyTrees ==
    /\ verdict = "tree" =>
           /\ \A i, j \in DOMAIN joints : i # j => joints[i].body # joints[j].body
           /\ \A i \in DOMAIN joints : joints[i].on = Ground \/ Joint(joints[i].on) # 0
           /\ \A body \in Names : ~RidesOnItself(body)
    /\ verdict = "cycle" => \E body \in Names : RidesOnItself(body)

(* The pose of a body: the motions of its joints, from the ground up. *)
Poses == LET pose[here \in 0..Len(joints)] ==
                 IF here = 0 THEN <<>> ELSE pose[Parent(here)] \o (IF Rides(here) THEN <<>> ELSE <<joints[here].motion>>)
         IN  pose
Pose(body) == Poses[Joint(body)]

(* The sweep is told of every pair that moves: two bodies it is not told of have one pose at every value
   of the drive (mechanism.rs moves_relative, pose). *)
MovingPairsMove ==
    verdict = "tree" => \A a, b \in Names : ~MovesRelative(a, b) => Pose(a) = Pose(b)

(* A pair is bounded by one joint's footprint only when that joint's motion is all that is between the
   two, and the right one of them hangs from it (mechanism.rs single_joint_between). *)
SingleIsSingle ==
    verdict = "tree" => \A a, b \in Names : \A j \in DOMAIN joints :
        /\ SingleJoint(a, b) = <<j, TRUE>> => Pose(a) = Append(Pose(b), joints[j].motion)
        /\ SingleJoint(a, b) = <<j, FALSE>> => Pose(b) = Append(Pose(a), joints[j].motion)

(* ... and of no other, as moves_relative's comment says: two bodies whose chains differ have poses that
   do.  Two joints of one motion are told apart all the same. *)
OnlyMovingPairsMove ==
    verdict = "tree" => \A a, b \in Names : MovesRelative(a, b) => Pose(a) # Pose(b)

(* What is read of a mechanism's joints is true of its poses. *)
JointsAreRight == TypeOK /\ OnlyTrees /\ MovingPairsMove /\ SingleIsSingle

Times == {<<n, 2>> : n \in (2 * law[1][1])..(2 * Last(law)[1])}

(* Between two drive values a joint never travels further than its rate there allows: what the sweep
   skips as out of reach is out of reach (mechanism.rs rate, value). *)
RateBounds ==
    law # <<>> => \A lo, hi \in law[1][1]..Last(law)[1] : lo < hi =>
        LET a == Value(<<lo, 1>>)
            b == Value(<<hi, 1>>)
            r == Rate(lo, hi)
        IN  Size(b[1] * a[2] - a[1] * b[2]) * r[2] <= r[1] * (hi - lo) * a[2] * b[2]

(* A value the joint takes is read at the drive value reported for it, and at none before: a motion
   that turns back is stopped where it first meets the limit (mechanism.rs drive_at). *)
ReadsFirst ==
    law # <<>> => \A value \in {law[i][2] : i \in DOMAIN law} \union {0} :
        LET at == DriveAt(value)
            Reads(t) == Value(t)[1] = value * Value(t)[2]
        IN  \A t \in Times : Reads(t) => Reads(at) /\ at[1] * t[2] <= t[1] * at[2]

(* What is read of a joint's law is true of its values. *)
LawsAreRight == RateBounds /\ ReadsFirst
=============================================================================
