----------------------------- MODULE BuildGates ------------------------------
(***************************************************************************)
(* How the calls of a server come to the kernel: the builds it has kept    *)
(* (crates/parcad-host/src/service.rs, build_exact and evaluate), and the  *)
(* two gates a build passes, its account's and then the host's             *)
(* (service.rs kernel, tenant.rs Gate), a mutex and a condition variable   *)
(* each.  A graph is its key; a build is whose graph it is of and whether  *)
(* its STEP file was written; durations are a patience that ends or not.   *)
(***************************************************************************)
EXTENDS Naturals, Sequences, FiniteSets, SequencesExt

CONSTANTS
    Calls,      \* calls that need a part built
    Accounts,   \* the accounts they are made by
    Of,         \* per call: its account
    Graph,      \* per call: the graph it builds
    Exports,    \* the calls that want the STEP file; the others evaluate, and judge the print
    HostGate,   \* the gate of the whole host
    Cap,        \* per gate: slots
    BuildsKept  \* BUILDS_KEPT

ASSUME CallsFinite == IsFiniteSet(Calls)
ASSUME OfType == Of \in [Calls -> Accounts] /\ HostGate \notin Accounts
ASSUME CapType == Cap \in [Accounts \union {HostGate} -> Nat]

Gates == Accounts \union {HostGate}

VARIABLES
    at,      \* per call: what it does next
    gate,    \* per call: the gate it is at
    waits,   \* per call: "no", or in the gate's wait_timeout "asleep", or awake from it "woken"
    late,    \* per call: its patience at this gate is over
    job,     \* per call: the kernel's work is the build or the print sweep
    got,     \* per call: what it has so far
    taken,   \* per gate: slots taken
    builds   \* BUILDS, newest first

gateVars == <<gate, waits, late, taken>>
vars == <<at, gate, waits, late, job, got, taken, builds>>

None == [is |-> "none"]
Refused == [is |-> "refused"]
Built(account, graph, step) == [is |-> "built", account |-> account, graph |-> graph, step |-> step]

Key(c) == <<Of[c], Graph[c]>>
KeyOf(build) == <<build.made.account, build.made.graph>>

------------------------------------------------------------------------------
(* The gate *)

Free(g) == taken[g] < Cap[g]

Asleep(g) == {c \in Calls : waits[c] = "asleep" /\ gate[c] = g}

(* One turn of take()'s loop: a slot, the end of patience, or sleep. *)
Take(c) ==
    /\ at[c] = "take" /\ waits[c] # "asleep" /\ Free(gate[c])
    /\ taken' = [taken EXCEPT ![gate[c]] = @ + 1]
    /\ waits' = [waits EXCEPT ![c] = "no"]
    /\ late' = [late EXCEPT ![c] = FALSE]
    /\ IF gate[c] = HostGate
       THEN at' = [at EXCEPT ![c] = "work"] /\ UNCHANGED gate
       ELSE gate' = [gate EXCEPT ![c] = HostGate] /\ UNCHANGED at
    /\ UNCHANGED <<job, got, builds>>

Sleep(c) ==
    /\ at[c] = "take" /\ waits[c] # "asleep" /\ ~Free(gate[c]) /\ ~late[c]
    /\ waits' = [waits EXCEPT ![c] = "asleep"]
    /\ UNCHANGED <<at, gate, late, job, got, taken, builds>>

(* A call that leaves the host's gate, without its slot or after it gave it back, gives its account's
   back; one that leaves its account's has none. *)
Back(c) ==
    IF gate[c] = HostGate
    THEN at' = [at EXCEPT ![c] = "give"] /\ gate' = [gate EXCEPT ![c] = Of[c]]
    ELSE at' = [at EXCEPT ![c] = "answer"] /\ UNCHANGED gate

(* take() returns None. *)
GiveUp(c) ==
    /\ at[c] = "take" /\ waits[c] # "asleep" /\ ~Free(gate[c]) /\ late[c]
    /\ waits' = [waits EXCEPT ![c] = "no"]
    /\ late' = [late EXCEPT ![c] = FALSE]
    /\ got' = [got EXCEPT ![c] = Refused]
    /\ Back(c)
    /\ UNCHANGED <<job, taken, builds>>

(* wait_timeout returns at the deadline, or the patience ends before the mutex is had. *)
PatienceEnds(c) ==
    /\ at[c] = "take" /\ ~late[c]
    /\ late' = [late EXCEPT ![c] = TRUE]
    /\ waits' = [waits EXCEPT ![c] = IF @ = "asleep" THEN "woken" ELSE @]
    /\ UNCHANGED <<at, gate, job, got, taken, builds>>

(* Drop for Pass: the slot is given back under the mutex, and one sleeper told after it. *)
Give(c) ==
    /\ at[c] = "give"
    /\ taken' = [taken EXCEPT ![gate[c]] = @ - 1]
    /\ at' = [at EXCEPT ![c] = "tell"]
    /\ UNCHANGED <<gate, waits, late, job, got, builds>>

(* Mutant of Told: nobody is told. *)
ToldNobody(g) == {waits}

(* notify_one: any one sleeper of the gate, if it has one. *)
Told(g) == IF Asleep(g) = {} THEN {waits} ELSE {[waits EXCEPT ![d] = "woken"] : d \in Asleep(g)}

(* The host's slot is given back first, and then the account's. *)
Tell(c) ==
    /\ at[c] = "tell"
    /\ waits' \in Told(gate[c])
    /\ Back(c)
    /\ UNCHANGED <<late, job, got, taken, builds>>

------------------------------------------------------------------------------
(* A call *)

Wants(c, build) == KeyOf(build) = Key(c) /\ (c \in Exports => build.made.step)

(* Mutant of Hits: a build without its STEP file is a hit for an export. *)
HitsAny(c) == {i \in DOMAIN builds : KeyOf(builds[i]) = Key(c)}

Hits(c) == {i \in DOMAIN builds : Wants(c, builds[i])}

ToGate(c) == /\ at' = [at EXCEPT ![c] = "take"]
             /\ gate' = [gate EXCEPT ![c] = Of[c]]

(* build_exact: a hit becomes the newest build; any other call goes to the kernel. *)
Begin(c) ==
    /\ at[c] = "begin"
    /\ \/ \E i \in Hits(c) :
             /\ \A j \in Hits(c) : i <= j
             /\ builds' = <<builds[i]>> \o RemoveAt(builds, i)
             /\ got' = [got EXCEPT ![c] = builds[i].made]
             /\ at' = [at EXCEPT ![c] = IF c \in Exports THEN "end" ELSE "judge"]
             /\ UNCHANGED gate
       \/ /\ Hits(c) = {}
          /\ ToGate(c)
          /\ UNCHANGED <<builds, got>>
    /\ UNCHANGED <<waits, late, job, taken>>

Made(c) == Built(Of[c], Graph[c], c \in Exports)

(* The kernel's work, with the slots of both gates. *)
Work(c, ok) ==
    /\ at[c] = "work"
    /\ at' = [at EXCEPT ![c] = "give"]
    /\ got' = [got EXCEPT ![c] = IF ~ok THEN Refused ELSE IF job[c] = "build" THEN Made(c) ELSE @]
    /\ UNCHANGED <<gateVars, job, builds>>

Others(key) == SelectSeq(builds, LAMBDA b : KeyOf(b) # key)

Truncate(s) == SubSeq(s, 1, IF Len(s) < BuildsKept THEN Len(s) ELSE BuildsKept)

(* A build is kept as the newest, in place of another of its key; a failure is not. *)
Keep(c) ==
    /\ at[c] = "answer" /\ job[c] = "build" /\ got[c] # Refused
    /\ builds' = Truncate(<<[made |-> got[c], judged |-> FALSE]>> \o Others(Key(c)))
    /\ at' = [at EXCEPT ![c] = IF c \in Exports THEN "end" ELSE "judge"]
    /\ UNCHANGED <<gateVars, job, got>>

Fail(c) ==
    /\ at[c] = "answer" /\ got[c] = Refused
    /\ at' = [at EXCEPT ![c] = "end"]
    /\ UNCHANGED <<gateVars, job, got, builds>>

(* evaluate: the print check kept with the build, or a sweep of the kernel's through the gates. *)
Judge(c) ==
    /\ at[c] = "judge"
    /\ IF \E i \in DOMAIN builds : KeyOf(builds[i]) = Key(c) /\ builds[i].judged
       THEN at' = [at EXCEPT ![c] = "end"] /\ UNCHANGED <<gate, job>>
       ELSE ToGate(c) /\ job' = [job EXCEPT ![c] = "sweep"]
    /\ UNCHANGED <<waits, late, got, taken, builds>>

(* keep_print_check: with the build of this key, if it is still kept. *)
KeepJudged(c) ==
    /\ at[c] = "answer" /\ job[c] = "sweep" /\ got[c] # Refused
    /\ builds' = [i \in DOMAIN builds |-> IF KeyOf(builds[i]) = Key(c) THEN [builds[i] EXCEPT !.judged = TRUE] ELSE builds[i]]
    /\ at' = [at EXCEPT ![c] = "end"]
    /\ UNCHANGED <<gateVars, job, got>>

------------------------------------------------------------------------------
Init ==
    /\ at = [c \in Calls |-> "begin"]
    /\ gate = [c \in Calls |-> Of[c]]
    /\ waits = [c \in Calls |-> "no"]
    /\ late = [c \in Calls |-> FALSE]
    /\ job = [c \in Calls |-> "build"]
    /\ got = [c \in Calls |-> None]
    /\ taken = [g \in Gates |-> 0]
    /\ builds = <<>>

Goes(c) ==
    \/ Take(c) \/ Sleep(c) \/ GiveUp(c) \/ Give(c) \/ Tell(c)
    \/ \E ok \in BOOLEAN : Work(c, ok)
    \/ Keep(c) \/ Fail(c) \/ Judge(c) \/ KeepJudged(c)

Next == \E c \in Calls : Begin(c) \/ Goes(c) \/ PatienceEnds(c)

Spec == Init /\ [][Next]_vars

------------------------------------------------------------------------------
(* Properties *)

(* Every variable has its type, and the host keeps at most BuildsKept builds. *)
TypeOK ==
    /\ at \in [Calls -> {"begin", "take", "work", "give", "tell", "answer", "judge", "end"}]
    /\ gate \in [Calls -> Gates]
    /\ waits \in [Calls -> {"no", "asleep", "woken"}]
    /\ late \in [Calls -> BOOLEAN]
    /\ job \in [Calls -> {"build", "sweep"}]
    /\ taken \in [Gates -> Nat]

(* Whether call c has a slot of gate g. *)
Holds(c, g) ==
    \/ at[c] = "work"
    \/ at[c] = "give" /\ gate[c] = g
    \/ at[c] \in {"take", "give", "tell"} /\ gate[c] = HostGate /\ g = Of[c]

Holders(g) == {c \in Calls : (g = HostGate \/ g = Of[c]) /\ Holds(c, g)}

(* A gate counts the calls that hold a slot of it, and no more than its cap hold one: no slot is
   lost by a call that gives up half-way, and none is given back twice (tenant.rs). *)
Counted == \A g \in Gates : taken[g] = Cardinality(Holders(g)) /\ taken[g] <= Cap[g]

(* Calls that will look at gate g without being told. *)
Stirring(g) == {c \in Calls : gate[c] = g /\ (at[c] = "tell" \/ (at[c] = "take" /\ waits[c] = "woken"))}

(* No call sleeps at a gate while a slot is free, unless as many calls as there are free slots are
   on their way to take one or to tell a sleeper: notify_one wakes one, and the one it wakes may find
   the slot taken, or leave with its patience over (tenant.rs). *)
NobodySleepsByAFreeSlot ==
    \A g \in Gates : Asleep(g) # {} => Cap[g] <= taken[g] + Cardinality(Stirring(g))

(* The gates at any time: each counts its holders, and none keeps a call waiting for nothing. *)
GatesAreFair == TypeOK /\ Counted /\ NobodySleepsByAFreeSlot

(* A call that is answered has a build of its own account's graph, with the STEP file if it exports:
   another account's build, or one made for the screen, is never handed over (service.rs). *)
RightBuild ==
    \A c \in Calls : at[c] = "end" /\ got[c] # Refused =>
        /\ got[c].account = Of[c] /\ got[c].graph = Graph[c]
        /\ c \in Exports => got[c].step
=============================================================================
