-------------------------- MODULE HostServiceProofs --------------------------
(***************************************************************************)
(* The parts of the host: its gates and kept builds (BuildGates), what it  *)
(* records of its windows (ShownReports), its folder of parts              *)
(* (PartFolder), the results of scripts that it keeps (ScriptCache), and   *)
(* the host of a browser tab (PageHost).  HostSpec moves one part at a     *)
(* time, so each is proved from its own steps, and the rest leave its      *)
(* variables alone.  Two operators recurse over their data, the weight of  *)
(* a set of entries and the pass of a call: they have inductions of their  *)
(* own.                                                                    *)
(***************************************************************************)
EXTENDS MCHostService, SequenceTheorems, FiniteSetTheorems, TLAPS

------------------------------------------------------------------------------
(* Sets of calls *)

LEMMA CallsCounted ==
    ASSUME NEW X \in SUBSET Calls
    PROVE  /\ IsFiniteSet(X) /\ Cardinality(X) \in Nat
           /\ \A c \in X : Cardinality(X) \in Nat \ {0} /\ Cardinality(X \ {c}) = Cardinality(X) - 1
           /\ \A c \in Calls \ X : Cardinality(X \union {c}) = Cardinality(X) + 1
<1>1. IsFiniteSet(X) /\ Cardinality(X) \in Nat
  BY CallsFinite, FS_Subset, FS_CardinalityType
<1>2. ASSUME NEW c \in X PROVE Cardinality(X) \in Nat \ {0} /\ Cardinality(X \ {c}) = Cardinality(X) - 1
  <2>1. IsFiniteSet(X \ {c}) /\ Cardinality(X \ {c}) = Cardinality(X) - 1
    BY <1>1, FS_RemoveElement
  <2>2. Cardinality(X \ {c}) \in Nat
    BY <2>1, FS_CardinalityType
  <2> QED BY <1>1, <2>1, <2>2
<1>3. ASSUME NEW c \in Calls \ X PROVE Cardinality(X \union {c}) = Cardinality(X) + 1
  BY <1>1, FS_AddElement
<1> QED BY <1>1, <1>2, <1>3

(* Two sets that differ in one call at most. *)
LEMMA OneCallApart ==
    ASSUME NEW X \in SUBSET Calls, NEW Y \in SUBSET Calls, NEW c \in Calls, X \ {c} = Y \ {c}
    PROVE  /\ Cardinality(X) \in Nat /\ Cardinality(Y) \in Nat
           /\ (c \in X <=> c \in Y) => Cardinality(Y) = Cardinality(X)
           /\ c \notin X /\ c \in Y => Cardinality(Y) = Cardinality(X) + 1
           /\ c \in X /\ c \notin Y => Cardinality(X) \in Nat \ {0} /\ Cardinality(Y) = Cardinality(X) - 1
<1>1. Cardinality(X) \in Nat /\ Cardinality(Y) \in Nat
  BY CallsCounted
<1>2. (c \in X <=> c \in Y) => X = Y
  OBVIOUS
<1>3. c \notin X /\ c \in Y => Y = X \union {c}
  OBVIOUS
<1>4. c \in X /\ c \notin Y => Y = X \ {c}
  OBVIOUS
<1> QED BY <1>1, <1>2, <1>3, <1>4, CallsCounted

------------------------------------------------------------------------------
(* What the gates preserve *)

(* Where a call may be, and that only a call at a gate sleeps. *)
Placed ==
    \A c \in Calls :
        /\ gate[c] \in {Of[c], HostGate}
        /\ at[c] = "work" => gate[c] = HostGate
        /\ waits[c] # "no" => at[c] = "take"

Inv == TypeOK /\ Placed /\ Counted /\ NobodySleepsByAFreeSlot

(* Two gates are told apart, and each has its cap. *)
LEMMA GatesAre ==
    /\ HostGate \in Gates /\ \A c \in Calls : Of[c] \in Gates /\ Of[c] # HostGate
    /\ \A g \in Gates : Cap[g] \in Nat
BY OfType, CapType DEF Gates

LEMMA InvInit == Init => Inv
<1> SUFFICES ASSUME Init PROVE Inv
  OBVIOUS
<1>1. TypeOK
  BY GatesAre DEF Init, TypeOK
<1>2. Placed
  BY DEF Init, Placed
<1>3. \A g \in Gates : Holders(g) = {} /\ Asleep(g) = {} /\ taken[g] = 0
  BY DEF Init, Holders, Holds, Asleep
<1>4. Counted
  BY <1>3, GatesAre, FS_EmptySet DEF Counted
<1>5. NobodySleepsByAFreeSlot
  BY <1>3 DEF NobodySleepsByAFreeSlot
<1> QED BY <1>1, <1>2, <1>4, <1>5 DEF Inv

------------------------------------------------------------------------------
(* A step of one call *)

(* The others stay where they are. *)
OnlyMoves(c) == \A d \in Calls \ {c} : at'[d] = at[d] /\ gate'[d] = gate[d]
OnlyWaits(c) == \A d \in Calls \ {c} : waits'[d] = waits[d]

(* What call c has of gate g before and after, and what the gate counts. *)
Keeps(c, g) == (Holds(c, g)' <=> Holds(c, g)) /\ taken'[g] = taken[g]
Gains(c, g) == ~Holds(c, g) /\ Holds(c, g)' /\ taken'[g] = taken[g] + 1 /\ taken[g] < Cap[g]
Loses(c, g) == Holds(c, g) /\ ~Holds(c, g)' /\ taken'[g] = taken[g] - 1

LEMMA CountedKept ==
    ASSUME Inv, NEW c \in Calls, OnlyMoves(c),
           \A g \in Gates : IF g = HostGate \/ g = Of[c] THEN Keeps(c, g) \/ Gains(c, g) \/ Loses(c, g)
                            ELSE taken'[g] = taken[g]
    PROVE  Counted' /\ \A g \in Gates : taken'[g] \in Nat
<1> SUFFICES ASSUME NEW g \in Gates
             PROVE  taken'[g] = Cardinality(Holders(g)') /\ taken'[g] <= Cap[g] /\ taken'[g] \in Nat
  BY DEF Counted
<1>1. taken[g] = Cardinality(Holders(g)) /\ taken[g] <= Cap[g] /\ taken[g] \in Nat /\ Cap[g] \in Nat
  BY GatesAre DEF Inv, Counted, TypeOK
<1>2. Holders(g) \in SUBSET Calls /\ Holders(g)' \in SUBSET Calls
  BY DEF Holders
<1>3. Holders(g) \ {c} = Holders(g)' \ {c}
  BY DEF OnlyMoves, Holders, Holds
<1>4. /\ c \in Holders(g) <=> (g = HostGate \/ g = Of[c]) /\ Holds(c, g)
      /\ c \in Holders(g)' <=> (g = HostGate \/ g = Of[c]) /\ Holds(c, g)'
  BY DEF Holders
<1> DEFINE X == Holders(g)
           Y == Holders(g)'
<1>5. /\ (c \in X <=> c \in Y) => Cardinality(Y) = Cardinality(X)
      /\ c \notin X /\ c \in Y => Cardinality(Y) = Cardinality(X) + 1
      /\ c \in X /\ c \notin Y => Cardinality(X) \in Nat \ {0} /\ Cardinality(Y) = Cardinality(X) - 1
  <2> HIDE DEF X, Y
  <2>1. X \in SUBSET Calls /\ Y \in SUBSET Calls /\ X \ {c} = Y \ {c}
    BY <1>2, <1>3 DEF X, Y
  <2> QED BY <2>1, OneCallApart
<1> QED BY <1>1, <1>4, <1>5 DEF Keeps, Gains, Loses

(* Whether call c will look at gate g. *)
Stirs(c, g) == gate[c] = g /\ (at[c] = "tell" \/ (at[c] = "take" /\ waits[c] = "woken"))
Sleeps(c, g) == gate[c] = g /\ waits[c] = "asleep"

(* A gate stays well: no slot is free, or no call falls asleep and none stops to stir unless it took
   the slot. *)
Watched(c, g) ==
    \/ Cap[g] <= taken'[g]
    \/ /\ Sleeps(c, g)' => Sleeps(c, g)
       /\ \/ taken'[g] = taken[g] /\ (Stirs(c, g) => Stirs(c, g)')
          \/ taken'[g] = taken[g] + 1
          \/ taken'[g] = taken[g] - 1 /\ ~Stirs(c, g) /\ Stirs(c, g)'

LEMMA SleepersWatched ==
    ASSUME Inv, NEW c \in Calls, OnlyMoves(c), OnlyWaits(c), \A g \in Gates : taken'[g] \in Nat,
           \A g \in Gates : Watched(c, g)
    PROVE  NobodySleepsByAFreeSlot'
<1> SUFFICES ASSUME NEW g \in Gates, Asleep(g)' # {}
             PROVE  Cap[g] <= taken'[g] + Cardinality(Stirring(g)')
  BY DEF NobodySleepsByAFreeSlot
<1> DEFINE X == Stirring(g)
           Y == Stirring(g)'
<1>1. X \in SUBSET Calls /\ Y \in SUBSET Calls /\ X \ {c} = Y \ {c}
  BY DEF OnlyMoves, OnlyWaits, Stirring
<1>2. (c \in X <=> Stirs(c, g)) /\ (c \in Y <=> Stirs(c, g)')
  BY DEF Stirring, Stirs
<1>3. taken[g] \in Nat /\ taken'[g] \in Nat /\ Cap[g] \in Nat
  BY GatesAre DEF Inv, TypeOK
<1>4. /\ Cardinality(X) \in Nat /\ Cardinality(Y) \in Nat
      /\ (c \in X <=> c \in Y) => Cardinality(Y) = Cardinality(X)
      /\ c \notin X /\ c \in Y => Cardinality(Y) = Cardinality(X) + 1
      /\ c \in X /\ c \notin Y => Cardinality(X) \in Nat \ {0} /\ Cardinality(Y) = Cardinality(X) - 1
  <2> HIDE DEF X, Y
  <2> QED BY <1>1, OneCallApart
<1>5. CASE Cap[g] <= taken'[g]
  BY <1>3, <1>4, <1>5
<1>6. CASE ~(Cap[g] <= taken'[g])
  <2>1. Sleeps(c, g)' => Sleeps(c, g)
    BY <1>6 DEF Watched
  <2>2. Asleep(g) # {}
    <3>1. PICK d \in Calls : waits'[d] = "asleep" /\ gate'[d] = g
      BY DEF Asleep
    <3>2. waits[d] = "asleep" /\ gate[d] = g
      BY <2>1, <3>1 DEF OnlyMoves, OnlyWaits, Sleeps
    <3> QED BY <3>2 DEF Asleep
  <2>3. Cap[g] <= taken[g] + Cardinality(X)
    BY <2>2 DEF Inv, NobodySleepsByAFreeSlot
  <2> HIDE DEF X, Y
  <2>4. Cap[g] <= taken'[g] + Cardinality(Y)
    BY <1>2, <1>3, <1>4, <1>6, <2>3 DEF Watched
  <2> QED BY <2>4 DEF Y
<1> QED BY <1>5, <1>6

------------------------------------------------------------------------------
(* The steps *)

(* A step of one call keeps the invariant if it keeps the types and places, and its gates count it. *)
LEMMA CallKeeps ==
    ASSUME Inv, NEW c \in Calls, OnlyMoves(c), OnlyWaits(c), Placed',
           at' \in [Calls -> {"begin", "take", "work", "give", "tell", "answer", "judge", "end"}],
           gate' \in [Calls -> Gates], waits' \in [Calls -> {"no", "asleep", "woken"}],
           late' \in [Calls -> BOOLEAN], job' \in [Calls -> {"build", "sweep"}],
           taken' \in [Gates -> Int],
           \A g \in Gates : IF g = HostGate \/ g = Of[c] THEN Keeps(c, g) \/ Gains(c, g) \/ Loses(c, g)
                            ELSE taken'[g] = taken[g],
           \A g \in Gates : Watched(c, g)
    PROVE  Inv'
<1>1. Counted' /\ \A g \in Gates : taken'[g] \in Nat
  BY CountedKept
<1>2. NobodySleepsByAFreeSlot'
  BY <1>1, SleepersWatched
<1>3. TypeOK'
  BY <1>1 DEF TypeOK
<1> QED BY <1>1, <1>2, <1>3 DEF Inv

LEMMA TakeKeeps ==
    ASSUME Inv, NEW c \in Calls, Take(c)
    PROVE  Inv'
<1> USE DEF Take, Inv, TypeOK
<1>1. OnlyMoves(c) /\ OnlyWaits(c)
  BY DEF OnlyMoves, OnlyWaits
<1>2. gate[c] \in {Of[c], HostGate} /\ Of[c] # HostGate /\ Of[c] \in Gates /\ HostGate \in Gates
  BY GatesAre DEF Placed
<1>3. /\ at' \in [Calls -> {"begin", "take", "work", "give", "tell", "answer", "judge", "end"}]
      /\ gate' \in [Calls -> Gates] /\ waits' \in [Calls -> {"no", "asleep", "woken"}]
      /\ late' \in [Calls -> BOOLEAN] /\ job' \in [Calls -> {"build", "sweep"}] /\ taken' \in [Gates -> Int]
  BY <1>2
<1>4. Placed'
  BY <1>1, <1>2 DEF Placed, OnlyMoves, OnlyWaits
<1>5. \A g \in Gates : IF g = HostGate \/ g = Of[c] THEN Keeps(c, g) \/ Gains(c, g) \/ Loses(c, g)
                       ELSE taken'[g] = taken[g]
  BY <1>2 DEF Keeps, Gains, Loses, Holds, Free
<1>6. \A g \in Gates : Watched(c, g)
  BY <1>2 DEF Watched, Sleeps, Stirs
<1> QED BY <1>1, <1>3, <1>4, <1>5, <1>6, CallKeeps

(* The steps that take no slot and give none back. *)
LEMMA WithoutASlot ==
    ASSUME Inv, NEW c \in Calls, Sleep(c) \/ GiveUp(c) \/ PatienceEnds(c)
    PROVE  Inv'
<1> USE DEF Sleep, GiveUp, PatienceEnds, Back, Inv, TypeOK
<1>1. OnlyMoves(c) /\ OnlyWaits(c)
  BY DEF OnlyMoves, OnlyWaits
<1>2. gate[c] \in {Of[c], HostGate} /\ Of[c] # HostGate /\ Of[c] \in Gates /\ HostGate \in Gates
  BY GatesAre DEF Placed
<1>3. /\ at' \in [Calls -> {"begin", "take", "work", "give", "tell", "answer", "judge", "end"}]
      /\ gate' \in [Calls -> Gates] /\ waits' \in [Calls -> {"no", "asleep", "woken"}]
      /\ late' \in [Calls -> BOOLEAN] /\ job' \in [Calls -> {"build", "sweep"}] /\ taken' \in [Gates -> Int]
  <2>1. CASE Sleep(c)
    BY <1>2, <2>1
  <2>2. CASE GiveUp(c)
    BY <1>2, <2>2
  <2>3. CASE PatienceEnds(c)
    BY <1>2, <2>3
  <2> QED BY <2>1, <2>2, <2>3
<1>4. Placed'
  BY <1>1, <1>2 DEF Placed, OnlyMoves, OnlyWaits
<1>5. \A g \in Gates : IF g = HostGate \/ g = Of[c] THEN Keeps(c, g) \/ Gains(c, g) \/ Loses(c, g)
                       ELSE taken'[g] = taken[g]
  BY <1>2 DEF Keeps, Holds
<1>6. \A g \in Gates : Watched(c, g)
  BY <1>2, GatesAre DEF Watched, Sleeps, Stirs, Free
<1> QED BY <1>1, <1>3, <1>4, <1>5, <1>6, CallKeeps

LEMMA GiveKeeps ==
    ASSUME Inv, NEW c \in Calls, Give(c)
    PROVE  Inv'
<1> USE DEF Give, Inv, TypeOK
<1>1. OnlyMoves(c) /\ OnlyWaits(c)
  BY DEF OnlyMoves, OnlyWaits
<1>2. gate[c] \in {Of[c], HostGate} /\ Of[c] # HostGate /\ Of[c] \in Gates /\ HostGate \in Gates
  BY GatesAre DEF Placed
<1>3. /\ at' \in [Calls -> {"begin", "take", "work", "give", "tell", "answer", "judge", "end"}]
      /\ gate' \in [Calls -> Gates] /\ waits' \in [Calls -> {"no", "asleep", "woken"}]
      /\ late' \in [Calls -> BOOLEAN] /\ job' \in [Calls -> {"build", "sweep"}] /\ taken' \in [Gates -> Int]
  BY <1>2
<1>4. Placed'
  BY <1>1, <1>2 DEF Placed, OnlyMoves, OnlyWaits
<1>5. \A g \in Gates : IF g = HostGate \/ g = Of[c] THEN Keeps(c, g) \/ Gains(c, g) \/ Loses(c, g)
                       ELSE taken'[g] = taken[g]
  BY <1>2 DEF Keeps, Gains, Loses, Holds
<1>6. \A g \in Gates : Watched(c, g)
  BY <1>2 DEF Watched, Sleeps, Stirs
<1> QED BY <1>1, <1>3, <1>4, <1>5, <1>6, CallKeeps

(* The steps between the gates: the kernel's work, the builds that are kept, and the way to a gate. *)
LEMMA OutsideGates ==
    ASSUME Inv, NEW c \in Calls, NEW to, NEW gateTo,
           \/ at[c] = "work" /\ to = "give" /\ gateTo = gate[c]
           \/ at[c] \in {"begin", "answer", "judge"} /\ to \in {"judge", "end"} /\ gateTo = gate[c]
           \/ at[c] \in {"begin", "judge"} /\ to = "take" /\ gateTo = Of[c],
           at' = [at EXCEPT ![c] = to], gate' = [gate EXCEPT ![c] = gateTo],
           waits' = waits, late' = late, taken' = taken, job' \in [Calls -> {"build", "sweep"}]
    PROVE  Inv'
<1> USE DEF Inv, TypeOK
<1>1. OnlyMoves(c) /\ OnlyWaits(c)
  BY DEF OnlyMoves, OnlyWaits
<1>2. gate[c] \in {Of[c], HostGate} /\ Of[c] # HostGate /\ Of[c] \in Gates /\ HostGate \in Gates
  BY GatesAre DEF Placed
<1>3. /\ at' \in [Calls -> {"begin", "take", "work", "give", "tell", "answer", "judge", "end"}]
      /\ gate' \in [Calls -> Gates] /\ waits' \in [Calls -> {"no", "asleep", "woken"}]
      /\ late' \in [Calls -> BOOLEAN] /\ job' \in [Calls -> {"build", "sweep"}] /\ taken' \in [Gates -> Int]
  <2>1. to \in {"give", "judge", "end", "take"} /\ gateTo \in Gates
    BY <1>2
  <2>2. at' \in [Calls -> {"begin", "take", "work", "give", "tell", "answer", "judge", "end"}]
    BY <2>1
  <2>3. gate' \in [Calls -> Gates]
    BY <2>1
  <2> QED BY <2>2, <2>3
<1>4. waits[c] = "no" /\ (at[c] = "work" => gate[c] = HostGate)
  BY DEF Placed
<1>5. at'[c] = to /\ gate'[c] = gateTo /\ waits'[c] = "no"
  BY <1>4
<1>6. Placed'
  BY <1>1, <1>2, <1>4, <1>5 DEF Placed, OnlyMoves, OnlyWaits
<1>7. \A g \in Gates : IF g = HostGate \/ g = Of[c] THEN Keeps(c, g) \/ Gains(c, g) \/ Loses(c, g)
                       ELSE taken'[g] = taken[g]
  <2>1. \A g \in Gates : g = HostGate \/ g = Of[c] => (Holds(c, g)' <=> Holds(c, g))
    <3>1. CASE at[c] = "work"
      BY <1>2, <1>4, <1>5, <3>1 DEF Holds
    <3>2. CASE at[c] # "work"
      BY <1>2, <1>5, <3>2 DEF Holds
    <3> QED BY <3>1, <3>2
  <2> QED BY <2>1 DEF Keeps
<1>8. \A g \in Gates : Watched(c, g)
  BY <1>4, <1>5 DEF Watched, Sleeps, Stirs
<1> QED BY <1>1, <1>3, <1>6, <1>7, <1>8, CallKeeps

LEMMA BetweenGates ==
    ASSUME Inv, NEW c \in Calls,
           Begin(c) \/ (\E ok \in BOOLEAN : Work(c, ok)) \/ Keep(c) \/ Fail(c) \/ Judge(c) \/ KeepJudged(c)
    PROVE  Inv'
<1>1. gate \in [Calls -> Gates] /\ job \in [Calls -> {"build", "sweep"}]
  BY DEF Inv, TypeOK
<1>2. gate = [gate EXCEPT ![c] = gate[c]] /\ [job EXCEPT ![c] = "sweep"] \in [Calls -> {"build", "sweep"}]
  BY <1>1
<1>3. CASE \E ok \in BOOLEAN : Work(c, ok)
  <2>1. /\ at[c] = "work" /\ at' = [at EXCEPT ![c] = "give"] /\ gate' = gate
        /\ waits' = waits /\ late' = late /\ taken' = taken /\ job' = job
    BY <1>3 DEF Work, gateVars
  <2> QED BY <1>1, <1>2, <2>1, OutsideGates
<1>4. ASSUME NEW to \in {"judge", "end"},
             at[c] \in {"begin", "answer", "judge"}, at' = [at EXCEPT ![c] = to], gate' = gate,
             waits' = waits, late' = late, taken' = taken, job' = job
      PROVE  Inv'
  BY <1>1, <1>2, <1>4, OutsideGates
<1>5. ASSUME at[c] \in {"begin", "judge"}, ToGate(c), waits' = waits, late' = late, taken' = taken,
             job' \in [Calls -> {"build", "sweep"}]
      PROVE  Inv'
  BY <1>5, OutsideGates DEF ToGate
<1>6. CASE Begin(c)
  <2>1. CASE ToGate(c)
    BY <1>1, <1>5, <1>6, <2>1 DEF Begin
  <2>2. CASE ~ToGate(c)
    <3>1. /\ at[c] = "begin" /\ gate' = gate /\ waits' = waits /\ late' = late /\ taken' = taken /\ job' = job
          /\ at' = [at EXCEPT ![c] = "end"] \/ at' = [at EXCEPT ![c] = "judge"]
      BY <1>6, <2>2 DEF Begin
    <3> QED BY <1>4, <3>1
  <2> QED BY <2>1, <2>2
<1>7. CASE Judge(c)
  <2>1. CASE ToGate(c)
    BY <1>1, <1>2, <1>5, <1>7, <2>1 DEF Judge
  <2>2. CASE ~ToGate(c)
    <3>1. /\ at[c] = "judge" /\ gate' = gate /\ waits' = waits /\ late' = late /\ taken' = taken /\ job' = job
          /\ at' = [at EXCEPT ![c] = "end"]
      BY <1>7, <2>2 DEF Judge
    <3> QED BY <1>4, <3>1
  <2> QED BY <2>1, <2>2
<1>8. CASE Keep(c) \/ Fail(c) \/ KeepJudged(c)
  <2>1. /\ at[c] = "answer" /\ gate' = gate /\ waits' = waits /\ late' = late /\ taken' = taken /\ job' = job
        /\ at' = [at EXCEPT ![c] = "end"] \/ at' = [at EXCEPT ![c] = "judge"]
    BY <1>8 DEF Keep, Fail, KeepJudged, gateVars
  <2> QED BY <1>4, <2>1
<1> QED BY <1>3, <1>6, <1>7, <1>8

(* The call that gave its slot back tells a sleeper: one that stirs for one that did. *)
LEMMA TellKeeps ==
    ASSUME Inv, NEW c \in Calls, Tell(c)
    PROVE  Inv'
<1> USE DEF Inv, TypeOK
<1> DEFINE from == gate[c]
<1>1. /\ at[c] = "tell" /\ waits[c] = "no" /\ from \in Gates /\ from \in {Of[c], HostGate}
      /\ Of[c] # HostGate /\ Of[c] \in Gates /\ HostGate \in Gates
  BY GatesAre DEF Tell, Placed
<1>2. /\ waits' \in Told(from) /\ late' = late /\ job' = job /\ taken' = taken
      /\ at' = [at EXCEPT ![c] = IF from = HostGate THEN "give" ELSE "answer"]
      /\ gate' = [gate EXCEPT ![c] = Of[c]]
  <2>1. from # HostGate => [gate EXCEPT ![c] = Of[c]] = gate
    BY <1>1
  <2> QED BY <2>1 DEF Tell, Back
<1>3. OnlyMoves(c)
  BY <1>2 DEF OnlyMoves
<1>4. \/ Asleep(from) = {} /\ waits' = waits
      \/ \E d \in Asleep(from) : waits' = [waits EXCEPT ![d] = "woken"]
  BY <1>2 DEF Told
<1>5. TypeOK' /\ Placed'
  <2>1. waits' \in [Calls -> {"no", "asleep", "woken"}]
    BY <1>4 DEF Asleep
  <2>2. TypeOK'
    BY <1>1, <1>2, <2>1
  <2>3. \A d \in Calls : waits'[d] # "no" => waits[d] # "no"
    BY <1>4 DEF Asleep
  <2> QED BY <1>1, <1>2, <2>2, <2>3 DEF Placed
<1>6. \A g \in Gates : IF g = HostGate \/ g = Of[c] THEN Keeps(c, g) \/ Gains(c, g) \/ Loses(c, g)
                       ELSE taken'[g] = taken[g]
  BY <1>1, <1>2 DEF Keeps, Holds
<1>7. Counted'
  BY <1>3, <1>6, CountedKept
<1>8. NobodySleepsByAFreeSlot'
  <2> SUFFICES ASSUME NEW g \in Gates, Asleep(g)' # {}
               PROVE  Cap[g] <= taken'[g] + Cardinality(Stirring(g)')
    BY DEF NobodySleepsByAFreeSlot
  <2>1. Stirring(g) \in SUBSET Calls /\ Stirring(g)' \in SUBSET Calls
    BY DEF Stirring
  <2>2. \A d \in Calls : waits'[d] = "asleep" => waits[d] = "asleep" /\ d # c
    BY <1>1, <1>4 DEF Asleep
  <2>3. Asleep(g) # {}
    BY <1>3, <2>2 DEF Asleep, OnlyMoves
  <2>4. Cap[g] <= taken[g] + Cardinality(Stirring(g)) /\ taken'[g] = taken[g]
    BY <1>2, <2>3 DEF NobodySleepsByAFreeSlot
  <2>5. Cardinality(Stirring(g)') >= Cardinality(Stirring(g))
    <3>1. CASE g # from
      <4>1. Stirring(g) \subseteq Stirring(g)'
        BY <1>1, <1>2, <1>3, <1>4, <3>1 DEF Stirring, OnlyMoves, Asleep
      <4> QED BY <2>1, <4>1, CallsCounted, FS_Subset
    <3>2. CASE g = from
      <4>1. PICK d \in Asleep(from) : waits' = [waits EXCEPT ![d] = "woken"]
        BY <1>4, <2>3, <3>2
      <4>2. d \in Calls /\ d # c /\ at[d] = "take" /\ gate[d] = from /\ waits[d] = "asleep" /\ waits'[d] = "woken"
        BY <1>1, <4>1 DEF Asleep, Placed
      <4>3. c \in Stirring(g) /\ d \notin Stirring(g)
        BY <1>1, <3>2, <4>2 DEF Stirring
      <4>4. (Stirring(g) \ {c}) \union {d} \subseteq Stirring(g)'
        BY <1>3, <3>2, <4>1, <4>2 DEF Stirring, OnlyMoves
      <4> DEFINE X == Stirring(g)
                 Y == Stirring(g)'
      <4> HIDE DEF X, Y
      <4>5. X \in SUBSET Calls /\ Y \in SUBSET Calls /\ c \in X /\ d \in Calls \ (X \ {c}) /\ (X \ {c}) \union {d} \subseteq Y
        BY <2>1, <4>2, <4>3, <4>4 DEF X, Y
      <4>6. Cardinality(X \ {c}) = Cardinality(X) - 1 /\ Cardinality(X) \in Nat \ {0}
        BY <4>5, CallsCounted
      <4>7. X \ {c} \in SUBSET Calls /\ Cardinality((X \ {c}) \union {d}) = Cardinality(X \ {c}) + 1
        BY <4>5, CallsCounted
      <4>8. IsFiniteSet(Y)
        BY <4>5, CallsCounted
      <4>9. Cardinality((X \ {c}) \union {d}) <= Cardinality(Y)
        BY <4>5, <4>8, FS_Subset
      <4>10. Cardinality(Y) \in Nat
        BY <4>5, CallsCounted
      <4>11. Cardinality(Y) >= Cardinality(X)
        BY <4>6, <4>7, <4>9, <4>10
      <4> QED BY <4>11 DEF X, Y
    <3> QED BY <3>1, <3>2
  <2>6. Cardinality(Stirring(g)') \in Nat /\ Cardinality(Stirring(g)) \in Nat /\ taken[g] \in Nat /\ Cap[g] \in Nat
    BY <2>1, CallsCounted, GatesAre
  <2> QED BY <2>4, <2>5, <2>6
<1> QED BY <1>5, <1>7, <1>8

LEMMA InvNext == Inv /\ [Next]_vars => Inv'
<1> SUFFICES ASSUME Inv, [Next]_vars PROVE Inv'
  OBVIOUS
<1>1. ASSUME NEW c \in Calls, Begin(c) \/ (\E ok \in BOOLEAN : Work(c, ok)) \/ Keep(c) \/ Fail(c) \/ Judge(c) \/ KeepJudged(c)
      PROVE Inv'
  BY <1>1, BetweenGates
<1>2. ASSUME NEW c \in Calls, Take(c) PROVE Inv'
  BY <1>2, TakeKeeps
<1>3. ASSUME NEW c \in Calls, Sleep(c) \/ GiveUp(c) \/ PatienceEnds(c) PROVE Inv'
  BY <1>3, WithoutASlot
<1>4. ASSUME NEW c \in Calls, Give(c) PROVE Inv'
  BY <1>4, GiveKeeps
<1>5. ASSUME NEW c \in Calls, Tell(c) PROVE Inv'
  BY <1>5, TellKeeps
<1>6. CASE UNCHANGED vars
  BY <1>6 DEF vars, Inv, TypeOK, Placed, Counted, Holders, Holds, NobodySleepsByAFreeSlot, Asleep, Stirring
<1> QED BY <1>1, <1>2, <1>3, <1>4, <1>5, <1>6 DEF Next, Goes

------------------------------------------------------------------------------
(* What a call is answered with *)

Right(c, build) ==
    /\ build.account = Of[c] /\ build.graph = Graph[c]
    /\ c \in Exports => build.step

(* A call that the kernel is done with, that judges or that has ended has its own build or a refusal. *)
Rightly ==
    /\ DOMAIN got = Calls
    /\ \A c \in Calls : at[c] \in {"give", "tell", "answer", "judge", "end"} \/ job[c] = "sweep" =>
           got[c] = Refused \/ Right(c, got[c])

LEMMA RightlyInit == Init => Rightly
BY DEF Init, Rightly

(* A step that changes what one call has, or nothing of it, in a way of its own. *)
LEMMA RightlyMoves ==
    ASSUME Inv, Rightly, NEW c \in Calls, OnlyMoves(c), \A d \in Calls \ {c} : job'[d] = job[d] /\ got'[d] = got[d],
           DOMAIN got' = Calls,
           at'[c] \in {"give", "tell", "answer", "judge", "end"} \/ job'[c] = "sweep" =>
               got'[c] = Refused \/ Right(c, got'[c])
    PROVE  Rightly'
BY DEF Rightly, OnlyMoves, Right

LEMMA RightlyNext == Inv /\ Rightly /\ [Next]_vars => Rightly'
<1> SUFFICES ASSUME Inv, Rightly, [Next]_vars PROVE Rightly'
  OBVIOUS
<1> USE DEF Inv, TypeOK
<1>1. ASSUME NEW c \in Calls, Begin(c) PROVE Rightly'
  <2>1. CASE ToGate(c) /\ got' = got
    BY <1>1, <2>1, RightlyMoves DEF Begin, ToGate, OnlyMoves, Rightly
  <2>2. ASSUME NEW i \in Hits(c), got' = [got EXCEPT ![c] = builds[i].made],
               at' = [at EXCEPT ![c] = IF c \in Exports THEN "end" ELSE "judge"], gate' = gate
        PROVE  Rightly'
    <3>1. Right(c, builds[i].made)
      BY <2>2 DEF Hits, Wants, KeyOf, Key, Right
    <3>2. job' = job
      BY <1>1 DEF Begin
    <3> QED BY <2>2, <3>1, <3>2, RightlyMoves DEF OnlyMoves, Rightly
  <2> QED BY <1>1, <2>1, <2>2 DEF Begin
<1>2. ASSUME NEW c \in Calls, NEW ok \in BOOLEAN, Work(c, ok) PROVE Rightly'
  <2>1. Right(c, Made(c))
    BY DEF Right, Made, Built
  <2>2. /\ at[c] = "work" /\ at' = [at EXCEPT ![c] = "give"] /\ gate' = gate /\ job' = job
        /\ got' = [got EXCEPT ![c] = IF ~ok THEN Refused ELSE IF job[c] = "build" THEN Made(c) ELSE got[c]]
    BY <1>2 DEF Work, gateVars
  <2>3. got'[c] = Refused \/ Right(c, got'[c])
    BY <2>1, <2>2 DEF Rightly
  <2> QED BY <2>2, <2>3, RightlyMoves DEF OnlyMoves, Rightly
<1>3. ASSUME NEW c \in Calls, GiveUp(c) PROVE Rightly'
  BY <1>3, RightlyMoves DEF GiveUp, Back, OnlyMoves, Rightly
<1>4. ASSUME NEW c \in Calls, Give(c) \/ Tell(c) PROVE Rightly'
  BY <1>4, RightlyMoves DEF Give, Tell, Back, OnlyMoves, Rightly
<1>5. ASSUME NEW c \in Calls, Keep(c) \/ Fail(c) \/ KeepJudged(c) PROVE Rightly'
  BY <1>5, RightlyMoves DEF Keep, Fail, KeepJudged, gateVars, OnlyMoves, Rightly
<1>6. ASSUME NEW c \in Calls, Judge(c) PROVE Rightly'
  BY <1>6, RightlyMoves DEF Judge, ToGate, OnlyMoves, Rightly
<1>7. ASSUME NEW c \in Calls, Take(c) PROVE Rightly'
  BY <1>7, RightlyMoves DEF Take, OnlyMoves, Rightly
<1>8. ASSUME NEW c \in Calls, Sleep(c) \/ PatienceEnds(c) PROVE Rightly'
  BY <1>8, RightlyMoves DEF Sleep, PatienceEnds, OnlyMoves, Rightly
<1>9. CASE UNCHANGED vars
  BY <1>9 DEF vars, Rightly, Right
<1> QED BY <1>1, <1>2, <1>3, <1>4, <1>5, <1>6, <1>7, <1>8, <1>9 DEF Next, Goes

------------------------------------------------------------------------------
(* What holds of the gates *)

(* Every variable has its type with any accounts, calls, graphs and caps (service.rs, tenant.rs). *)
THEOREM Typing == Spec => []TypeOK
<1>1. Inv => TypeOK
  BY DEF Inv
<1> QED BY <1>1, InvInit, InvNext, PTL DEF Spec

(* Each gate counts the calls that hold a slot of it, never more than its cap, with any accounts, calls
   and caps (tenant.rs Gate). *)
THEOREM SlotsCounted == Spec => []Counted
<1>1. Inv => Counted
  BY DEF Inv
<1> QED BY <1>1, InvInit, InvNext, PTL DEF Spec

(* No call sleeps by a free slot that nobody is on the way to, with any accounts, calls and caps
   (tenant.rs Gate: notify_one). *)
THEOREM SleepersTold == Spec => []NobodySleepsByAFreeSlot
<1>1. Inv => NobodySleepsByAFreeSlot
  BY DEF Inv
<1> QED BY <1>1, InvInit, InvNext, PTL DEF Spec

(* The gates are fair with any accounts, calls and caps (tenant.rs). *)
THEOREM Fair == Spec => []GatesAreFair
<1>1. Inv => GatesAreFair
  BY DEF Inv, GatesAreFair
<1> QED BY <1>1, InvInit, InvNext, PTL DEF Spec

(* A call that is answered has a build of its own account's graph, with the STEP file if it exports,
   with any accounts, calls and graphs (service.rs build_exact). *)
THEOREM OwnBuild == Spec => []RightBuild
<1>1. Rightly => RightBuild
  BY DEF Rightly, RightBuild, Right
<1> QED BY <1>1, InvInit, InvNext, RightlyInit, RightlyNext, PTL DEF Spec

------------------------------------------------------------------------------
(* Windows and reports *)

(* A report on its way is of a revision that its window has evaluated. *)
PostsTrue ==
    \A p \in S!Reports : posts[p] > 0 => p.revision \in S!Revisions /\ p.revision <= shows[p.by]

(* What the steps of windows and waits preserve. *)
ReportsInv == S!TypeOK /\ PostsTrue /\ S!NoReportMissed /\ S!OnlyWhatWasShown

LEMMA ReportsBegin == S!Init => ReportsInv
<1> SUFFICES ASSUME S!Init PROVE ReportsInv
  OBVIOUS
<1> USE ReportsBounds DEF S!Init
<1>1. S!TypeOK
  BY DEF S!TypeOK, S!Reports, S!Revisions
<1>2. PostsTrue
  BY DEF PostsTrue
<1>3. S!NoReportMissed
  BY DEF S!NoReportMissed
<1>4. S!OnlyWhatWasShown
  BY DEF S!OnlyWhatWasShown
<1> QED
  BY <1>1, <1>2, <1>3, <1>4 DEF ReportsInv

(* A step of a wait changes where it is, and at most forgets that it was told. *)
LEMMA WaitsKeep ==
    ASSUME ReportsInv,
           S!Commit \/ \E r \in S!Revisions :
               S!Register(r) \/ S!Look(r) \/ S!Await(r) \/ S!Wake(r) \/ S!Deadline(r)
    PROVE  ReportsInv'
<1> USE ReportsBounds
<1>0. S!TypeOK
  BY DEF ReportsInv
<1>1. S!TypeOK'
  <2>1. CASE S!Commit
    BY <1>0, <2>1 DEF S!TypeOK, S!Revisions, S!Commit
  <2>2. ASSUME NEW r \in S!Revisions,
               S!Register(r) \/ S!Look(r) \/ S!Await(r) \/ S!Wake(r) \/ S!Deadline(r)
        PROVE  S!TypeOK'
    <3>1. wait' \in [S!Revisions -> {"none", "begun", "registered", "looked", "asleep", "shown", "nobody", "late"}]
      BY <1>0, <2>2 DEF S!TypeOK, S!Register, S!Look, S!Await, S!Wake, S!Deadline
    <3>2. UNCHANGED <<revision, shows, closed, posts, leaving, viewers>> /\ told' \subseteq told
      BY <2>2 DEF S!Register, S!Look, S!Await, S!Wake, S!Deadline
    <3> QED
      BY <1>0, <3>1, <3>2 DEF S!TypeOK
  <2> QED
    BY <2>1, <2>2
<1>2. UNCHANGED <<shows, posts, viewers>>
  BY DEF S!Commit, S!Register, S!Look, S!Await, S!Wake, S!Deadline
<1>3. PostsTrue'
  BY <1>2 DEF ReportsInv, PostsTrue, S!Reports, S!Revisions
<1>4. S!NoReportMissed'
  <2> SUFFICES ASSUME NEW q \in S!Revisions, (wait[q] \in {"looked", "asleep"} /\ q \notin told)'
               PROVE  S!Showing(q)' = {}
    BY DEF S!NoReportMissed, S!Revisions
  <2>1. S!Showing(q)' = S!Showing(q)
    BY <1>2 DEF S!Showing, S!Live
  <2>2. (wait[q] \in {"looked", "asleep"} /\ q \notin told) \/ S!Showing(q) = {}
    BY DEF ReportsInv, S!TypeOK, S!Commit, S!Register, S!Look, S!Await, S!Wake, S!Deadline
  <2> QED
    BY <2>1, <2>2 DEF ReportsInv, S!NoReportMissed
<1>5. S!OnlyWhatWasShown'
  BY <1>2 DEF ReportsInv, S!OnlyWhatWasShown
<1> QED
  BY <1>1, <1>3, <1>4, <1>5 DEF ReportsInv

(* A window's report is of what it evaluated. *)
LEMMA PostingKeeps ==
    ASSUME ReportsInv, NEW w \in Windows, S!Show(w) \/ S!Repeat(w)
    PROVE  ReportsInv'
<1> USE ReportsBounds
<1> DEFINE r == shows'[w]
           p == S!Report(w, r)
<1>0. S!TypeOK /\ PostsTrue
  BY DEF ReportsInv
<1>1. /\ r \in S!Revisions /\ p \in S!Reports /\ p.by = w /\ p.revision = r
      /\ posts[p] < MaxReports /\ posts' = [posts EXCEPT ![p] = @ + 1]
      /\ shows' \in [Windows -> 0..MaxRevision]
      /\ \A v \in Windows : shows[v] <= shows'[v]
      /\ UNCHANGED <<revision, closed, leaving, viewers, wait, told>>
  <2>0. revision \in 0..MaxRevision /\ shows[w] \in 0..MaxRevision
    BY <1>0 DEF S!TypeOK
  <2>1. CASE S!Show(w)
    <3>1. r = revision /\ r \in S!Revisions /\ shows' = [shows EXCEPT ![w] = revision] /\ shows[w] < revision
      BY <1>0, <2>0, <2>1 DEF S!Show, S!TypeOK, S!Revisions
    <3>2. S!Post(w, r) /\ UNCHANGED <<revision, closed, leaving, viewers, wait, told>>
      BY <2>1, <3>1 DEF S!Show, S!hostVars
    <3>3. p \in S!Reports /\ p.by = w /\ p.revision = r
      BY <2>0, <3>1 DEF S!Report, S!Reports
    <3> QED
      BY <1>0, <2>0, <3>1, <3>2, <3>3 DEF S!TypeOK, S!Post
  <2>2. CASE S!Repeat(w)
    <3>1. r = shows[w] /\ r \in S!Revisions /\ shows' = shows
      BY <2>0, <2>2 DEF S!Repeat, S!HasReport, S!Revisions
    <3>2. S!Post(w, r) /\ UNCHANGED <<revision, closed, leaving, viewers, wait, told>>
      BY <2>2, <3>1 DEF S!Repeat, S!LastReport, S!hostVars
    <3>3. p \in S!Reports /\ p.by = w /\ p.revision = r
      BY <2>0, <3>1 DEF S!Report, S!Reports
    <3> QED
      BY <1>0, <2>0, <3>1, <3>2, <3>3 DEF S!TypeOK, S!Post
  <2> QED
    BY <2>1, <2>2
<1> HIDE DEF r, p
<1>2. S!TypeOK'
  BY <1>0, <1>1 DEF S!TypeOK
<1>3. PostsTrue'
  <2> SUFFICES ASSUME NEW q \in S!Reports, posts'[q] > 0
               PROVE  q.revision \in S!Revisions /\ q.revision <= shows'[q.by]
    BY DEF PostsTrue, S!Reports, S!Revisions
  <2>1. CASE q = p
    BY <1>1, <2>1 DEF r, S!Revisions
  <2>2. CASE q # p
    <3>1. posts[q] > 0
      BY <1>0, <1>1, <2>2 DEF S!TypeOK
    <3>2. q.by \in Windows /\ q.revision \in S!Revisions /\ q.revision <= shows[q.by]
      BY <1>0, <3>1 DEF PostsTrue, S!Reports
    <3> QED
      BY <1>0, <1>1, <3>2 DEF S!TypeOK, S!Revisions
  <2> QED
    BY <2>1, <2>2
<1>4. S!NoReportMissed'
  BY <1>1 DEF ReportsInv, S!NoReportMissed, S!Showing, S!Live, S!Revisions
<1>5. S!OnlyWhatWasShown'
  <2> SUFFICES ASSUME NEW v \in DOMAIN viewers
               PROVE  viewers[v].revision <= shows'[v]
    BY <1>1 DEF S!OnlyWhatWasShown
  <2>1. v \in Windows /\ viewers[v].revision \in S!Revisions /\ viewers[v].revision <= shows[v]
    BY <1>0 DEF ReportsInv, S!TypeOK, S!OnlyWhatWasShown
  <2> QED
    BY <1>0, <1>1, <2>1 DEF S!TypeOK, S!Revisions
<1> QED
  BY <1>2, <1>3, <1>4, <1>5 DEF ReportsInv

(* Every wait that has looked is told of a report, and of an event stream that ends. *)
LEMMA TellingKeeps ==
    ASSUME ReportsInv,
           told' = told \cup S!Notified, UNCHANGED wait
    PROVE  S!NoReportMissed' /\ told' \subseteq S!Revisions
<1>1. S!Notified = {q \in S!Revisions : wait[q] \in {"registered", "looked", "asleep"}}
  BY DEF S!Notified
<1>2. S!Revisions' = S!Revisions
  BY DEF S!Revisions
<1>3. ASSUME NEW q \in S!Revisions, wait[q] \in {"looked", "asleep"}
      PROVE  q \in told'
  BY <1>1, <1>3
<1>4. S!NoReportMissed'
  BY <1>2, <1>3 DEF S!NoReportMissed
<1> QED
  BY <1>1, <1>4 DEF ReportsInv, S!TypeOK

LEMMA ReportShownKeeps ==
    ASSUME ReportsInv, NEW p \in S!Reports, S!ReportShown(p)
    PROVE  ReportsInv'
<1> USE ReportsBounds
<1>0. S!TypeOK /\ PostsTrue
  BY DEF ReportsInv
<1>1. /\ p.by \in Windows /\ p.revision \in S!Revisions /\ p.revision <= shows[p.by]
      /\ posts[p] > 0 /\ posts' = [posts EXCEPT ![p] = @ - 1]
      /\ viewers' = S!Recorded(p)
      /\ told' = told \cup S!Notified
      /\ UNCHANGED <<revision, shows, closed, leaving, wait>>
  BY <1>0 DEF S!ReportShown, PostsTrue, S!Reports
<1>2. S!NoReportMissed' /\ told' \subseteq S!Revisions
  BY <1>1, TellingKeeps
<1>3. /\ DOMAIN viewers' = DOMAIN viewers \cup {p.by}
      /\ \A v \in DOMAIN viewers' :
             viewers'[v] = IF v = p.by THEN [revision |-> p.revision, live |-> TRUE] ELSE viewers[v]
  BY <1>1 DEF S!Recorded
<1>4. S!TypeOK'
  <2>1. posts' \in [S!Reports -> 0..MaxReports]
    BY <1>0, <1>1 DEF S!TypeOK
  <2>2. DOMAIN viewers' \subseteq Windows /\ \A v \in DOMAIN viewers' : viewers'[v] \in [revision : S!Revisions, live : BOOLEAN]
    <3>1. [revision |-> p.revision, live |-> TRUE] \in [revision : S!Revisions, live : BOOLEAN]
      BY <1>1
    <3>2. ASSUME NEW v \in DOMAIN viewers PROVE v \in Windows /\ viewers[v] \in [revision : S!Revisions, live : BOOLEAN]
      BY <1>0, <3>2 DEF S!TypeOK
    <3>3. \A v \in DOMAIN viewers' : viewers'[v] \in [revision : S!Revisions, live : BOOLEAN]
      BY ONLY <1>3, <3>1, <3>2
    <3> QED
      BY <1>1, <1>3, <3>2, <3>3
  <2> QED
    BY <1>0, <1>1, <1>2, <2>1, <2>2 DEF S!TypeOK, S!Revisions, S!Reports
<1>5. PostsTrue'
  <2> SUFFICES ASSUME NEW q \in S!Reports, posts'[q] > 0
               PROVE  q.revision \in S!Revisions /\ q.revision <= shows[q.by]
    BY <1>1 DEF PostsTrue, S!Reports, S!Revisions
  <2>1. posts[q] > 0
    BY <1>0, <1>1 DEF S!TypeOK
  <2> QED
    BY <1>0, <2>1 DEF PostsTrue
<1>6. S!OnlyWhatWasShown'
  BY <1>1, <1>3 DEF ReportsInv, S!OnlyWhatWasShown
<1> QED
  BY <1>2, <1>4, <1>5, <1>6 DEF ReportsInv

(* A window that is left out, or counted as silent, shows nothing. *)
LEMMA LeavingKeeps ==
    ASSUME ReportsInv, NEW w \in Windows, S!ForgetViewer(w) \/ S!Silence(w) \/ S!CloseWindow(w)
    PROVE  ReportsInv'
<1> USE ReportsBounds
<1>0. S!TypeOK /\ S!OnlyWhatWasShown
  BY DEF ReportsInv
<1>1. /\ UNCHANGED <<revision, shows, posts, wait>>
      /\ closed' \subseteq Windows /\ leaving' \subseteq closed'
  BY <1>0 DEF S!ForgetViewer, S!Silence, S!CloseWindow, S!TypeOK, S!hostVars
<1>2. /\ DOMAIN viewers' \subseteq DOMAIN viewers
      /\ \A v \in DOMAIN viewers' : /\ viewers'[v].revision = viewers[v].revision
                                    /\ viewers'[v].live => viewers[v].live
                                    /\ viewers'[v] \in [revision : S!Revisions, live : BOOLEAN]
  <2>1. CASE viewers' = S!Without(w)
    BY <1>0, <2>1 DEF S!TypeOK, S!Without, S!Restrict
  <2>2. CASE w \in DOMAIN viewers /\ viewers' = [viewers EXCEPT ![w].live = FALSE]
    BY <1>0, <2>2 DEF S!TypeOK
  <2>3. CASE viewers' = viewers
    BY <1>0, <2>3 DEF S!TypeOK
  <2> QED
    BY <2>1, <2>2, <2>3 DEF S!ForgetViewer, S!Silence, S!CloseWindow, S!hostVars
<1>3. S!NoReportMissed' /\ told' \subseteq S!Revisions
  <2>1. CASE told' = told \cup S!Notified
    BY <1>1, <2>1, TellingKeeps
  <2>2. CASE told' = told
    <3>1. ASSUME NEW q \in S!Revisions PROVE S!Showing(q)' \subseteq S!Showing(q)
      BY <1>2 DEF S!Showing, S!Live
    <3>2. S!NoReportMissed'
      BY <1>1, <2>2, <3>1 DEF ReportsInv, S!NoReportMissed, S!Revisions
    <3> QED
      BY <1>0, <2>2, <3>2 DEF S!TypeOK
  <2> QED
    BY <2>1, <2>2 DEF S!ForgetViewer, S!Silence, S!CloseWindow, S!hostVars
<1>4. S!TypeOK'
  BY <1>0, <1>1, <1>2, <1>3 DEF S!TypeOK, S!Revisions, S!Reports
<1>5. PostsTrue'
  BY <1>1 DEF ReportsInv, PostsTrue, S!Reports, S!Revisions
<1>6. S!OnlyWhatWasShown'
  BY <1>0, <1>1, <1>2 DEF S!OnlyWhatWasShown
<1> QED
  BY <1>3, <1>4, <1>5, <1>6 DEF ReportsInv

LEMMA ReportsStep == ReportsInv /\ [S!Next]_reportVars => ReportsInv'
<1> SUFFICES ASSUME ReportsInv, [S!Next]_reportVars PROVE ReportsInv'
  OBVIOUS
<1>1. CASE UNCHANGED reportVars
  BY <1>1 DEF reportVars, ReportsInv, S!TypeOK, PostsTrue, S!NoReportMissed, S!OnlyWhatWasShown,
              S!Showing, S!Live, S!Revisions, S!Reports
<1>2. CASE S!Next
  BY <1>2, WaitsKeep, PostingKeeps, ReportShownKeeps, LeavingKeeps DEF S!Next
<1> QED
  BY <1>1, <1>2

LEMMA ReportsFrame == [HostNext]_<<vars, reportVars, folderVars, scriptVars, tabVars, part>> => [S!Next]_reportVars
BY DEF HostNext

(* Whatever the order the reports arrive in, the host counts no revision as shown that the window has not
   evaluated, and no wait sleeps through the report it waits for (session.rs, report_shown and
   wait_until_shown). *)
THEOREM ReportsHold == HostSpec => []ReportsStand
<1>1. HostInit => ReportsInv
  BY ReportsBegin DEF HostInit
<1>2. ReportsInv /\ [HostNext]_<<vars, reportVars, folderVars, scriptVars, tabVars, part>> => ReportsInv'
  BY ReportsStep, ReportsFrame
<1>3. ReportsInv => ReportsStand
  BY DEF ReportsInv, ReportsStand, S!ReportsStand
<1> QED
  BY <1>1, <1>2, <1>3, PTL DEF HostSpec

------------------------------------------------------------------------------
(* The folder *)

Requested == {"save", "create", "rename", "remove", "convert"}
Kept == F!Scripts \cup {F!Shell}
Files == [Paths -> F!Scripts \cup {F!None, F!Shell}]
Requests == [do : Requested, at : {"begin", "fill", "copy", "unlink"}, path : Paths, to : Paths,
             script : Kept, old : F!Scripts \cup {F!None, F!Shell}]
Seedings == [do : {"seed"}, at : {"next", "source", "record"}, left : Seq(Paths), record : SUBSET Paths]

(* The types, and what an operation is. *)
FolderTyped ==
    /\ loose \in Files /\ bundle \in Files /\ trash \in Seq(Kept)
    /\ seeded \subseteq Paths /\ ships \in Seq(Paths)
    /\ asked \in 0..MaxOps /\ stops \in 0..MaxStops /\ failed \in 0..MaxFailed
    /\ owed \subseteq F!Scripts /\ torn \in BOOLEAN
OpTyped ==
    \/ op = F!Idle
    \/ op \in Requests /\ (op.at \in {"begin", "fill"} => op.script \in F!Scripts)
    \/ op \in Seedings

Filling == op.do \in {"save", "create"} /\ op.at = "fill"
Copying == op.do = "convert" /\ op.at = "copy"
Unlinking == op.do = "convert" /\ op.at = "unlink"
Sourcing == op.do = "seed" /\ op.at = "source"
Recording == op.do = "seed" /\ op.at = "record"

(* What an operation that has begun finds where it goes on. *)
StageInv ==
    /\ Filling => F!ScriptAt(op.path) = F!Shell
    /\ Copying => bundle[op.path] = F!Shell /\ loose[op.path] = op.script
    /\ Unlinking => bundle[op.path] = op.script /\ loose[op.path] = op.script
    /\ Sourcing => op.left # <<>> /\ bundle[Head(op.left)] = F!Shell /\ loose[Head(op.left)] = F!None

(* Every part is whole but the one that is worked on, and those a stop or a failure came in the middle of. *)
Whole(p) == bundle[p] # F!Shell /\ loose[p] # F!Shell /\ (bundle[p] # F!None => loose[p] = F!None)
WorkedOn(p) == \/ (Filling \/ Copying \/ Unlinking) /\ p = op.path
               \/ Sourcing /\ p = Head(op.left)
WholeInv ==
    /\ \A p \in Paths : Whole(p) \/ WorkedOn(p) \/ p \in hurt
    /\ Filling /\ op.path \notin hurt => bundle[op.path] = F!None \/ loose[op.path] = F!None
    /\ (Copying \/ Unlinking) /\ op.path \notin hurt => op.script # F!Shell

(* What is owed is somewhere or cut short, and each stop or failure cut one short at most; the one that
   a save is at comes back with the script that replaces it. *)
Lost == IF Filling THEN cut \ {op.old} ELSE cut
LostInv ==
    /\ owed \subseteq F!Everywhere \cup cut
    /\ IsFiniteSet(cut) /\ Cardinality(Lost) <= stops + failed

(* Until the record is torn: what a person took away is on record, and once a seeding is over so is every
   part this version ships. *)
SeedInv ==
    ~torn =>
        /\ op.do # "seed" => F!Range(ships) \subseteq seeded /\ gone \subseteq seeded
        /\ op.do = "seed" => /\ gone \subseteq op.record
                             /\ F!Range(ships) \subseteq op.record \cup F!Range(op.left)
                             /\ op.at = "record" => op.left = <<>>
                             /\ op.at # "record" => gone \subseteq seeded

FolderInv == FolderTyped /\ OpTyped /\ StageInv /\ WholeInv /\ LostInv /\ SeedInv

------------------------------------------------------------------------------
(* A script is neither an empty file nor nothing. *)
LEMMA Kinds ==
    /\ F!None # F!Shell
    /\ \A s \in F!Scripts : s # F!None /\ s # F!Shell
    /\ \A n \in 1..MaxOps : F!Written(n) \in F!Scripts
    /\ \A p \in Paths : F!EarlierPart(p) \in F!Scripts /\ F!Shipped(p) \in F!Scripts
<1>1. F!None # F!Shell
  BY DEF F!None, F!Shell
<1>2. ASSUME NEW s \in F!Scripts PROVE s # F!None /\ s # F!Shell
  <2>1. s.is \in {"written", "earlier", "shipped"}
    BY DEF F!Scripts
  <2>2. F!None.is = "none" /\ F!Shell.is = "shell"
    BY DEF F!None, F!Shell
  <2> QED
    BY <2>1, <2>2
<1>3. ASSUME NEW n \in 1..MaxOps PROVE F!Written(n) \in F!Scripts
  BY DEF F!Written, F!Scripts
<1>4. ASSUME NEW p \in Paths PROVE F!EarlierPart(p) \in F!Scripts /\ F!Shipped(p) \in F!Scripts
  BY DEF F!EarlierPart, F!Shipped, F!Scripts
<1> QED
  BY <1>1, <1>2, <1>3, <1>4

(* What is left is the head and the rest. *)
LEMMA HeadAndRest ==
    ASSUME NEW s \in Seq(Paths), s # <<>>
    PROVE  /\ Head(s) \in Paths /\ Tail(s) \in Seq(Paths)
           /\ F!Range(s) \subseteq {Head(s)} \cup F!Range(Tail(s))
<1>1. Head(s) \in Paths /\ Tail(s) \in Seq(Paths)
  BY HeadTailProperties
<1>2. ASSUME NEW x \in F!Range(s) PROVE x \in {Head(s)} \cup F!Range(Tail(s))
  <2>1. PICK i \in 1..Len(s) : s[i] = x
    BY <1>2 DEF F!Range
  <2>2. CASE i = 1
    BY <2>1, <2>2
  <2>3. CASE i # 1
    <3>1. i - 1 \in 1..Len(Tail(s)) /\ Tail(s)[i - 1] = s[i] /\ DOMAIN Tail(s) = 1..Len(Tail(s))
      BY <2>1, <2>3
    <3> QED
      BY <2>1, <3>1 DEF F!Range
  <2> QED
    BY <2>2, <2>3
<1> QED
  BY <1>1, <1>2

LEMMA ReleaseTyped == \A r \in Releases : r \in Seq(Paths)
BY FolderAssumption

LEMMA FolderBegins == F!Init => FolderInv
<1> SUFFICES ASSUME F!Init PROVE FolderInv
  OBVIOUS
<1> USE Kinds, FolderAssumption
<1>0. /\ op = [do |-> "seed", at |-> "next", left |-> ships, record |-> {}] /\ ships \in Seq(Paths)
      /\ op.do = "seed" /\ op.at = "next" /\ op.left = ships /\ op.record = {}
  BY ReleaseTyped DEF F!Init, F!Seeding
<1>1. FolderTyped
  <2>1. loose \in Files /\ bundle \in Files
    BY DEF F!Init, Files
  <2>2. trash = <<>> /\ seeded = {} /\ owed = {F!EarlierPart(p) : p \in Earlier} /\ torn = FALSE
    BY DEF F!Init
  <2>4. owed \subseteq F!Scripts
    BY <2>2
  <2>5. trash \in Seq(Kept)
    BY <2>2
  <2>3. asked \in 0..MaxOps /\ stops \in 0..MaxStops /\ failed \in 0..MaxFailed
    BY DEF F!Init
  <2> QED
    BY <1>0, <2>1, <2>2, <2>3, <2>4, <2>5 DEF FolderTyped
<1>2. OpTyped
  BY <1>0 DEF OpTyped, Seedings
<1>3. StageInv /\ ~Filling /\ ~Copying /\ ~Unlinking
  BY <1>0 DEF StageInv, Filling, Copying, Unlinking, Sourcing
<1>4. WholeInv
  BY <1>3 DEF F!Init, WholeInv, Whole
<1>5. SeedInv
  BY <1>0 DEF F!Init, SeedInv
<1>6. LostInv
  <2>1. owed \subseteq F!Everywhere
    BY DEF F!Init, F!Everywhere
  <2>2. Lost = {} /\ cut = {} /\ stops + failed = 0
    BY <1>3 DEF Lost, F!Init
  <2> QED
    BY <2>1, <2>2, FS_EmptySet DEF LostInv
<1> QED
  BY <1>1, <1>2, <1>3, <1>4, <1>5, <1>6 DEF FolderInv

(* The fields of an operation. *)
LEMMA OpFields ==
    ASSUME OpTyped
    PROVE  /\ op = F!Idle => op.do = "idle"
           /\ op.do \in {"idle", "seed"} \cup Requested
           /\ op.do \in Requested =>
                /\ op \in Requests /\ op.at \in {"begin", "fill", "copy", "unlink"}
                /\ op.path \in Paths /\ op.to \in Paths /\ op.script \in Kept
                /\ op.at \in {"begin", "fill"} => op.script \in F!Scripts
           /\ op.do = "seed" =>
                /\ op \in Seedings
                /\ op.left \in Seq(Paths) /\ op.record \subseteq Paths /\ op.at \in {"next", "source", "record"}
BY DEF OpTyped, F!Idle, Requested, Requests, Seedings

(* A script is somewhere. *)
LEMMA Somewhere ==
    ASSUME NEW s
    PROVE  s \in F!Everywhere <=> \/ \E p \in Paths : loose[p] = s \/ bundle[p] = s
                                  \/ \E i \in DOMAIN trash : trash[i] = s
BY DEF F!Everywhere, F!Range

(* What was cut short counts the same where no save is at work before or after. *)
LEMMA CutStays ==
    ASSUME FolderInv, ~Filling, ~Filling', UNCHANGED <<stops, failed, cut, owed>>,
           \A s \in owed : s \in F!Everywhere => s \in F!Everywhere'
    PROVE  LostInv'
BY DEF FolderInv, LostInv, Lost

(* A request that ends leaves the folder typed, whole and with nothing lost: the rest follows. *)
LEMMA IdleKeeps ==
    ASSUME FolderInv, op' = F!Idle, op.do \in Requested,
           UNCHANGED <<seeded, ships, stops, failed, asked, torn>>,
           loose' \in Files, bundle' \in Files, trash' \in Seq(Kept), owed' \subseteq F!Scripts,
           gone' \subseteq gone \cup F!Range(ships),
           \A p \in Paths : Whole(p)' \/ p \in hurt',
           LostInv'
    PROVE  FolderInv'
<1>1. op'.do = "idle"
  BY DEF F!Idle
<1>2. FolderTyped'
  BY DEF FolderInv, FolderTyped, Kept, Files, F!Scripts, F!None, F!Shell
<1>3. OpTyped'
  BY DEF OpTyped, F!Idle
<1>4. StageInv' /\ ~Filling' /\ ~Copying' /\ ~Unlinking'
  BY <1>1 DEF StageInv, Filling, Copying, Unlinking, Sourcing
<1>5. WholeInv'
  BY <1>4 DEF WholeInv
<1>6. SeedInv'
  BY <1>1 DEF FolderInv, SeedInv, Requested, F!Range
<1> QED
  BY <1>2, <1>3, <1>4, <1>5, <1>6 DEF FolderInv

LEMMA AskKeeps ==
    ASSUME FolderInv, NEW do \in Requested, NEW p \in Paths, NEW to \in Paths, F!Ask(do, p, to)
    PROVE  FolderInv'
<1> USE Kinds, FolderAssumption
<1>0. /\ op' = [do |-> do, at |-> "begin", path |-> p, to |-> to, script |-> F!Written(asked + 1), old |-> F!None]
      /\ op.do = "idle" /\ asked' = asked + 1 /\ asked' \in 1..MaxOps
      /\ UNCHANGED <<loose, bundle, trash, seeded, ships, stops, failed, owed, cut, hurt, torn, gone>>
  BY DEF F!Ask, F!Idle, F!files, F!scars, FolderInv, FolderTyped
<1>1. FolderTyped'
  BY <1>0 DEF FolderInv, FolderTyped, Kept, Files
<1>2. OpTyped'
  BY <1>0 DEF OpTyped, Requests, Kept
<1>3. /\ StageInv' /\ ~Filling' /\ ~Filling
      /\ ~Copying /\ ~Unlinking /\ ~Sourcing /\ ~Copying' /\ ~Unlinking' /\ ~Sourcing'
  BY <1>0 DEF StageInv, Filling, Copying, Unlinking, Sourcing, Requested
<1>4. WholeInv'
  BY <1>0, <1>3 DEF FolderInv, WholeInv, Whole, WorkedOn
<1>5. SeedInv'
  BY <1>0 DEF FolderInv, SeedInv, Requested, F!Range
<1>6. LostInv'
  <2>1. F!Everywhere' = F!Everywhere
    BY <1>0 DEF F!Everywhere
  <2> QED
    BY <1>0, <1>3, <2>1, CutStays
<1> QED
  BY <1>1, <1>2, <1>3, <1>4, <1>5, <1>6 DEF FolderInv

(* A save cuts short the script it replaces until it is done, and the others stay. *)
LEMMA EmptyKeeps ==
    ASSUME FolderInv, F!Empty
    PROVE  FolderInv'
<1> USE Kinds
<1> DEFINE p == op.path
           old == F!ScriptAt(p)
<1>0. /\ op.do \in {"save", "create"} /\ op.at = "begin" /\ op.do \in Requested /\ op \in Requests
      /\ p \in Paths /\ op' = [op EXCEPT !.at = "fill", !.old = old]
      /\ cut' = cut \cup ({old} \cap owed)
      /\ UNCHANGED <<trash, seeded, ships, asked, stops, failed, owed, hurt, torn, gone>>
  BY OpFields DEF FolderInv, F!Empty, F!Goes, Requested
<1>1. \/ /\ loose[p] # F!None /\ bundle[p] = F!None /\ old = loose[p]
         /\ loose' = [loose EXCEPT ![p] = F!Shell] /\ bundle' = bundle
      \/ /\ bundle[p] # F!None \/ loose[p] = F!None
         /\ bundle[p] # F!None => old = bundle[p]
         /\ bundle[p] = F!None => old = F!None
         /\ bundle' = [bundle EXCEPT ![p] = F!Shell] /\ loose' = loose
  BY DEF F!Empty, F!IsBundle, F!ScriptAt
<1> HIDE DEF p, old
<1>2. FolderTyped' /\ old \in F!Scripts \cup {F!None, F!Shell}
  <2>1. /\ \A q \in Paths : loose[q] \in F!Scripts \cup {F!None, F!Shell}
        /\ \A q \in Paths : bundle[q] \in F!Scripts \cup {F!None, F!Shell}
    BY DEF FolderInv, FolderTyped, Files
  <2>2. loose' \in Files /\ bundle' \in Files
    BY <1>0, <1>1 DEF FolderInv, FolderTyped, Files
  <2>3. old \in F!Scripts \cup {F!None, F!Shell}
    BY <1>0, <1>1, <2>1
  <2> QED
    BY <1>0, <2>2, <2>3 DEF FolderInv, FolderTyped, Kept
<1>3. OpTyped' /\ op'.do = op.do /\ op'.at = "fill" /\ op'.path = p /\ op'.old = old
  <2>1. op.script \in F!Scripts
    BY <1>0, OpFields DEF FolderInv
  <2> QED
    BY <1>0, <1>2, <2>1 DEF OpTyped, Requests, p
<1>4. ~Copying' /\ ~Unlinking' /\ ~Sourcing' /\ Filling' /\ ~Filling /\ ~Copying /\ ~Unlinking /\ ~Sourcing
  BY <1>0, <1>3 DEF Filling, Copying, Unlinking, Sourcing
<1>5. StageInv'
  <2>1. (IF bundle'[p] # F!None THEN bundle'[p] ELSE loose'[p]) = F!Shell
    BY <1>0, <1>1 DEF FolderInv, FolderTyped, Files
  <2> QED
    BY <1>3, <1>4, <2>1 DEF StageInv, F!ScriptAt, F!IsBundle
<1>6. WholeInv'
  <2>1. \A q \in Paths : Whole(q) \/ q \in hurt
    BY <1>4 DEF FolderInv, WholeInv, WorkedOn
  <2>2. \A q \in Paths : Whole(q)' \/ q = p \/ q \in hurt
    BY <1>0, <1>1, <2>1 DEF Whole, FolderInv, FolderTyped, Files
  <2>3. p \notin hurt => bundle'[p] = F!None \/ loose'[p] = F!None
    BY <1>0, <1>1, <2>1 DEF Whole, FolderInv, FolderTyped, Files
  <2> QED
    BY <1>0, <1>3, <1>4, <2>2, <2>3 DEF WholeInv, WorkedOn
<1>7. SeedInv'
  BY <1>0, <1>3 DEF FolderInv, SeedInv, F!Range
<1>8. LostInv'
  <2>1. ASSUME NEW s \in owed PROVE s \in F!Everywhere' \/ s \in cut'
    <3>1. s \in F!Scripts /\ (s \in F!Everywhere \/ s \in cut)
      BY DEF FolderInv, FolderTyped, LostInv
    <3>2. CASE s = old \/ s \in cut
      BY <1>0, <3>2
    <3>3. CASE \E i \in DOMAIN trash : trash[i] = s
      BY <1>0, <3>3 DEF F!Everywhere, F!Range
    <3>4. ASSUME NEW q \in Paths, loose[q] = s \/ bundle[q] = s, s # old
          PROVE  s \in F!Everywhere'
      <4>1. loose'[q] = s \/ bundle'[q] = s
        BY <1>0, <1>1, <3>1, <3>4 DEF FolderInv, FolderTyped, Files
      <4> QED
        BY <4>1 DEF F!Everywhere
    <3> QED
      BY <3>1, <3>2, <3>3, <3>4, Somewhere
  <2>2. IsFiniteSet(cut) /\ Cardinality(cut) <= stops + failed
    BY <1>4 DEF FolderInv, LostInv, Lost
  <2>3. IsFiniteSet(cut')
    <3>1. IsFiniteSet(cut \cup {old})
      BY <2>2, FS_AddElement
    <3> QED
      BY <1>0, <3>1, FS_Subset
  <2>4. Lost' \subseteq cut
    BY <1>0, <1>3, <1>4 DEF Lost
  <2>5. Cardinality(Lost') <= stops' + failed'
    <3>1. IsFiniteSet(Lost') /\ Cardinality(Lost') <= Cardinality(cut)
      BY <2>2, <2>4, FS_Subset
    <3>2. Cardinality(Lost') \in Nat /\ Cardinality(cut) \in Nat
      BY <2>2, <3>1, FS_CardinalityType
    <3>3. stops \in Nat /\ failed \in Nat
      BY DEF FolderInv, FolderTyped
    <3> QED
      BY <1>0, <2>2, <3>1, <3>2, <3>3
  <2> QED
    BY <1>0, <2>1, <2>3, <2>5 DEF LostInv
<1> QED
  BY <1>2, <1>3, <1>5, <1>6, <1>7, <1>8 DEF FolderInv

LEMMA FillKeeps ==
    ASSUME FolderInv, F!Fill
    PROVE  FolderInv'
<1> USE Kinds
<1> DEFINE p == op.path
           t == op.script
<1>0. /\ Filling /\ op.do \in Requested /\ p \in Paths /\ t \in F!Scripts
      /\ op' = F!Idle /\ owed' = (owed \ {op.old}) \cup {t} /\ cut' = cut \ {op.old}
      /\ UNCHANGED <<trash, seeded, ships, asked, stops, failed, hurt, torn, gone>>
  BY OpFields DEF FolderInv, F!Fill, F!End, F!Goes, Requested, Filling
<1>1. \/ /\ bundle[p] = F!Shell /\ bundle' = [bundle EXCEPT ![p] = t] /\ loose' = loose
      \/ /\ bundle[p] = F!None /\ loose[p] = F!Shell /\ loose' = [loose EXCEPT ![p] = t] /\ bundle' = bundle
  BY <1>0 DEF F!Fill, F!IsBundle, F!ScriptAt, FolderInv, StageInv
<1> HIDE DEF p, t
<1>2. loose' \in Files /\ bundle' \in Files /\ trash' \in Seq(Kept) /\ owed' \subseteq F!Scripts
  BY <1>0, <1>1 DEF FolderInv, FolderTyped, Files
<1>3. ASSUME NEW q \in Paths PROVE Whole(q)' \/ q \in hurt'
  <2>1. Whole(q) \/ q = p \/ q \in hurt
    BY <1>0 DEF FolderInv, WholeInv, WorkedOn, Filling, Copying, Unlinking, Sourcing, p
  <2>2. p \notin hurt => bundle[p] = F!None \/ loose[p] = F!None
    BY <1>0 DEF FolderInv, WholeInv, p
  <2> QED
    BY <1>0, <1>1, <2>1, <2>2 DEF Whole, FolderInv, FolderTyped, Files
<1>4. LostInv'
  <2>1. ASSUME NEW s \in owed' PROVE s \in F!Everywhere' \/ s \in cut'
    <3>1. CASE s = t
      <4>1. loose'[p] = s \/ bundle'[p] = s
        BY <1>0, <1>1, <3>1 DEF FolderInv, FolderTyped, Files
      <4> QED
        BY <1>0, <4>1 DEF F!Everywhere
    <3>2. CASE s # t
      <4>1. s \in F!Scripts /\ s # op.old /\ (s \in F!Everywhere \/ s \in cut)
        BY <1>0, <3>2 DEF FolderInv, FolderTyped, LostInv
      <4>2. CASE s \in cut
        BY <1>0, <4>1, <4>2
      <4>3. CASE \E i \in DOMAIN trash : trash[i] = s
        BY <1>0, <4>3 DEF F!Everywhere, F!Range
      <4>4. ASSUME NEW q \in Paths, loose[q] = s \/ bundle[q] = s
            PROVE  s \in F!Everywhere'
        <5>1. loose'[q] = s \/ bundle'[q] = s
          BY <1>0, <1>1, <4>1, <4>4 DEF FolderInv, FolderTyped, Files
        <5> QED
          BY <5>1 DEF F!Everywhere
      <4> QED
        BY <4>1, <4>2, <4>3, <4>4, Somewhere
    <3> QED
      BY <3>1, <3>2
  <2>2. Lost = cut' /\ Lost' = cut'
    BY <1>0 DEF Lost, Filling, F!Idle
  <2>3. IsFiniteSet(cut')
    BY <1>0, FS_RemoveElement DEF FolderInv, LostInv
  <2> QED
    BY <1>0, <2>1, <2>2, <2>3 DEF FolderInv, LostInv
<1> QED
  BY <1>0, <1>2, <1>3, <1>4, IdleKeeps

(* A part moved from one that a stop came in the middle of is such a part. *)
LEMMA RenameKeeps ==
    ASSUME FolderInv, F!RenamePart
    PROVE  FolderInv'
<1> USE Kinds
<1> DEFINE p == op.path
           to == op.to
<1>0. /\ op.do \in Requested /\ p \in Paths /\ to \in Paths /\ op' = F!Idle
      /\ ~Filling /\ ~Copying /\ ~Unlinking /\ ~Sourcing
      /\ bundle[p] # F!None \/ loose[p] # F!None
      /\ bundle[to] = F!None /\ loose[to] = F!None
      /\ hurt' = IF p \in hurt THEN hurt \cup {to} ELSE hurt
      /\ gone' = gone \cup ({p} \cap F!Range(ships))
      /\ UNCHANGED <<trash, seeded, ships, asked, stops, failed, owed, cut, torn>>
  BY OpFields DEF FolderInv, F!RenamePart, F!End, F!Goes, Requested, F!Located, F!Taken, F!IsBundle,
                  Filling, Copying, Unlinking, Sourcing
<1>1. \/ /\ bundle[p] # F!None /\ loose' = loose
         /\ bundle' = [bundle EXCEPT ![p] = F!None, ![to] = bundle[p]]
      \/ /\ bundle[p] = F!None /\ loose[p] # F!None /\ bundle' = bundle
         /\ loose' = [loose EXCEPT ![p] = F!None, ![to] = loose[p]]
  BY <1>0 DEF F!RenamePart, F!IsBundle
<1> HIDE DEF p, to
<1>2. loose' \in Files /\ bundle' \in Files /\ trash' \in Seq(Kept) /\ owed' \subseteq F!Scripts
  BY <1>0, <1>1 DEF FolderInv, FolderTyped, Files
<1>3. ASSUME NEW q \in Paths PROVE Whole(q)' \/ q \in hurt'
  <2>1. \A r \in Paths : Whole(r) \/ r \in hurt
    BY <1>0 DEF FolderInv, WholeInv, WorkedOn
  <2> QED
    BY <1>0, <1>1, <2>1 DEF Whole, FolderInv, FolderTyped, Files
<1>4. LostInv'
  <2>1. ASSUME NEW s \in owed, s \in F!Everywhere PROVE s \in F!Everywhere'
    <3>1. s \in F!Scripts
      BY DEF FolderInv, FolderTyped
    <3>2. CASE \E i \in DOMAIN trash : trash[i] = s
      BY <1>0, <3>2 DEF F!Everywhere, F!Range
    <3>3. ASSUME NEW q \in Paths, loose[q] = s \/ bundle[q] = s
          PROVE  s \in F!Everywhere'
      <4>1. \E r \in {q, to} : loose'[r] = s \/ bundle'[r] = s
        BY <1>0, <1>1, <3>1, <3>3 DEF FolderInv, FolderTyped, Files
      <4> QED
        BY <1>0, <4>1 DEF F!Everywhere
    <3> QED
      BY <2>1, <3>2, <3>3, Somewhere
  <2>2. ~Filling'
    BY <1>0 DEF Filling, F!Idle
  <2> QED
    BY <1>0, <2>1, <2>2, CutStays
<1> QED
  BY <1>0, <1>2, <1>3, <1>4, IdleKeeps

LEMMA RemoveKeeps ==
    ASSUME FolderInv, F!RemovePart
    PROVE  FolderInv'
<1> USE Kinds
<1> DEFINE p == op.path
           t == F!ScriptAt(p)
<1>0. /\ op.do \in Requested /\ p \in Paths /\ op' = F!Idle
      /\ ~Filling /\ ~Copying /\ ~Unlinking /\ ~Sourcing
      /\ trash' = Append(trash, t)
      /\ gone' = gone \cup ({p} \cap F!Range(ships))
      /\ UNCHANGED <<seeded, ships, asked, stops, failed, owed, cut, hurt, torn>>
  BY OpFields DEF FolderInv, F!RemovePart, F!End, F!Goes, F!scars, Requested, F!IntoTrash,
                  Filling, Copying, Unlinking, Sourcing
<1>1. \/ bundle[p] # F!None /\ t = bundle[p] /\ loose' = loose /\ bundle' = [bundle EXCEPT ![p] = F!None]
      \/ bundle[p] = F!None /\ loose[p] # F!None /\ t = loose[p] /\ bundle' = bundle /\ loose' = [loose EXCEPT ![p] = F!None]
  BY DEF F!RemovePart, F!IsBundle, F!Located, F!Taken, F!ScriptAt
<1> HIDE DEF p, t
<1>2. /\ loose' \in Files /\ bundle' \in Files
      /\ t \in Kept /\ owed' \subseteq F!Scripts /\ trash \in Seq(Kept)
  BY <1>0, <1>1 DEF FolderInv, FolderTyped, Kept, Files
<1>3. /\ trash' \in Seq(Kept) /\ Len(trash') = Len(trash) + 1
      /\ trash'[Len(trash) + 1] = t
      /\ \A i \in 1..Len(trash) : trash'[i] = trash[i]
  BY <1>0, <1>2, AppendProperties
<1>4. ASSUME NEW q \in Paths PROVE Whole(q)' \/ q \in hurt'
  <2>1. \A r \in Paths : Whole(r) \/ r \in hurt
    BY <1>0 DEF FolderInv, WholeInv, WorkedOn
  <2> QED
    BY <1>0, <1>1, <2>1 DEF Whole, FolderInv, FolderTyped, Files
<1>5. LostInv'
  <2>1. ASSUME NEW s \in owed, s \in F!Everywhere PROVE s \in F!Everywhere'
    <3>1. s \in F!Scripts
      BY DEF FolderInv, FolderTyped
    <3>2. DOMAIN trash' = 1..(Len(trash) + 1) /\ DOMAIN trash = 1..Len(trash) /\ Len(trash) \in Nat
      BY <1>2, <1>3
    <3>3. CASE s = t \/ \E i \in DOMAIN trash : trash[i] = s
      <4>1. \E i \in DOMAIN trash' : trash'[i] = s
        BY <1>3, <3>2, <3>3
      <4> QED
        BY <4>1 DEF F!Everywhere, F!Range
    <3>4. ASSUME NEW q \in Paths, loose[q] = s \/ bundle[q] = s, s # t
          PROVE  s \in F!Everywhere'
      <4>1. loose'[q] = s \/ bundle'[q] = s
        BY <1>0, <1>1, <3>1, <3>4 DEF FolderInv, FolderTyped, Files
      <4> QED
        BY <4>1 DEF F!Everywhere
    <3> QED
      BY <2>1, <3>3, <3>4, Somewhere
  <2>2. ~Filling'
    BY <1>0 DEF Filling, F!Idle
  <2> QED
    BY <1>0, <2>1, <2>2, CutStays
<1> QED
  BY <1>0, <1>2, <1>3, <1>4, <1>5, IdleKeeps

(* What a part is converted from is written into its bundle before it is removed. *)
LEMMA ConvertKeeps ==
    ASSUME FolderInv, F!MakeBundle \/ F!Copy
    PROVE  FolderInv'
<1> USE Kinds
<1> DEFINE p == op.path
           t == op'.script
<1>0. /\ op.do = "convert" /\ op.do \in Requested /\ p \in Paths
      /\ op'.do = "convert" /\ op'.path = p /\ ~Filling /\ ~Filling' /\ ~Sourcing /\ ~Sourcing' /\ ~Unlinking
      /\ UNCHANGED <<loose, trash, seeded, ships, asked, stops, failed, owed, cut, hurt, torn, gone>>
      /\ t \in Kept /\ loose[p] = t
      /\ \/ ~Copying /\ bundle[p] = F!None /\ Copying' /\ ~Unlinking' /\ bundle' = [bundle EXCEPT ![p] = F!Shell]
         \/ Copying /\ bundle[p] = F!Shell /\ ~Copying' /\ Unlinking' /\ bundle' = [bundle EXCEPT ![p] = t]
      /\ OpTyped'
  <2>1. CASE F!MakeBundle
    <3>1. /\ op.do = "convert" /\ op.at = "begin" /\ op.do \in Requested /\ p \in Paths
          /\ op' = [op EXCEPT !.at = "copy", !.script = loose[p]]
          /\ loose[p] # F!None /\ bundle[p] = F!None
      BY <2>1, OpFields DEF FolderInv, F!MakeBundle, F!Located, F!Taken, F!IsBundle, Requested
    <3>2. loose[p] \in Kept
      BY <3>1 DEF FolderInv, FolderTyped, Files, Kept
    <3> HIDE DEF p
    <3>3. OpTyped' /\ op'.do = "convert" /\ op'.at = "copy" /\ op'.path = op.path /\ op'.script = loose[p]
      BY <3>1, <3>2, OpFields DEF FolderInv, OpTyped, Requests
    <3> QED
      BY <2>1, <3>1, <3>2, <3>3 DEF F!MakeBundle, F!Goes, F!scars, Filling, Copying, Unlinking, Sourcing, p
  <2>2. CASE F!Copy
    <3>1. /\ op.do = "convert" /\ op.at = "copy" /\ op.do \in Requested /\ p \in Paths
          /\ op' = [op EXCEPT !.at = "unlink"]
      BY <2>2, OpFields DEF FolderInv, F!Copy, F!Step, Requested
    <3>2. loose[p] = op.script /\ bundle[p] = F!Shell
      BY <3>1 DEF FolderInv, StageInv, Copying
    <3> HIDE DEF p
    <3>3. OpTyped' /\ op'.do = "convert" /\ op'.at = "unlink" /\ op'.path = op.path /\ op'.script = op.script
          /\ op.script \in Kept
      BY <3>1, OpFields DEF FolderInv, OpTyped, Requests
    <3> QED
      BY <2>2, <3>1, <3>2, <3>3 DEF F!Copy, F!Goes, F!scars, Filling, Copying, Unlinking, Sourcing, p
  <2> QED
    BY <2>1, <2>2
<1> HIDE DEF p, t
<1>1. FolderTyped'
  BY <1>0 DEF FolderInv, FolderTyped, Kept, Files
<1>2. StageInv'
  BY <1>0 DEF StageInv, p, t, FolderInv, FolderTyped, Files
<1>3. WholeInv'
  <2>1. \A q \in Paths : Whole(q) \/ q = p \/ q \in hurt
    BY <1>0 DEF FolderInv, WholeInv, WorkedOn, p
  <2>2. \A q \in Paths : Whole(q)' \/ q = p \/ q \in hurt
    BY <1>0, <2>1 DEF Whole, FolderInv, FolderTyped, Files
  <2>3. p \notin hurt => t # F!Shell
    <3>1. CASE Copying
      <4>1. t = op.script
        BY <1>0, <3>1 DEF FolderInv, StageInv, p
      <4> QED
        BY <3>1, <4>1 DEF FolderInv, WholeInv, p
    <3>2. CASE ~Copying
      BY <1>0, <3>2 DEF FolderInv, WholeInv, WorkedOn, Whole
    <3> QED
      BY <3>1, <3>2
  <2> QED
    BY <1>0, <2>2, <2>3 DEF WholeInv, WorkedOn, p, t
<1>4. SeedInv'
  BY <1>0 DEF FolderInv, SeedInv, F!Range
<1>5. LostInv'
  <2>1. ASSUME NEW s \in owed, s \in F!Everywhere PROVE s \in F!Everywhere'
    <3>1. s \in F!Scripts
      BY DEF FolderInv, FolderTyped
    <3>2. CASE \E i \in DOMAIN trash : trash[i] = s
      BY <1>0, <3>2 DEF F!Everywhere, F!Range
    <3>3. ASSUME NEW q \in Paths, loose[q] = s \/ bundle[q] = s
          PROVE  s \in F!Everywhere'
      <4>1. loose'[q] = s \/ bundle'[q] = s
        BY <1>0, <3>1, <3>3 DEF FolderInv, FolderTyped, Files
      <4> QED
        BY <4>1 DEF F!Everywhere
    <3> QED
      BY <2>1, <3>2, <3>3, Somewhere
  <2> QED
    BY <1>0, <2>1, CutStays
<1> QED
  BY <1>0, <1>1, <1>2, <1>3, <1>4, <1>5 DEF FolderInv

LEMMA UnlinkKeeps ==
    ASSUME FolderInv, F!Unlink
    PROVE  FolderInv'
<1> USE Kinds
<1> DEFINE p == op.path
           t == op.script
<1>0. /\ op.do \in Requested /\ p \in Paths /\ t \in Kept /\ op' = F!Idle
      /\ Unlinking /\ ~Filling /\ ~Copying /\ ~Sourcing
      /\ bundle[p] = t /\ loose[p] = t /\ loose' = [loose EXCEPT ![p] = F!None]
      /\ UNCHANGED <<bundle, trash, seeded, ships, asked, stops, failed, owed, cut, hurt, torn, gone>>
  BY OpFields DEF FolderInv, StageInv, F!Unlink, F!Unlinked, F!End, F!Goes, F!scars, Requested,
                  Filling, Copying, Unlinking, Sourcing
<1>1. p \notin hurt => t # F!Shell
  BY <1>0 DEF FolderInv, WholeInv
<1>2. \A q \in Paths : Whole(q) \/ q = p \/ q \in hurt
  BY <1>0 DEF FolderInv, WholeInv, WorkedOn
<1> HIDE DEF p, t
<1>3. loose' \in Files /\ bundle' \in Files /\ trash' \in Seq(Kept) /\ owed' \subseteq F!Scripts
  BY <1>0 DEF FolderInv, FolderTyped, Files
<1>4. \A q \in Paths : Whole(q)' \/ q \in hurt'
  BY <1>0, <1>1, <1>2 DEF Whole, FolderInv, FolderTyped, Files
<1>5. LostInv'
  <2>1. ASSUME NEW s \in owed, s \in F!Everywhere PROVE s \in F!Everywhere'
    <3>1. s \in F!Scripts
      BY DEF FolderInv, FolderTyped
    <3>2. CASE \E i \in DOMAIN trash : trash[i] = s
      BY <1>0, <3>2 DEF F!Everywhere, F!Range
    <3>3. ASSUME NEW q \in Paths, loose[q] = s \/ bundle[q] = s
          PROVE  s \in F!Everywhere'
      <4>1. loose'[q] = s \/ bundle'[q] = s
        BY <1>0, <3>1, <3>3 DEF FolderInv, FolderTyped, Files
      <4> QED
        BY <4>1 DEF F!Everywhere
    <3> QED
      BY <2>1, <3>2, <3>3, Somewhere
  <2>2. ~Filling'
    BY <1>0 DEF Filling, F!Idle
  <2> QED
    BY <1>0, <2>1, <2>2, CutStays
<1> QED
  BY <1>0, <1>3, <1>4, <1>5, IdleKeeps

LEMMA RefuseKeeps ==
    ASSUME FolderInv, F!Refuse
    PROVE  FolderInv'
<1>0. /\ op.do \in Requested /\ op' = F!Idle
      /\ ~Filling /\ ~Copying /\ ~Unlinking /\ ~Sourcing
      /\ UNCHANGED <<loose, bundle, trash, seeded, ships, asked, stops, failed, owed, cut, hurt, torn, gone>>
  BY DEF F!Refuse, F!End, F!Goes, F!files, F!scars, Requested, Filling, Copying, Unlinking, Sourcing
<1>1. loose' \in Files /\ bundle' \in Files /\ trash' \in Seq(Kept) /\ owed' \subseteq F!Scripts
  BY <1>0 DEF FolderInv, FolderTyped, Files
<1>2. \A q \in Paths : Whole(q)' \/ q \in hurt'
  BY <1>0 DEF FolderInv, WholeInv, WorkedOn, Whole
<1>3. LostInv'
  <2>1. F!Everywhere' = F!Everywhere /\ ~Filling'
    BY <1>0 DEF F!Everywhere, Filling, F!Idle
  <2> QED
    BY <1>0, <2>1, CutStays
<1> QED
  BY <1>0, <1>1, <1>2, <1>3, IdleKeeps

(* The next shipped part: it is on record, or found there, or its bundle is made. *)
LEMMA SeedNextKeeps ==
    ASSUME FolderInv, F!SeedNext
    PROVE  FolderInv'
<1> USE Kinds
<1> DEFINE p == Head(op.left)
<1>0. /\ op.do = "seed" /\ op.at = "next" /\ op.left \in Seq(Paths) /\ op.left # <<>> /\ op.record \subseteq Paths
      /\ op \in Seedings
      /\ UNCHANGED <<loose, trash, seeded, ships, asked, stops, failed, owed, cut, hurt, torn, gone>>
      /\ ~Filling /\ ~Copying /\ ~Unlinking /\ ~Sourcing
  BY OpFields DEF FolderInv, F!SeedNext, F!Goes, F!scars, Filling, Copying, Unlinking, Sourcing
<1>1. p \in Paths /\ Tail(op.left) \in Seq(Paths) /\ F!Range(op.left) \subseteq {p} \cup F!Range(Tail(op.left))
  BY <1>0, HeadAndRest
<1>2. \/ p \in op.record /\ op' = [op EXCEPT !.left = Tail(@)] /\ bundle' = bundle
      \/ op' = [op EXCEPT !.left = Tail(@), !.record = op.record \cup {p}] /\ bundle' = bundle
      \/ /\ bundle[p] = F!None /\ loose[p] = F!None
         /\ op' = [op EXCEPT !.at = "source"] /\ bundle' = [bundle EXCEPT ![p] = F!Shell]
  BY DEF F!SeedNext, F!Adopted, F!Taken, F!IsBundle
<1> HIDE DEF p
<1>3. /\ op' \in Seedings /\ op.record \subseteq op'.record
      /\ \/ op'.left = Tail(op.left) /\ p \in op'.record /\ op'.at = "next"
         \/ op'.left = op.left /\ op'.at = "source"
  <2>1. CASE p \in op.record /\ op' = [op EXCEPT !.left = Tail(@)]
    BY <1>0, <1>1, <2>1 DEF Seedings
  <2>2. CASE op' = [op EXCEPT !.left = Tail(@), !.record = op.record \cup {p}]
    BY <1>0, <1>1, <2>2 DEF Seedings
  <2>3. CASE op' = [op EXCEPT !.at = "source"]
    BY <1>0, <2>3 DEF Seedings
  <2> QED
    BY <1>2, <2>1, <2>2, <2>3
<1>4. /\ op'.do = "seed" /\ ~Filling' /\ ~Copying' /\ ~Unlinking'
      /\ Sourcing' => op'.left = op.left /\ bundle[p] = F!None /\ loose[p] = F!None /\ bundle' = [bundle EXCEPT ![p] = F!Shell]
      /\ ~Sourcing' => bundle' = bundle
  BY <1>0, <1>2, <1>3 DEF Filling, Copying, Unlinking, Sourcing, Seedings
<1>5. FolderTyped'
  BY <1>0, <1>1, <1>4 DEF FolderInv, FolderTyped, Kept, Files
<1>6. OpTyped'
  BY <1>3 DEF OpTyped
<1>7. StageInv'
  BY <1>0, <1>1, <1>4 DEF FolderInv, FolderTyped, StageInv, Files, p
<1>8. WholeInv'
  <2>1. \A q \in Paths : Whole(q) \/ q \in hurt
    BY <1>0 DEF FolderInv, WholeInv, WorkedOn
  <2>2. \A q \in Paths : Whole(q)' \/ (Sourcing' /\ q = p) \/ q \in hurt
    BY <1>0, <1>1, <1>4, <2>1 DEF Whole, FolderInv, FolderTyped, Files
  <2> QED
    BY <1>0, <1>4, <2>2 DEF WholeInv, WorkedOn, p
<1>9. SeedInv'
  <2>1. F!Range(op.left) \subseteq op'.record \cup F!Range(op'.left)
    BY <1>1, <1>3
  <2>2. op'.at # "record" /\ (\A X : X \subseteq op.record => X \subseteq op'.record)
    BY <1>3
  <2>3. F!Range(ships)' = F!Range(ships)
    BY <1>0 DEF F!Range
  <2> QED
    BY <1>0, <1>3, <1>4, <2>1, <2>2, <2>3 DEF FolderInv, SeedInv
<1>10. LostInv'
  <2>1. ASSUME NEW s \in owed, s \in F!Everywhere PROVE s \in F!Everywhere'
    <3>1. s \in F!Scripts
      BY DEF FolderInv, FolderTyped
    <3>2. CASE \E i \in DOMAIN trash : trash[i] = s
      BY <1>0, <3>2 DEF F!Everywhere, F!Range
    <3>3. ASSUME NEW q \in Paths, loose[q] = s \/ bundle[q] = s
          PROVE  s \in F!Everywhere'
      <4>1. loose'[q] = s \/ bundle'[q] = s
        BY <1>0, <1>1, <1>4, <3>1, <3>3 DEF FolderInv, FolderTyped, Files
      <4> QED
        BY <4>1 DEF F!Everywhere
    <3> QED
      BY <2>1, <3>2, <3>3, Somewhere
  <2> QED
    BY <1>0, <1>4, <2>1, CutStays
<1> QED
  BY <1>5, <1>6, <1>7, <1>8, <1>9, <1>10 DEF FolderInv

LEMMA SeedSourceKeeps ==
    ASSUME FolderInv, F!SeedSource
    PROVE  FolderInv'
<1> USE Kinds
<1> DEFINE p == Head(op.left)
<1>0. /\ Sourcing /\ op.do = "seed" /\ op.left \in Seq(Paths) /\ op.record \subseteq Paths
      /\ op.left # <<>> /\ bundle[p] = F!Shell /\ loose[p] = F!None /\ op.at # "record"
      /\ op \in Seedings
      /\ UNCHANGED <<loose, trash, seeded, ships, asked, stops, failed, owed, cut, hurt, torn, gone>>
      /\ bundle' = [bundle EXCEPT ![p] = F!Shipped(p)]
      /\ op' = [op EXCEPT !.at = "next", !.left = Tail(@), !.record = @ \cup {p}]
      /\ ~Filling /\ ~Copying /\ ~Unlinking
  BY OpFields DEF FolderInv, StageInv, F!SeedSource, F!Goes, F!scars, Filling, Copying, Unlinking, Sourcing
<1>1. p \in Paths /\ Tail(op.left) \in Seq(Paths) /\ F!Range(op.left) \subseteq {p} \cup F!Range(Tail(op.left))
  BY <1>0, HeadAndRest
<1>11. \A q \in Paths : Whole(q) \/ q = p \/ q \in hurt
  BY <1>0 DEF FolderInv, WholeInv, WorkedOn
<1> HIDE DEF p
<1>2. /\ op' \in Seedings
      /\ op'.record = op.record \cup {p} /\ op'.left = Tail(op.left) /\ op'.at = "next" /\ op'.do = "seed"
  BY <1>0, <1>1 DEF Seedings
<1>3. ~Filling' /\ ~Copying' /\ ~Unlinking' /\ ~Sourcing'
  BY <1>2 DEF Filling, Copying, Unlinking, Sourcing
<1>4. FolderTyped'
  BY <1>0, <1>1 DEF FolderInv, FolderTyped, Kept, Files
<1>5. OpTyped'
  BY <1>2 DEF OpTyped
<1>6. StageInv'
  BY <1>3 DEF StageInv
<1>7. WholeInv'
  <2>1. \A q \in Paths : Whole(q)' \/ q \in hurt
    BY <1>0, <1>1, <1>11 DEF Whole, FolderInv, FolderTyped, Files
  <2> QED
    BY <1>0, <1>3, <2>1 DEF WholeInv, WorkedOn
<1>8. SeedInv'
  <2>1. F!Range(op.left) \subseteq op'.record \cup F!Range(op'.left)
    BY <1>1, <1>2
  <2>2. F!Range(ships)' = F!Range(ships)
    BY <1>0 DEF F!Range
  <2> QED
    BY <1>0, <1>2, <2>1, <2>2 DEF FolderInv, SeedInv
<1>9. LostInv'
  <2>1. ASSUME NEW s \in owed, s \in F!Everywhere PROVE s \in F!Everywhere'
    <3>1. s \in F!Scripts
      BY DEF FolderInv, FolderTyped
    <3>2. CASE \E i \in DOMAIN trash : trash[i] = s
      BY <1>0, <3>2 DEF F!Everywhere, F!Range
    <3>3. ASSUME NEW q \in Paths, loose[q] = s \/ bundle[q] = s
          PROVE  s \in F!Everywhere'
      <4>1. loose'[q] = s \/ bundle'[q] = s
        BY <1>0, <1>1, <3>1, <3>3 DEF FolderInv, FolderTyped, Files
      <4> QED
        BY <4>1 DEF F!Everywhere
    <3> QED
      BY <2>1, <3>2, <3>3, Somewhere
  <2> QED
    BY <1>0, <1>3, <2>1, CutStays
<1> QED
  BY <1>4, <1>5, <1>6, <1>7, <1>8, <1>9 DEF FolderInv

(* The record is emptied, and then has all that was seeded or found. *)
LEMMA RecordKeeps ==
    ASSUME FolderInv, F!SeedEmpties \/ F!SeedRecord
    PROVE  FolderInv'
<1>0. /\ op.do = "seed" /\ op \in Seedings /\ op.record \subseteq Paths /\ seeded' \subseteq op.record
      /\ UNCHANGED <<loose, bundle, trash, ships, asked, stops, failed, owed, cut, hurt, torn, gone>>
      /\ ~Filling /\ ~Copying /\ ~Unlinking /\ ~Sourcing
  BY OpFields DEF FolderInv, F!SeedEmpties, F!SeedRecord, F!Goes, F!scars, Filling, Copying, Unlinking, Sourcing
<1>1. /\ OpTyped' /\ ~Filling' /\ ~Copying' /\ ~Unlinking' /\ ~Sourcing' /\ SeedInv'
  <2>1. CASE F!SeedEmpties
    <3>1. op' = [op EXCEPT !.at = "record"] /\ op.left = <<>> /\ op.at = "next"
      BY <2>1 DEF F!SeedEmpties, F!Step
    <3>2. op' \in Seedings /\ op'.do = "seed" /\ op'.at = "record" /\ op'.left = op.left /\ op'.record = op.record
      BY <1>0, <3>1 DEF Seedings
    <3>3. F!Range(ships)' = F!Range(ships)
      BY <1>0 DEF F!Range
    <3>4. SeedInv'
      BY <1>0, <3>1, <3>2, <3>3 DEF FolderInv, SeedInv
    <3> QED
      BY <3>2, <3>4 DEF OpTyped, Filling, Copying, Unlinking, Sourcing
  <2>2. CASE F!SeedRecord
    <3>1. op' = F!Idle /\ op'.do = "idle" /\ op.at = "record" /\ seeded' = op.record
      BY <2>2 DEF F!SeedRecord, F!End, F!Idle
    <3>2. F!Range(ships)' = F!Range(ships) /\ F!Range(<<>>) = {}
      BY <1>0 DEF F!Range
    <3>3. SeedInv'
      BY <1>0, <3>1, <3>2 DEF FolderInv, SeedInv
    <3> QED
      BY <3>1, <3>3 DEF OpTyped, Filling, Copying, Unlinking, Sourcing
  <2> QED
    BY <1>0, <2>1, <2>2
<1>2. FolderTyped'
  BY <1>0 DEF FolderInv, FolderTyped, Kept, Files
<1>3. StageInv'
  BY <1>1 DEF StageInv
<1>4. WholeInv'
  BY <1>0, <1>1 DEF FolderInv, WholeInv, WorkedOn, Whole
<1>5. LostInv'
  <2>1. F!Everywhere' = F!Everywhere
    BY <1>0 DEF F!Everywhere
  <2> QED
    BY <1>0, <1>1, <2>1, CutStays
<1> QED
  BY <1>1, <1>2, <1>3, <1>4, <1>5 DEF FolderInv

(* A stop or a failure hurts the part that is worked on, and loses what a save had cut short. *)
LEMMA EndKeeps ==
    ASSUME FolderInv, F!Stop \/ F!Fail
    PROVE  FolderInv'
<1> USE FolderAssumption
<1>0. /\ UNCHANGED <<loose, bundle, trash, seeded, asked, owed, cut, gone>>
      /\ hurt' = hurt \cup F!InWork
      /\ stops' \in 0..MaxStops /\ failed' \in 0..MaxFailed
      /\ (stops' = stops + 1 /\ failed' = failed) \/ (stops' = stops /\ failed' = failed + 1)
      /\ stops \in Nat /\ failed \in Nat /\ stops' \in Nat /\ failed' \in Nat
  BY DEF F!Stop, F!Fail, F!files, FolderInv, FolderTyped
<1>1. \/ /\ ships' \in Releases /\ op' = [do |-> "seed", at |-> "next", left |-> ships', record |-> seeded]
         /\ torn' = (torn \/ Recording)
      \/ /\ ships' = ships /\ op' = F!Idle
         /\ torn' = (torn \/ op.do = "seed")
  BY DEF F!Stop, F!Fail, F!End, F!Seeding, Recording
<1>2. ships' \in Seq(Paths) /\ seeded \subseteq Paths
  BY <1>1, ReleaseTyped DEF FolderInv, FolderTyped
<1>3. FolderTyped'
  BY <1>0, <1>1, <1>2 DEF FolderInv, FolderTyped, Kept, Files
<1>4. /\ OpTyped' /\ ~Filling' /\ ~Copying' /\ ~Unlinking' /\ ~Sourcing'
      /\ \/ op' = F!Idle /\ op'.do = "idle"
         \/ op'.do = "seed" /\ op'.at = "next" /\ op'.left = ships' /\ op'.record = seeded
  BY <1>1, <1>2 DEF OpTyped, Seedings, F!Idle, Filling, Copying, Unlinking, Sourcing
<1>5. StageInv'
  BY <1>4 DEF StageInv
<1>6. WholeInv'
  <2>1. ASSUME NEW q \in Paths, WorkedOn(q) PROVE q \in hurt'
    BY <1>0, <2>1 DEF WorkedOn, F!InWork, Filling, Copying, Unlinking, Sourcing
  <2>2. \A q \in Paths : Whole(q)' \/ q \in hurt'
    BY <1>0, <2>1 DEF FolderInv, WholeInv, Whole
  <2> QED
    BY <1>4, <2>2 DEF WholeInv
<1>7. SeedInv'
  <2> SUFFICES ASSUME ~torn' PROVE SeedInv'
    BY DEF SeedInv
  <2>1. F!Range(ships)' = F!Range(ships')
    BY DEF F!Range
  <2>2. ~torn /\ gone \subseteq seeded
    <3>1. ~torn /\ ~Recording
      <4>1. CASE torn' = (torn \/ Recording)
        BY <4>1
      <4>2. CASE torn' = (torn \/ op.do = "seed")
        BY <4>2 DEF Recording
      <4> QED
        BY <1>1, <4>1, <4>2
    <3>2. CASE op.do = "seed"
      BY <3>1, <3>2 DEF FolderInv, SeedInv, Recording
    <3>3. CASE op.do # "seed"
      BY <3>1, <3>3 DEF FolderInv, SeedInv
    <3> QED
      BY <3>1, <3>2, <3>3
  <2>3. CASE op' = F!Idle /\ op'.do = "idle" /\ ships' = ships
    <3>1. op.do # "seed"
      BY <1>1, <2>3 DEF F!Idle
    <3> QED
      BY <1>0, <2>1, <2>2, <2>3, <3>1 DEF FolderInv, SeedInv
  <2>4. CASE op'.do = "seed" /\ op'.at = "next" /\ op'.left = ships' /\ op'.record = seeded
    BY <1>0, <2>1, <2>2, <2>4 DEF SeedInv
  <2> QED
    BY <1>1, <1>4, <2>3, <2>4 DEF F!Idle
<1>8. LostInv'
  <2>1. F!Everywhere' = F!Everywhere
    BY <1>0 DEF F!Everywhere
  <2>2. Lost' = cut /\ IsFiniteSet(cut) /\ IsFiniteSet(Lost) /\ Cardinality(cut) <= Cardinality(Lost) + 1
    <3>1. Lost' = cut /\ IsFiniteSet(cut)
      BY <1>0, <1>4 DEF Lost, FolderInv, LostInv
    <3>2. CASE Filling
      <4>1. Lost = cut \ {op.old}
        BY <3>2 DEF Lost
      <4>2. IsFiniteSet(cut \ {op.old}) /\ Cardinality(cut \ {op.old}) = IF op.old \in cut THEN Cardinality(cut) - 1 ELSE Cardinality(cut)
        BY <3>1, FS_RemoveElement
      <4>3. Cardinality(cut) \in Nat
        BY <3>1, FS_CardinalityType
      <4> QED
        BY <3>1, <4>1, <4>2, <4>3
    <3>3. CASE ~Filling
      <4>1. Lost = cut /\ Cardinality(cut) \in Nat
        BY <3>1, <3>3, FS_CardinalityType DEF Lost
      <4> QED
        BY <3>1, <4>1
    <3> QED
      BY <3>2, <3>3
  <2>3. Cardinality(cut) \in Nat /\ Cardinality(Lost) \in Nat /\ Cardinality(Lost) <= stops + failed
    BY <2>2, FS_CardinalityType DEF FolderInv, LostInv
  <2>4. Cardinality(cut) <= stops' + failed'
    <3> DEFINE c == Cardinality(cut)
               l == Cardinality(Lost)
    <3>1. c \in Nat /\ l \in Nat /\ l <= stops + failed /\ c <= l + 1
      BY <2>2, <2>3
    <3>2. /\ stops \in Nat /\ failed \in Nat
          /\ (stops' = stops + 1 /\ failed' = failed) \/ (stops' = stops /\ failed' = failed + 1)
      BY <1>0
    <3> HIDE DEF c, l
    <3>3. c <= stops' + failed'
      BY ONLY <3>1, <3>2
    <3> QED
      BY <3>3 DEF c
  <2> QED
    BY <1>0, <2>1, <2>2, <2>4 DEF FolderInv, LostInv
<1> QED
  BY <1>3, <1>4, <1>5, <1>6, <1>7, <1>8 DEF FolderInv

LEMMA FolderStep == FolderInv /\ [F!Next]_folderVars => FolderInv'
<1> SUFFICES ASSUME FolderInv, [F!Next]_folderVars PROVE FolderInv'
  OBVIOUS
<1>1. CASE UNCHANGED folderVars
  BY <1>1 DEF folderVars, FolderInv, FolderTyped, OpTyped, StageInv, WholeInv, SeedInv, LostInv, Lost, F!Everywhere, F!Range,
              Kept, Files, Filling, Copying, Unlinking, Sourcing, Whole, WorkedOn, F!ScriptAt, F!IsBundle
<1>2. ASSUME NEW p \in Paths,
             \/ \E do \in {"save", "create", "remove", "convert"} : F!Ask(do, p, p)
             \/ \E to \in Paths \ {p} : F!Ask("rename", p, to)
      PROVE  FolderInv'
  BY <1>2, AskKeeps DEF Requested
<1> QED
  BY <1>1, <1>2, EmptyKeeps, FillKeeps, RenameKeeps, RemoveKeeps, ConvertKeeps, UnlinkKeeps, RefuseKeeps,
     SeedNextKeeps, SeedSourceKeeps, RecordKeeps, EndKeeps DEF F!Next

LEMMA FolderFrame == [HostNext]_<<vars, reportVars, folderVars, scriptVars, tabVars, part>> => [F!Next]_folderVars
BY DEF HostNext

LEMMA FolderGoesOn ==
    FolderInv /\ [HostNext]_<<vars, reportVars, folderVars, scriptVars, tabVars, part>> => FolderInv'
BY FolderStep, FolderFrame

(* Wherever the host stops and whatever step fails, a script it said it keeps is in the folder or the trash, or
   is that of a part whose save was cut short, one for each stop or failure at most; and every part has its
   source and one form whenever nothing is being done, but those a stop or a failure came in the middle of
   (projects.rs). *)
THEOREM FolderHolds == HostSpec => []FolderStands
<1>1. HostInit => FolderInv
  BY FolderBegins DEF HostInit
<1>2. FolderInv => FolderStands
  <2> SUFFICES ASSUME FolderInv PROVE F!TypeOK /\ F!NothingLost /\ F!FolderIsWhole
    BY DEF FolderStands, F!FolderStands
  <2>1. F!Range(trash) \subseteq F!Scripts \cup {F!Shell}
    BY DEF FolderInv, FolderTyped, Kept, F!Range
  <2>2. F!TypeOK
    BY <2>1 DEF FolderInv, FolderTyped, F!TypeOK, Files
  <2>3. F!FolderIsWhole
    BY DEF FolderInv, WholeInv, WorkedOn, Whole, F!FolderIsWhole, F!Idle, Filling, Copying, Unlinking, Sourcing
  <2>4. F!NothingLost
    <3>1. op = F!Idle => Lost = cut
      BY DEF Lost, Filling, F!Idle
    <3>2. owed \subseteq F!Everywhere \cup cut /\ Cardinality(Lost) <= stops + failed
      BY DEF FolderInv, LostInv
    <3>3. op = F!Idle => Cardinality(cut) <= stops + failed
      BY <3>1, <3>2
    <3>4. F!Cardinality(cut) = Cardinality(cut)
      BY DEF F!Cardinality, Cardinality
    <3> QED
      BY <3>2, <3>3, <3>4 DEF F!NothingLost
  <2> QED
    BY <2>2, <2>3, <2>4
<1> QED
  BY <1>1, <1>2, FolderGoesOn, PTL DEF HostSpec

(* What a person took away is on record before and all through a seeding: it makes bundles only of parts
   that are not. *)
LEMMA StartsPutNothingBack ==
    ASSUME FolderInv, [F!Next]_folderVars, NEW p \in gone, op.do = "seed", bundle'[p] # F!None
    PROVE  bundle[p] # F!None \/ torn
<1> SUFFICES ASSUME ~torn PROVE bundle[p] # F!None
  OBVIOUS
<1>1. p \in op.record /\ p \in Paths
  BY OpFields DEF FolderInv, SeedInv
<1>2. CASE F!SeedNext
  <2>1. bundle' = bundle \/ (bundle' = [bundle EXCEPT ![Head(op.left)] = F!Shell] /\ Head(op.left) \notin op.record)
    BY <1>2 DEF F!SeedNext
  <2>2. bundle \in Files
    BY DEF FolderInv, FolderTyped
  <2> QED
    BY <1>1, <2>1, <2>2 DEF Files
<1>3. CASE F!SeedSource
  <2>1. bundle[Head(op.left)] = F!Shell /\ bundle' = [bundle EXCEPT ![Head(op.left)] = F!Shipped(Head(op.left))]
    BY <1>3 DEF FolderInv, StageInv, Sourcing, F!SeedSource
  <2> QED
    BY <2>1, Kinds
<1>4. CASE UNCHANGED bundle
  BY <1>4
<1> QED
  BY <1>2, <1>3, <1>4 DEF F!Next, F!Ask, F!Empty, F!Fill, F!RenamePart, F!RemovePart, F!MakeBundle, F!Copy, F!Unlink,
                          F!Refuse, F!SeedEmpties, F!SeedRecord, F!Stop, F!Fail, F!files, F!Idle, folderVars

(* DeletedStaysDeleted: while the record was not torn, a start of the host puts back no shipped part that a
   person deleted or moved, wherever an earlier start was stopped and whichever version starts (projects.rs,
   seed_from). *)
THEOREM DeletedPartsStayDeleted == HostSpec => DeletedStaysDeleted
<1>1. HostInit => FolderInv
  BY FolderBegins DEF HostInit
<1>2. FolderInv /\ [HostNext]_<<vars, reportVars, folderVars, scriptVars, tabVars, part>>
      => [\A p \in gone : op.do = "seed" /\ bundle'[p] # F!None => bundle[p] # F!None \/ torn]_(F!vars)
  BY StartsPutNothingBack, FolderFrame
<1> QED
  BY <1>1, <1>2, FolderGoesOn, PTL DEF HostSpec, DeletedStaysDeleted, F!DeletedStaysDeleted

------------------------------------------------------------------------------
(* Numbers, sets and sequences *)

(* A set of numbers that is not empty has a least one, which Min chooses. *)
LEMMA Smallest ==
    ASSUME NEW U \in SUBSET Nat, U # {}
    PROVE  \E m \in U : \A k \in U : m <= k
<1> DEFINE R == OpToRel(<, Nat)
<1>1. IsWellFoundedOn(R, Nat)
  BY NatLessThanWellFounded
<1>2. \A x, y \in Nat : x < y => <<x, y>> \in R
  BY DEF OpToRel
<1> HIDE DEF R
<1>3. PICK m \in U : \A y \in U : ~ (<<y, m>> \in R)
  BY <1>1, WFMin
<1>4. ASSUME NEW k \in U PROVE m <= k
  <2>1. ~(k < m)
    BY <1>2, <1>3
  <2>2. k \in Nat /\ m \in Nat
    OBVIOUS
  <2> QED BY <2>1, <2>2
<1> QED
  BY <1>4

LEMMA MinOf ==
    ASSUME NEW U \in SUBSET Nat, U # {}
    PROVE  T!Min(U) \in U
<1> PICK m \in U : \A k \in U : m <= k
  BY Smallest
<1> QED
  BY DEF T!Min

(* Induction over the numbers: a set that has 0 and with each number the next has them all. *)
LEMMA Induction ==
    ASSUME NEW U, 0 \in U, \A n \in Nat : n \in U => n + 1 \in U
    PROVE  Nat \subseteq U
<1> SUFFICES ASSUME Nat \ U # {} PROVE FALSE
  OBVIOUS
<1>1. PICK m \in Nat \ U : \A k \in Nat \ U : m <= k
  BY Smallest
<1>2. m # 0 /\ m - 1 \in Nat
  BY <1>1
<1>3. m - 1 \in U
  BY <1>1, <1>2
<1> QED
  BY <1>1, <1>2, <1>3

(* The rest of a sequence has what comes after its head. *)
LEMMA TailOf ==
    ASSUME NEW A, NEW s \in Seq(A), s # <<>>
    PROVE  /\ Tail(s) \in Seq(A) /\ 1 \in DOMAIN s /\ Head(s) = s[1]
           /\ \A i \in DOMAIN Tail(s) : i + 1 \in DOMAIN s /\ Tail(s)[i] = s[i + 1]
           /\ \A i \in DOMAIN s : i # 1 => i - 1 \in DOMAIN Tail(s) /\ Tail(s)[i - 1] = s[i]
<1>1. Len(s) \in Nat /\ Len(s) # 0 /\ Len(Tail(s)) = Len(s) - 1 /\ Tail(s) \in Seq(A)
  OBVIOUS
<1>2. \A i \in 1..(Len(s) - 1) : Tail(s)[i] = s[i + 1]
  OBVIOUS
<1>3. DOMAIN s = 1..Len(s) /\ DOMAIN Tail(s) = 1..(Len(s) - 1) /\ Head(s) = s[1]
  BY <1>1
<1>4. \A i \in 1..Len(s) : i # 1 => i - 1 \in 1..(Len(s) - 1) /\ (i - 1) + 1 = i
  BY <1>1
<1> QED
  BY <1>1, <1>2, <1>3, <1>4

(* A sequence that one element is taken from is shorter. *)
LEMMA OneTaken ==
    ASSUME NEW A, NEW s \in Seq(A), NEW i \in 1..Len(s)
    PROVE  /\ SubSeq(s, 1, i - 1) \o SubSeq(s, i + 1, Len(s)) \in Seq(A)
           /\ Len(SubSeq(s, 1, i - 1) \o SubSeq(s, i + 1, Len(s))) <= Len(s)
<1> DEFINE a == SubSeq(s, 1, i - 1)
           b == SubSeq(s, i + 1, Len(s))
<1>1. a \in Seq(A) /\ Len(a) = i - 1
  BY SubSeqProperties
<1>2. b \in Seq(A) /\ Len(b) = Len(s) - i
  BY SubSeqProperties
<1> HIDE DEF a, b
<1>3. a \o b \in Seq(A) /\ Len(a \o b) = Len(a) + Len(b)
  BY <1>1, <1>2, ConcatProperties
<1>4. i - 1 + (Len(s) - i) <= Len(s)
  OBVIOUS
<1>5. a \o b \in Seq(A) /\ Len(a \o b) <= Len(s)
  BY <1>1, <1>2, <1>3, <1>4
<1> QED
  BY <1>5 DEF a, b

(* The same of the Min of ScriptCache. *)
LEMMA MinOfC ==
    ASSUME NEW U \in SUBSET Nat, U # {}
    PROVE  C!Min(U) \in U
<1> PICK m \in U : \A k \in U : m <= k
  BY Smallest
<1> QED
  BY DEF C!Min

(* Induction over the subsets of a finite set. *)
LEMMA SetInduction ==
    ASSUME NEW Z, IsFiniteSet(Z), NEW U, {} \in U,
           \A Y \in SUBSET Z : Y # {} /\ (\A x \in Y : Y \ {x} \in U) => Y \in U
    PROVE  SUBSET Z \subseteq U
<1> DEFINE N == {n \in Nat : \A Y \in SUBSET Z : Cardinality(Y) = n => Y \in U}
<1>0. \A Y \in SUBSET Z : IsFiniteSet(Y) /\ Cardinality(Y) \in Nat
  BY FS_Subset, FS_CardinalityType
<1>1. 0 \in N
  BY <1>0, FS_EmptySet
<1>2. ASSUME NEW n \in Nat, n \in N PROVE n + 1 \in N
  <2> SUFFICES ASSUME NEW Y \in SUBSET Z, Cardinality(Y) = n + 1 PROVE Y \in U
    OBVIOUS
  <2>1. Y # {}
    <3>1. Cardinality({}) = 0
      BY FS_EmptySet
    <3> QED BY <3>1
  <2>2. ASSUME NEW x \in Y PROVE Y \ {x} \in U
    <3>1. Cardinality(Y \ {x}) = n
      BY <1>0, FS_RemoveElement
    <3> QED BY <1>2, <3>1
  <2> QED BY <2>1, <2>2
<1> HIDE DEF N
<1>3. Nat \subseteq N
  BY <1>1, <1>2, Induction
<1> QED
  BY <1>0, <1>3 DEF N

(* A sequence that has nothing twice. *)
Once(s) == \A i, j \in DOMAIN s : s[i] = s[j] => i = j

(* A sequence that has each of its elements once is as long as its elements are many. *)
LEMMA OnceCounts ==
    ASSUME NEW D, NEW s \in Seq(D), Once(s), C!ToSet(s) = D
    PROVE  IsFiniteSet(D) /\ Cardinality(D) = Len(s)
<1> DEFINE n == Len(s)
<1>1. n \in Nat /\ s \in [1..n -> D] /\ DOMAIN s = 1..n
  OBVIOUS
<1>2. \A d \in D : \E i \in 1..n : s[i] = d
  BY <1>1 DEF C!ToSet
<1>3. s \in Surjection(1..n, D)
  BY <1>1, <1>2 DEF Surjection
<1>4. s \in Injection(1..n, D)
  BY <1>1 DEF Injection, IsInjective, Once
<1>5. IsFiniteSet(1..n) /\ Cardinality(1..n) = n
  BY <1>1, FS_Interval
<1>6. IsFiniteSet(D)
  BY <1>3, <1>5, FS_Surjection
<1>7. Cardinality(1..n) = Cardinality(D)
  BY <1>3, <1>4, <1>6, FS_Injection
<1> QED
  BY <1>5, <1>6, <1>7

------------------------------------------------------------------------------
(* The kept results of scripts *)

Texts == ImportedParts \X {0, 1}

(* Each part was the one the script wanted then. *)
InOrder(source, made) ==
    \A i \in 1..Len(made) : MCWants(source, SubSeq(made, 1, i - 1)) = made[i][1]

(* A result that may be kept under a key. *)
KeptFor(r, key) ==
    /\ r.account = key[1] /\ r.source = key[2]
    /\ r.reads \in Seq(Texts) /\ MCWants(r.source, r.reads) = "none" /\ InOrder(r.source, r.reads)
    /\ r.end # "cut" /\ r.source \notin Impure

(* A result that answers a call. *)
Answers(c, r) ==
    /\ r.account = MCAccount[c] /\ r.source = script[c]
    /\ r.reads \in Seq(Texts) /\ C!ToSet(r.reads) \subseteq during[c]

ScriptsTyped ==
    /\ runs \in [ScriptCalls -> {"begin", "check", "run", "insert", "end"}]
    /\ checked \in [ScriptCalls -> Nat]
    /\ reads \in [ScriptCalls -> Seq(Texts)]
    /\ results = [c \in ScriptCalls |-> results[c]]
    /\ during \in [ScriptCalls -> SUBSET Texts]
    /\ files \in [C!Owners -> [ImportedParts -> {0, 1}]]

EntriesInv == \A key \in DOMAIN entries : KeptFor(entries[key].result, key)

(* The call that checks an entry holds the lock, and what it has read again is of this call. *)
Checks(c) ==
    /\ C!Key(c) \in DOMAIN entries
    /\ checked[c] <= Len(entries[C!Key(c)].result.reads)
    /\ \A i \in 1..checked[c] : entries[C!Key(c)].result.reads[i] \in during[c]

CallInv(c) ==
    /\ runs[c] = "begin" => checked[c] = 0
    /\ runs[c] \in {"begin", "check"} => reads[c] = <<>>
    /\ runs[c] \in {"check", "run", "insert"} => \A q \in ImportedParts : <<q, C!File(c, q)>> \in during[c]
    /\ runs[c] = "check" <=> lock = c
    /\ runs[c] = "check" => Checks(c)
    /\ runs[c] = "run" => C!ToSet(reads[c]) \subseteq during[c] /\ InOrder(script[c], reads[c])
    /\ runs[c] = "insert" => Answers(c, results[c]) /\ KeptFor(results[c], C!Key(c))
    /\ runs[c] = "end" => /\ Answers(c, results[c])
                          /\ results[c].end = "cut" \/ results[c].source \in Impure => results[c].run = c

ScriptsInv == ScriptsTyped /\ EntriesInv /\ \A c \in ScriptCalls : CallInv(c)

------------------------------------------------------------------------------
LEMMA WantsType == \A source, made : MCWants(source, made) \in ImportedParts \cup {"none"}
BY ScriptsAssumption DEF MCWants

LEMMA OwnerOf == \A c \in ScriptCalls : MCAccount[c] \in C!Owners
BY DEF C!Owners

(* A part as it is now. *)
LEMMA FileType == ASSUME ScriptsTyped PROVE \A c \in ScriptCalls, q \in ImportedParts : <<q, C!File(c, q)>> \in Texts
BY OwnerOf DEF ScriptsTyped, C!File, Texts

(* What a call knows stays true while others move: nobody else changes the entries while it checks one. *)
LEMMA OthersKeep ==
    ASSUME NEW d \in ScriptCalls, CallInv(d),
           runs'[d] = runs[d], checked'[d] = checked[d], reads'[d] = reads[d],
           results'[d] = results[d], during'[d] = during[d],
           files' = files, script' = script,
           lock' = d <=> lock = d,
           runs[d] = "check" => entries' = entries
    PROVE  CallInv(d)'
<1>1. Checks(d) /\ entries' = entries => Checks(d)'
  BY DEF Checks, C!Key
<1>2. \A r : (Answers(d, r) => Answers(d, r)') /\ (KeptFor(r, C!Key(d)) => KeptFor(r, C!Key(d))')
  BY DEF Answers, KeptFor, C!Key
<1>3. CallInv(d)
  OBVIOUS
<1> QED
  BY <1>1, <1>2, <1>3 DEF CallInv, C!File

LEMMA ScriptsBegin == C!Init => ScriptsInv
<1> SUFFICES ASSUME C!Init PROVE ScriptsInv
  OBVIOUS
<1> USE ScriptsAssumption DEF C!Init
<1>1. ScriptsTyped
  BY DEF ScriptsTyped
<1>2. EntriesInv
  BY DEF EntriesInv
<1>3. ASSUME NEW c \in ScriptCalls PROVE CallInv(c)
  BY <1>3 DEF CallInv
<1> QED
  BY <1>1, <1>2, <1>3 DEF ScriptsInv

LEMMA BeginKeeps ==
    ASSUME ScriptsInv, NEW c \in ScriptCalls, C!Begin(c)
    PROVE  ScriptsInv'
<1> USE ScriptsAssumption
<1>0. ScriptsTyped /\ CallInv(c)
  BY DEF ScriptsInv
<1>1. /\ runs[c] = "begin" /\ lock = "none"
      /\ during' = [during EXCEPT ![c] = {<<q, C!File(c, q)>> : q \in ImportedParts}]
      /\ \/ C!Key(c) \in DOMAIN entries /\ runs' = [runs EXCEPT ![c] = "check"] /\ lock' = c
         \/ runs' = [runs EXCEPT ![c] = "run"] /\ lock' = lock
      /\ UNCHANGED <<checked, reads, results, entries, order, weight, files, script, saves>>
  BY DEF C!Begin, C!Goes
<1>2. ScriptsTyped'
  <2>1. {<<q, C!File(c, q)>> : q \in ImportedParts} \subseteq Texts
    BY <1>0, FileType
  <2>2. during' \in [ScriptCalls -> SUBSET Texts]
    BY <1>0, <1>1, <2>1 DEF ScriptsTyped
  <2>3. runs' \in [ScriptCalls -> {"begin", "check", "run", "insert", "end"}]
    BY <1>0, <1>1 DEF ScriptsTyped
  <2> QED
    BY <1>0, <1>1, <2>2, <2>3 DEF ScriptsTyped, Texts, C!Owners
<1>3. EntriesInv'
  BY <1>1 DEF ScriptsInv, EntriesInv, KeptFor, Texts, InOrder
<1>4. CallInv(c)'
  <2>1. checked[c] = 0 /\ reads[c] = <<>> /\ runs'[c] \in {"check", "run"} /\ (runs'[c] = "check" <=> lock' = c)
    BY <1>0, <1>1 DEF CallInv, ScriptsTyped
  <2>2. \A q \in ImportedParts : <<q, C!File(c, q)>> \in during'[c]
    BY <1>0, <1>1 DEF ScriptsTyped
  <2>3. runs'[c] = "check" => Checks(c)'
    <3> SUFFICES ASSUME runs'[c] = "check" PROVE Checks(c)'
      OBVIOUS
    <3>1. C!Key(c) \in DOMAIN entries
      BY <1>0, <1>1 DEF ScriptsTyped
    <3>2. entries[C!Key(c)].result.reads \in Seq(Texts)
      BY <3>1 DEF ScriptsInv, EntriesInv, KeptFor
    <3>3. 0 <= Len(entries[C!Key(c)].result.reads)
      BY <3>2
    <3> QED
      BY <1>1, <2>1, <3>1, <3>3 DEF Checks, C!Key
  <2>4. C!ToSet(reads[c]) = {} /\ InOrder(script[c], reads[c])
    BY <2>1 DEF C!ToSet, InOrder
  <2> QED
    BY <1>1, <2>1, <2>2, <2>3, <2>4 DEF CallInv, C!File
<1>5. ASSUME NEW d \in ScriptCalls, d # c PROVE CallInv(d)'
  <2>1. /\ runs'[d] = runs[d] /\ during'[d] = during[d]
        /\ lock' = d <=> lock = d
    BY <1>0, <1>1, <1>5 DEF ScriptsTyped
  <2> QED
    BY <1>1, <2>1, OthersKeep DEF ScriptsInv
<1> QED
  BY <1>2, <1>3, <1>4, <1>5 DEF ScriptsInv

(* A part read again is as it is now, and so of this call; one that differs drops the entry. *)
LEMMA CheckKeeps ==
    ASSUME ScriptsInv, NEW c \in ScriptCalls, C!Check(c)
    PROVE  ScriptsInv'
<1> USE ScriptsAssumption
<1> DEFINE made == entries[C!Key(c)].result.reads
<1>0. ScriptsTyped /\ CallInv(c)
  BY DEF ScriptsInv
<1>1. /\ runs[c] = "check" /\ lock = c /\ checked[c] < Len(made) /\ checked[c] \in Nat
      /\ Checks(c) /\ reads[c] = <<>>
      /\ made \in Seq(Texts)
      /\ UNCHANGED <<reads, results, during, files, script, saves>>
  BY <1>0 DEF C!Check, CallInv, ScriptsInv, ScriptsTyped, EntriesInv, KeptFor, Checks
<1>2. CASE /\ C!Same(c) /\ checked' = [checked EXCEPT ![c] = @ + 1]
           /\ UNCHANGED <<runs, lock, entries>>
  <2>1. ScriptsTyped' /\ EntriesInv'
    BY <1>0, <1>1, <1>2 DEF ScriptsInv, ScriptsTyped, EntriesInv, KeptFor, Texts, InOrder, C!Owners
  <2>2. checked'[c] = checked[c] + 1
    BY <1>0, <1>2 DEF ScriptsTyped
  <2>3. made[checked[c] + 1] \in during[c]
    <3>1. made[checked[c] + 1] \in Texts
      BY <1>1
    <3>2. PICK q \in ImportedParts, t \in {0, 1} : made[checked[c] + 1] = <<q, t>>
      BY <3>1 DEF Texts
    <3>3. C!File(c, q) = t
      BY <1>2, <3>2 DEF C!Same, C!Read
    <3> QED
      BY <1>0, <1>1, <3>2, <3>3 DEF CallInv
  <2>4. Checks(c)'
    <3>1. \A i \in 1..(checked[c] + 1) : made[i] \in during[c]
      BY <1>1, <2>3 DEF Checks
    <3>2. checked[c] + 1 <= Len(made)
      BY <1>1
    <3> HIDE DEF made
    <3>3. C!Key(c)' = C!Key(c) /\ C!Key(c) \in DOMAIN entries
      BY <1>1 DEF C!Key, Checks
    <3> QED
      BY <1>1, <1>2, <2>2, <3>1, <3>2, <3>3 DEF Checks, made
  <2>5. CallInv(c)'
    BY <1>0, <1>1, <1>2, <2>4 DEF CallInv, C!File
  <2>6. ASSUME NEW d \in ScriptCalls, d # c PROVE CallInv(d)'
    <3>1. checked'[d] = checked[d]
      BY <1>0, <1>2, <2>6 DEF ScriptsTyped
    <3> QED
      BY <1>1, <1>2, <3>1, OthersKeep DEF ScriptsInv
  <2> QED
    BY <2>1, <2>5, <2>6 DEF ScriptsInv
<1>3. CASE /\ entries' = [k \in DOMAIN entries \ {C!Key(c)} |-> entries[k]]
           /\ lock' = "none" /\ runs' = [runs EXCEPT ![c] = "run"]
           /\ UNCHANGED checked
  <2>1. ScriptsTyped' /\ EntriesInv'
    BY <1>0, <1>1, <1>3 DEF ScriptsInv, ScriptsTyped, EntriesInv, KeptFor, Texts, InOrder, C!Owners
  <2>2. runs'[c] = "run" /\ lock' # c
    BY <1>0, <1>3 DEF ScriptsTyped
  <2>3. C!ToSet(reads[c]) = {} /\ InOrder(script[c], reads[c])
    BY <1>1 DEF C!ToSet, InOrder
  <2>4. CallInv(c)'
    BY <1>0, <1>1, <1>3, <2>2, <2>3 DEF CallInv, C!File
  <2>5. ASSUME NEW d \in ScriptCalls, d # c PROVE CallInv(d)'
    <3>1. runs'[d] = runs[d] /\ lock # d /\ lock' # d
      BY <1>0, <1>1, <1>3, <2>5 DEF ScriptsTyped
    <3>2. runs[d] # "check"
      BY <3>1 DEF ScriptsInv, CallInv
    <3> QED
      BY <1>1, <1>3, <3>1, <3>2, OthersKeep DEF ScriptsInv
  <2> QED
    BY <2>1, <2>4, <2>5 DEF ScriptsInv
<1> QED
  BY <1>2, <1>3 DEF C!Check, C!Without, C!Goes

LEMMA HitKeeps ==
    ASSUME ScriptsInv, NEW c \in ScriptCalls, C!Hit(c)
    PROVE  ScriptsInv'
<1> USE ScriptsAssumption
<1> DEFINE kept == entries[C!Key(c)].result
<1>0. ScriptsTyped /\ CallInv(c)
  BY DEF ScriptsInv
<1>1. /\ runs[c] = "check" /\ lock = c /\ Checks(c) /\ checked[c] = Len(kept.reads)
      /\ KeptFor(kept, C!Key(c))
      /\ results' = [results EXCEPT ![c] = kept]
      /\ lock' = "none" /\ runs' = [runs EXCEPT ![c] = "end"]
      /\ UNCHANGED <<checked, reads, during, entries, files, script>>
  BY <1>0 DEF C!Hit, C!Goes, CallInv, Checks, ScriptsInv, EntriesInv
<1>2. ScriptsTyped' /\ EntriesInv'
  <2> HIDE DEF kept
  <2>1. ScriptsTyped'
    BY <1>0, <1>1 DEF ScriptsTyped, Texts, C!Owners
  <2> QED
    BY <1>1, <2>1 DEF ScriptsInv, EntriesInv, KeptFor, Texts, InOrder
<1>3. CallInv(c)'
  <2>1. runs'[c] = "end" /\ results'[c] = kept /\ lock' # c
    BY <1>0, <1>1 DEF ScriptsTyped
  <2>2. C!ToSet(kept.reads) \subseteq during[c]
    BY <1>1 DEF Checks, KeptFor, C!ToSet
  <2>3. kept.account = MCAccount[c] /\ kept.source = script[c]
    BY <1>1 DEF KeptFor, C!Key
  <2> HIDE DEF kept
  <2>4. Answers(c, results[c])'
    BY <1>1, <2>1, <2>2, <2>3 DEF Answers, KeptFor, Texts
  <2> QED
    BY <1>1, <2>1, <2>4 DEF CallInv, KeptFor
<1>4. ASSUME NEW d \in ScriptCalls, d # c PROVE CallInv(d)'
  <2>1. runs'[d] = runs[d] /\ results'[d] = results[d] /\ lock # d /\ lock' # d
    BY <1>0, <1>1, <1>4 DEF ScriptsTyped
  <2> QED
    BY <1>1, <2>1, OthersKeep DEF ScriptsInv
<1> QED
  BY <1>2, <1>3, <1>4 DEF ScriptsInv

(* What comes before a part that is added is as it was. *)
LEMMA Before ==
    ASSUME NEW D, NEW s \in Seq(D), NEW x \in D, NEW i \in 1..(Len(s) + 1)
    PROVE  SubSeq(Append(s, x), 1, i - 1) = SubSeq(s, 1, i - 1)
<1>1. /\ Append(s, x) \in Seq(D) /\ Len(Append(s, x)) = Len(s) + 1 /\ Len(s) \in Nat
      /\ \A k \in 1..Len(s) : Append(s, x)[k] = s[k]
  BY AppendProperties
<1>2. i - 1 \in 0..Len(s)
  BY <1>1
<1>3. \A k \in 1..(i - 1) : Append(s, x)[k] = s[k]
  BY <1>1, <1>2
<1>4. /\ SubSeq(s, 1, i - 1) = [k \in 1..(i - 1) |-> s[k]]
      /\ SubSeq(Append(s, x), 1, i - 1) = [k \in 1..(i - 1) |-> Append(s, x)[k]]
  BY <1>1, <1>2
<1> QED
  BY <1>3, <1>4

LEMMA InOrderAppend ==
    ASSUME NEW source, NEW made \in Seq(Texts), InOrder(source, made),
           NEW x \in Texts, x[1] = MCWants(source, made)
    PROVE  InOrder(source, Append(made, x))
<1> SUFFICES ASSUME NEW i \in 1..(Len(made) + 1)
             PROVE  MCWants(source, SubSeq(Append(made, x), 1, i - 1)) = Append(made, x)[i][1]
  BY DEF InOrder
<1>1. SubSeq(Append(made, x), 1, i - 1) = SubSeq(made, 1, i - 1)
  BY Before
<1>2. CASE i = Len(made) + 1
  <2>1. SubSeq(made, 1, i - 1) = made
    BY <1>2
  <2>2. Append(made, x)[i] = x
    BY <1>2
  <2> QED
    BY <1>1, <2>1, <2>2
<1>3. CASE i \in 1..Len(made)
  <2>1. Append(made, x)[i] = made[i]
    BY <1>3
  <2> QED
    BY <1>1, <1>3, <2>1 DEF InOrder
<1> QED
  BY <1>2, <1>3

LEMMA ImportKeeps ==
    ASSUME ScriptsInv, NEW c \in ScriptCalls, C!Import(c)
    PROVE  ScriptsInv'
<1> DEFINE q == MCWants(script[c], reads[c])
           x == <<q, C!File(c, q)>>
<1>0. ScriptsTyped /\ CallInv(c)
  BY DEF ScriptsInv
<1>1. /\ runs[c] = "run" /\ q # "none"
      /\ reads' = [reads EXCEPT ![c] = Append(reads[c], x)]
      /\ UNCHANGED <<runs, checked, results, during, lock, entries, files, script>>
  BY DEF C!Import, C!Noted
<1>2. q \in ImportedParts /\ x \in Texts /\ x \in during[c] /\ x[1] = q
  <2>1. q \in ImportedParts
    BY <1>1, WantsType
  <2> HIDE DEF q
  <2>2. x \in Texts
    BY <1>0, <2>1, FileType
  <2> QED
    BY <1>0, <1>1, <2>1, <2>2 DEF CallInv
<1>3. reads[c] \in Seq(Texts) /\ C!ToSet(reads[c]) \subseteq during[c] /\ InOrder(script[c], reads[c])
  BY <1>0, <1>1 DEF CallInv, ScriptsTyped
<1>4. InOrder(script[c], Append(reads[c], x))
  <2>1. x[1] = MCWants(script[c], reads[c])
    BY <1>2
  <2> QED
    BY <1>2, <1>3, <2>1, InOrderAppend
<1> HIDE DEF q, x
<1>5. reads'[c] = Append(reads[c], x) /\ reads' \in [ScriptCalls -> Seq(Texts)]
  BY <1>0, <1>1, <1>2 DEF ScriptsTyped
<1>6. C!ToSet(reads'[c]) \subseteq during[c]
  <2>1. ASSUME NEW i \in 1..(Len(reads[c]) + 1) PROVE Append(reads[c], x)[i] \in during[c]
    BY <1>2, <1>3 DEF C!ToSet
  <2> QED
    BY <1>2, <1>3, <1>5, <2>1 DEF C!ToSet
<1>7. ScriptsTyped' /\ EntriesInv'
  BY <1>0, <1>1, <1>5 DEF ScriptsInv, ScriptsTyped, EntriesInv, KeptFor, Texts, InOrder, C!Owners
<1>8. CallInv(c)'
  BY <1>0, <1>1, <1>4, <1>5, <1>6 DEF CallInv, C!File, InOrder
<1>9. ASSUME NEW d \in ScriptCalls, d # c PROVE CallInv(d)'
  <2>1. reads'[d] = reads[d]
    BY <1>0, <1>1, <1>9 DEF ScriptsTyped
  <2> QED
    BY <1>1, <2>1, OthersKeep DEF ScriptsInv
<1> QED
  BY <1>7, <1>8, <1>9 DEF ScriptsInv

(* A run that ends whole may be kept; one that was cut, or has read the clock, goes to its own call. *)
LEMMA FinishKeeps ==
    ASSUME ScriptsInv, NEW c \in ScriptCalls, NEW end \in {"answer", "budget", "cut"}, C!Finish(c, end)
    PROVE  ScriptsInv'
<1> DEFINE r == C!Result(c, end)
<1>0. ScriptsTyped /\ CallInv(c)
  BY DEF ScriptsInv
<1>1. /\ runs[c] = "run"
      /\ end # "cut" => MCWants(script[c], reads[c]) = "none"
      /\ results' = [results EXCEPT ![c] = r]
      /\ runs' = [runs EXCEPT ![c] = IF C!Cacheable(c, end) THEN "insert" ELSE "end"]
      /\ UNCHANGED <<checked, reads, during, lock, entries, files, script>>
  BY DEF C!Finish, C!Goes
<1>2. /\ r.account = MCAccount[c] /\ r.source = script[c] /\ r.reads = reads[c] /\ r.end = end /\ r.run = c
  BY DEF C!Result
<1>3. reads[c] \in Seq(Texts) /\ C!ToSet(reads[c]) \subseteq during[c] /\ InOrder(script[c], reads[c])
  BY <1>0, <1>1 DEF CallInv, ScriptsTyped
<1> HIDE DEF r
<1>4. results'[c] = r /\ runs'[c] = IF C!Cacheable(c, end) THEN "insert" ELSE "end"
  BY <1>0, <1>1 DEF ScriptsTyped
<1>5. ScriptsTyped' /\ EntriesInv'
  <2>1. ScriptsTyped'
    BY <1>0, <1>1 DEF ScriptsTyped, Texts, C!Owners
  <2>2. EntriesInv'
    BY <1>1 DEF ScriptsInv, EntriesInv, KeptFor, Texts, InOrder
  <2> QED
    BY <2>1, <2>2
<1>6. Answers(c, results[c])'
  BY <1>1, <1>2, <1>3, <1>4 DEF Answers, Texts
<1>7. runs'[c] = "insert" => KeptFor(results[c], C!Key(c))'
  <2> SUFFICES ASSUME runs'[c] = "insert" PROVE KeptFor(r, C!Key(c))
    BY <1>1, <1>4 DEF KeptFor, C!Key, Texts, InOrder
  <2>1. script[c] \notin Impure /\ end # "cut"
    BY <1>4 DEF C!Cacheable
  <2> QED
    BY <1>1, <1>2, <1>3, <2>1 DEF KeptFor, C!Key
<1>8. CallInv(c)'
  <2>1. runs'[c] \in {"insert", "end"} /\ (lock' # c) /\ results'[c].run = c
    BY <1>0, <1>1, <1>2, <1>4 DEF CallInv
  <2> QED
    BY <1>0, <1>1, <1>6, <1>7, <2>1 DEF CallInv, C!File
<1>9. ASSUME NEW d \in ScriptCalls, d # c PROVE CallInv(d)'
  <2>1. runs'[d] = runs[d] /\ results'[d] = results[d]
    BY <1>0, <1>1, <1>9 DEF ScriptsTyped
  <2> QED
    BY <1>1, <2>1, OthersKeep DEF ScriptsInv
<1> QED
  BY <1>5, <1>8, <1>9 DEF ScriptsInv

LEMMA InsertKeeps ==
    ASSUME ScriptsInv, NEW c \in ScriptCalls, C!Insert(c)
    PROVE  ScriptsInv'
<1> USE ScriptsAssumption
<1>0. ScriptsTyped /\ CallInv(c)
  BY DEF ScriptsInv
<1>1. /\ runs[c] = "insert" /\ lock = "none"
      /\ runs' = [runs EXCEPT ![c] = "end"]
      /\ UNCHANGED <<checked, reads, results, during, lock, files, script>>
  BY DEF C!Insert, C!Goes
<1>2. Answers(c, results[c]) /\ KeptFor(results[c], C!Key(c))
  BY <1>0, <1>1 DEF CallInv
<1>3. \A key \in DOMAIN entries' :
          \/ key \in DOMAIN entries /\ entries'[key] = entries[key]
          \/ key = C!Key(c) /\ entries'[key].result = results[c]
  <2>1. CASE entries' = entries
    BY <2>1
  <2>2. CASE entries' # entries
    <3> DEFINE adds == MCWeight[script[c]]
               kept == DOMAIN entries \ C!Oldest(C!Evicted(adds))
    <3>1. entries' = [x \in kept \cup {C!Key(c)} |->
                          IF x = C!Key(c) THEN [result |-> results[c], weight |-> adds] ELSE entries[x]]
      BY <2>2 DEF C!Insert
    <3> QED
      BY <3>1
  <2> QED
    BY <2>1, <2>2
<1>4. ScriptsTyped' /\ EntriesInv'
  <2>1. ScriptsTyped'
    BY <1>0, <1>1 DEF ScriptsTyped, Texts, C!Owners
  <2>2. ASSUME NEW key \in DOMAIN entries' PROVE KeptFor(entries'[key].result, key)
    BY <1>2, <1>3, <2>2 DEF ScriptsInv, EntriesInv
  <2> QED
    BY <2>1, <2>2 DEF EntriesInv, KeptFor, Texts, InOrder
<1>5. CallInv(c)'
  <2>1. runs'[c] = "end" /\ lock' # c
    BY <1>0, <1>1 DEF ScriptsTyped
  <2>2. Answers(c, results[c])'
    BY <1>1, <1>2 DEF Answers, Texts
  <2>3. results'[c].end # "cut" /\ results'[c].source \notin Impure
    BY <1>1, <1>2 DEF KeptFor
  <2> QED
    BY <2>1, <2>2, <2>3 DEF CallInv
<1>6. ASSUME NEW d \in ScriptCalls, d # c PROVE CallInv(d)'
  <2>1. runs'[d] = runs[d] /\ runs[d] # "check"
    BY <1>0, <1>1, <1>6 DEF ScriptsTyped, ScriptsInv, CallInv
  <2> QED
    BY <1>1, <2>1, OthersKeep DEF ScriptsInv
<1> QED
  BY <1>4, <1>5, <1>6 DEF ScriptsInv

(* A save is part of every call in progress of its account. *)
LEMMA SaveKeeps ==
    ASSUME ScriptsInv, NEW a \in C!Owners, NEW q \in ImportedParts, C!Save(a, q)
    PROVE  ScriptsInv'
<1>0. ScriptsTyped
  BY DEF ScriptsInv
<1>1. /\ files' = [files EXCEPT ![a][q] = 1 - @]
      /\ during' = [c \in ScriptCalls |-> IF MCAccount[c] = a /\ runs[c] \notin {"begin", "end"}
                                          THEN during[c] \cup {<<q, 1 - files[a][q]>>} ELSE during[c]]
      /\ UNCHANGED <<script, runs, checked, reads, results, lock, entries>>
  BY DEF C!Save
<1>2. files[a][q] \in {0, 1} /\ 1 - files[a][q] \in {0, 1}
  BY <1>0 DEF ScriptsTyped
<1>3. files' \in [C!Owners -> [ImportedParts -> {0, 1}]]
  BY <1>0, <1>1, <1>2 DEF ScriptsTyped
<1>4. ASSUME NEW c \in ScriptCalls
      PROVE  /\ during[c] \subseteq during'[c] /\ during'[c] \subseteq Texts
             /\ runs[c] = "end" => during'[c] = during[c]
  BY <1>0, <1>1, <1>2, <1>4 DEF ScriptsTyped, Texts
<1>5. ScriptsTyped' /\ EntriesInv'
  <2>1. during' \in [ScriptCalls -> SUBSET Texts]
    BY <1>1, <1>4
  <2> QED
    BY <1>0, <1>1, <1>3, <2>1 DEF ScriptsInv, ScriptsTyped, EntriesInv, KeptFor, Texts, InOrder, C!Owners
<1>6. ASSUME NEW c \in ScriptCalls PROVE CallInv(c)'
  <2>0. CallInv(c)
    BY DEF ScriptsInv
  <2>1. ASSUME runs[c] \in {"check", "run", "insert"}, NEW p \in ImportedParts
        PROVE  <<p, files'[MCAccount[c]][p]>> \in during'[c]
    <3>1. CASE MCAccount[c] = a /\ p = q
      <4>1. files'[a][q] = 1 - files[a][q]
        BY <1>0, <1>1 DEF ScriptsTyped
      <4> QED
        BY <1>1, <2>1, <3>1, <4>1
    <3>2. CASE MCAccount[c] # a \/ p # q
      <4>1. files'[MCAccount[c]][p] = files[MCAccount[c]][p]
        BY <1>0, <1>1, <3>2, OwnerOf DEF ScriptsTyped
      <4>2. <<p, files[MCAccount[c]][p]>> \in during[c]
        BY <2>0, <2>1 DEF CallInv, C!File
      <4> QED
        BY <1>4, <4>1, <4>2
    <3> QED
      BY <3>1, <3>2
  <2>2. runs[c] = "check" => Checks(c)'
    BY <1>1, <1>4, <2>0 DEF CallInv, Checks, C!Key
  <2>3. \A r : Answers(c, r) => Answers(c, r)'
    BY <1>1, <1>4 DEF Answers, Texts
  <2>4. \A r : KeptFor(r, C!Key(c)) => KeptFor(r, C!Key(c))'
    BY <1>1 DEF KeptFor, C!Key, Texts, InOrder
  <2>5. C!ToSet(reads[c]) \subseteq during[c] /\ InOrder(script[c], reads[c])
        => C!ToSet(reads[c])' \subseteq during'[c] /\ InOrder(script[c], reads[c])'
    BY <1>1, <1>4 DEF C!ToSet, InOrder
  <2> QED
    BY <1>1, <2>0, <2>1, <2>2, <2>3, <2>4, <2>5 DEF CallInv, C!File
<1> QED
  BY <1>5, <1>6 DEF ScriptsInv

LEMMA ScriptsStep == ScriptsInv /\ [C!Next]_scriptVars => ScriptsInv'
<1> SUFFICES ASSUME ScriptsInv, [C!Next]_scriptVars PROVE ScriptsInv'
  OBVIOUS
<1>1. CASE UNCHANGED scriptVars
  <2>1. ScriptsTyped' /\ EntriesInv'
    BY <1>1 DEF scriptVars, ScriptsInv, ScriptsTyped, EntriesInv, KeptFor, Texts, InOrder, C!Owners
  <2>2. ASSUME NEW c \in ScriptCalls PROVE CallInv(c)'
    BY <1>1, OthersKeep DEF scriptVars, ScriptsInv
  <2> QED
    BY <2>1, <2>2 DEF ScriptsInv
<1>2. CASE C!Next
  BY <1>2, BeginKeeps, CheckKeeps, HitKeeps, ImportKeeps, InsertKeeps, FinishKeeps, SaveKeeps DEF C!Next
<1> QED
  BY <1>1, <1>2

LEMMA ScriptsFrame == [HostNext]_<<vars, reportVars, folderVars, scriptVars, tabVars, part>> => [C!Next]_scriptVars
BY DEF HostNext

LEMMA ScriptsGoOn ==
    ScriptsInv /\ [HostNext]_<<vars, reportVars, folderVars, scriptVars, tabVars, part>> => ScriptsInv'
BY ScriptsStep, ScriptsFrame

(* A call is answered with a result of its own account's script, of what every part it imports was at some
   time during the call, whether it was kept or is run (script.rs, Cache::get). *)
THEOREM ResultsReadThisCall == HostSpec => []ReadsThisCall
<1>1. HostInit => ScriptsInv
  BY ScriptsBegin DEF HostInit
<1>2. ScriptsInv => ReadsThisCall
  BY DEF ScriptsInv, CallInv, Answers, ReadsThisCall, C!ReadsThisCall, C!Ended
<1> QED
  BY <1>1, <1>2, ScriptsGoOn, PTL DEF HostSpec

------------------------------------------------------------------------------
(* Sums of weights *)

(* f sums the weights w of every set of keys in Z. *)
Sums(f, Z, w) ==
    /\ \A x \in Z : w[x] \in Int
    /\ f[{}] = 0 /\ \A Y \in SUBSET Z : f[Y] \in Int
    /\ \A Y \in SUBSET Z : \A x \in Y : f[Y] = f[Y \ {x}] + w[x]

(* Weights that are numbers have sums. *)
LEMMA SumsExist ==
    ASSUME NEW Z, IsFiniteSet(Z), NEW w, \A x \in Z : w[x] \in Int
    PROVE  \E f : Sums(f, Z, w)
<1> DEFINE U == {Y \in SUBSET Z : \E f : Sums(f, Y, w)}
<1>1. {} \in U
  <2> DEFINE f == [Y \in {{}} |-> 0]
  <2>1. Sums(f, {}, w)
    BY DEF Sums
  <2> QED BY <2>1
<1>2. ASSUME NEW Y \in SUBSET Z, Y # {}, \A x \in Y : Y \ {x} \in U PROVE Y \in U
  <2>0. PICK x : x \in Y
    BY <1>2
  <2>9. \A z \in Y : w[z] \in Int
    OBVIOUS
  <2>1. PICK f : Sums(f, Y \ {x}, w)
    BY <1>2, <2>0
  <2> DEFINE g == [X \in SUBSET Y |-> IF x \in X THEN f[X \ {x}] + w[x] ELSE f[X]]
  <2>2. g[{}] = 0
    BY <2>1 DEF Sums
  <2>3. ASSUME NEW X \in SUBSET Y PROVE g[X] \in Int
    <3>1. X \ {x} \in SUBSET (Y \ {x}) /\ w[x] \in Int
      BY <2>0, <2>9
    <3>2. f[X \ {x}] \in Int
      BY <2>1, <3>1 DEF Sums
    <3>3. CASE x \in X
      <4>1. g[X] = f[X \ {x}] + w[x]
        BY <3>3
      <4> HIDE DEF g
      <4> QED BY <3>1, <3>2, <4>1
    <3>4. CASE x \notin X
      <4>1. X \ {x} = X /\ g[X] = f[X]
        BY <3>4
      <4> HIDE DEF g
      <4> QED BY <3>2, <4>1
    <3> QED BY <3>3, <3>4
  <2>4. ASSUME NEW X \in SUBSET Y, NEW y \in X PROVE g[X] = g[X \ {y}] + w[y]
    <3>1. CASE y = x
      <4>1. g[X] = f[X \ {x}] + w[x] /\ g[X \ {y}] = f[X \ {x}]
        BY <3>1
      <4> HIDE DEF g
      <4> QED BY <3>1, <4>1
    <3>2. CASE y # x /\ x \in X
      <4>1. g[X] = f[X \ {x}] + w[x] /\ g[X \ {y}] = f[(X \ {y}) \ {x}] + w[x]
        BY <3>2
      <4>2. X \ {x} \in SUBSET (Y \ {x}) /\ y \in X \ {x} /\ (X \ {y}) \ {x} = (X \ {x}) \ {y}
        BY <3>2
      <4>3. f[X \ {x}] = f[(X \ {x}) \ {y}] + w[y]
        BY <2>1, <4>2 DEF Sums
      <4>4. f[(X \ {x}) \ {y}] \in Int
        <5>1. (X \ {x}) \ {y} \in SUBSET (Y \ {x})
          OBVIOUS
        <5> HIDE DEF g
        <5> QED BY <2>1, <5>1 DEF Sums
      <4>5. w[x] \in Int /\ w[y] \in Int
        BY <2>0, <2>9
      <4> HIDE DEF g
      <4>6. \A p, q, r \in Int : (p + q) + r = (p + r) + q
        OBVIOUS
      <4>7. g[X] = (f[(X \ {x}) \ {y}] + w[y]) + w[x] /\ g[X \ {y}] = f[(X \ {x}) \ {y}] + w[x]
        BY <4>1, <4>2, <4>3
      <4> QED BY <4>4, <4>5, <4>6, <4>7
    <3>3. CASE x \notin X
      <4>1. g[X] = f[X] /\ g[X \ {y}] = f[X \ {y}]
        BY <3>3
      <4>2. X \in SUBSET (Y \ {x})
        BY <3>3
      <4>3. f[X] = f[X \ {y}] + w[y]
        BY <2>1, <4>2 DEF Sums
      <4> HIDE DEF g
      <4> QED BY <4>1, <4>3
    <3> QED BY <3>1, <3>2, <3>3
  <2> HIDE DEF g
  <2>5. Sums(g, Y, w)
    BY <2>2, <2>3, <2>4 DEF Sums
  <2> QED BY <2>5
<1> HIDE DEF U
<1>3. SUBSET Z \subseteq U
  BY <1>1, <1>2, SetInduction
<1> QED
  BY <1>3 DEF U

(* What the fold of Heavy computes. *)
WeightOf(e, keys) == C!MapThenSumSet(LAMBDA k : e[k].weight, keys)

(* The function that the fold is defined by. *)
Folds0(f, e, Z) ==
    f = [Y \in SUBSET Z |-> IF Y = {} THEN 0
                            ELSE e[CHOOSE x \in Y : TRUE].weight + f[Y \ {CHOOSE x \in Y : TRUE}]]

(* The fold takes its value from a function that is chosen: one that is there. *)
LEMMA WeightFolds ==
    ASSUME NEW Z, NEW e, \E f : Folds0(f, e, Z)
    PROVE  \E f : Folds0(f, e, Z) /\ WeightOf(e, Z) = f[Z]
<1> DEFINE f == CHOOSE f : Folds0(f, e, Z)
<1>1. Folds0(f, e, Z)
  OBVIOUS
<1>2. WeightOf(e, Z) = f[Z]
  BY Zenon DEF WeightOf, C!MapThenSumSet, C!MapThenFoldSet, Folds0
<1> QED
  BY <1>1, <1>2

(* It is the sum, in whatever order it takes the keys. *)
LEMMA WeightIs ==
    ASSUME NEW Z, IsFiniteSet(Z), NEW e, NEW w, \A x \in Z : e[x].weight = w[x], NEW g, Sums(g, Z, w)
    PROVE  WeightOf(e, Z) = g[Z]
<1>1. Folds0([Y \in SUBSET Z |-> g[Y]], e, Z)
  <2> DEFINE f == [Y \in SUBSET Z |-> g[Y]]
  <2>1. ASSUME NEW Y \in SUBSET Z, Y # {}
        PROVE  f[Y] = e[CHOOSE x \in Y : TRUE].weight + f[Y \ {CHOOSE x \in Y : TRUE}]
    <3>1. PICK x \in Y : x = CHOOSE y \in Y : TRUE
      BY <2>1
    <3>2. g[Y] = g[Y \ {x}] + w[x] /\ g[Y \ {x}] \in Int /\ g[Y] \in Int
      BY DEF Sums
    <3>3. f[Y] = g[Y] /\ f[Y \ {x}] = g[Y \ {x}] /\ e[x].weight = w[x]
      OBVIOUS
    <3>4. w[x] \in Int
      BY DEF Sums
    <3> HIDE DEF f
    <3>5. f[Y] = e[x].weight + f[Y \ {x}]
      BY <3>2, <3>3, <3>4
    <3> QED BY <3>1, <3>5
  <2> QED
    BY <2>1 DEF Folds0, Sums
<1>2. PICK f : Folds0(f, e, Z) /\ WeightOf(e, Z) = f[Z]
  BY <1>1, WeightFolds
<1> DEFINE U == {Y \in SUBSET Z : f[Y] = g[Y]}
<1>3. {} \in U
  BY <1>2 DEF Folds0, Sums
<1>4. ASSUME NEW Y \in SUBSET Z, Y # {}, \A x \in Y : Y \ {x} \in U PROVE Y \in U
  <2>1. PICK x \in Y : x = CHOOSE y \in Y : TRUE
    BY <1>4
  <2>2. f[Y] = e[x].weight + f[Y \ {x}]
    BY <1>2, <1>4, <2>1 DEF Folds0
  <2>3. f[Y \ {x}] = g[Y \ {x}] /\ e[x].weight = w[x]
    BY <1>4
  <2>4. g[Y] = g[Y \ {x}] + w[x] /\ g[Y \ {x}] \in Int /\ w[x] \in Int
    BY DEF Sums
  <2>5. f[Y] = g[Y]
    BY <2>2, <2>3, <2>4
  <2> QED BY <2>5
<1> HIDE DEF U
<1>5. SUBSET Z \subseteq U
  BY <1>3, <1>4, SetInduction
<1> QED
  BY <1>2, <1>5 DEF U

(* The sum of what goes and the sum of what stays. *)
LEMMA SumsSplit ==
    ASSUME NEW Z, IsFiniteSet(Z), NEW w, NEW f, Sums(f, Z, w), NEW X \in SUBSET Z
    PROVE  f[Z] = f[X] + f[Z \ X]
<1> DEFINE U == {Y \in SUBSET X : f[Z] = f[Y] + f[Z \ Y]}
<1>0. IsFiniteSet(X)
  BY FS_Subset
<1>1. {} \in U
  <2>1. f[{}] = 0 /\ f[Z] \in Int /\ Z \ {} = Z
    BY DEF Sums
  <2> QED BY <2>1
<1>2. ASSUME NEW Y \in SUBSET X, Y # {}, \A x \in Y : Y \ {x} \in U PROVE Y \in U
  <2>1. PICK x : x \in Y
    BY <1>2
  <2>2. f[Z] = f[Y \ {x}] + f[Z \ (Y \ {x})]
    BY <1>2, <2>1
  <2>3. f[Y] = f[Y \ {x}] + w[x]
    BY <2>1 DEF Sums
  <2> DEFINE V == Z \ (Y \ {x})
  <2>4. V \in SUBSET Z /\ x \in V /\ V \ {x} = Z \ Y
    BY <2>1
  <2>5. f[V] = f[Z \ Y] + w[x]
    <3> HIDE DEF V
    <3> QED BY <2>4 DEF Sums
  <2>6. f[Y \ {x}] \in Int /\ f[Z \ Y] \in Int /\ w[x] \in Int
    <3>1. Y \ {x} \in SUBSET Z /\ Z \ Y \in SUBSET Z /\ x \in Z
      BY <2>1
    <3> QED BY <3>1 DEF Sums
  <2>7. \A p, q, r \in Int : p + (q + r) = (p + r) + q
    OBVIOUS
  <2>8. f[Z] = f[Y] + f[Z \ Y]
    <3>1. f[Z] = f[Y \ {x}] + (f[Z \ Y] + w[x])
      BY <2>2, <2>5
    <3> QED BY <2>3, <2>6, <2>7, <3>1
  <2> QED BY <2>8
<1> HIDE DEF U
<1>3. SUBSET X \subseteq U
  BY <1>0, <1>1, <1>2, SetInduction
<1> QED
  BY <1>3 DEF U

(* The sums of what a set has are those of a part of it. *)
LEMMA SumsWithin ==
    ASSUME NEW Z, NEW w, NEW f, Sums(f, Z, w), NEW Y \in SUBSET Z
    PROVE  Sums(f, Y, w)
BY DEF Sums

(* A key that is there once is gone, and the others are there once. *)
LEMMA KeyGone ==
    ASSUME NEW D, NEW s \in Seq(D), Once(s), C!ToSet(s) = D, NEW key \in D
    PROVE  LET t == C!RemoveFirst(s, key)
           IN  t \in Seq(D \ {key}) /\ Once(t) /\ C!ToSet(t) = D \ {key}
<1> DEFINE U == {i \in 1..Len(s) : s[i] = key}
           m == C!SelectInSeq(s, LAMBDA v : v = key)
           t == C!RemoveFirst(s, key)
<1>1. PICK j \in 1..Len(s) : s[j] = key
  BY DEF C!ToSet
<1>2. m = IF U # {} THEN C!Min(U) ELSE 0
  BY DEF C!SelectInSeq
<1>3. C!Min(U) \in U
  <2>1. U \in SUBSET Nat /\ U # {}
    BY <1>1
  <2> HIDE DEF U
  <2> QED BY <2>1, MinOfC
<1>4. m \in 1..Len(s) /\ s[m] = key
  BY <1>2, <1>3
<1>5. t = SubSeq(s, 1, m - 1) \o SubSeq(s, m + 1, Len(s))
  BY <1>1 DEF C!RemoveFirst, C!RemoveAt
<1> HIDE DEF m, t
<1> DEFINE a == SubSeq(s, 1, m - 1)
           b == SubSeq(s, m + 1, Len(s))
           n == Len(s)
<1>6. n \in Nat /\ s \in [1..n -> D] /\ DOMAIN s = 1..n
  OBVIOUS
<1>7. a \in Seq(D) /\ Len(a) = m - 1 /\ \A i \in 1..(m - 1) : a[i] = s[i]
  BY <1>4, SubSeqProperties
<1>8. b \in Seq(D) /\ Len(b) = n - m /\ \A i \in 1..(n - m) : b[i] = s[m + i]
  <2>1. m + 1 \in Int /\ n \in Int /\ \A i \in (m + 1)..n : s[i] \in D
    BY <1>4
  <2>2. /\ b \in Seq(D) /\ Len(b) = IF m + 1 <= n THEN n - (m + 1) + 1 ELSE 0
        /\ \A i \in 1..(n - (m + 1) + 1) : b[i] = s[(m + 1) + i - 1]
    BY <2>1, SubSeqProperties
  <2>3. (IF m + 1 <= n THEN n - (m + 1) + 1 ELSE 0) = n - m /\ n - (m + 1) + 1 = n - m
    BY <1>4, <1>6
  <2>4. \A i \in 1..(n - m) : (m + 1) + i - 1 = m + i
    BY <1>4, <1>6
  <2> HIDE DEF b, n
  <2> QED BY <2>2, <2>3, <2>4
<1> HIDE DEF a, b, n
<1>9. /\ t \in Seq(D) /\ Len(t) = n - 1
      /\ \A i \in 1..(n - 1) : t[i] = IF i < m THEN s[i] ELSE s[i + 1]
  <2>1. /\ a \o b \in Seq(D) /\ Len(a \o b) = (m - 1) + (n - m)
        /\ \A i \in 1..((m - 1) + (n - m)) : (a \o b)[i] = IF i <= m - 1 THEN a[i] ELSE b[i - (m - 1)]
    BY <1>7, <1>8, ConcatProperties
  <2>2. m \in 1..n
    BY <1>4 DEF n
  <2>3. (m - 1) + (n - m) = n - 1
    BY <1>6, <2>2
  <2>4. ASSUME NEW i \in 1..(n - 1) PROVE (a \o b)[i] = IF i < m THEN s[i] ELSE s[i + 1]
    <3>1. CASE i < m
      BY <1>7, <2>1, <2>2, <2>3, <3>1, <1>6
    <3>2. CASE ~ (i < m)
      <4>1. i - (m - 1) \in 1..(n - m) /\ m + (i - (m - 1)) = i + 1 /\ ~ (i <= m - 1)
        BY <1>6, <2>2, <3>2
      <4>2. b[i - (m - 1)] = s[i + 1]
        BY <1>8, <4>1
      <4> QED BY <2>1, <2>3, <3>2, <4>1, <4>2
    <3> QED BY <3>1, <3>2
  <2> QED BY <1>5, <2>1, <2>3, <2>4 DEF a, b
<1>10. m \in 1..n /\ s[m] = key
  BY <1>4 DEF n
<1>11. \A i \in 1..(n - 1) : \E k \in 1..n : k # m /\ t[i] = s[k]
  <2> SUFFICES ASSUME NEW i \in 1..(n - 1) PROVE \E k \in 1..n : k # m /\ t[i] = s[k]
    OBVIOUS
  <2>1. CASE i < m
    <3>1. i \in 1..n /\ i # m /\ t[i] = s[i]
      BY <1>6, <1>9, <1>10, <2>1
    <3> QED BY <3>1
  <2>2. CASE ~ (i < m)
    <3>1. i + 1 \in 1..n /\ i + 1 # m /\ t[i] = s[i + 1]
      BY <1>6, <1>9, <1>10, <2>2
    <3> QED BY <3>1
  <2> QED BY <2>1, <2>2
<1>12. \A i \in 1..(n - 1) : t[i] \in D \ {key}
  <2> SUFFICES ASSUME NEW i \in 1..(n - 1) PROVE t[i] \in D \ {key}
    OBVIOUS
  <2>1. PICK k \in 1..n : k # m /\ t[i] = s[k]
    BY <1>11
  <2> QED BY <1>6, <1>10, <2>1 DEF Once
<1>13. DOMAIN t = 1..(n - 1) /\ t \in Seq(D \ {key})
  <2>1. DOMAIN t = 1..(n - 1) /\ n - 1 \in Nat /\ t = [i \in 1..(n - 1) |-> t[i]]
    BY <1>6, <1>9, <1>10
  <2>2. t \in [1..(n - 1) -> D \ {key}]
    BY <1>12, <2>1
  <2> QED BY <2>1, <2>2
<1>14. Once(t)
  <2> SUFFICES ASSUME NEW i \in 1..(n - 1), NEW k \in 1..(n - 1), t[i] = t[k] PROVE i = k
    BY <1>13 DEF Once
  <2> DEFINE p == IF i < m THEN i ELSE i + 1
             q == IF k < m THEN k ELSE k + 1
  <2>1. p \in 1..n /\ q \in 1..n /\ t[i] = s[p] /\ t[k] = s[q]
    BY <1>6, <1>9, <1>10
  <2> HIDE DEF p, q
  <2>2. p = q
    BY <1>6, <2>1 DEF Once
  <2> QED BY <1>6, <1>10, <2>2 DEF p, q
<1>15. \A d \in D \ {key} : \E i \in 1..(n - 1) : t[i] = d
  <2> SUFFICES ASSUME NEW d \in D \ {key} PROVE \E i \in 1..(n - 1) : t[i] = d
    OBVIOUS
  <2>1. PICK k \in 1..n : s[k] = d
    BY <1>6 DEF C!ToSet
  <2>2. k # m
    BY <1>10, <2>1
  <2>3. CASE k < m
    <3>1. k \in 1..(n - 1) /\ t[k] = s[k]
      BY <1>6, <1>9, <1>10, <2>3
    <3> QED BY <2>1, <3>1
  <2>4. CASE ~ (k < m)
    <3>1. k - 1 \in 1..(n - 1) /\ ~ (k - 1 < m) /\ (k - 1) + 1 = k
      BY <1>6, <1>10, <2>2, <2>4
    <3> QED BY <1>9, <2>1, <3>1
  <2> QED BY <2>3, <2>4
<1>16. C!ToSet(t) = D \ {key}
  BY <1>12, <1>13, <1>15 DEF C!ToSet
<1> QED
  BY <1>13, <1>14, <1>16 DEF t

------------------------------------------------------------------------------
(* The order and the count of the entries *)

(* The order of the kept results has each of their keys once. *)
Listed(s, D) == s \in Seq(D) /\ Once(s) /\ C!ToSet(s) = D

(* Each of the entries has a weight, and those of two caches are the same. *)
Weighed(e, D) == \A k \in D : e[k].weight \in Nat
Agree(d, e, D) == \A k \in D : d[k] = e[k]

(* What was not there comes last. *)
LEMMA ListedAdds ==
    ASSUME NEW D, NEW s, Listed(s, D), NEW x, x \notin D
    PROVE  Listed(Append(s, x), D \cup {x})
<1> DEFINE t == Append(s, x)
           n == Len(s)
<1>1. s \in Seq(D \cup {x}) /\ n \in Nat /\ DOMAIN s = 1..n /\ \A i \in 1..n : s[i] \in D
  BY DEF Listed
<1>2. t \in Seq(D \cup {x}) /\ Len(t) = n + 1 /\ (\A i \in 1..n : t[i] = s[i]) /\ t[n + 1] = x
  BY <1>1, AppendProperties
<1> HIDE DEF t, n
<1>3. DOMAIN t = 1..(n + 1)
  BY <1>2
<1>4. \A i \in 1..(n + 1) : i = n + 1 \/ i \in 1..n
  BY <1>1
<1>5. Once(t)
  <2> SUFFICES ASSUME NEW i \in 1..(n + 1), NEW j \in 1..(n + 1), t[i] = t[j] PROVE i = j
    BY <1>3 DEF Once
  <2>1. CASE i \in 1..n /\ j \in 1..n
    BY <1>1, <1>2, <2>1 DEF Listed, Once
  <2>2. CASE i \in 1..n /\ j = n + 1
    BY <1>1, <1>2, <2>2
  <2>3. CASE i = n + 1 /\ j \in 1..n
    BY <1>1, <1>2, <2>3
  <2>4. CASE i = n + 1 /\ j = n + 1
    BY <2>4
  <2> QED BY <1>4, <2>1, <2>2, <2>3, <2>4
<1>6. C!ToSet(t) = D \cup {x}
  <2>1. \A d \in D : \E i \in 1..n : s[i] = d
    BY <1>1 DEF Listed, C!ToSet
  <2>2. \A i \in 1..n : i \in 1..(n + 1)
    BY <1>1
  <2>3. n + 1 \in 1..(n + 1)
    BY <1>1
  <2>4. \A d \in D \cup {x} : \E i \in 1..(n + 1) : t[i] = d
    BY <1>2, <2>1, <2>2, <2>3
  <2>5. \A i \in 1..(n + 1) : t[i] \in D \cup {x}
    BY <1>1, <1>2, <1>4
  <2> QED BY <1>3, <2>4, <2>5 DEF C!ToSet
<1> QED
  BY <1>2, <1>5, <1>6 DEF Listed, t

(* The rest of an order has what is not among the first. *)
LEMMA ListedRest ==
    ASSUME NEW D, NEW s, Listed(s, D), NEW k \in 0..Len(s)
    PROVE  /\ Listed(SubSeq(s, k + 1, Len(s)), D \ C!ToSet(SubSeq(s, 1, k)))
           /\ C!ToSet(SubSeq(s, 1, k)) \subseteq D
           /\ k = Len(s) => C!ToSet(SubSeq(s, 1, k)) = D
<1> DEFINE n == Len(s)
           a == SubSeq(s, 1, k)
           b == SubSeq(s, k + 1, n)
           X == C!ToSet(a)
<1>1. s \in Seq(D) /\ n \in Nat /\ DOMAIN s = 1..n /\ \A i \in 1..n : s[i] \in D
  BY DEF Listed
<1>2. k \in Nat /\ k <= n
  BY <1>1
<1>3. a \in Seq(D) /\ Len(a) = k /\ \A i \in 1..k : a[i] = s[i]
  BY <1>1, <1>2, SubSeqProperties
<1>4. b \in Seq(D) /\ Len(b) = n - k /\ \A i \in 1..(n - k) : b[i] = s[k + i]
  <2>1. /\ b \in Seq(D) /\ Len(b) = IF k + 1 <= n THEN n - (k + 1) + 1 ELSE 0
        /\ \A i \in 1..(n - (k + 1) + 1) : b[i] = s[(k + 1) + i - 1]
    <3>1. k + 1 \in Int /\ n \in Int /\ \A i \in (k + 1)..n : s[i] \in D
      BY <1>1, <1>2
    <3> QED BY <3>1, SubSeqProperties
  <2>2. (IF k + 1 <= n THEN n - (k + 1) + 1 ELSE 0) = n - k /\ n - (k + 1) + 1 = n - k
    <3> HIDE DEF n
    <3> QED BY <1>1, <1>2
  <2>3. \A i \in 1..(n - k) : (k + 1) + i - 1 = k + i
    BY <1>1, <1>2
  <2> HIDE DEF b, n
  <2> QED BY <2>1, <2>2, <2>3
<1> HIDE DEF a, b, n, X
<1>5. DOMAIN a = 1..k /\ DOMAIN b = 1..(n - k) /\ \A i \in 1..(n - k) : k + i \in 1..n
  BY <1>1, <1>2, <1>3, <1>4
<1>6. \A x : x \in X <=> \E i \in 1..k : s[i] = x
  BY <1>3, <1>5 DEF X, C!ToSet
<1>7. X \subseteq D /\ (k = n => X = D)
  <2>1. \A i \in 1..k : i \in 1..n
    BY <1>1, <1>2
  <2>2. \A d \in D : \E i \in 1..n : s[i] = d
    BY <1>1 DEF Listed, C!ToSet
  <2> QED BY <1>1, <1>6, <2>1, <2>2
<1>8. \A i, j \in 1..n : s[i] = s[j] => i = j
  BY <1>1 DEF Listed, Once
<1>9. ASSUME NEW i \in 1..(n - k) PROVE b[i] \in D \ X
  <2>1. k + i \in 1..n /\ b[i] = s[k + i]
    BY <1>4, <1>5
  <2>2. ASSUME NEW j \in 1..k PROVE s[j] # s[k + i]
    <3>1. j \in 1..n /\ j # k + i
      BY <1>1, <1>2
    <3> QED BY <1>8, <2>1, <3>1
  <2> QED BY <1>1, <1>6, <2>1, <2>2
<1>10. b \in Seq(D \ X)
  <2>1. n - k \in Nat /\ b \in [1..(n - k) -> D \ X]
    <3>1. n - k \in Nat
      BY <1>1, <1>2
    <3>2. b = [i \in 1..(n - k) |-> b[i]]
      BY <1>4, <1>5
    <3> QED BY <1>9, <3>1, <3>2
  <2> QED BY <2>1
<1>11. Once(b)
  <2> SUFFICES ASSUME NEW i \in 1..(n - k), NEW j \in 1..(n - k), b[i] = b[j] PROVE i = j
    BY <1>5 DEF Once
  <2>1. k + i = k + j
    BY <1>4, <1>5, <1>8
  <2> QED BY <1>1, <1>2, <2>1
<1>12. \A d \in D \ X : \E i \in 1..(n - k) : b[i] = d
  <2> SUFFICES ASSUME NEW d \in D \ X PROVE \E i \in 1..(n - k) : b[i] = d
    OBVIOUS
  <2>1. PICK j \in 1..n : s[j] = d
    BY <1>1 DEF Listed, C!ToSet
  <2>2. j \notin 1..k
    BY <1>6, <2>1
  <2>3. j - k \in 1..(n - k) /\ k + (j - k) = j
    BY <1>1, <1>2, <2>2
  <2> QED BY <1>4, <2>1, <2>3
<1>13. C!ToSet(b) = D \ X
  BY <1>5, <1>9, <1>12 DEF C!ToSet
<1> QED
  BY <1>7, <1>10, <1>11, <1>13 DEF Listed, a, b, n, X

(* f sums the weights w, and is what the fold computes of every set of the keys of e. *)
Tallies(f, D, w, e) == Sums(f, D, w) /\ \A U \in SUBSET D : WeightOf(e, U) = f[U] /\ f[U] \in Int

(* The weights of the entries have sums, and Heavy is one of them. *)
LEMMA CountIs ==
    ASSUME NEW D, NEW s, Listed(s, D), NEW e, NEW w, \A x \in D : w[x] = e[x].weight /\ w[x] \in Nat
    PROVE  /\ IsFiniteSet(D) /\ Cardinality(D) = Len(s)
           /\ \E f : Tallies(f, D, w, e)
<1>1. IsFiniteSet(D) /\ Cardinality(D) = Len(s)
  BY OnceCounts DEF Listed
<1>2. \A x \in D : w[x] = e[x].weight /\ w[x] \in Int
  OBVIOUS
<1>3. PICK f : Sums(f, D, w)
  BY <1>1, <1>2, SumsExist
<1>4. ASSUME NEW X \in SUBSET D PROVE WeightOf(e, X) = f[X] /\ f[X] \in Int
  <2>1. IsFiniteSet(X) /\ Sums(f, X, w)
    BY <1>1, <1>3, FS_Subset, SumsWithin
  <2>2. \A x \in X : e[x].weight = w[x]
    BY <1>2
  <2>3. f[X] \in Int
    BY <1>3 DEF Sums
  <2> QED BY <2>1, <2>2, <2>3, WeightIs
<1> QED
  BY <1>1, <1>3, <1>4 DEF Tallies

(* The count is a number. *)
LEMMA WeightIsInt ==
    ASSUME NEW D, NEW s, Listed(s, D), NEW e, Weighed(e, D)
    PROVE  WeightOf(e, D) \in Int
<1> DEFINE w == [x \in D |-> e[x].weight]
<1>1. \A x \in D : w[x] = e[x].weight /\ w[x] \in Nat
  BY DEF Weighed
<1> HIDE DEF w
<1>2. PICK f : Tallies(f, D, w, e)
  BY <1>1, CountIs
<1> QED
  BY <1>2 DEF Tallies

(* An entry that is dropped takes its weight with it. *)
LEMMA DropCounts ==
    ASSUME NEW D, NEW s, Listed(s, D), NEW e, Weighed(e, D),
           NEW d, NEW key \in D, Agree(d, e, D \ {key})
    PROVE  WeightOf(d, D \ {key}) = WeightOf(e, D) - e[key].weight
<1> DEFINE w == [x \in D |-> e[x].weight]
           Y == D \ {key}
<1>1. \A x \in D : w[x] = e[x].weight /\ w[x] \in Nat
  BY DEF Weighed
<1> HIDE DEF w
<1>2. IsFiniteSet(D)
  BY <1>1, CountIs
<1>3. PICK f : Tallies(f, D, w, e)
  BY <1>1, CountIs
<1>4. Y \in SUBSET D /\ IsFiniteSet(Y) /\ Sums(f, Y, w)
  BY <1>2, <1>3, FS_Subset, SumsWithin DEF Tallies
<1>5. \A x \in Y : d[x].weight = w[x]
  BY <1>1 DEF Agree
<1>6. WeightOf(d, Y) = f[Y]
  BY <1>4, <1>5, WeightIs
<1>7. f[D] = f[Y] + w[key]
  BY <1>3 DEF Sums, Tallies
<1>8. WeightOf(e, D) = f[D] /\ f[D] \in Int /\ f[Y] \in Int /\ w[key] = e[key].weight /\ e[key].weight \in Nat
  BY <1>1, <1>3, <1>4 DEF Tallies
<1> HIDE DEF Y
<1>9. WeightOf(d, Y) = WeightOf(e, D) - e[key].weight
  BY <1>6, <1>7, <1>8
<1> QED
  BY <1>8, <1>9 DEF Y

(* The cache e becomes d: of its keys D those in X go, Y is what stays, and a key comes that makes it Z. *)
Replaced(e, D, X, Y, key, adds, Z, d) ==
    /\ X \subseteq D /\ Y = D \ X /\ key \notin D /\ Z = Y \cup {key}
    /\ Agree(d, e, Y) /\ d[key].weight = adds /\ adds \in Nat

(* What goes is taken from the count, and what comes is added. *)
LEMMA InsertCounts ==
    ASSUME NEW D, NEW s, Listed(s, D), NEW e, Weighed(e, D),
           NEW X, NEW Y, NEW key, NEW adds, NEW Z, NEW d, Replaced(e, D, X, Y, key, adds, Z, d)
    PROVE  WeightOf(d, Z) = WeightOf(e, D) - WeightOf(e, X) + adds
<1> DEFINE w == [x \in D |-> e[x].weight]
           v == [x \in Z |-> d[x].weight]
<1>1. \A x \in D : w[x] = e[x].weight /\ w[x] \in Nat
  BY DEF Weighed
<1>2. \A x \in Z : v[x] = d[x].weight /\ v[x] \in Int
  BY DEF Weighed, Agree, Replaced
<1>3. (\A x \in Y : e[x].weight = v[x]) /\ v[key] = adds /\ adds \in Int
  BY DEF Agree, Replaced
<1> HIDE DEF v, w
<1>4. IsFiniteSet(D)
  BY <1>1, CountIs
<1>5. PICK f : Tallies(f, D, w, e)
  BY <1>1, CountIs
<1>6. f[D] = f[X] + f[Y]
  <2>1. Sums(f, D, w) /\ X \in SUBSET D /\ Y = D \ X
    BY <1>5 DEF Tallies, Replaced
  <2> QED BY <1>4, <2>1, SumsSplit
<1>7. Y \in SUBSET D /\ X \in SUBSET D /\ Y \in SUBSET Z /\ key \in Z /\ Z \in SUBSET Z /\ Z \ {key} = Y /\ Z = Y \cup {key}
  BY DEF Replaced
<1>8. IsFiniteSet(Y) /\ IsFiniteSet(Z)
  BY <1>4, <1>7, FS_Subset, FS_AddElement
<1>9. PICK g : Sums(g, Z, v)
  BY <1>2, <1>8, SumsExist
<1>10. WeightOf(d, Z) = g[Z]
  BY <1>2, <1>8, <1>9, WeightIs
<1>11. g[Z] = g[Y] + adds /\ g[Y] \in Int
  <2>1. g[Z] = g[Z \ {key}] + v[key]
    BY <1>7, <1>9 DEF Sums
  <2>2. g[Y] \in Int
    BY <1>7, <1>9 DEF Sums
  <2> QED BY <1>3, <1>7, <2>1, <2>2
<1>12. WeightOf(e, Y) = g[Y]
  <2>1. Sums(g, Y, v)
    BY <1>7, <1>9, SumsWithin
  <2>2. \A x \in Y : e[x].weight = v[x]
    BY <1>3
  <2> QED BY <1>8, <2>1, <2>2, WeightIs
<1>13. WeightOf(e, Y) = f[Y] /\ WeightOf(e, D) = f[D] /\ WeightOf(e, X) = f[X] /\ f[D] \in Int /\ f[X] \in Int /\ f[Y] \in Int
  BY <1>5, <1>7 DEF Tallies
<1> QED
  BY <1>6, <1>10, <1>11, <1>12, <1>13

(* A key that is removed is gone from the order. *)
LEMMA RemoveListed ==
    ASSUME NEW D, NEW s, Listed(s, D), NEW key \in D
    PROVE  Listed(C!RemoveFirst(s, key), D \ {key})
BY KeyGone DEF Listed

------------------------------------------------------------------------------
(* What the cache counts *)

(* What is kept is counted, and what is counted fits. *)
CountInv ==
    /\ Listed(order, DOMAIN entries)
    /\ Weighed(entries, DOMAIN entries)
    /\ weight = WeightOf(entries, DOMAIN entries) /\ weight <= CacheBytes
    /\ lock \in ScriptCalls \cup {"none"} /\ script \in MCScripts /\ saves \in 0..MaxSaves

(* What a step that leaves the cache alone leaves counted. *)
LEMMA CountStays ==
    ASSUME CountInv, UNCHANGED <<entries, order, weight, script>>,
           lock' \in ScriptCalls \cup {"none"}, saves' \in 0..MaxSaves
    PROVE  CountInv'
BY DEF CountInv

(* Nothing is kept at first. *)
LEMMA CountBegins == C!Init => CountInv
<1> SUFFICES ASSUME C!Init PROVE CountInv
  OBVIOUS
<1>1. Listed(<<>>, {}) /\ DOMAIN entries = {} /\ order = <<>> /\ weight = 0
  BY DEF C!Init, Listed, Once, C!ToSet
<1>2. WeightOf(entries, {}) = 0
  <2> DEFINE f == [U \in SUBSET {} |-> 0]
             w == [x \in {} |-> 0]
  <2>1. Sums(f, {}, w)
    BY DEF Sums
  <2>2. IsFiniteSet({}) /\ f[{}] = 0
    BY FS_EmptySet
  <2> HIDE DEF f, w
  <2> QED BY <2>1, <2>2, WeightIs
<1> QED
  BY <1>1, <1>2, ScriptsAssumption DEF C!Init, CountInv, Weighed

(* An entry that is dropped leaves the rest counted. *)
LEMMA DropKeeps ==
    ASSUME CountInv, NEW key \in DOMAIN entries, C!Without(key), weight' = C!Lighter(key),
           lock' \in ScriptCalls \cup {"none"}, UNCHANGED <<script, saves>>
    PROVE  CountInv'
<1> DEFINE D == DOMAIN entries
<1>1. /\ Listed(order, D) /\ Weighed(entries, D)
      /\ weight = WeightOf(entries, D) /\ weight <= CacheBytes
  BY DEF CountInv
<1>2. /\ DOMAIN entries' = D \ {key} /\ Agree(entries', entries, D \ {key})
      /\ order' = C!RemoveFirst(order, key) /\ weight' = weight - entries[key].weight
  BY DEF C!Without, C!Lighter, Agree
<1> HIDE DEF D
<1>3. key \in D
  BY DEF D
<1>4. Listed(order', D \ {key})
  BY <1>1, <1>2, <1>3, RemoveListed
<1>5. weight \in Int /\ WeightOf(entries', D \ {key}) = weight'
  <2>1. WeightOf(entries, D) \in Int
    BY <1>1, WeightIsInt
  <2>2. WeightOf(entries', D \ {key}) = WeightOf(entries, D) - entries[key].weight
    BY <1>1, <1>2, <1>3, DropCounts
  <2> QED
    BY <1>1, <1>2, <2>1, <2>2
<1>6. weight' <= CacheBytes
  BY <1>1, <1>2, <1>3, <1>5, ScriptsAssumption DEF Weighed
<1>7. Weighed(entries', D \ {key})
  BY <1>1, <1>2 DEF Weighed, Agree
<1> QED
  BY <1>2, <1>4, <1>5, <1>6, <1>7 DEF CountInv

(* A hit moves its key to the end of the order. *)
LEMMA MoveKeeps ==
    ASSUME CountInv, NEW key \in DOMAIN entries, order' = Append(C!RemoveFirst(order, key), key),
           lock' \in ScriptCalls \cup {"none"}, UNCHANGED <<entries, weight, script, saves>>
    PROVE  CountInv'
<1> DEFINE D == DOMAIN entries
<1>1. Listed(order, D) /\ key \in D
  BY DEF CountInv
<1> HIDE DEF D
<1>2. Listed(C!RemoveFirst(order, key), D \ {key}) /\ (D \ {key}) \cup {key} = D
  BY <1>1, RemoveListed
<1>3. Listed(order', D)
  BY <1>2, ListedAdds
<1> QED
  BY <1>3 DEF CountInv, D

(* As many of the oldest go as make room, or all, and then the entry is within the limit by itself. *)
LEMMA EvictedFits ==
    ASSUME CountInv, NEW adds \in Nat
    PROVE  /\ C!Evicted(adds) \in 0..Len(order)
           /\ \/ weight - C!Heavy(C!Oldest(C!Evicted(adds))) + adds <= CacheBytes
              \/ C!Evicted(adds) = Len(order)
<1> DEFINE U == {k \in 0..Len(order) : weight - C!Heavy(C!Oldest(k)) + adds <= CacheBytes \/ k = Len(order)}
<1>1. Len(order) \in Nat
  BY DEF CountInv, Listed
<1>2. U \in SUBSET Nat /\ U # {}
  BY <1>1
<1> HIDE DEF U
<1>3. C!Min(U) \in U
  BY <1>2, MinOfC
<1>4. C!Evicted(adds) = C!Min(U)
  BY DEF C!Evicted, U
<1> QED
  BY <1>3, <1>4 DEF U

(* An entry that is added is counted, and what it pushes out is not. *)
LEMMA AddKeeps ==
    ASSUME CountInv, NEW c \in ScriptCalls, C!Insert(c)
    PROVE  CountInv'
<1> DEFINE key == C!Key(c)
           adds == MCWeight[script[c]]
           k == C!Evicted(adds)
           D == DOMAIN entries
           X == C!Oldest(k)
<1>1. lock' = lock /\ script' = script /\ saves' = saves
  BY DEF C!Insert
<1>2. CASE UNCHANGED <<entries, order, weight>>
  BY <1>1, <1>2, CountStays DEF CountInv
<1>3. CASE /\ ~ (adds > CacheBytes \/ key \in D)
           /\ entries' = [x \in (D \ X) \cup {key} |-> IF x = key THEN [result |-> results[c], weight |-> adds] ELSE entries[x]]
           /\ order' = Append(SubSeq(order, k + 1, Len(order)), key)
           /\ weight' = weight - C!Heavy(X) + adds
  <2>1. adds \in Nat
    <3>1. script[c] \in {"case", "clock", "heavy"}
      BY DEF CountInv, MCScripts
    <3> QED BY <3>1, ScriptsAssumption DEF MCWeight
  <2>2. adds <= CacheBytes /\ key \notin D
    BY <1>3, <2>1, ScriptsAssumption
  <2> HIDE DEF key, adds
  <2>3. k \in 0..Len(order) /\ (weight - C!Heavy(X) + adds <= CacheBytes \/ k = Len(order))
    BY <2>1, EvictedFits
  <2>4. /\ Listed(order, D) /\ Weighed(entries, D)
        /\ weight = WeightOf(entries, D) /\ C!Heavy(X) = WeightOf(entries, X)
    BY DEF CountInv, C!Heavy, WeightOf
  <2>5. X = C!ToSet(SubSeq(order, 1, k))
    BY DEF C!Oldest
  <2>6. DOMAIN entries' = (D \ X) \cup {key}
    BY <1>3
  <2>7. Agree(entries', entries, D \ X) /\ entries'[key].weight = adds
    BY <1>3, <2>2 DEF Agree
  <2> HIDE DEF k, D, X
  <2>8. /\ Listed(SubSeq(order, k + 1, Len(order)), D \ X) /\ X \in SUBSET D
        /\ k = Len(order) => X = D
    BY <2>3, <2>4, <2>5, ListedRest
  <2>9. Listed(order', (D \ X) \cup {key})
    BY <1>3, <2>2, <2>8, ListedAdds
  <2>10. /\ WeightOf(entries', (D \ X) \cup {key}) = WeightOf(entries, D) - WeightOf(entries, X) + adds
         /\ X = D => WeightOf(entries, D) - WeightOf(entries, X) + adds = adds
    <3> DEFINE Y == D \ X
               Z == Y \cup {key}
    <3>1. WeightOf(entries', Z) = WeightOf(entries, D) - WeightOf(entries, X) + adds
      <4>1. Replaced(entries, D, X, Y, key, adds, Z, entries')
        BY <2>1, <2>2, <2>7, <2>8 DEF Replaced
      <4> HIDE DEF Y, Z
      <4> QED BY <2>4, <4>1, InsertCounts
    <3>2. WeightOf(entries, D) \in Int
      BY <2>4, WeightIsInt
    <3> QED BY <2>1, <3>1, <3>2
  <2>11. weight' = WeightOf(entries', (D \ X) \cup {key}) /\ weight' <= CacheBytes
    BY <1>3, <2>2, <2>3, <2>4, <2>8, <2>10
  <2>12. Weighed(entries', (D \ X) \cup {key})
    BY <2>1, <2>4, <2>7 DEF Weighed, Agree
  <2>13. lock \in ScriptCalls \cup {"none"} /\ script \in MCScripts /\ saves \in 0..MaxSaves
    BY DEF CountInv
  <2> QED
    BY <1>1, <2>6, <2>9, <2>11, <2>12, <2>13 DEF CountInv
<1> QED
  BY <1>2, <1>3 DEF C!Insert

LEMMA CountStep == ScriptsInv /\ CountInv /\ [C!Next]_scriptVars => CountInv'
<1> SUFFICES ASSUME ScriptsInv, CountInv, [C!Next]_scriptVars PROVE CountInv'
  OBVIOUS
<1>0. lock \in ScriptCalls \cup {"none"} /\ saves \in 0..MaxSaves
  BY DEF CountInv
<1>1. CASE UNCHANGED scriptVars
  BY <1>0, <1>1, CountStays DEF scriptVars
<1>2. ASSUME NEW c \in ScriptCalls, C!Begin(c) \/ C!Import(c) PROVE CountInv'
  BY <1>0, <1>2, CountStays DEF C!Begin, C!Import
<1>3. ASSUME NEW c \in ScriptCalls, NEW end \in {"answer", "budget", "cut"}, C!Finish(c, end) PROVE CountInv'
  BY <1>0, <1>3, CountStays DEF C!Finish
<1>4. ASSUME NEW a \in C!Owners, NEW q \in ImportedParts, C!Save(a, q) PROVE CountInv'
  <2>1. saves' \in 0..MaxSaves
    BY <1>0, <1>4, ScriptsAssumption DEF C!Save
  <2> QED BY <1>0, <1>4, <2>1, CountStays DEF C!Save
<1>5. ASSUME NEW c \in ScriptCalls, runs[c] = "check" PROVE C!Key(c) \in DOMAIN entries
  BY <1>5 DEF ScriptsInv, CallInv, Checks
<1>6. ASSUME NEW c \in ScriptCalls, C!Check(c) PROVE CountInv'
  <2>1. CASE UNCHANGED <<lock, entries, order, weight>>
    BY <1>0, <1>6, <2>1, CountStays DEF C!Check
  <2>2. CASE C!Without(C!Key(c)) /\ weight' = C!Lighter(C!Key(c)) /\ lock' = "none"
    <3>1. C!Key(c) \in DOMAIN entries /\ UNCHANGED <<script, saves>>
      BY <1>5, <1>6 DEF C!Check
    <3> QED BY <2>2, <3>1, DropKeeps
  <2> QED BY <1>6, <2>1, <2>2 DEF C!Check
<1>7. ASSUME NEW c \in ScriptCalls, C!Hit(c) PROVE CountInv'
  <2>1. C!Key(c) \in DOMAIN entries
    BY <1>5, <1>7 DEF C!Hit
  <2>2. /\ order' = Append(C!RemoveFirst(order, C!Key(c)), C!Key(c)) /\ lock' = "none"
        /\ UNCHANGED <<entries, weight, script, saves>>
    BY <1>7 DEF C!Hit
  <2> QED BY <2>1, <2>2, MoveKeeps
<1> QED
  BY <1>1, <1>2, <1>3, <1>4, <1>6, <1>7, AddKeeps DEF C!Next

(* What is counted is what TypeOK says. *)
LEMMA CountTypes == ScriptsInv /\ CountInv => C!TypeOK
<1> SUFFICES ASSUME ScriptsInv, CountInv PROVE C!TypeOK
  OBVIOUS
<1>1. C!ToSet(order) = DOMAIN entries /\ Len(order) = Cardinality(DOMAIN entries)
  BY OnceCounts DEF CountInv, Listed
<1>2. weight = C!Heavy(DOMAIN entries) /\ weight <= CacheBytes
  BY DEF CountInv, C!Heavy, WeightOf
<1>3. runs \in [ScriptCalls -> {"begin", "check", "run", "insert", "end"}]
  BY DEF ScriptsInv, ScriptsTyped
<1> QED
  BY <1>1, <1>2, <1>3 DEF C!TypeOK, C!Cardinality, Cardinality, CountInv

(* What is kept is of a whole run, what the clock decided goes to no other call, and the weight that the cache
   counts is the sum of what its entries weigh, listed once each, and within its limit, whatever is dropped,
   moved or pushed out (script.rs Cache and Meter). *)
THEOREM KeptResultsHold == HostSpec => []KeptResults
<1>1. HostInit => ScriptsInv /\ CountInv
  BY ScriptsBegin, CountBegins DEF HostInit
<1>2. /\ ScriptsInv /\ CountInv /\ [HostNext]_<<vars, reportVars, folderVars, scriptVars, tabVars, part>>
      => (ScriptsInv /\ CountInv)'
  BY ScriptsStep, CountStep, ScriptsFrame
<1>3. ASSUME ScriptsInv, NEW key \in DOMAIN entries
      PROVE  /\ MCWants(entries[key].result.source, entries[key].result.reads) = "none"
             /\ \A i \in DOMAIN entries[key].result.reads :
                    MCWants(entries[key].result.source, SubSeq(entries[key].result.reads, 1, i - 1))
                        = entries[key].result.reads[i][1]
  BY <1>3 DEF ScriptsInv, EntriesInv, KeptFor, InOrder
<1>4. ScriptsInv => C!ReadsAreWhole
  BY <1>3 DEF C!ReadsAreWhole
<1>5. ScriptsInv => C!ChanceIsNotKept
  BY DEF ScriptsInv, CallInv, C!ChanceIsNotKept, C!Ended
<1>6. ScriptsInv /\ CountInv => KeptResults
  BY <1>4, <1>5, CountTypes DEF KeptResults, C!KeptResults
<1> QED
  BY <1>1, <1>2, <1>6, PTL DEF HostSpec

------------------------------------------------------------------------------
(* A pass of a call of the tab's host *)

(* The ticket of a key, or none. *)
LEMMA TicketFound ==
    ASSUME NEW h, h.wanted \in Seq(T!Keys \cup {"-"}), NEW key
    PROVE  /\ T!TicketOf(h, key) \in 0..Len(h.wanted)
           /\ T!TicketOf(h, key) # 0 => h.wanted[T!TicketOf(h, key)] = key
           /\ T!TicketOf(h, key) = 0 => \A k \in 1..Len(h.wanted) : h.wanted[k] # key
<1> DEFINE U == {k \in 1..Len(h.wanted) : h.wanted[k] = key}
<1>0. T!TicketOf(h, key) = IF U # {} THEN T!Min(U) ELSE 0
  BY DEF T!TicketOf, T!SelectInSeq
<1>1. U # {} => T!Min(U) \in U
  <2>1. U \in SUBSET Nat
    OBVIOUS
  <2> HIDE DEF U
  <2> QED BY <2>1, MinOf
<1> QED
  BY <1>0, <1>1

(* The passes of a call up to its n-th request: the function that Passes is defined by. *)
UpTo(c, h, f, n) ==
    f = [i \in 0..n |->
            IF i = 0 THEN {[host |-> h, at |-> 0, end |-> "done"]}
            ELSE {T!Want(pass, TabPlan[c][i]) : pass \in f[i - 1]}]

(* It is there for any plan, however long. *)
LEMMA PassesExist ==
    ASSUME NEW c, NEW h
    PROVE  \A n \in Nat : \E f : UpTo(c, h, f, n)
<1> DEFINE U == {n \in Nat : \E f : UpTo(c, h, f, n)}
<1>1. 0 \in U
  <2> DEFINE f == [i \in 0..0 |-> {[host |-> h, at |-> 0, end |-> "done"]}]
  <2>1. UpTo(c, h, f, 0)
    BY DEF UpTo
  <2> QED BY <2>1
<1>2. ASSUME NEW n \in Nat, n \in U PROVE n + 1 \in U
  <2>1. PICK f : UpTo(c, h, f, n)
    BY <1>2
  <2> DEFINE g == [i \in 0..(n + 1) |-> IF i = n + 1 THEN {T!Want(pass, TabPlan[c][i]) : pass \in f[n]} ELSE f[i]]
  <2>2. \A i \in 0..n : f[i] = IF i = 0 THEN {[host |-> h, at |-> 0, end |-> "done"]}
                               ELSE {T!Want(pass, TabPlan[c][i]) : pass \in f[i - 1]}
    BY <2>1 DEF UpTo
  <2>3. ASSUME NEW i \in 0..(n + 1)
        PROVE  g[i] = IF i = 0 THEN {[host |-> h, at |-> 0, end |-> "done"]}
                      ELSE {T!Want(pass, TabPlan[c][i]) : pass \in g[i - 1]}
    <3>1. CASE i = n + 1
      <4>1. g[i] = {T!Want(pass, TabPlan[c][i]) : pass \in f[n]} /\ g[i - 1] = f[n] /\ i # 0
        BY <3>1
      <4> QED BY <4>1
    <3>2. CASE i # n + 1
      <4>1. i \in 0..n /\ g[i] = f[i]
        BY <3>2
      <4>2. i # 0 => g[i - 1] = f[i - 1]
        BY <3>2
      <4> HIDE DEF g
      <4> QED BY <2>2, <4>1, <4>2
    <3> QED BY <3>1, <3>2
  <2>4. UpTo(c, h, g, n + 1)
    <3>1. g = [i \in 0..(n + 1) |-> g[i]]
      OBVIOUS
    <3> HIDE DEF g
    <3> QED BY <2>3, <3>1 DEF UpTo
  <2> HIDE DEF g
  <2> QED BY <2>4
<1> HIDE DEF U
<1>3. Nat \subseteq U
  BY <1>1, <1>2, Induction
<1> QED
  BY <1>3 DEF U

(* What the host of a tab may be. *)
TabAnswers == [key : T!Keys \cup {"-"}, ok : BOOLEAN]
TabHosts == [gen : Nat, wanted : Seq(T!Keys \cup {"-"}), answers : Seq(TabAnswers), kept : SUBSET Cached,
             failed : SUBSET TabCalls, folder : SUBSET TabSaves, timer : BOOLEAN, due : Nat,
             flushing : SUBSET TabSaves, writing : BOOLEAN]

(* A pass leaves the host where it was, with no more answers. *)
Leaves(h, g) ==
    /\ g \in TabHosts /\ Len(g.answers) <= Len(h.answers)
    /\ g.gen = h.gen /\ g.folder = h.folder /\ g.flushing = h.flushing /\ g.writing = h.writing

(* At most a key is wanted that was not. *)
Grown(w, v) == v = w \/ \E key \in T!Keys : v = Append(w, key) /\ \A k \in DOMAIN w : w[k] # key

(* What a pass may want of the kernel: a ticket for a key of its plan. *)
Asks(c, h, pass) ==
    LET w == pass.host.wanted
    IN  pass.at \in DOMAIN w /\ w[pass.at] \in T!Range(TabPlan[c]) /\ Grown(h.wanted, w)

(* What a pass of call c makes of host h. *)
PassOf(c, h, pass) ==
    /\ Leaves(h, pass.host)
    /\ pass.end \in {"done", "failed", "kernel"}
    /\ IF pass.end = "kernel" THEN Asks(c, h, pass) ELSE pass.host.wanted = h.wanted

(* The answer that is kept under a key, or none. *)
AnswerOf(h, key) == T!SelectInSeq(h.answers, LAMBDA a : a.key = key)

(* It is one of those that are kept. *)
LEMMA AnswerFound ==
    ASSUME NEW h \in TabHosts, NEW key
    PROVE  AnswerOf(h, key) \in 0..Len(h.answers)
<1> DEFINE U == {k \in 1..Len(h.answers) : h.answers[k].key = key}
<1>0. AnswerOf(h, key) = IF U # {} THEN T!Min(U) ELSE 0
  BY DEF AnswerOf, T!SelectInSeq
<1>1. U # {} => T!Min(U) \in U
  <2>1. U \in SUBSET Nat
    OBVIOUS
  <2> HIDE DEF U
  <2> QED BY <2>1, MinOf
<1>2. Len(h.answers) \in Nat
  BY DEF TabHosts
<1> QED
  BY <1>0, <1>1, <1>2

(* A key that has no answer is wanted under its ticket, or a new one. *)
LEMMA AskIs ==
    ASSUME NEW c \in TabCalls, NEW h \in TabHosts, NEW g, Leaves(h, g), g.wanted = h.wanted,
           NEW key \in T!Range(TabPlan[c])
    PROVE  PassOf(c, h, T!Ask(g, key))
<1> DEFINE open == T!TicketOf(g, key)
<1>0. g \in TabHosts /\ g.wanted \in Seq(T!Keys \cup {"-"})
  BY DEF Leaves, TabHosts
<1>1. /\ open \in 0..Len(g.wanted) /\ (open # 0 => g.wanted[open] = key)
      /\ open = 0 => \A k \in 1..Len(g.wanted) : g.wanted[k] # key
  BY <1>0, TicketFound
<1> HIDE DEF open
<1>2. CASE open # 0
  <2>1. T!Ask(g, key) = [host |-> g, at |-> open, end |-> "kernel"]
    BY <1>2 DEF open, T!Ask
  <2>2. open \in DOMAIN g.wanted /\ g.wanted[open] \in T!Range(TabPlan[c])
    BY <1>0, <1>1, <1>2
  <2> QED
    BY <2>1, <2>2 DEF PassOf, Asks, Grown
<1>3. CASE open = 0
  <2> DEFINE n == [g EXCEPT !.wanted = Append(@, key)]
  <2>1. T!Ask(g, key) = [host |-> n, at |-> Len(g.wanted) + 1, end |-> "kernel"]
    BY <1>3 DEF open, T!Ask
  <2>2. key \in T!Keys
    BY DEF T!Keys
  <2>3. Append(g.wanted, key) \in Seq(T!Keys \cup {"-"})
    BY <1>0, <2>2
  <2>4. Leaves(h, n) /\ n.wanted = Append(h.wanted, key)
    BY <1>0, <2>3 DEF Leaves, TabHosts
  <2> HIDE DEF n
  <2>5. Len(g.wanted) + 1 \in DOMAIN n.wanted /\ n.wanted[Len(g.wanted) + 1] = key
    BY <1>0, <2>4
  <2>6. \A k \in DOMAIN h.wanted : h.wanted[k] # key
    BY <1>0, <1>1, <1>3
  <2> QED
    BY <2>1, <2>2, <2>4, <2>5, <2>6 DEF PassOf, Asks, Grown
<1> QED
  BY <1>2, <1>3

(* One request of a pass. *)
LEMMA WantIs ==
    ASSUME NEW c \in TabCalls, NEW h \in TabHosts, NEW pass, PassOf(c, h, pass),
           NEW key \in T!Range(TabPlan[c])
    PROVE  PassOf(c, h, T!Want(pass, key))
<1> DEFINE g == pass.host
           i == AnswerOf(g, key)
           found == [g EXCEPT !.answers = T!Taken(@, i)]
           ok == g.answers[i].ok
<1>0. g \in TabHosts
  BY DEF PassOf, Leaves
<1>1. i \in 0..Len(g.answers)
  BY <1>0, AnswerFound
<1>2. CASE pass.end # "done" \/ key \in g.kept
  BY <1>2 DEF T!Want
<1>3. CASE pass.end = "done" /\ key \notin g.kept /\ i = 0
  <2>1. T!Want(pass, key) = T!Ask(g, key)
    BY <1>3 DEF T!Want, AnswerOf
  <2>2. Leaves(h, g) /\ g.wanted = h.wanted
    BY <1>3 DEF PassOf
  <2> HIDE DEF g
  <2> QED
    BY <2>1, <2>2, AskIs
<1>4. CASE pass.end = "done" /\ key \notin g.kept /\ i # 0
  <2> DEFINE n == [found EXCEPT !.kept = IF ok /\ key \in Cached THEN @ \union {key} ELSE @]
  <2>1. T!Want(pass, key) = [host |-> n, at |-> i, end |-> IF ok THEN "done" ELSE "failed"]
    BY <1>4 DEF T!Want, AnswerOf
  <2> HIDE DEF i
  <2>2. Leaves(h, g) /\ g.wanted = h.wanted
    BY <1>4 DEF PassOf
  <2>3. g.answers \in Seq(TabAnswers)
    BY <1>0 DEF TabHosts
  <2>4. T!Taken(g.answers, i) \in Seq(TabAnswers) /\ Len(T!Taken(g.answers, i)) <= Len(g.answers)
    <3>1. i \in 1..Len(g.answers)
      BY <1>1, <1>4
    <3> HIDE DEF g
    <3> QED BY <2>3, <3>1, OneTaken DEF T!Taken, T!RemoveAt
  <2>5. Leaves(h, n) /\ n.wanted = h.wanted
    <3>1. n \in TabHosts
      BY <1>0, <2>4 DEF TabHosts
    <3>2. /\ n.gen = g.gen /\ n.folder = g.folder /\ n.flushing = g.flushing /\ n.writing = g.writing
          /\ n.wanted = g.wanted /\ n.answers = T!Taken(g.answers, i)
      BY <1>0 DEF TabHosts
    <3>3. Len(h.answers) \in Nat /\ Len(g.answers) \in Nat /\ Len(n.answers) \in Nat
      BY <1>0, <3>1 DEF TabHosts
    <3> HIDE DEF n, g
    <3> QED
      BY <2>2, <2>4, <3>1, <3>2, <3>3 DEF Leaves
  <2> HIDE DEF n, ok
  <2> QED
    BY <2>1, <2>5 DEF PassOf
<1> QED
  BY <1>2, <1>3, <1>4

(* A whole pass, by induction over the requests of the plan. *)
LEMMA PassesKeep ==
    ASSUME NEW c \in TabCalls, NEW h \in TabHosts, NEW pass \in T!Passes(c, h)
    PROVE  PassOf(c, h, pass)
<1> DEFINE N == Len(TabPlan[c])
           f == CHOOSE f : UpTo(c, h, f, N)
<1>0. TabPlan[c] \in Seq(T!Keys) /\ N \in Nat
  BY TabAssumption
<1>1. UpTo(c, h, f, N)
  BY <1>0, PassesExist
<1>2. T!Passes(c, h) = f[N]
  BY Zenon DEF T!Passes, UpTo
<1> HIDE DEF f
<1> DEFINE U == {n \in Nat : n <= N => \A p \in f[n] : PassOf(c, h, p)}
<1>3. 0 \in U
  <2>1. f[0] = {[host |-> h, at |-> 0, end |-> "done"]}
    BY <1>0, <1>1 DEF UpTo
  <2>2. Leaves(h, h)
    BY DEF Leaves, TabHosts
  <2>3. PassOf(c, h, [host |-> h, at |-> 0, end |-> "done"])
    BY <2>2 DEF PassOf
  <2> QED BY <2>1, <2>3
<1>4. ASSUME NEW n \in Nat, n \in U PROVE n + 1 \in U
  <2> SUFFICES ASSUME n + 1 <= N, NEW q \in f[n + 1] PROVE PassOf(c, h, q)
    OBVIOUS
  <2>1. f[n + 1] = {T!Want(p, TabPlan[c][n + 1]) : p \in f[n]}
    <3>1. n + 1 \in 0..N /\ n + 1 # 0 /\ (n + 1) - 1 = n
      BY <1>0
    <3> HIDE DEF N
    <3> QED BY <1>1, <3>1 DEF UpTo
  <2>2. PICK p \in f[n] : q = T!Want(p, TabPlan[c][n + 1])
    BY <2>1
  <2>3. PassOf(c, h, p)
    BY <1>0, <1>4
  <2>4. TabPlan[c][n + 1] \in T!Range(TabPlan[c])
    BY <1>0 DEF T!Range
  <2> QED
    BY <2>2, <2>3, <2>4, WantIs
<1> HIDE DEF U
<1>5. Nat \subseteq U
  BY <1>3, <1>4, Induction
<1> QED
  BY <1>0, <1>2, <1>5 DEF U

------------------------------------------------------------------------------
(* The tab's host and its page *)

(* The types, for which the sizes of a host and its page have no bound but the code's own. *)
TabTyped ==
    /\ phase \in [TabCalls -> {"unsent", "asked", "again", "done", "refused", "lost"}]
    /\ ticket \in [TabCalls -> 0..Len(host.wanted)] /\ rounds \in [TabCalls -> 0..KernelRounds]
    /\ why \in [TabCalls -> {"-", "kernel", "loop", "panic", "trap"}]
    /\ host \in TabHosts /\ Len(host.answers) <= AnswersKept
    /\ again \in Seq(TabCalls) /\ kernelQ \in Seq([gen : Nat, of : Nat])
    /\ hears \in BOOLEAN /\ disk \subseteq TabSaves /\ trouble \in 0..MaxTrouble

(* A key is wanted under one ticket. *)
Distinct(w) == \A i, j \in DOMAIN w : i # j /\ w[i] = w[j] => w[i] = "-"
WantedInv == Distinct(host.wanted)

(* The page's queue has nothing of a host to come, and for the present one each open ticket at most once. *)
QueueInv ==
    /\ \A i \in DOMAIN kernelQ : kernelQ[i].gen <= host.gen
    /\ \A i \in T!Posted : kernelQ[i].of \in DOMAIN host.wanted /\ host.wanted[kernelQ[i].of] # "-"
    /\ \A i, j \in T!Posted : kernelQ[i].of = kernelQ[j].of => i = j

(* The calls that an answer woke go on once each. *)
AgainInv(s) ==
    /\ s \in Seq(TabCalls) /\ \A i \in DOMAIN s : phase[s[i]] = "again"
    /\ \A i, j \in DOMAIN s : s[i] = s[j] => i = j

(* The folder has what the browser's store has, and so has what is being written to it. *)
DiskInv == disk \subseteq host.folder /\ (host.writing => disk \subseteq host.flushing /\ host.flushing \subseteq host.folder)

(* What the steps of a tab's host and its page preserve. *)
TabInv == TabTyped /\ WantedInv /\ QueueInv /\ T!NobodyWaitsInVain /\ AgainInv(again) /\ DiskInv

(* A host that a pass, a reply or a flush left: the same one, with no more answers and no file lost. *)
GoesOn(h, g) ==
    /\ g \in TabHosts /\ Len(g.answers) <= Len(h.answers) /\ g.gen = h.gen /\ Grown(h.wanted, g.wanted)
    /\ h.folder \subseteq g.folder /\ g.flushing = h.flushing /\ g.writing = h.writing

(* What a step of call c leaves to the others. *)
CallMoves(c) ==
    /\ GoesOn(host, host') /\ UNCHANGED disk
    /\ AgainInv(again') /\ \A i \in DOMAIN again' : again'[i] # c
    /\ why' \in [TabCalls -> {"-", "kernel", "loop", "panic", "trap"}]
    /\ hears' \in BOOLEAN /\ trouble' \in 0..MaxTrouble

(* A tab starts with nothing asked and nothing saved. *)
LEMMA TabBegins == T!Init => TabInv
<1> SUFFICES ASSUME T!Init PROVE TabInv
  OBVIOUS
<1> USE TabAssumption
<1>1. host \in TabHosts /\ host.wanted = <<>> /\ host.answers = <<>> /\ host.gen = 1 /\ host.folder = {} /\ ~host.writing
  BY DEF T!Init, T!Fresh, TabHosts
<1>2. TabTyped
  <2>1. 0 \in 0..Len(host.wanted) /\ 0 \in 0..KernelRounds /\ Len(host.answers) <= AnswersKept /\ 0 \in 0..MaxTrouble
    BY <1>1
  <2>2. /\ phase \in [TabCalls -> {"unsent", "asked", "again", "done", "refused", "lost"}]
        /\ ticket \in [TabCalls -> 0..Len(host.wanted)] /\ rounds \in [TabCalls -> 0..KernelRounds]
        /\ why \in [TabCalls -> {"-", "kernel", "loop", "panic", "trap"}]
    BY <2>1 DEF T!Init
  <2>3. again \in Seq(TabCalls) /\ kernelQ \in Seq([gen : Nat, of : Nat])
    BY DEF T!Init
  <2>4. hears \in BOOLEAN /\ disk \subseteq TabSaves /\ trouble \in 0..MaxTrouble
    BY <2>1 DEF T!Init
  <2> QED BY <1>1, <2>1, <2>2, <2>3, <2>4 DEF TabTyped
<1>3. kernelQ = <<>> /\ again = <<>> /\ disk = {} /\ phase = [c \in TabCalls |-> "unsent"]
  BY DEF T!Init
<1>4. WantedInv /\ QueueInv /\ DiskInv
  BY <1>1, <1>3 DEF WantedInv, Distinct, QueueInv, DiskInv, T!Posted
<1>5. T!NobodyWaitsInVain /\ AgainInv(again)
  BY <1>3 DEF T!NobodyWaitsInVain, AgainInv
<1> QED
  BY <1>2, <1>4, <1>5 DEF TabInv

(* A key that is wanted anew makes the list longer, and no key double. *)
LEMMA GrownKeeps ==
    ASSUME NEW w \in Seq(T!Keys \cup {"-"}), NEW v \in Seq(T!Keys \cup {"-"}), Grown(w, v), Distinct(w)
    PROVE  /\ Distinct(v) /\ DOMAIN w \subseteq DOMAIN v /\ \A k \in DOMAIN w : v[k] = w[k]
           /\ Len(w) <= Len(v)
<1>1. CASE v = w
  BY <1>1
<1>2. ASSUME NEW key \in T!Keys, v = Append(w, key), \A k \in DOMAIN w : w[k] # key
      PROVE  /\ Distinct(v) /\ DOMAIN w \subseteq DOMAIN v /\ \A k \in DOMAIN w : v[k] = w[k]
             /\ Len(w) <= Len(v)
  <2>1. \A k \in DOMAIN w : v[k] = w[k]
    BY <1>2
  <2>2. DOMAIN w \subseteq DOMAIN v /\ Len(w) <= Len(v)
    BY <1>2
  <2>3. \A k \in DOMAIN v : k \in DOMAIN w \/ (k = Len(w) + 1 /\ v[k] = key)
    BY <1>2
  <2>4. Distinct(v)
    BY <1>2, <2>1, <2>3 DEF Distinct
  <2> QED BY <2>1, <2>2, <2>4
<1> QED
  BY <1>1, <1>2 DEF Grown

(* The tickets there were stay what they were. *)
LEMMA HostGoesOn ==
    ASSUME TabInv, NEW c \in TabCalls, CallMoves(c)
    PROVE  /\ host' \in TabHosts /\ host'.gen = host.gen /\ WantedInv' /\ DiskInv' /\ AgainInv(again')
           /\ DOMAIN host.wanted \subseteq DOMAIN host'.wanted
           /\ \A k \in DOMAIN host.wanted : host'.wanted[k] = host.wanted[k]
           /\ 0..Len(host.wanted) \subseteq 0..Len(host'.wanted) /\ Len(host'.answers) <= AnswersKept
<1>0. TabTyped /\ WantedInv /\ DiskInv
  BY DEF TabInv
<1>1. /\ GoesOn(host, host') /\ host' \in TabHosts /\ host'.gen = host.gen /\ AgainInv(again')
      /\ Grown(host.wanted, host'.wanted)
  BY DEF CallMoves, GoesOn
<1>2. host.wanted \in Seq(T!Keys \cup {"-"}) /\ host'.wanted \in Seq(T!Keys \cup {"-"})
  BY <1>0, <1>1 DEF TabTyped, TabHosts
<1>3. Distinct(host.wanted)
  BY <1>0 DEF WantedInv
<1>4. /\ Distinct(host'.wanted) /\ DOMAIN host.wanted \subseteq DOMAIN host'.wanted
      /\ \A k \in DOMAIN host.wanted : host'.wanted[k] = host.wanted[k]
      /\ Len(host.wanted) <= Len(host'.wanted)
  BY <1>1, <1>2, <1>3, GrownKeeps
<1>5. Len(host'.answers) <= AnswersKept
  <2>1. Len(host'.answers) \in Nat /\ Len(host.answers) \in Nat
    BY <1>0, <1>1 DEF TabTyped, TabHosts
  <2> QED BY <1>0, <1>1, <2>1, TabAssumption DEF TabTyped, GoesOn
<1>6. 0..Len(host.wanted) \subseteq 0..Len(host'.wanted)
  BY <1>2, <1>4
<1>7. DiskInv'
  BY <1>0, <1>1 DEF DiskInv, GoesOn, CallMoves
<1> QED
  BY <1>1, <1>4, <1>5, <1>6, <1>7 DEF WantedInv

(* What the other calls wait on is still posted, if nothing leaves the queue. *)
LEMMA OthersWait ==
    ASSUME TabInv, NEW c \in TabCalls, CallMoves(c), NEW x, NEW t,
           phase' = [phase EXCEPT ![c] = x], ticket' = [ticket EXCEPT ![c] = t],
           DOMAIN kernelQ \subseteq DOMAIN kernelQ', \A i \in DOMAIN kernelQ : kernelQ'[i] = kernelQ[i],
           NEW d \in TabCalls, d # c, phase'[d] = "asked"
    PROVE  /\ \E i \in DOMAIN kernelQ' : kernelQ'[i] = [gen |-> host'.gen, of |-> ticket'[d]]
           /\ host'.wanted[ticket'[d]] \in T!Range(TabPlan[d])
<1>0. TabTyped /\ QueueInv /\ T!NobodyWaitsInVain
  BY DEF TabInv
<1>1. phase[d] = "asked" /\ ticket'[d] = ticket[d]
  BY <1>0 DEF TabTyped
<1>2. PICK i \in DOMAIN kernelQ : kernelQ[i] = [gen |-> host.gen, of |-> ticket[d]]
  BY <1>0, <1>1 DEF T!NobodyWaitsInVain, T!Running
<1>3. host.wanted[ticket[d]] \in T!Range(TabPlan[d])
  BY <1>0, <1>1 DEF T!NobodyWaitsInVain
<1>4. ticket[d] \in DOMAIN host.wanted
  <2>1. i \in T!Posted /\ kernelQ[i].of = ticket[d]
    BY <1>2 DEF T!Posted
  <2> QED BY <1>0, <2>1 DEF QueueInv
<1> QED
  BY <1>1, <1>2, <1>3, <1>4, HostGoesOn

(* A call that ends asks for nothing more. *)
LEMMA EndedKeeps ==
    ASSUME TabInv, NEW c \in TabCalls, phase[c] # "asked", CallMoves(c), NEW x \in {"done", "refused"},
           phase' = [phase EXCEPT ![c] = x], ticket' = [ticket EXCEPT ![c] = 0],
           UNCHANGED <<rounds, kernelQ>>
    PROVE  TabInv'
<1> USE TabAssumption
<1>0. TabTyped /\ QueueInv
  BY DEF TabInv
<1>1. /\ host' \in TabHosts /\ host'.gen = host.gen /\ WantedInv' /\ DiskInv' /\ AgainInv(again')
      /\ DOMAIN host.wanted \subseteq DOMAIN host'.wanted
      /\ \A k \in DOMAIN host.wanted : host'.wanted[k] = host.wanted[k]
      /\ 0..Len(host.wanted) \subseteq 0..Len(host'.wanted) /\ Len(host'.answers) <= AnswersKept
  BY HostGoesOn
<1>2. TabTyped'
  <2>1. 0 \in 0..Len(host.wanted)
    BY <1>0 DEF TabTyped, TabHosts
  <2>2. /\ phase' \in [TabCalls -> {"unsent", "asked", "again", "done", "refused", "lost"}]
        /\ ticket' \in [TabCalls -> 0..Len(host'.wanted)] /\ rounds' \in [TabCalls -> 0..KernelRounds]
    BY <1>0, <1>1, <2>1 DEF TabTyped
  <2> QED
    BY <1>0, <1>1, <2>2 DEF TabTyped, CallMoves, AgainInv
<1>3. QueueInv'
  BY <1>0, <1>1 DEF QueueInv, T!Posted
<1>4. T!NobodyWaitsInVain'
  <2> SUFFICES ASSUME NEW d \in TabCalls, phase'[d] = "asked"
               PROVE  /\ \E i \in DOMAIN kernelQ' : kernelQ'[i] = [gen |-> host'.gen, of |-> ticket'[d]]
                      /\ host'.wanted[ticket'[d]] \in T!Range(TabPlan[d])
    BY DEF T!NobodyWaitsInVain, T!Running
  <2>1. d # c
    BY <1>0 DEF TabTyped
  <2> QED
    BY <2>1, OthersWait
<1>5. AgainInv(again)'
  BY <1>0, <1>1 DEF CallMoves, AgainInv, TabTyped
<1> QED
  BY <1>1, <1>2, <1>3, <1>4, <1>5 DEF TabInv

(* Two requests of the page's queue with the same fields are the same. *)
LEMMA SamePost == \A p, q \in [gen : Nat, of : Nat] : p.gen = q.gen /\ p.of = q.of => p = q
OBVIOUS

(* A call that asks has its ticket posted, by itself or by another before it. *)
LEMMA AskedKeeps ==
    ASSUME TabInv, NEW c \in TabCalls, phase[c] # "asked", CallMoves(c),
           NEW pass, Asks(c, host, pass), pass.host = host',
           phase' = [phase EXCEPT ![c] = "asked"], ticket' = [ticket EXCEPT ![c] = pass.at],
           rounds' \in [TabCalls -> 0..KernelRounds], kernelQ' = T!PostOnce(pass.at)
    PROVE  TabInv'
<1> USE TabAssumption
<1> DEFINE t == pass.at
           w == host.wanted
           v == host'.wanted
<1>0. TabTyped /\ QueueInv
  BY DEF TabInv
<1>1. /\ host' \in TabHosts /\ host'.gen = host.gen /\ WantedInv' /\ DiskInv' /\ AgainInv(again')
      /\ DOMAIN w \subseteq DOMAIN v /\ (\A k \in DOMAIN w : v[k] = w[k])
      /\ 0..Len(w) \subseteq 0..Len(v) /\ Len(host'.answers) <= AnswersKept
  BY HostGoesOn
<1>2. t \in DOMAIN v /\ v[t] \in T!Range(TabPlan[c])
  BY DEF Asks
<1>3. w \in Seq(T!Keys \cup {"-"}) /\ v \in Seq(T!Keys \cup {"-"}) /\ host.gen \in Nat
  BY <1>0, <1>1 DEF TabTyped, TabHosts
<1>4. v[t] # "-"
  <2>1. v[t] \in T!Keys
    BY <1>2 DEF T!Keys
  <2> QED BY <2>1
<1> HIDE DEF t, w, v
<1>5. t \in 1..Len(v)
  BY <1>2, <1>3
<1> DEFINE post == [gen |-> host.gen, of |-> t]
<1>7. /\ kernelQ' \in Seq([gen : Nat, of : Nat])
      /\ \/ kernelQ' = kernelQ /\ \E i \in DOMAIN kernelQ : kernelQ[i] = post
         \/ kernelQ' = Append(kernelQ, post) /\ \A i \in DOMAIN kernelQ : kernelQ[i] # post
  <2>1. kernelQ \in Seq([gen : Nat, of : Nat]) /\ t \in Nat /\ post \in [gen : Nat, of : Nat]
    BY <1>0, <1>3, <1>5 DEF TabTyped
  <2>2. kernelQ' = IF \E i \in DOMAIN kernelQ : kernelQ[i] = post THEN kernelQ ELSE Append(kernelQ, post)
    BY DEF T!PostOnce, T!Running, t
  <2> HIDE DEF post
  <2> DEFINE Q == [gen : Nat, of : Nat]
  <2>3. kernelQ \in Seq(Q) /\ post \in Q
    BY <2>1
  <2> HIDE DEF Q
  <2>4. Append(kernelQ, post) \in Seq(Q)
    BY <2>3
  <2>5. /\ kernelQ' \in Seq(Q)
        /\ \/ kernelQ' = kernelQ /\ \E i \in DOMAIN kernelQ : kernelQ[i] = post
           \/ kernelQ' = Append(kernelQ, post) /\ \A i \in DOMAIN kernelQ : kernelQ[i] # post
    BY <2>2, <2>3, <2>4
  <2> QED BY <2>5 DEF Q
<1>8. kernelQ \in Seq([gen : Nat, of : Nat])
  BY <1>0 DEF TabTyped
<1>9. DOMAIN kernelQ \subseteq DOMAIN kernelQ' /\ \A i \in DOMAIN kernelQ : kernelQ'[i] = kernelQ[i]
  <2> HIDE DEF post
  <2> DEFINE Q == [gen : Nat, of : Nat]
  <2>1. kernelQ \in Seq(Q)
    BY <1>8
  <2> HIDE DEF Q
  <2>2. /\ DOMAIN kernelQ \subseteq DOMAIN Append(kernelQ, post)
        /\ \A i \in DOMAIN kernelQ : Append(kernelQ, post)[i] = kernelQ[i]
    BY <2>1
  <2> QED BY <1>7, <2>2
<1>10. \E i \in DOMAIN kernelQ' : kernelQ'[i] = post
  <2> HIDE DEF post
  <2>1. CASE kernelQ' = Append(kernelQ, post)
    <3>1. Len(kernelQ) + 1 \in DOMAIN kernelQ' /\ kernelQ'[Len(kernelQ) + 1] = post
      BY <1>8, <2>1
    <3> QED BY <3>1
  <2> QED BY <1>7, <2>1
<1>11. \A i \in DOMAIN kernelQ' : i \in DOMAIN kernelQ \/ (kernelQ'[i] = post /\ i = Len(kernelQ) + 1 /\ \A k \in DOMAIN kernelQ : kernelQ[k] # post)
  <2> HIDE DEF post
  <2> DEFINE Q == [gen : Nat, of : Nat]
  <2>1. kernelQ \in Seq(Q)
    BY <1>8
  <2> HIDE DEF Q
  <2>2. \A i \in DOMAIN Append(kernelQ, post) :
          i \in DOMAIN kernelQ \/ (Append(kernelQ, post)[i] = post /\ i = Len(kernelQ) + 1)
    BY <2>1
  <2> QED BY <1>7, <2>2
<1>12. QueueInv'
  <2>1. ASSUME NEW i \in DOMAIN kernelQ' PROVE kernelQ'[i].gen <= host'.gen
    <3>1. CASE i \in DOMAIN kernelQ
      BY <1>0, <1>1, <1>9, <3>1 DEF QueueInv
    <3>2. CASE kernelQ'[i] = post
      BY <1>1, <1>3, <3>2
    <3> QED BY <1>11, <3>1, <3>2
  <2>2. ASSUME NEW i \in T!Posted' PROVE kernelQ'[i].of \in DOMAIN v /\ v[kernelQ'[i].of] # "-"
    <3>0. i \in DOMAIN kernelQ' /\ kernelQ'[i].gen = host.gen
      BY <1>1 DEF T!Posted
    <3>1. CASE i \in DOMAIN kernelQ
      <4>1. i \in T!Posted /\ kernelQ'[i] = kernelQ[i]
        BY <1>9, <3>0, <3>1 DEF T!Posted
      <4>2. kernelQ[i].of \in DOMAIN w /\ w[kernelQ[i].of] # "-"
        BY <1>0, <4>1 DEF QueueInv, w
      <4> QED BY <1>1, <4>1, <4>2
    <3>2. CASE kernelQ'[i] = post
      BY <1>4, <1>5, <3>2, <1>3
    <3> QED BY <1>11, <3>0, <3>1, <3>2
  <2>3. ASSUME NEW i \in T!Posted', NEW j \in T!Posted', kernelQ'[i].of = kernelQ'[j].of PROVE i = j
    <3>0. /\ i \in DOMAIN kernelQ' /\ kernelQ'[i].gen = host.gen
          /\ j \in DOMAIN kernelQ' /\ kernelQ'[j].gen = host.gen
      BY <1>1 DEF T!Posted
    <3>1. kernelQ'[i] = kernelQ'[j]
      <4> DEFINE Q == [gen : Nat, of : Nat]
      <4>0. kernelQ' \in Seq(Q)
        BY <1>7
      <4>1. kernelQ'[i] \in Q /\ kernelQ'[j] \in Q
        <5> HIDE DEF Q
        <5> QED BY <3>0, <4>0
      <4> QED BY <2>3, <3>0, <4>1, SamePost
    <3>2. CASE i \in DOMAIN kernelQ /\ j \in DOMAIN kernelQ
      <4>1. i \in T!Posted /\ j \in T!Posted /\ kernelQ[i].of = kernelQ[j].of
        BY <1>9, <2>3, <3>0, <3>2 DEF T!Posted
      <4> QED BY <1>0, <4>1 DEF QueueInv
    <3> HIDE DEF post
    <3> QED BY <1>9, <1>11, <3>0, <3>1, <3>2
  <2> QED
    BY <2>1, <2>2, <2>3 DEF QueueInv, v
<1>13. T!NobodyWaitsInVain'
  <2> SUFFICES ASSUME NEW d \in TabCalls, phase'[d] = "asked"
               PROVE  /\ \E i \in DOMAIN kernelQ' : kernelQ'[i] = [gen |-> host'.gen, of |-> ticket'[d]]
                      /\ host'.wanted[ticket'[d]] \in T!Range(TabPlan[d])
    BY DEF T!NobodyWaitsInVain, T!Running
  <2>1. CASE d = c
    <3>1. ticket'[d] = t
      BY <1>0, <2>1 DEF TabTyped, t
    <3> QED BY <1>1, <1>2, <1>10, <2>1, <3>1 DEF v
  <2>2. CASE d # c
    BY <1>9, <2>2, OthersWait
  <2> QED BY <2>1, <2>2
<1>14. TabTyped'
  <2>2. phase' \in [TabCalls -> {"unsent", "asked", "again", "done", "refused", "lost"}]
    BY <1>0 DEF TabTyped
  <2>3. ticket' \in [TabCalls -> 0..Len(v)]
    <3>1. ticket \in [TabCalls -> 0..Len(w)] /\ ticket' = [ticket EXCEPT ![c] = t]
      BY <1>0 DEF TabTyped, t, w
    <3>2. t \in 0..Len(v)
      BY <1>3, <1>5
    <3> QED BY <1>1, <3>1, <3>2
  <2> QED
    BY <1>0, <1>1, <1>7, <2>2, <2>3 DEF TabTyped, CallMoves, AgainInv, v
<1>15. AgainInv(again)'
  BY <1>0, <1>1 DEF CallMoves, AgainInv, TabTyped
<1> QED
  BY <1>1, <1>12, <1>13, <1>14, <1>15 DEF TabInv

(* A turn, a panic or a trap of a call. *)
LEMMA TabStepKeeps ==
    ASSUME TabInv, NEW c \in TabCalls, phase[c] # "asked", T!Step(c), UNCHANGED disk,
           AgainInv(again'), \A i \in DOMAIN again' : again'[i] # c
    PROVE  TabInv'
<1> USE TabAssumption
<1>0. TabTyped /\ host \in TabHosts
  BY DEF TabInv, TabTyped
<1>10. \A h \in TabHosts : Len(h.answers) <= Len(h.answers)
  BY DEF TabHosts
<1>1. ASSUME NEW g \in TabHosts, GoesOn(host, g), NEW x \in {"done", "refused"},
             NEW r \in {"-", "kernel", "loop", "panic"}, T!Reply(c, g, x, r), trouble' \in 0..MaxTrouble, UNCHANGED hears
      PROVE  TabInv'
  <2> DEFINE n == T!Persist(IF x = "done" /\ c \in TabSaves THEN [g EXCEPT !.folder = @ \union {c}] ELSE g)
  <2>1. GoesOn(host, n)
    BY <1>1 DEF GoesOn, TabHosts, T!Persist
  <2> HIDE DEF n
  <2>2. /\ phase' = [phase EXCEPT ![c] = x] /\ why' = [why EXCEPT ![c] = r] /\ host' = n
        /\ ticket' = [ticket EXCEPT ![c] = 0] /\ UNCHANGED <<rounds, kernelQ>>
    BY <1>1 DEF T!Reply, n
  <2>3. CallMoves(c)
    BY <1>0, <1>1, <2>1, <2>2 DEF CallMoves, TabTyped
  <2> QED
    BY <2>1, <2>2, <2>3, EndedKeeps
<1>2. CASE T!Turn(c) /\ UNCHANGED <<trouble, hears>>
  <2>1. PICK pass \in T!Passes(c, host) :
            CASE pass.end = "done" -> T!Reply(c, pass.host, "done", "-")
              [] pass.end = "failed" -> T!Reply(c, pass.host, "refused", "kernel")
              [] pass.end = "kernel" /\ T!OutOfRounds(rounds[c]) -> T!Reply(c, pass.host, "refused", "loop")
              [] OTHER -> /\ rounds' = [rounds EXCEPT ![c] = @ + 1]
                          /\ phase' = [phase EXCEPT ![c] = "asked"]
                          /\ ticket' = [ticket EXCEPT ![c] = pass.at]
                          /\ host' = pass.host
                          /\ kernelQ' = T!PostOnce(pass.at)
                          /\ UNCHANGED why
    BY <1>2 DEF T!Turn
  <2>2. PassOf(c, host, pass)
    BY <1>0, PassesKeep
  <2>3. GoesOn(host, pass.host) /\ pass.host \in TabHosts
    BY <2>2 DEF PassOf, Leaves, GoesOn, Asks, Grown
  <2>4. trouble' \in 0..MaxTrouble /\ UNCHANGED hears
    BY <1>0, <1>2 DEF TabTyped
  <2>5. CASE pass.end = "done"
    <3>1. T!Reply(c, pass.host, "done", "-")
      BY <2>1, <2>5
    <3> QED BY <1>1, <2>3, <2>4, <3>1
  <2>6. CASE pass.end = "failed"
    <3>1. T!Reply(c, pass.host, "refused", "kernel")
      BY <2>1, <2>6
    <3> QED BY <1>1, <2>3, <2>4, <3>1
  <2>7. CASE pass.end = "kernel" /\ T!OutOfRounds(rounds[c])
    <3>1. T!Reply(c, pass.host, "refused", "loop")
      BY <2>1, <2>7
    <3> QED BY <1>1, <2>3, <2>4, <3>1
  <2>8. CASE pass.end = "kernel" /\ ~ T!OutOfRounds(rounds[c])
    <3>1. /\ rounds' = [rounds EXCEPT ![c] = @ + 1]
          /\ phase' = [phase EXCEPT ![c] = "asked"]
          /\ ticket' = [ticket EXCEPT ![c] = pass.at]
          /\ host' = pass.host
          /\ kernelQ' = T!PostOnce(pass.at)
          /\ UNCHANGED why
      BY <2>1, <2>8
    <3>2. Asks(c, host, pass)
      BY <2>2, <2>8 DEF PassOf
    <3>3. rounds' \in [TabCalls -> 0..KernelRounds]
      BY <1>0, <2>8, <3>1 DEF TabTyped, T!OutOfRounds
    <3>4. CallMoves(c)
      BY <1>0, <2>3, <2>4, <3>1 DEF CallMoves, TabTyped
    <3> QED
      BY <3>1, <3>2, <3>3, <3>4, AskedKeeps
  <2> QED
    BY <2>2, <2>5, <2>6, <2>7, <2>8 DEF PassOf
<1>3. CASE T!Panic(c)
  <2> DEFINE g == [host EXCEPT !.failed = @ \union {c}]
  <2>1. GoesOn(host, g) /\ g \in TabHosts
    BY <1>0, <1>10 DEF GoesOn, Grown, TabHosts
  <2>2. T!Reply(c, g, "refused", "panic") /\ trouble' \in 0..MaxTrouble /\ UNCHANGED hears
    BY <1>0, <1>3 DEF T!Panic, TabTyped
  <2> HIDE DEF g
  <2> QED
    BY <1>1, <2>1, <2>2
<1>4. CASE T!Trap(c)
  <2>1. GoesOn(host, host')
    BY <1>0, <1>4, <1>10 DEF GoesOn, Grown, TabHosts, T!Trap
  <2>2. trouble' \in 0..MaxTrouble
    BY <1>0, <1>4 DEF T!Trap, TabTyped
  <2>3. CallMoves(c)
    BY <1>0, <1>4, <2>1, <2>2 DEF CallMoves, TabTyped, T!Trap
  <2> QED
    BY <1>4, <2>3, EndedKeeps DEF T!Trap
<1> QED
  BY <1>2, <1>3, <1>4 DEF T!Step

(* SetToSeqs lists each order of a finite set. *)
LEMMA Orders ==
    ASSUME NEW Z, IsFiniteSet(Z), NEW s \in T!SetToSeqs(Z)
    PROVE  /\ s \in Seq(Z) /\ T!Range(s) = Z
           /\ \A i, j \in DOMAIN s : s[i] = s[j] => i = j
<1> DEFINE n == Cardinality(Z)
<1>1. n \in Nat
  BY FS_CardinalityType
<1>2. s \in [1..n -> Z] /\ \A i, j \in 1..n : i # j => s[i] # s[j]
  <2>1. T!Cardinality(Z) = n
    BY DEF T!Cardinality, Cardinality
  <2> QED BY <2>1 DEF T!SetToSeqs
<1> HIDE DEF n
<1>3. s \in Injection(1..n, Z)
  BY <1>2 DEF Injection, IsInjective
<1>4. Cardinality(1..n) = n
  BY <1>1, FS_Interval
<1>5. s \in Surjection(1..n, Z)
  BY <1>3, <1>4, FS_Injection DEF n
<1>6. T!Range(s) = Z
  BY <1>2, <1>5 DEF Surjection, T!Range
<1>7. s \in Seq(Z)
  BY <1>1, <1>2
<1> QED
  BY <1>2, <1>6, <1>7

(* The kernel ends a request: of a host that is gone, or the one that every call of its ticket waits on. *)
LEMMA KernelEndKeeps ==
    ASSUME TabInv, NEW end \in BOOLEAN, T!KernelEnd(end)
    PROVE  TabInv'
<1> USE TabAssumption
<1> DEFINE run == kernelQ[1]
           t == run.of
           w == host.wanted
           v == host'.wanted
           Q == [gen : Nat, of : Nat]
<1>0. TabTyped /\ WantedInv /\ QueueInv /\ T!NobodyWaitsInVain /\ AgainInv(again) /\ DiskInv
  BY DEF TabInv
<1>1. kernelQ \in Seq(Q) /\ kernelQ # <<>> /\ again = <<>>
  BY <1>0 DEF T!KernelEnd, TabTyped
<1>2. kernelQ' = Tail(kernelQ) /\ Head(kernelQ) = run
  <2> HIDE DEF Q
  <2> QED BY <1>1 DEF T!KernelEnd
<1>3. trouble' \in 0..MaxTrouble /\ UNCHANGED <<ticket, rounds, why, hears, disk>>
  <2>1. UNCHANGED <<ticket, rounds, why, hears, disk>>
    BY DEF T!KernelEnd
  <2>2. trouble' = trouble \/ (trouble < MaxTrouble /\ trouble' = trouble + 1)
    BY Zenon DEF T!KernelEnd
  <2>3. trouble \in 0..MaxTrouble /\ MaxTrouble \in Nat
    BY <1>0 DEF TabTyped
  <2>4. trouble' \in 0..MaxTrouble
    BY ONLY <2>2, <2>3
  <2> QED BY <2>1, <2>4
<1>4. /\ kernelQ' \in Seq(Q) /\ 1 \in DOMAIN kernelQ
      /\ \A i \in DOMAIN kernelQ' : i + 1 \in DOMAIN kernelQ /\ kernelQ'[i] = kernelQ[i + 1]
      /\ \A i \in DOMAIN kernelQ : i # 1 => i - 1 \in DOMAIN kernelQ' /\ kernelQ'[i - 1] = kernelQ[i]
  <2> HIDE DEF Q
  <2> QED BY <1>1, <1>2, TailOf
<1>40. \A i \in DOMAIN kernelQ' : i \in Nat
  <2> HIDE DEF Q
  <2> QED BY <1>4
<1>5. CASE run.gen # host.gen
  <2>1. UNCHANGED <<host, again, phase>>
    BY <1>2, <1>5 DEF T!KernelEnd
  <2>2. TabTyped' /\ WantedInv' /\ AgainInv(again)' /\ DiskInv'
    BY <1>0, <1>3, <1>4, <2>1 DEF TabTyped, WantedInv, AgainInv, DiskInv
  <2>3. QueueInv'
    <3>1. ASSUME NEW i \in DOMAIN kernelQ' PROVE kernelQ'[i].gen <= host.gen
      BY <1>0, <1>4 DEF QueueInv
    <3>2. ASSUME NEW i \in T!Posted' PROVE i + 1 \in T!Posted /\ kernelQ'[i] = kernelQ[i + 1]
      BY <1>4, <2>1 DEF T!Posted
    <3>3. ASSUME NEW i \in T!Posted' PROVE kernelQ'[i].of \in DOMAIN host.wanted /\ host.wanted[kernelQ'[i].of] # "-"
      BY <1>0, <3>2 DEF QueueInv
    <3>4. ASSUME NEW i \in T!Posted', NEW j \in T!Posted', kernelQ'[i].of = kernelQ'[j].of PROVE i = j
      <4>1. i + 1 = j + 1
        BY <1>0, <3>2, <3>4 DEF QueueInv
      <4>2. i \in DOMAIN kernelQ' /\ j \in DOMAIN kernelQ'
        BY DEF T!Posted
      <4>3. i \in Nat /\ j \in Nat
        BY <1>40, <4>2
      <4> QED BY <4>1, <4>3
    <3> QED BY <2>1, <3>1, <3>3, <3>4 DEF QueueInv
  <2>4. T!NobodyWaitsInVain'
    <3> SUFFICES ASSUME NEW d \in TabCalls, phase'[d] = "asked"
                 PROVE  /\ \E i \in DOMAIN kernelQ' : kernelQ'[i] = [gen |-> host'.gen, of |-> ticket'[d]]
                        /\ host'.wanted[ticket'[d]] \in T!Range(TabPlan[d])
      BY DEF T!NobodyWaitsInVain, T!Running
    <3>1. phase[d] = "asked"
      BY <2>1
    <3>2. PICK i \in DOMAIN kernelQ : kernelQ[i] = [gen |-> host.gen, of |-> ticket[d]]
      BY <1>0, <3>1 DEF T!NobodyWaitsInVain, T!Running
    <3>3. i # 1
      BY <1>5, <3>2
    <3> QED BY <1>0, <1>3, <1>4, <2>1, <3>1, <3>2, <3>3 DEF T!NobodyWaitsInVain
  <2> QED
    BY <2>2, <2>3, <2>4 DEF TabInv
<1>6. CASE run.gen = host.gen
  <2> DEFINE Z == {c \in TabCalls : phase[c] = "asked" /\ ticket[c] = t}
  <2>1. /\ host' = T!Answered(host, t, end) /\ again' \in T!SetToSeqs(Z)
        /\ phase' = [c \in TabCalls |-> IF c \in T!Range(again') THEN "again" ELSE phase[c]]
    BY <1>2, <1>6 DEF T!KernelEnd, T!Woken
  <2>2. IsFiniteSet(Z)
    BY FS_Subset
  <2>3. /\ again' \in Seq(Z) /\ T!Range(again') = Z
        /\ \A i, j \in DOMAIN again' : again'[i] = again'[j] => i = j
    BY <2>1, <2>2, Orders
  <2>4. phase' = [c \in TabCalls |-> IF c \in Z THEN "again" ELSE phase[c]]
    BY <2>1, <2>3
  <2>5. again' \in Seq(TabCalls) /\ \A i \in DOMAIN again' : again'[i] \in Z
    <3> HIDE DEF Z
    <3>1. \A i \in DOMAIN again' : again'[i] \in Z
      BY <2>3
    <3> QED BY <2>3, <3>1 DEF Z
  <2>6. AgainInv(again)'
    BY <2>3, <2>4, <2>5 DEF AgainInv
  <2>7. t \in DOMAIN w /\ w[t] # "-" /\ w \in Seq(T!Keys \cup {"-"})
    <3>1. 1 \in T!Posted
      BY <1>4, <1>6 DEF T!Posted
    <3> QED BY <1>0, <3>1 DEF QueueInv, TabTyped, TabHosts
  <2> DEFINE a == [key |-> w[t], ok |-> end]
             s == Append(host.answers, a)
  <2>8. T!Newest(s) \in Seq(TabAnswers) /\ Len(T!Newest(s)) <= AnswersKept
    <3>1. host.answers \in Seq(TabAnswers) /\ a \in TabAnswers
      BY <1>0, <2>7 DEF TabTyped, TabHosts, TabAnswers
    <3> HIDE DEF a
    <3>2. s \in Seq(TabAnswers)
      BY <3>1
    <3> HIDE DEF s
    <3>3. CASE T!Excess(s) > 0
      <4>1. SubSeq(s, T!Excess(s) + 1, Len(s)) \in Seq(TabAnswers) /\ Len(SubSeq(s, T!Excess(s) + 1, Len(s))) = Len(s) - T!Excess(s)
        <5> DEFINE m == T!Excess(s) + 1
        <5>1. m \in Int /\ Len(s) \in Int /\ m >= 1 /\ m <= Len(s) + 1
          BY <3>2, <3>3 DEF T!Excess
        <5>2. \A i \in m..Len(s) : s[i] \in TabAnswers
          BY <3>2, <5>1
        <5> HIDE DEF m
        <5>3. SubSeq(s, m, Len(s)) \in Seq(TabAnswers) /\ Len(SubSeq(s, m, Len(s))) = Len(s) - m + 1
          BY <5>1, <5>2, SubSeqProperties
        <5> QED BY <3>2, <5>3 DEF m, T!Excess
      <4> QED BY <3>2, <3>3, <4>1 DEF T!Newest, T!Excess
    <3>4. CASE ~ (T!Excess(s) > 0)
      BY <3>2, <3>4 DEF T!Newest, T!Excess
    <3> QED BY <3>3, <3>4
  <2> HIDE DEF s
  <2>9. host' = [[host EXCEPT !.wanted[t] = "-"] EXCEPT !.answers = T!Newest(s)]
    BY <2>1 DEF T!Answered, s
  <2>10. /\ host' \in TabHosts /\ v = [w EXCEPT ![t] = "-"] /\ host'.answers = T!Newest(s) /\ host'.gen = host.gen
         /\ host'.folder = host.folder /\ host'.flushing = host.flushing /\ host'.writing = host.writing
    <3>1. [w EXCEPT ![t] = "-"] \in Seq(T!Keys \cup {"-"})
      BY <2>7
    <3> QED BY <1>0, <2>8, <2>9, <3>1 DEF TabTyped, TabHosts
  <2>11. DOMAIN v = DOMAIN w /\ Len(v) = Len(w) /\ \A k \in DOMAIN w : v[k] = IF k = t THEN "-" ELSE w[k]
    BY <2>7, <2>10
  <2> HIDE DEF v, w, t
  <2>12. TabTyped'
    <3>1. phase' \in [TabCalls -> {"unsent", "asked", "again", "done", "refused", "lost"}]
      BY <1>0, <2>4 DEF TabTyped
    <3>2. ticket' \in [TabCalls -> 0..Len(v)]
      BY <1>0, <1>3, <2>11 DEF TabTyped, w
    <3> QED BY <1>0, <1>3, <1>4, <2>5, <2>8, <2>10, <3>1, <3>2 DEF TabTyped, v
  <2>13. WantedInv'
    BY <1>0, <2>11 DEF WantedInv, Distinct, v, w
  <2>14. DiskInv'
    BY <1>0, <1>3, <2>10 DEF DiskInv
  <2>15. ASSUME NEW i \in T!Posted'
         PROVE  i + 1 \in T!Posted /\ kernelQ'[i] = kernelQ[i + 1] /\ kernelQ'[i].of # t
    <3>1. i \in DOMAIN kernelQ' /\ kernelQ'[i].gen = host.gen
      BY <2>10 DEF T!Posted
    <3>2. i + 1 \in T!Posted /\ kernelQ'[i] = kernelQ[i + 1]
      BY <1>4, <3>1 DEF T!Posted
    <3>3. 1 \in T!Posted
      BY <1>4, <1>6 DEF T!Posted
    <3>4. i \in Nat /\ i # 0
      BY <1>4, <3>1
    <3>5. kernelQ[i + 1].of # kernelQ[1].of
      BY <1>0, <3>2, <3>3, <3>4 DEF QueueInv
    <3> QED BY <3>2, <3>5 DEF t
  <2>16. QueueInv'
    <3>1. ASSUME NEW i \in DOMAIN kernelQ' PROVE kernelQ'[i].gen <= host'.gen
      BY <1>0, <1>4, <2>10 DEF QueueInv
    <3>2. ASSUME NEW i \in T!Posted' PROVE kernelQ'[i].of \in DOMAIN v /\ v[kernelQ'[i].of] # "-"
      BY <1>0, <2>11, <2>15 DEF QueueInv, w
    <3>3. ASSUME NEW i \in T!Posted', NEW j \in T!Posted', kernelQ'[i].of = kernelQ'[j].of PROVE i = j
      <4>1. i + 1 = j + 1
        BY <1>0, <2>15, <3>3 DEF QueueInv
      <4>2. i \in DOMAIN kernelQ' /\ j \in DOMAIN kernelQ'
        BY DEF T!Posted
      <4>3. i \in Nat /\ j \in Nat
        BY <1>40, <4>2
      <4> QED BY <4>1, <4>3
    <3> QED BY <3>1, <3>2, <3>3 DEF QueueInv, v
  <2>17. T!NobodyWaitsInVain'
    <3> SUFFICES ASSUME NEW d \in TabCalls, phase'[d] = "asked"
                 PROVE  /\ \E i \in DOMAIN kernelQ' : kernelQ'[i] = [gen |-> host'.gen, of |-> ticket'[d]]
                        /\ host'.wanted[ticket'[d]] \in T!Range(TabPlan[d])
      BY DEF T!NobodyWaitsInVain, T!Running
    <3>1. phase[d] = "asked" /\ ticket[d] # t
      BY <2>4
    <3>2. PICK i \in DOMAIN kernelQ : kernelQ[i] = [gen |-> host.gen, of |-> ticket[d]]
      BY <1>0, <3>1 DEF T!NobodyWaitsInVain, T!Running
    <3>3. i # 1
      BY <3>1, <3>2 DEF t
    <3>4. w[ticket[d]] \in T!Range(TabPlan[d])
      BY <1>0, <3>1 DEF T!NobodyWaitsInVain, w
    <3>5. ticket[d] \in DOMAIN w
      <4>1. i \in T!Posted /\ kernelQ[i].of = ticket[d]
        BY <3>2 DEF T!Posted
      <4> QED BY <1>0, <4>1 DEF QueueInv, w
    <3>6. v[ticket[d]] \in T!Range(TabPlan[d])
      BY <2>11, <3>1, <3>4, <3>5
    <3> QED BY <1>3, <1>4, <2>10, <3>2, <3>3, <3>6 DEF v
  <2> QED
    BY <2>6, <2>12, <2>13, <2>14, <2>16, <2>17 DEF TabInv
<1> QED
  BY <1>5, <1>6

(* The page ends the worker: the next host wants nothing, and the folder is what was flushed. *)
LEMMA TerminateKeeps ==
    ASSUME TabInv, T!Terminate
    PROVE  TabInv'
<1> USE TabAssumption
<1>0. TabTyped /\ QueueInv
  BY DEF TabInv
<1>1. /\ host'.gen = host.gen + 1 /\ host'.wanted = <<>> /\ host'.answers = <<>> /\ host'.folder = disk
      /\ ~ host'.writing /\ host' \in TabHosts
  BY <1>0 DEF T!Terminate, T!Fresh, TabHosts, TabTyped
<1>2. /\ again' = <<>> /\ ticket' = [c \in TabCalls |-> 0] /\ hears' = FALSE
      /\ \A d \in TabCalls : phase'[d] # "asked"
      /\ UNCHANGED <<rounds, why, kernelQ, disk, trouble>>
  BY <1>0 DEF T!Terminate, T!Waiting, TabTyped
<1>3. TabTyped'
  <2>1. phase' \in [TabCalls -> {"unsent", "asked", "again", "done", "refused", "lost"}]
    BY <1>0 DEF T!Terminate, TabTyped
  <2>2. 0 \in 0..Len(host'.wanted) /\ Len(host'.answers) <= AnswersKept /\ again' \in Seq(TabCalls)
    BY <1>1, <1>2
  <2>3. ticket' \in [TabCalls -> 0..Len(host'.wanted)]
    BY <1>2, <2>2
  <2> QED BY <1>0, <1>1, <1>2, <2>1, <2>2, <2>3 DEF TabTyped
<1>4. \A i \in DOMAIN kernelQ' : kernelQ'[i].gen <= host.gen
  BY <1>0, <1>2 DEF QueueInv
<1>5. \A i \in DOMAIN kernelQ' : kernelQ'[i].gen \in Nat /\ host.gen \in Nat
  <2> DEFINE Q == [gen : Nat, of : Nat]
  <2>1. kernelQ \in Seq(Q) /\ host.gen \in Nat
    BY <1>0 DEF TabTyped, TabHosts
  <2>2. \A i \in DOMAIN kernelQ : kernelQ[i] \in Q
    <3> HIDE DEF Q
    <3> QED BY <2>1
  <2> QED BY <1>2, <2>1, <2>2
<1>6. QueueInv' /\ WantedInv'
  <2>1. T!Posted' = {} /\ \A i \in DOMAIN kernelQ' : kernelQ'[i].gen <= host'.gen
    BY <1>1, <1>4, <1>5 DEF T!Posted
  <2> QED BY <1>1, <2>1 DEF QueueInv, WantedInv, Distinct
<1>7. T!NobodyWaitsInVain' /\ AgainInv(again)' /\ DiskInv'
  BY <1>1, <1>2, <1>3 DEF T!NobodyWaitsInVain, AgainInv, DiskInv, TabTyped
<1> QED
  BY <1>3, <1>6, <1>7 DEF TabInv

(* The timer, and a flush that begins or ends. *)
LEMMA FlushKeeps ==
    ASSUME TabInv, T!TimerFires \/ T!StartFlush \/ T!EndFlush
    PROVE  TabInv' /\ disk \subseteq disk'
<1>0. TabTyped /\ DiskInv /\ host \in TabHosts
  BY DEF TabInv, TabTyped
<1>1. /\ host' \in TabHosts /\ host'.gen = host.gen /\ host'.wanted = host.wanted
      /\ host'.answers = host.answers /\ host'.folder = host.folder
  <2>1. CASE T!TimerFires
    <3>1. host' = [host EXCEPT !.timer = FALSE, !.due = @ + 1]
      BY <2>1 DEF T!TimerFires
    <3>2. host.due + 1 \in Nat
      BY <1>0 DEF TabHosts
    <3> QED BY <1>0, <3>1, <3>2 DEF TabHosts
  <2>2. CASE T!StartFlush
    <3>1. host' = [host EXCEPT !.due = @ - 1, !.writing = TRUE, !.flushing = host.folder] /\ host.due > 0
      BY <2>2 DEF T!StartFlush
    <3>2. host.due - 1 \in Nat
      BY <1>0, <3>1 DEF TabHosts
    <3> QED BY <1>0, <3>1, <3>2 DEF TabHosts
  <2>3. CASE T!EndFlush
    BY <1>0, <2>3 DEF T!EndFlush, TabHosts
  <2> QED BY <2>1, <2>2, <2>3
<1>2. UNCHANGED <<phase, ticket, rounds, why, again, kernelQ, hears, trouble>>
  BY DEF T!TimerFires, T!StartFlush, T!EndFlush
<1>3. disk \subseteq disk' /\ disk' \subseteq TabSaves /\ DiskInv'
  <2>1. CASE T!TimerFires
    BY <1>0, <2>1 DEF T!TimerFires, TabHosts, DiskInv, TabTyped
  <2>2. CASE T!StartFlush
    BY <1>0, <2>2 DEF T!StartFlush, TabHosts, DiskInv, TabTyped
  <2>3. CASE T!EndFlush
    BY <1>0, <2>3 DEF T!EndFlush, TabHosts, DiskInv, TabTyped
  <2> QED BY <2>1, <2>2, <2>3
<1>4. TabTyped'
  BY <1>0, <1>1, <1>2, <1>3 DEF TabTyped
<1>5. WantedInv' /\ AgainInv(again)'
  BY <1>1, <1>2 DEF TabInv, WantedInv, AgainInv
<1>6. QueueInv' /\ T!NobodyWaitsInVain'
  BY <1>1, <1>2 DEF TabInv, QueueInv, T!Posted, T!NobodyWaitsInVain, T!Running
<1> QED
  BY <1>3, <1>4, <1>5, <1>6 DEF TabInv

LEMMA TabStep == TabInv /\ [T!Next]_tabVars => TabInv' /\ disk \subseteq disk'
<1> SUFFICES ASSUME TabInv, [T!Next]_tabVars PROVE TabInv' /\ disk \subseteq disk'
  OBVIOUS
<1>0. TabTyped /\ AgainInv(again)
  BY DEF TabInv
<1>1. ASSUME NEW c \in TabCalls, T!Begin(c) PROVE TabInv' /\ UNCHANGED disk
  <2>1. phase[c] # "asked" /\ T!Step(c) /\ UNCHANGED disk /\ again' = <<>>
    BY <1>1 DEF T!Begin
  <2>2. AgainInv(again') /\ \A i \in DOMAIN again' : again'[i] # c
    BY <2>1 DEF AgainInv
  <2> QED BY <2>1, <2>2, TabStepKeeps
<1>2. CASE T!Retry
  <2>1. again # <<>> /\ again' = Tail(again) /\ T!Step(Head(again)) /\ UNCHANGED disk
    BY <1>2 DEF T!Retry
  <2>2. /\ again' \in Seq(TabCalls) /\ 1 \in DOMAIN again /\ Head(again) = again[1]
        /\ \A i \in DOMAIN again' : i + 1 \in DOMAIN again /\ again'[i] = again[i + 1]
    BY <1>0, <2>1, TailOf DEF TabTyped
  <2>3. \A i \in DOMAIN again' : i \in Nat /\ i # 0
    BY <2>2
  <2>4. Head(again) \in TabCalls /\ phase[Head(again)] # "asked"
    BY <1>0, <2>2 DEF AgainInv
  <2>5. \A i \in DOMAIN again' : again'[i] # Head(again)
    BY <1>0, <2>2, <2>3 DEF AgainInv
  <2>6. AgainInv(again')
    <3>1. \A i \in DOMAIN again' : phase[again'[i]] = "again"
      BY <1>0, <2>2 DEF AgainInv
    <3>2. \A i, j \in DOMAIN again' : again'[i] = again'[j] => i = j
      <4> SUFFICES ASSUME NEW i \in DOMAIN again', NEW j \in DOMAIN again', again'[i] = again'[j] PROVE i = j
        OBVIOUS
      <4>1. i + 1 = j + 1
        BY <1>0, <2>2 DEF AgainInv
      <4> QED BY <2>3, <4>1
    <3> QED BY <2>2, <3>1, <3>2 DEF AgainInv
  <2> QED BY <2>1, <2>4, <2>5, <2>6, TabStepKeeps
<1>3. ASSUME NEW end \in BOOLEAN, T!KernelEnd(end) PROVE TabInv' /\ UNCHANGED disk
  BY <1>3, KernelEndKeeps DEF T!KernelEnd
<1>4. CASE T!Terminate
  BY <1>4, TerminateKeeps DEF T!Terminate
<1>5. CASE T!TimerFires \/ T!StartFlush \/ T!EndFlush
  BY <1>5, FlushKeeps
<1>6. CASE UNCHANGED tabVars
  <2>1. UNCHANGED <<phase, ticket, rounds, why, host, again, kernelQ, hears, disk, trouble>>
    BY <1>6 DEF tabVars
  <2> QED
    BY <2>1 DEF TabInv, TabTyped, WantedInv, QueueInv, T!Posted, T!NobodyWaitsInVain, T!Running, AgainInv, DiskInv
<1> QED
  BY <1>1, <1>2, <1>3, <1>4, <1>5, <1>6 DEF T!Next

LEMMA TabFrame == [HostNext]_<<vars, reportVars, folderVars, scriptVars, tabVars, part>> => [T!Next]_tabVars
BY DEF HostNext

LEMMA TabGoesOn ==
    /\ HostSpec => []TabInv
    /\ HostSpec => T!DiskKeeps
<1>1. HostInit => TabInv
  BY TabBegins DEF HostInit
<1>2. TabInv /\ [HostNext]_<<vars, reportVars, folderVars, scriptVars, tabVars, part>> => TabInv' /\ [disk \subseteq disk']_T!vars
  BY TabStep, TabFrame
<1> QED
  BY <1>1, <1>2, PTL DEF HostSpec, T!DiskKeeps

(* The invariant says what the run checks. *)
LEMMA TabInvIsEnough == TabInv => TicketsStand
<1> SUFFICES ASSUME TabInv PROVE TicketsStand
  OBVIOUS
<1>0. TabTyped /\ WantedInv /\ QueueInv /\ T!NobodyWaitsInVain /\ AgainInv(again)
  BY DEF TabInv
<1>1. T!OneRunPerKey
  BY <1>0 DEF WantedInv, Distinct, QueueInv, T!OneRunPerKey
<1>2. T!Range(host.wanted) \subseteq T!Keys \cup {"-"}
  <2>1. host.wanted \in Seq(T!Keys \cup {"-"})
    BY <1>0 DEF TabTyped, TabHosts
  <2> QED BY <2>1 DEF T!Range
<1>3. T!Range(again) \subseteq {c \in TabCalls : phase[c] = "again"}
  <2>1. \A i \in DOMAIN again : again[i] \in TabCalls
    BY <1>0 DEF TabTyped
  <2> QED BY <1>0, <2>1 DEF T!Range, AgainInv
<1>4. host.kept \subseteq Cached /\ host.folder \subseteq TabSaves
  BY <1>0 DEF TabTyped, TabHosts
<1>5. T!TypeOK
  BY <1>0, <1>2, <1>3, <1>4 DEF TabTyped, T!TypeOK, T!Ended
<1> QED
  BY <1>0, <1>1, <1>5 DEF TicketsStand, T!TicketsStand

(* Whatever calls are made, however their passes interleave with the kernel's answers, panics, traps and the
   end of a worker: the kernel is asked for a key once at a time, and every ticket a call waits on is in the
   page's queue and is of the call's own plan (page.rs kernel() and kernelWaits, host.ts). *)
THEOREM TicketsHold == HostSpec => []TicketsStand
BY TabGoesOn, TabInvIsEnough, PTL

(* What the browser's store has stays there: no flush, of this host or of one that started after it, writes a
   folder without it (host-worker.ts persist, DiskKeeps). *)
THEOREM NoFileLeavesDisk == HostSpec => T!DiskKeeps
BY TabGoesOn
==============================================================================
