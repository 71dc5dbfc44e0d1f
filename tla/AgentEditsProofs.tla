-------------------------- MODULE AgentEditsProofs --------------------------
(* The tools that change a part, in a host of a tab: what a call replaces is what it read or is kept, an  *)
(* edit lands on what it was made of, and a history is its newest versions, however many calls there are, *)
(* and whatever the user does between them. A native host breaks each of the three.                       *)
EXTENDS AgentEdits, WellFoundedInduction, FiniteSetTheorems, TLAPS

-----------------------------------------------------------------------------
(* The invariant *)

(* The host of a tab has one thread. *)
OneRuns == \A a, b \in Agents : Running(a) /\ Running(b) => a = b

CallTypes ==
  [at : Steps, tool : AllTools \cup {"none"}, part : Parts \cup {NoPart, AtSession}, text : Texts \cup {NoText},
   made : Docs, shows : BOOLEAN, unkept : BOOLEAN, keeping : Docs, listing : SUBSET Versions, next : Steps]

ToFile(c)   == c.at \in {"resolved", "looked", "snapshot", "write"} \/ (c.at \in {"list", "keep"} /\ c.next = "write")
ToScreen(c) == c.at \in {"screen", "set"} \/ (c.at \in {"list", "keep"} /\ c.next = "set")

(* The document that a call of a part would read from the files now, and whether a history has it. *)
OfPart(c, files)         == [name |-> c.part, script |-> files[c.part]]
Has(versions, d) == \E v \in versions[d.name] : v.text = d.script

(* What a call was asked, and which steps are on its way. *)
Holds(c, versions) ==
  /\ c.at # "idle" => c.text \in Texts /\ c.part \in Parts \cup {AtSession} /\ c.tool \in AllTools
  /\ c.part = AtSession => /\ c.tool = "edit_part" /\ c.at \notin {"snapshot", "write", "reopen"}
                           /\ c.at \in {"list", "keep"} => c.next = "set"
  /\ c.at \in {"list", "keep"} => c.next \in {"write", "set"} /\ c.keeping.name \in Parts /\ c.keeping.script \in Texts
  /\ c.at = "keep" => c.listing = versions[c.keeping.name]
  /\ c.at \in {"resolved", "looked"} => c.tool = "edit_part"
  /\ c.at = "reopen" => c.tool # "edit_part"

(* What it is about to replace is kept, is on its way to be, or could not be. *)
Keeps(c, shown, files, versions) ==
  /\ c.at \in {"list", "keep"} /\ c.next = "write" => c.keeping = OfPart(c, files)
  /\ c.at \in {"list", "keep"} /\ c.next = "set" => c.keeping = shown
  /\ c.at = "write" => files[c.part] = NoText \/ c.unkept \/ Has(versions, OfPart(c, files))
  /\ c.at = "set" => shown.name = NoPart \/ shown.script \in {NoText, c.text} \/ c.unkept \/ Has(versions, shown)

(* What an edit has read is still there. *)
Edits(c, shown, files) ==
  c.tool = "edit_part" /\ c.at \notin {"idle", "asked"} =>
    /\ ToFile(c) /\ c.part # AtSession => c.made = OfPart(c, files)
    /\ c.part = AtSession /\ c.at \in {"resolved", "looked"} => c.made = shown
    /\ c.at # "resolved" /\ c.shows => c.made = shown
    /\ c.at = "looked" => (c.shows <=> c.part = AtSession \/ shown.name = c.part)
    /\ ToScreen(c) => c.made = shown

Good(c, shown, files, versions) ==
  c \in CallTypes /\ Holds(c, versions) /\ Keeps(c, shown, files, versions) /\ Edits(c, shown, files)

CallsInv == \A a \in Agents : Good(call[a], screen, disk, history)

(* A history is named and numbered in one order. *)
HistoryOK(versions, n) ==
  /\ versions \subseteq Versions /\ IsFiniteSet(versions)
  /\ \A v \in versions : v.nth <= n
  /\ \A u, v \in versions : u.id = v.id \/ u.nth = v.nth => u = v
  /\ \A u, v \in versions : u.nth < v.nth => u.id < v.id

Typed ==
  /\ screen \in Docs /\ (screen.name = NoPart <=> screen.script = NoText)
  /\ disk \in [Parts -> Texts \cup {NoText}]
  /\ keeps \in Nat /\ calls \in 0 .. MaxCalls /\ acts \in 0 .. MaxActs /\ failures \in 0 .. MaxFailures
  /\ call \in [Agents -> CallTypes]
  /\ DOMAIN history = Parts

HistoriesOK == \A p \in Parts : HistoryOK(history[p], keeps) /\ Cardinality(history[p]) <= HistoryKept + failures
Inv == Typed /\ OneRuns /\ CallsInv /\ HistoriesOK

-----------------------------------------------------------------------------
(* Keeping a version *)

(* A set of numbers that is not empty has a least one. *)
LEMMA Least ==
  ASSUME NEW U \in SUBSET Nat, U # {}
  PROVE  \E m \in U : \A k \in U : m <= k
<1> DEFINE R == OpToRel(<, Nat)
<1>1. IsWellFoundedOn(R, Nat)
  BY NatLessThanWellFounded
<1>2. \A x, y \in Nat : x < y => <<x, y>> \in R
  BY DEF OpToRel
<1> HIDE DEF R
<1>3. PICK m \in U : \A y \in U : ~ (<<y, m>> \in R)
  BY <1>1, WFMin
<1>4. ASSUME NEW k \in U PROVE m <= k
  <2>1. ~ (k < m)
    BY <1>2, <1>3
  <2>2. k \in Nat /\ m \in Nat
    OBVIOUS
  <2> QED
    BY <2>1, <2>2
<1> QED
  BY <1>4

LEMMA NewestIs ==
  ASSUME NEW versions, NEW n \in Nat, HistoryOK(versions, n), versions # {}
  PROVE  Newest(versions) \in versions /\ \A u \in versions : u.id <= Newest(versions).id
<1> DEFINE U == {n - v.nth : v \in versions}
<1>0. \A v \in versions : v.nth \in Nat /\ v.nth <= n /\ v.id \in Nat
  BY DEF HistoryOK, Versions
<1>1. U \in SUBSET Nat /\ U # {}
  BY <1>0
<1>2. PICK m \in U : \A k \in U : m <= k
  BY <1>1, Least
<1>3. PICK w \in versions : m = n - w.nth
  OBVIOUS
<1>4. ASSUME NEW u \in versions PROVE u.nth <= w.nth
  <2>1. n - u.nth \in U
    OBVIOUS
  <2>2. n - w.nth <= n - u.nth
    BY <1>2, <1>3, <2>1
  <2> QED
    BY <1>0, <2>2
<1>5. \A u \in versions : u.id <= w.id
  BY <1>0, <1>4 DEF HistoryOK
<1> QED
  BY <1>5 DEF Newest

(* The oldest of a full history. *)
LEMMA OldestIs ==
  ASSUME NEW versions, NEW n \in Nat, HistoryOK(versions, n), versions # {}
  PROVE  \E v \in versions : \A u \in versions \ {v} : v.id < u.id
<1> DEFINE U == {v.id : v \in versions}
<1>0. \A v \in versions : v.id \in Nat
  BY DEF HistoryOK, Versions
<1>1. U \in SUBSET Nat /\ U # {}
  BY <1>0
<1>2. PICK m \in U : \A k \in U : m <= k
  BY <1>1, Least
<1>3. PICK w \in versions : m = w.id
  OBVIOUS
<1>4. ASSUME NEW u \in versions \ {w} PROVE w.id < u.id
  BY <1>0, <1>2, <1>3 DEF HistoryOK
<1> QED
  BY <1>4

(* The id of a new version is above all the others. *)
LEMMA IdIsNew ==
  ASSUME NEW versions, NEW n \in Nat, HistoryOK(versions, n), NEW now \in Nat
  PROVE  IdAt(now, versions) \in Nat /\ \A v \in versions : v.id < IdAt(now, versions)
<1>0. \A v \in versions : v.id \in Nat
  BY DEF HistoryOK, Versions
<1>1. CASE versions = {}
  BY <1>1 DEF IdAt
<1>2. CASE versions # {}
  BY <1>0, <1>2, NewestIs DEF IdAt
<1> QED
  BY <1>1, <1>2

Above(versions, v) == {u \in versions : u.id > v.id}

(* What is not in excess is one less than is to be kept, and newer than all that is. *)
LEMMA ExcessIs ==
  ASSUME NEW versions, NEW n \in Nat, HistoryOK(versions, n)
  PROVE  /\ Cardinality(versions \ Excess(versions)) <= HistoryKept - 1
         /\ \A v \in Excess(versions) :
               \E U \in SUBSET (versions \ Excess(versions)) :
                 Cardinality(U) >= HistoryKept - 1 /\ \A u \in U : u.id > v.id
<1> DEFINE Left == versions \ Excess(versions)
<1>0. /\ IsFiniteSet(versions) /\ HistoryKept \in Nat /\ HistoryKept >= 2
      /\ (\A v \in versions : v.id \in Nat) /\ Excess(versions) \subseteq versions
  BY EditsAssumption DEF HistoryOK, Versions, Excess
<1>1. ASSUME NEW S \in SUBSET versions PROVE HistoryOK(S, n) /\ IsFiniteSet(S) /\ Cardinality(S) \in Nat
  <2>1. IsFiniteSet(S) /\ Cardinality(S) \in Nat
    BY <1>0, FS_Subset, FS_CardinalityType
  <2> QED
    BY <2>1 DEF HistoryOK
<1>2. ASSUME NEW v \in versions
      PROVE  /\ Above(versions, v) \in SUBSET versions /\ Cardinality(Above(versions, v)) \in Nat
             /\ v \in Excess(versions) <=> Cardinality(Above(versions, v)) >= HistoryKept - 1
  <2>1. Above(versions, v) \in SUBSET versions
    BY DEF Above
  <2> QED
    BY <1>1, <2>1 DEF Above, Excess
<1>3. Cardinality(Left) <= HistoryKept - 1
  <2>0. Left \in SUBSET versions
    OBVIOUS
  <2>1. SUFFICES ASSUME Cardinality(Left) >= HistoryKept PROVE FALSE
    BY <1>0, <1>1, <2>0
  <2>2. Left # {}
    BY <1>0, <2>1, FS_EmptySet
  <2>3. PICK v \in Left : \A u \in Left \ {v} : v.id < u.id
    BY <1>1, <2>0, <2>2, OldestIs
  <2>4. Left \ {v} \subseteq Above(versions, v)
    BY <1>0, <2>3 DEF Above
  <2>5. Cardinality(Left \ {v}) = Cardinality(Left) - 1
    BY <1>1, <2>0, <2>3, FS_RemoveElement
  <2>6. Cardinality(Left \ {v}) <= Cardinality(Above(versions, v))
    BY <1>1, <1>2, <2>3, <2>4, FS_Subset
  <2>7. v \in versions /\ v \notin Excess(versions) /\ Cardinality(Left) \in Nat
    BY <1>1, <2>0, <2>3
  <2> HIDE DEF Left
  <2> QED
    BY <1>0, <1>2, <2>1, <2>5, <2>6, <2>7
<1>4. ASSUME NEW v \in Excess(versions)
      PROVE  \E U \in SUBSET Left : Cardinality(U) >= HistoryKept - 1 /\ \A u \in U : u.id > v.id
  <2> DEFINE x == Newest(Excess(versions))
  <2>1. x \in Excess(versions) /\ \A u \in Excess(versions) : u.id <= x.id
    <3>1. HistoryOK(Excess(versions), n) /\ Excess(versions) # {}
      BY <1>0, <1>1
    <3> HIDE DEF Left
    <3> QED
      BY <3>1, NewestIs
  <2> HIDE DEF x
  <2>2. Above(versions, x) \subseteq Left
    BY <1>0, <2>1 DEF Above
  <2>3. \A u \in Above(versions, x) : u.id > v.id
    BY <1>0, <2>1 DEF Above
  <2>4. Cardinality(Above(versions, x)) >= HistoryKept - 1
    BY <1>0, <1>2, <2>1
  <2> QED
    BY <2>2, <2>3, <2>4
<1> QED
  BY <1>3, <1>4

With(versions, now, text, n) ==
  LET new  == [id |-> IdAt(now, versions), text |-> text, nth |-> n + 1]
      gone == {v.id : v \in Excess(versions)} \cup {new.id}
  IN  {v \in versions : v.id \notin gone} \cup {new}

Younger(versions, v) == {u \in versions : u.nth > v.nth}

(* A history with one version more is one, of as many as are to be kept, and what leaves it is older than these. *)
LEMMA WithIs ==
  ASSUME NEW versions, NEW n \in Nat, HistoryOK(versions, n), NEW now \in Nat, NEW text \in Texts
  PROVE  /\ HistoryOK(With(versions, now, text, n), n + 1) /\ Cardinality(With(versions, now, text, n)) <= HistoryKept
         /\ \E v \in With(versions, now, text, n) : v.text = text
         /\ \A v \in versions \ With(versions, now, text, n) :
               Cardinality(Younger(With(versions, now, text, n), v)) >= HistoryKept
<1> DEFINE new == [id |-> IdAt(now, versions), text |-> text, nth |-> n + 1]
           Left == versions \ Excess(versions)
           More == With(versions, now, text, n)
<1>0. /\ IsFiniteSet(versions) /\ HistoryKept \in Nat /\ HistoryKept >= 2
      /\ \A v \in versions : v.id \in Nat /\ v.nth \in Nat /\ v.nth <= n /\ v \in Versions
      /\ \A u, v \in versions : u.id = v.id => u = v
      /\ Excess(versions) \subseteq versions
  BY EditsAssumption DEF HistoryOK, Versions, Excess
<1>1. new.id \in Nat /\ (\A v \in versions : v.id < new.id) /\ new.nth = n + 1 /\ new.text = text
  BY IdIsNew
<1>2. new \in Versions /\ new \notin versions
  BY <1>0, <1>1 DEF Versions
<1> HIDE DEF new
<1>3. More = Left \cup {new}
  <2>1. More = {v \in versions : v.id \notin {w.id : w \in Excess(versions)} \cup {new.id}} \cup {new}
    BY DEF With, new
  <2>2. ASSUME NEW v \in versions PROVE v.id \notin {w.id : w \in Excess(versions)} \cup {new.id} <=> v \notin Excess(versions)
    BY <1>0, <1>1
  <2> QED
    BY <2>1, <2>2
<1> HIDE DEF More
<1>4. IsFiniteSet(Left) /\ Cardinality(Left) <= HistoryKept - 1 /\ Cardinality(Left) \in Nat
  BY <1>0, ExcessIs, FS_Subset, FS_CardinalityType
<1>5. IsFiniteSet(More) /\ Cardinality(More) <= HistoryKept
  <2>1. new \notin Left
    BY <1>2
  <2>2. IsFiniteSet(Left \cup {new}) /\ Cardinality(Left \cup {new}) = Cardinality(Left) + 1
    BY <1>4, <2>1, FS_AddElement
  <2> HIDE DEF Left
  <2> QED
    BY <1>0, <1>3, <1>4, <2>2
<1>6. HistoryOK(More, n + 1)
  <2>1. More \subseteq Versions /\ \A v \in More : v.nth <= n + 1
    BY <1>0, <1>1, <1>2, <1>3
  <2>2. ASSUME NEW u \in More, NEW v \in More, u.id = v.id \/ u.nth = v.nth PROVE u = v
    <3>1. CASE u \in versions /\ v \in versions
      BY <2>2, <3>1 DEF HistoryOK
    <3>2. CASE u = new /\ v = new
      BY <3>2
    <3>3. CASE u \in versions /\ v = new
      BY <1>0, <1>1, <2>2, <3>3
    <3>4. CASE u = new /\ v \in versions
      BY <1>0, <1>1, <2>2, <3>4
    <3> QED
      BY <1>3, <3>1, <3>2, <3>3, <3>4
  <2>3. ASSUME NEW u \in More, NEW v \in More, u.nth < v.nth PROVE u.id < v.id
    <3>1. CASE u \in versions /\ v \in versions
      BY <2>3, <3>1 DEF HistoryOK
    <3>2. CASE u = new /\ v = new
      BY <1>1, <2>3, <3>2
    <3>3. CASE u \in versions /\ v = new
      BY <1>1, <3>3
    <3>4. CASE u = new /\ v \in versions
      BY <1>0, <1>1, <2>3, <3>4
    <3> QED
      BY <1>3, <3>1, <3>2, <3>3, <3>4
  <2> QED
    BY <1>5, <2>1, <2>2, <2>3 DEF HistoryOK
<1>7. ASSUME NEW v \in versions \ More
      PROVE  Cardinality(Younger(More, v)) >= HistoryKept
  <2>1. v \in Excess(versions) /\ v \in versions
    BY <1>3
  <2>2. PICK U \in SUBSET Left : Cardinality(U) >= HistoryKept - 1 /\ \A u \in U : u.id > v.id
    BY <2>1, ExcessIs
  <2>3. IsFiniteSet(U) /\ Cardinality(U) \in Nat /\ new \notin U
    BY <1>2, <1>4, FS_Subset, FS_CardinalityType
  <2>4. Cardinality(U \cup {new}) >= HistoryKept
    <3>1. Cardinality(U \cup {new}) = Cardinality(U) + 1
      BY <2>3, FS_AddElement
    <3> QED
      BY <1>0, <2>2, <2>3, <3>1
  <2>5. ASSUME NEW u \in U PROVE u.nth > v.nth
    <3>1. u \in versions /\ v \in versions /\ u.id > v.id
      BY <2>1, <2>2
    <3> QED
      BY <1>0, <3>1 DEF HistoryOK
  <2>6. U \cup {new} \subseteq Younger(More, v)
    BY <1>0, <1>1, <1>3, <2>1, <2>5 DEF Younger
  <2>7. IsFiniteSet(Younger(More, v))
    BY <1>5, FS_Subset DEF Younger
  <2>8. Cardinality(U \cup {new}) <= Cardinality(Younger(More, v))
    BY <2>6, <2>7, FS_Subset
  <2>9. Cardinality(Younger(More, v)) \in Nat /\ Cardinality(U \cup {new}) \in Nat
    BY <2>6, <2>7, FS_Subset, FS_CardinalityType
  <2> HIDE DEF More
  <2> QED
    BY <1>0, <2>4, <2>8, <2>9
<1> QED
  BY <1>1, <1>3, <1>5, <1>6, <1>7 DEF More

-----------------------------------------------------------------------------
(* Whose turn it is *)

(* A call that waits is as good, whatever happens meanwhile. *)
LEMMA WaitingIsGood ==
  ASSUME NEW c, c.at \in {"idle", "asked"}, NEW s, NEW f, NEW h, NEW s2, NEW f2, NEW h2, Good(c, s, f, h)
  PROVE  Good(c, s2, f2, h2)
BY DEF Good, Holds, Keeps, Edits, ToFile, ToScreen

LEMMA NoCallIsGood ==
  ASSUME NEW s, NEW f, NEW h
  PROVE  Good(NoCall, s, f, h)
BY EditsAssumption DEF Good, Holds, Keeps, Edits, NoCall, NoDoc, CallTypes, Steps, Docs

LEMMA OthersWait ==
  ASSUME Inv, InTab, NEW a \in Agents, Turn(a), NEW b \in Agents \ {a}
  PROVE  call[b].at \in {"idle", "asked"}
BY DEF Turn, Running

(* A step of the one call that moves needs to look at that call only. *)
LEMMA OneMoves ==
  ASSUME Inv, InTab, NEW a \in Agents, Turn(a), NEW c, call' = [call EXCEPT ![a] = c],
         Good(c, screen', disk', history')
  PROVE  call' \in [Agents -> CallTypes] /\ OneRuns' /\ CallsInv'
<1>1. call' \in [Agents -> CallTypes]
  BY DEF Inv, Typed, Good
<1>2. \A b \in Agents : call'[b] = IF b = a THEN c ELSE call[b]
  BY DEF Inv, Typed
<1>3. \A b \in Agents \ {a} : call[b].at \in {"idle", "asked"}
  BY OthersWait
<1>4. OneRuns'
  BY <1>2, <1>3 DEF OneRuns, Running
<1>5. ASSUME NEW b \in Agents PROVE Good(call'[b], screen', disk', history')
  <2>1. CASE b = a
    BY <1>2, <2>1
  <2>2. CASE b # a
    <3>1. Good(call[b], screen, disk, history)
      BY DEF Inv, CallsInv
    <3> QED
      BY <1>2, <1>3, <2>2, <3>1, WaitingIsGood
  <2> QED
    BY <2>1, <2>2
<1> QED
  BY <1>1, <1>4, <1>5 DEF CallsInv

(* A failure more does no harm to the histories. *)
LEMMA HistoriesLast ==
  ASSUME HistoriesOK, UNCHANGED <<history, keeps>>, failures \in Nat, failures' \in Nat, failures' >= failures
  PROVE  HistoriesOK'
<1> SUFFICES ASSUME NEW p \in Parts PROVE Cardinality(history[p]) <= HistoryKept + failures'
  BY DEF HistoriesOK
<1>1. Cardinality(history[p]) \in Nat /\ Cardinality(history[p]) <= HistoryKept + failures
  BY FS_CardinalityType DEF HistoriesOK, HistoryOK
<1> QED
  BY <1>1, EditsAssumption

(* ... the more so if it changes nothing else. *)
LEMMA OnlyTheCallMoves ==
  ASSUME Inv, InTab, NEW a \in Agents, Turn(a), NEW c, Goes(a, c) \/ Fails(a, c), UNCHANGED <<screen, disk, history, keeps>>,
         Good(c, screen, disk, history)
  PROVE  Inv'
<1>1. call' \in [Agents -> CallTypes] /\ OneRuns' /\ CallsInv'
  BY OneMoves DEF Goes, Fails, Moves
<1>2. failures' \in 0 .. MaxFailures /\ failures' >= failures
  BY EditsAssumption DEF Goes, Fails, Inv, Typed
<1>3. HistoriesOK'
  BY <1>2, HistoriesLast DEF Inv, Typed
<1>4. Typed'
  BY <1>1, <1>2 DEF Inv, Typed, Goes, Fails, Moves
<1> QED
  BY <1>1, <1>3, <1>4 DEF Inv

LEMMA ItReturns ==
  ASSUME Inv, InTab, NEW a \in Agents, Turn(a), Returns(a), UNCHANGED <<screen, disk, history, keeps>>
  PROVE  Inv'
BY OnlyTheCallMoves, NoCallIsGood DEF Returns

LEMMA TheCall ==
  ASSUME Inv, NEW a \in Agents
  PROVE  call[a] \in CallTypes /\ Good(call[a], screen, disk, history)
BY DEF Inv, CallsInv, Typed

-----------------------------------------------------------------------------
(* edit_part and save_project *)

LEMMA EditResolvesGood ==
  ASSUME Inv, InTab, NEW a \in Agents, EditResolves(a)
  PROVE  Inv'
<1> DEFINE c == call[a]
           read == IF c.part = AtSession THEN screen ELSE [name |-> c.part, script |-> disk[c.part]]
           c2 == [c EXCEPT !.at = "resolved", !.made = read]
<1>1. Turn(a) /\ c.at = "asked" /\ c.tool = "edit_part" /\ UNCHANGED <<screen, disk, history, keeps>>
  BY DEF EditResolves, Asked, At
<1>2. c \in CallTypes /\ Holds(c, history)
  BY TheCall DEF Good
<1>3. CASE Returns(a)
  BY <1>1, <1>3, ItReturns
<1>4. CASE Goes(a, c2)
  <2>1. read \in Docs /\ (c.part = AtSession => read = screen) /\ (c.part # AtSession => read = OfPart(c, disk))
    BY <1>1, <1>2 DEF Inv, Typed, Holds, Docs, OfPart
  <2> HIDE DEF read
  <2>2. /\ c2 \in CallTypes /\ c2.at = "resolved" /\ c2.tool = c.tool /\ c2.part = c.part /\ c2.text = c.text
        /\ c2.made = read /\ c2.shows = c.shows
    BY <1>2, <2>1 DEF CallTypes, Steps
  <2> HIDE DEF c2
  <2>3. OfPart(c2, disk) = OfPart(c, disk)
    BY <2>2 DEF OfPart
  <2>4. Good(c2, screen, disk, history)
    BY <1>1, <1>2, <2>1, <2>2, <2>3 DEF Good, Holds, Keeps, Edits, ToFile, ToScreen
  <2> QED
    BY <1>1, <1>4, <2>4, OnlyTheCallMoves
<1> QED
  BY <1>3, <1>4 DEF EditResolves

LEMMA EditLooksGood ==
  ASSUME Inv, InTab, NEW a \in Agents, EditLooks(a)
  PROVE  Inv'
<1> DEFINE c == call[a]
           openHere == c.part # AtSession /\ screen.name = c.part
           c2 == [c EXCEPT !.at = "looked", !.shows = openHere \/ c.part = AtSession]
<1>1. Turn(a) /\ c.at = "resolved" /\ UNCHANGED <<screen, disk, history, keeps>>
  BY DEF EditLooks, At
<1>2. c \in CallTypes /\ Holds(c, history) /\ Edits(c, screen, disk)
  BY TheCall DEF Good
<1>3. CASE Returns(a)
  BY <1>1, <1>3, ItReturns
<1>4. CASE ~ (openHere /\ screen.script # c.made.script) /\ Goes(a, c2)
  <2>1. /\ c2 \in CallTypes /\ c2.at = "looked" /\ c2.tool = c.tool /\ c2.part = c.part /\ c2.text = c.text
        /\ c2.made = c.made /\ (c2.shows <=> openHere \/ c.part = AtSession)
    BY <1>2 DEF CallTypes, Steps
  <2> HIDE DEF c2
  <2>2. OfPart(c2, disk) = OfPart(c, disk) /\ OfPart(c, disk) = [name |-> c.part, script |-> disk[c.part]]
    BY <2>1 DEF OfPart
  <2>3. c.tool = "edit_part" /\ (c.part = AtSession => c.made = screen) /\ (c.part # AtSession => c.made = OfPart(c, disk))
    BY <1>1, <1>2 DEF Holds, Edits, ToFile
  <2>4. openHere => c.made = screen
    <3>1. screen = [name |-> screen.name, script |-> screen.script]
      BY DEF Inv, Typed, Docs
    <3> QED
      BY <1>4, <2>2, <2>3, <3>1
  <2>5. Holds(c2, history)
    BY <1>1, <1>2, <2>1, <2>3 DEF Holds
  <2>6. Edits(c2, screen, disk)
    BY <1>1, <2>1, <2>2, <2>3, <2>4 DEF Edits, ToFile, ToScreen
  <2>7. Good(c2, screen, disk, history)
    BY <2>1, <2>5, <2>6 DEF Good, Keeps
  <2> QED
    BY <1>1, <1>4, <2>7, OnlyTheCallMoves
<1> QED
  BY <1>3, <1>4 DEF EditLooks

LEMMA EditBuildsGood ==
  ASSUME Inv, InTab, NEW a \in Agents, EditFails(a) \/ EditPauses(a) \/ EditBuilds(a)
  PROVE  Inv'
<1> DEFINE c == call[a]
<1>1. Turn(a) /\ c.at = "looked" /\ UNCHANGED <<screen, disk, history, keeps>>
  BY DEF EditFails, EditPauses, EditBuilds, At
<1>2. c \in CallTypes /\ Holds(c, history) /\ Edits(c, screen, disk) /\ c.tool = "edit_part"
  BY <1>1, TheCall DEF Good, Holds
<1>3. CASE EditFails(a)
  BY <1>1, <1>3, ItReturns DEF EditFails
<1>4. CASE EditPauses(a)
  <2> DEFINE c2 == [NoCall EXCEPT !.at = "asked", !.tool = c.tool, !.part = c.part, !.text = c.text]
  <2>1. /\ c2 \in CallTypes /\ c2.at = "asked" /\ c2.tool = c.tool /\ c2.part = c.part /\ c2.text = c.text
    <3>1. NoCall \in CallTypes
      BY NoCallIsGood DEF Good
    <3> QED
      BY <1>2, <3>1 DEF CallTypes, Steps
  <2> HIDE DEF c2
  <2>2. Good(c2, screen, disk, history)
    BY <1>1, <1>2, <2>1 DEF Good, Holds, Keeps, Edits, ToFile, ToScreen
  <2>3. Goes(a, c2)
    BY <1>4 DEF EditPauses, c2
  <2> QED
    BY <1>1, <2>2, <2>3, OnlyTheCallMoves
<1>5. CASE EditBuilds(a)
  <2> DEFINE step == IF c.part = AtSession THEN "screen" ELSE "snapshot"
             c2 == [c EXCEPT !.at = step]
  <2>1. /\ c2 \in CallTypes /\ c2.at = step /\ c2.tool = c.tool /\ c2.part = c.part /\ c2.text = c.text
        /\ c2.made = c.made /\ c2.shows = c.shows
    BY <1>2 DEF CallTypes, Steps
  <2>2. Goes(a, c2)
    BY <1>5 DEF EditBuilds
  <2> HIDE DEF c2
  <2>3. OfPart(c2, disk) = OfPart(c, disk)
    BY <2>1 DEF OfPart
  <2>4. Good(c2, screen, disk, history)
    BY <1>1, <1>2, <2>1, <2>3 DEF Good, Holds, Keeps, Edits, ToFile, ToScreen
  <2> QED
    BY <1>1, <2>2, <2>4, OnlyTheCallMoves
<1> QED
  BY <1>3, <1>4, <1>5

LEMMA SnapshotGood ==
  ASSUME Inv, InTab, NEW a \in Agents, Snapshot(a)
  PROVE  Inv'
<1> DEFINE c == call[a]
           c2 == [c EXCEPT !.at = "write"]
           c3 == [c EXCEPT !.at = "list", !.keeping = OnDisk(c), !.next = "write", !.unkept = FALSE]
<1>1. Turn(a) /\ c.at = "snapshot" /\ UNCHANGED <<screen, disk, history, keeps>>
  BY DEF Snapshot, At
<1>2. c \in CallTypes /\ Holds(c, history) /\ Edits(c, screen, disk) /\ c.part \in Parts
  BY <1>1, TheCall DEF Good, Holds
<1>3. CASE disk[c.part] = NoText
  <2>1. /\ c2 \in CallTypes /\ c2.at = "write" /\ c2.tool = c.tool /\ c2.part = c.part /\ c2.text = c.text
        /\ c2.made = c.made /\ c2.shows = c.shows
    BY <1>2 DEF CallTypes, Steps
  <2>2. Goes(a, c2)
    BY <1>3 DEF Snapshot
  <2> HIDE DEF c2
  <2>3. OfPart(c2, disk) = OfPart(c, disk)
    BY <2>1 DEF OfPart
  <2>4. Good(c2, screen, disk, history)
    BY <1>1, <1>2, <1>3, <2>1, <2>3 DEF Good, Holds, Keeps, Edits, ToFile, ToScreen
  <2> QED
    BY <1>1, <2>2, <2>4, OnlyTheCallMoves
<1>4. CASE disk[c.part] # NoText
  <2>0. OnDisk(c) = OfPart(c, disk) /\ OnDisk(c) \in Docs /\ OnDisk(c).name \in Parts /\ OnDisk(c).script \in Texts
    BY <1>2, <1>4 DEF OnDisk, OfPart, Docs, Inv, Typed
  <2>1. /\ c3 \in CallTypes /\ c3.at = "list" /\ c3.tool = c.tool /\ c3.part = c.part /\ c3.text = c.text
        /\ c3.made = c.made /\ c3.shows = c.shows /\ c3.next = "write" /\ c3.keeping = OnDisk(c)
    BY <1>2, <2>0 DEF CallTypes, Steps
  <2>2. Goes(a, c3)
    BY <1>4 DEF Snapshot, Keep
  <2> HIDE DEF c3
  <2>3. OfPart(c3, disk) = OfPart(c, disk)
    BY <2>1 DEF OfPart
  <2>4. Good(c3, screen, disk, history)
    BY <1>1, <1>2, <2>0, <2>1, <2>3 DEF Good, Holds, Keeps, Edits, ToFile, ToScreen
  <2> QED
    BY <1>1, <2>2, <2>4, OnlyTheCallMoves
<1> QED
  BY <1>3, <1>4

LEMMA SnapshotMissesGood ==
  ASSUME Inv, InTab, NEW a \in Agents, SnapshotMisses(a)
  PROVE  Inv'
<1> DEFINE c == call[a]
           c2 == [c EXCEPT !.at = "write", !.unkept = TRUE]
<1>1. Turn(a) /\ c.at = "snapshot" /\ UNCHANGED <<screen, disk, history, keeps>> /\ Fails(a, c2)
  BY DEF SnapshotMisses, At
<1>2. c \in CallTypes /\ Holds(c, history) /\ Edits(c, screen, disk) /\ c.part \in Parts
  BY <1>1, TheCall DEF Good, Holds
<1>3. /\ c2 \in CallTypes /\ c2.at = "write" /\ c2.tool = c.tool /\ c2.part = c.part /\ c2.text = c.text
      /\ c2.made = c.made /\ c2.shows = c.shows /\ c2.unkept
  BY <1>2 DEF CallTypes, Steps
<1> HIDE DEF c2
<1>4. OfPart(c2, disk) = OfPart(c, disk)
  BY <1>3 DEF OfPart
<1>5. Good(c2, screen, disk, history)
  BY <1>1, <1>2, <1>3, <1>4 DEF Good, Holds, Keeps, Edits, ToFile, ToScreen
<1> QED
  BY <1>1, <1>5, OnlyTheCallMoves

LEMMA WriteGood ==
  ASSUME Inv, InTab, NEW a \in Agents, Write(a)
  PROVE  Inv'
<1> DEFINE c == call[a]
           c2 == [c EXCEPT !.at = "screen", !.unkept = FALSE]
<1>1. /\ Turn(a) /\ c.at = "write" /\ UNCHANGED <<screen, history, keeps>>
      /\ disk' = [disk EXCEPT ![c.part] = c.text]
  BY DEF Write, At
<1>2. c \in CallTypes /\ Holds(c, history) /\ Edits(c, screen, disk) /\ c.part \in Parts /\ c.text \in Texts
  BY <1>1, TheCall DEF Good, Holds
<1>3. PICK d : Goes(a, d) /\ (d = NoCall \/ (d = c2 /\ c.shows))
  BY DEF Write, Returns
<1>4. Good(d, screen', disk', history')
  <2>1. CASE d = NoCall
    BY <2>1, NoCallIsGood
  <2>2. CASE d = c2 /\ c.shows
    <3>1. /\ c2 \in CallTypes /\ c2.at = "screen" /\ c2.tool = c.tool /\ c2.part = c.part /\ c2.text = c.text
          /\ c2.made = c.made /\ c2.shows = c.shows
      BY <1>2 DEF CallTypes, Steps
    <3> HIDE DEF c2
    <3>2. Good(c2, screen, disk', history)
      BY <1>1, <1>2, <1>3, <2>2, <3>1 DEF Good, Holds, Keeps, Edits, ToFile, ToScreen
    <3> QED
      BY <1>1, <2>2, <3>2
  <2> QED
    BY <1>3, <2>1, <2>2
<1>5. call' \in [Agents -> CallTypes] /\ OneRuns' /\ CallsInv'
  BY <1>1, <1>3, <1>4, OneMoves DEF Goes, Moves
<1>6. Typed' /\ HistoriesOK'
  BY <1>1, <1>2, <1>3, <1>5 DEF Inv, Typed, HistoriesOK, Goes, Moves
<1> QED
  BY <1>5, <1>6 DEF Inv

LEMMA WriteFailsGood ==
  ASSUME Inv, InTab, NEW a \in Agents, WriteFails(a)
  PROVE  Inv'
<1>1. Turn(a) /\ call[a].at = "write" /\ UNCHANGED <<screen, history, keeps>> /\ Fails(a, NoCall)
  BY DEF WriteFails, At
<1>2. call' \in [Agents -> CallTypes] /\ OneRuns' /\ CallsInv'
  BY <1>1, NoCallIsGood, OneMoves DEF Fails, Moves
<1>3. failures' \in 0 .. MaxFailures /\ failures' >= failures
  BY <1>1, EditsAssumption DEF Fails, Inv, Typed
<1>4. HistoriesOK'
  BY <1>1, <1>3, HistoriesLast DEF Inv, Typed
<1>5. disk' \in [Parts -> Texts \cup {NoText}]
  BY DEF WriteFails, Inv, Typed
<1> QED
  BY <1>1, <1>2, <1>3, <1>4, <1>5 DEF Inv, Typed, Fails, Moves

LEMMA AskedGood ==
  ASSUME Inv, InTab, NEW a \in Agents, SaveProject(a) \/ SetScriptAsked(a)
  PROVE  Inv'
<1> DEFINE c == call[a]
<1>0. PICK step \in {"snapshot", "screen"} :
        /\ Goes(a, [c EXCEPT !.at = step]) /\ UNCHANGED <<screen, disk, history, keeps>>
        /\ Turn(a) /\ c.at = "asked" /\ c.tool \in {"save_project", "set_script"}
  BY DEF SaveProject, SetScriptAsked, Asked, At
<1> DEFINE c2 == [c EXCEPT !.at = step]
<1>1. c \in CallTypes /\ Holds(c, history)
  BY TheCall DEF Good
<1>2. /\ c2 \in CallTypes /\ c2.at = step /\ c2.tool = c.tool /\ c2.part = c.part /\ c2.text = c.text
  BY <1>1 DEF CallTypes, Steps
<1> HIDE DEF c2
<1>3. Good(c2, screen, disk, history)
  BY <1>0, <1>1, <1>2 DEF Good, Holds, Keeps, Edits, ToFile, ToScreen
<1> QED
  BY <1>0, <1>3, OnlyTheCallMoves DEF c2

-----------------------------------------------------------------------------
(* What goes to the screen, and what is kept before *)

LEMMA KeepScreenGood ==
  ASSUME Inv, InTab, NEW a \in Agents, KeepScreen(a)
  PROVE  Inv'
<1> DEFINE c == call[a]
           c2 == [c EXCEPT !.at = "list", !.keeping = screen, !.next = "set", !.unkept = FALSE]
           c3 == [c EXCEPT !.at = "set"]
<1>1. Turn(a) /\ c.at = "screen" /\ UNCHANGED <<screen, disk, history, keeps>>
  BY DEF KeepScreen, At
<1>2. c \in CallTypes /\ Holds(c, history) /\ Edits(c, screen, disk) /\ screen \in Docs
  BY TheCall DEF Good, Inv, Typed
<1>3. CASE WorthKeeping(c.text)
  <2>0. screen.name \in Parts /\ screen.script \in Texts
    BY <1>2, <1>3 DEF WorthKeeping, Docs
  <2>1. /\ c2 \in CallTypes /\ c2.at = "list" /\ c2.tool = c.tool /\ c2.part = c.part /\ c2.text = c.text
        /\ c2.made = c.made /\ c2.shows = c.shows /\ c2.next = "set" /\ c2.keeping = screen
    BY <1>2 DEF CallTypes, Steps
  <2>2. Goes(a, c2)
    BY <1>3 DEF KeepScreen, Keep
  <2> HIDE DEF c2
  <2>3. Good(c2, screen, disk, history)
    BY <1>1, <1>2, <2>0, <2>1 DEF Good, Holds, Keeps, Edits, ToFile, ToScreen
  <2> QED
    BY <1>1, <2>2, <2>3, OnlyTheCallMoves
<1>4. CASE ~ WorthKeeping(c.text)
  <2>1. /\ c3 \in CallTypes /\ c3.at = "set" /\ c3.tool = c.tool /\ c3.part = c.part /\ c3.text = c.text
        /\ c3.made = c.made /\ c3.shows = c.shows
    BY <1>2 DEF CallTypes, Steps
  <2>2. Goes(a, c3)
    BY <1>4 DEF KeepScreen
  <2> HIDE DEF c3
  <2>3. Good(c3, screen, disk, history)
    BY <1>1, <1>2, <1>4, <2>1 DEF Good, Holds, Keeps, Edits, ToFile, ToScreen, WorthKeeping
  <2> QED
    BY <1>1, <2>2, <2>3, OnlyTheCallMoves
<1> QED
  BY <1>3, <1>4

LEMMA ListedGood ==
  ASSUME Inv, InTab, NEW a \in Agents, Listed(a)
  PROVE  Inv'
<1> DEFINE c == call[a]
           d == c.keeping
           versions == history[d.name]
           c2 == [c EXCEPT !.at = c.next]
           c3 == [c EXCEPT !.at = "keep", !.listing = versions]
<1>1. Turn(a) /\ c.at = "list" /\ UNCHANGED <<screen, disk, history, keeps>>
  BY DEF Listed, At
<1>2. /\ c \in CallTypes /\ Holds(c, history) /\ Keeps(c, screen, disk, history) /\ Edits(c, screen, disk)
      /\ c.next \in {"write", "set"} /\ d.name \in Parts /\ HistoryOK(versions, keeps) /\ keeps \in Nat
  BY <1>1, TheCall DEF Good, Inv, Typed, HistoriesOK, Holds
<1>3. CASE versions # {} /\ Newest(versions).text = d.script
  <2>0. Has(history, d)
    BY <1>2, <1>3, NewestIs DEF Has
  <2>1. /\ c2 \in CallTypes /\ c2.at = c.next /\ c2.tool = c.tool /\ c2.part = c.part /\ c2.text = c.text
        /\ c2.made = c.made /\ c2.shows = c.shows
    BY <1>2 DEF CallTypes, Steps
  <2>2. Goes(a, c2)
    BY <1>3 DEF Listed
  <2> HIDE DEF c2
  <2>3. OfPart(c2, disk) = OfPart(c, disk)
    BY <2>1 DEF OfPart
  <2>4. Holds(c2, history)
    BY <1>1, <1>2, <2>1 DEF Holds
  <2>5. Keeps(c2, screen, disk, history)
    BY <1>1, <1>2, <2>0, <2>1, <2>3 DEF Keeps
  <2>6. Edits(c2, screen, disk)
    BY <1>1, <1>2, <2>1, <2>3 DEF Edits, ToFile, ToScreen
  <2> QED
    BY <1>1, <2>1, <2>2, <2>4, <2>5, <2>6, OnlyTheCallMoves DEF Good
<1>4. CASE ~ (versions # {} /\ Newest(versions).text = d.script)
  <2>1. /\ c3 \in CallTypes /\ c3.at = "keep" /\ c3.tool = c.tool /\ c3.part = c.part /\ c3.text = c.text
        /\ c3.made = c.made /\ c3.shows = c.shows /\ c3.next = c.next /\ c3.keeping = d /\ c3.listing = versions
    <3>1. versions \in SUBSET Versions
      BY <1>2 DEF HistoryOK
    <3> HIDE DEF versions
    <3> QED
      BY <1>2, <3>1 DEF CallTypes, Steps
  <2>2. Goes(a, c3)
    BY <1>4 DEF Listed
  <2> HIDE DEF c3
  <2>3. OfPart(c3, disk) = OfPart(c, disk)
    BY <2>1 DEF OfPart
  <2>4. Holds(c3, history)
    BY <1>1, <1>2, <2>1 DEF Holds
  <2>5. Keeps(c3, screen, disk, history)
    BY <1>1, <1>2, <2>1, <2>3 DEF Keeps
  <2>6. Edits(c3, screen, disk)
    BY <1>1, <1>2, <2>1, <2>3 DEF Edits, ToFile, ToScreen
  <2> QED
    BY <1>1, <2>1, <2>2, <2>4, <2>5, <2>6, OnlyTheCallMoves DEF Good
<1> QED
  BY <1>3, <1>4

(* The history of the part gets its version; the others are as they were. *)
LEMMA KeptIs ==
  ASSUME Inv, InTab, NEW a \in Agents, Kept(a)
  PROVE  LET c == call[a]
         IN  /\ c.keeping.name \in Parts /\ c.keeping.script \in Texts /\ HistoryOK(history[c.keeping.name], keeps)
             /\ \E now \in Nat : history' = [history EXCEPT ![c.keeping.name] = With(@, now, c.keeping.script, keeps)]
<1> DEFINE c == call[a]
           d == c.keeping
<1>1. /\ d.name \in Parts /\ d.script \in Texts /\ HistoryOK(history[d.name], keeps) /\ c.listing = history[d.name]
  BY TheCall DEF Kept, At, Good, Holds, Inv, HistoriesOK
<1>2. \E now \in Nat : history' = [history EXCEPT ![d.name] = With(@, now, d.script, keeps)]
  BY <1>1, EditsAssumption DEF Kept, With
<1> QED
  BY <1>1, <1>2

LEMMA KeptGood ==
  ASSUME Inv, InTab, NEW a \in Agents, Kept(a)
  PROVE  Inv'
<1> DEFINE c == call[a]
           d == c.keeping
           c2 == [c EXCEPT !.at = c.next]
<1>1. Turn(a) /\ c.at = "keep" /\ UNCHANGED <<screen, disk>> /\ keeps' = keeps + 1 /\ Goes(a, c2)
  BY DEF Kept, At
<1>2. /\ c \in CallTypes /\ Holds(c, history) /\ Keeps(c, screen, disk, history) /\ Edits(c, screen, disk)
      /\ c.next \in {"write", "set"} /\ keeps \in Nat /\ DOMAIN history = Parts
  BY <1>1, TheCall DEF Good, Inv, Typed, Holds
<1>3. PICK now \in Nat : /\ d.name \in Parts /\ d.script \in Texts /\ HistoryOK(history[d.name], keeps)
                         /\ history' = [history EXCEPT ![d.name] = With(@, now, d.script, keeps)]
  BY KeptIs
<1>4. /\ DOMAIN history' = Parts /\ history'[d.name] = With(history[d.name], now, d.script, keeps)
      /\ \A p \in Parts \ {d.name} : history'[p] = history[p]
  BY <1>2, <1>3
<1>5. /\ HistoryOK(history'[d.name], keeps + 1) /\ Has(history', d)
      /\ Cardinality(history'[d.name]) <= HistoryKept + failures
  <2>1. /\ HistoryOK(history'[d.name], keeps + 1) /\ Cardinality(history'[d.name]) <= HistoryKept
        /\ \E v \in history'[d.name] : v.text = d.script
    BY <1>2, <1>3, <1>4, WithIs
  <2>2. Cardinality(history'[d.name]) \in Nat
    BY <2>1, FS_CardinalityType DEF HistoryOK
  <2>3. failures \in Nat /\ HistoryKept \in Nat
    BY EditsAssumption DEF Inv, Typed
  <2> QED
    BY <2>1, <2>2, <2>3 DEF Has
<1>6. ASSUME NEW p \in Parts PROVE HistoryOK(history'[p], keeps') /\ Cardinality(history'[p]) <= HistoryKept + failures'
  <2>1. CASE p = d.name
    BY <1>1, <1>5, <2>1 DEF Goes
  <2>2. CASE p # d.name
    <3>1. HistoryOK(history[p], keeps) /\ \A v \in history[p] : v.nth \in Nat
      BY DEF Inv, HistoriesOK, HistoryOK, Versions
    <3>2. \A v \in history[p] : v.nth <= keeps + 1
      BY <1>2, <3>1 DEF HistoryOK
    <3>3. Cardinality(history[p]) <= HistoryKept + failures /\ failures' = failures
      BY <1>1 DEF Inv, HistoriesOK, Goes
    <3> QED
      BY <1>1, <1>4, <2>2, <3>1, <3>2, <3>3 DEF HistoryOK
  <2> QED
    BY <2>1, <2>2
<1>7. /\ c2 \in CallTypes /\ c2.at = c.next /\ c2.tool = c.tool /\ c2.part = c.part /\ c2.text = c.text
      /\ c2.made = c.made /\ c2.shows = c.shows
  BY <1>2 DEF CallTypes, Steps
<1> HIDE DEF c2
<1>8. Good(c2, screen', disk', history')
  <2>1. OfPart(c2, disk) = OfPart(c, disk)
    BY <1>7 DEF OfPart
  <2>2. Holds(c2, history')
    BY <1>1, <1>2, <1>7 DEF Holds
  <2>3. Keeps(c2, screen, disk, history')
    BY <1>1, <1>2, <1>5, <1>7, <2>1 DEF Keeps
  <2>4. Edits(c2, screen, disk)
    BY <1>1, <1>2, <1>7, <2>1 DEF Edits, ToFile, ToScreen
  <2> QED
    BY <1>1, <1>7, <2>2, <2>3, <2>4 DEF Good
<1>9. call' \in [Agents -> CallTypes] /\ OneRuns' /\ CallsInv'
  BY <1>1, <1>8, OneMoves DEF Goes, Moves
<1>10. Typed' /\ HistoriesOK'
  BY <1>1, <1>2, <1>4, <1>6, <1>9 DEF Inv, Typed, HistoriesOK, Goes, Moves
<1> QED
  BY <1>9, <1>10 DEF Inv

(* A version that a failed write has left is a newest one too. *)
LEMMA TornIs ==
  ASSUME NEW versions, NEW n \in Nat, HistoryOK(versions, n), NEW now \in Nat, NEW text \in Texts,
         NEW most \in Nat, Cardinality(versions) <= most
  PROVE  LET torn == [id |-> IdAt(now, versions), text |-> text, nth |-> n + 1]
             more == {v \in versions : v.id # torn.id} \cup {torn}
         IN  HistoryOK(more, n + 1) /\ Cardinality(more) <= most + 1 /\ versions \subseteq more
<1> DEFINE torn == [id |-> IdAt(now, versions), text |-> text, nth |-> n + 1]
           more == {v \in versions : v.id # torn.id} \cup {torn}
<1>0. /\ versions \subseteq Versions /\ IsFiniteSet(versions)
      /\ \A v \in versions : v.id \in Nat /\ v.nth \in Nat /\ v.nth <= n
  BY DEF HistoryOK, Versions
<1>1. /\ torn.id \in Nat /\ (\A v \in versions : v.id < torn.id) /\ torn.nth = n + 1 /\ torn \in Versions
  BY IdIsNew DEF Versions
<1> HIDE DEF torn
<1>2. more = versions \cup {torn} /\ torn \notin versions
  BY <1>0, <1>1
<1>3. IsFiniteSet(more) /\ Cardinality(more) <= most + 1
  <2>1. IsFiniteSet(versions \cup {torn}) /\ Cardinality(versions \cup {torn}) = Cardinality(versions) + 1
    BY <1>0, <1>2, FS_AddElement
  <2>2. Cardinality(versions) \in Nat
    BY <1>0, FS_CardinalityType
  <2>3. Cardinality(versions) + 1 <= most + 1
    BY <2>2
  <2> HIDE DEF more
  <2> QED
    BY <1>2, <2>1, <2>3
<1>4. more \subseteq Versions /\ \A v \in more : v.nth <= n + 1
  BY <1>0, <1>1, <1>2
<1>5. ASSUME NEW u \in more, NEW v \in more
      PROVE  (u.id = v.id \/ u.nth = v.nth => u = v) /\ (u.nth < v.nth => u.id < v.id)
  <2>1. CASE u \in versions /\ v \in versions
    BY <2>1 DEF HistoryOK
  <2>2. CASE u = torn /\ v = torn
    BY <1>1, <2>2
  <2>3. CASE u \in versions /\ v = torn
    BY <1>0, <1>1, <2>3
  <2>4. CASE u = torn /\ v \in versions
    BY <1>0, <1>1, <2>4
  <2> HIDE DEF more
  <2> QED
    BY <1>2, <2>1, <2>2, <2>3, <2>4
<1>6. HistoryOK(more, n + 1)
  BY <1>3, <1>4, <1>5 DEF HistoryOK
<1> QED
  BY <1>2, <1>3, <1>6 DEF torn

LEMMA KeepFailsIs ==
  ASSUME Inv, InTab, NEW a \in Agents, KeepFails(a)
  PROVE  /\ \A p \in Parts : HistoryOK(history'[p], keeps') /\ Cardinality(history'[p]) <= HistoryKept + failures'
         /\ \A p \in Parts : history[p] \subseteq history'[p]
         /\ DOMAIN history' = Parts /\ keeps' \in Nat
<1> DEFINE c == call[a]
           d == c.keeping
<1>1. /\ d.name \in Parts /\ HistoryOK(history[d.name], keeps) /\ c.listing = history[d.name]
      /\ keeps \in Nat /\ DOMAIN history = Parts
      /\ failures \in Nat /\ failures' = failures + 1 /\ HistoryKept \in Nat
  BY TheCall, EditsAssumption DEF KeepFails, Fails, At, Good, Holds, Inv, HistoriesOK, Typed
<1>2. \A p \in Parts : HistoryOK(history[p], keeps) /\ Cardinality(history[p]) <= HistoryKept + failures
                       /\ Cardinality(history[p]) \in Nat
  BY FS_CardinalityType DEF Inv, HistoriesOK, HistoryOK
<1>3. CASE UNCHANGED <<history, keeps>>
  BY <1>1, <1>2, <1>3
<1>4. CASE ~ UNCHANGED <<history, keeps>>
  <2>1. PICK now \in Nat, t \in Texts :
          LET torn == [id |-> IdAt(now, c.listing), text |-> t, nth |-> keeps + 1]
          IN  history' = [history EXCEPT ![d.name] = {v \in @ : v.id # torn.id} \cup {torn}]
    BY <1>4, EditsAssumption DEF KeepFails
  <2>2. keeps' = keeps + 1
    BY <1>4 DEF KeepFails
  <2> DEFINE most == HistoryKept + failures
  <2>3. most \in Nat /\ Cardinality(history[d.name]) <= most /\ most + 1 = HistoryKept + failures'
    BY <1>1, <1>2
  <2> HIDE DEF most
  <2>4. /\ HistoryOK(history'[d.name], keeps + 1) /\ Cardinality(history'[d.name]) <= most + 1
        /\ history[d.name] \subseteq history'[d.name]
    BY <1>1, <2>1, <2>3, TornIs
  <2>5. ASSUME NEW p \in Parts \ {d.name}
        PROVE  HistoryOK(history'[p], keeps + 1) /\ history'[p] = history[p]
    <3>1. history'[p] = history[p]
      BY <1>1, <2>1
    <3>2. \A v \in history[p] : v.nth \in Nat /\ v.nth <= keeps
      BY <1>2 DEF HistoryOK, Versions
    <3>3. \A v \in history[p] : v.nth <= keeps + 1
      BY <1>1, <3>2
    <3> QED
      BY <1>2, <3>1, <3>3 DEF HistoryOK
  <2>6. ASSUME NEW p \in Parts \ {d.name} PROVE Cardinality(history'[p]) <= HistoryKept + failures'
    BY <1>1, <1>2, <2>5
  <2>7. DOMAIN history' = Parts
    BY <1>1, <2>1
  <2> QED
    BY <1>1, <2>2, <2>3, <2>4, <2>5, <2>6, <2>7
<1> QED
  BY <1>3, <1>4

LEMMA KeepFailsGood ==
  ASSUME Inv, InTab, NEW a \in Agents, KeepFails(a)
  PROVE  Inv'
<1> DEFINE c == call[a]
           c2 == [c EXCEPT !.at = "set", !.unkept = TRUE]
<1>1. /\ Turn(a) /\ c.at = "keep" /\ UNCHANGED <<screen, disk>>
      /\ Fails(a, NoCall) \/ (c.next = "set" /\ Fails(a, c2))
  BY DEF KeepFails, At
<1>2. c \in CallTypes /\ Holds(c, history) /\ Edits(c, screen, disk)
  BY TheCall DEF Good
<1>3. /\ c2 \in CallTypes /\ c2.at = "set" /\ c2.tool = c.tool /\ c2.part = c.part /\ c2.text = c.text
      /\ c2.made = c.made /\ c2.shows = c.shows /\ c2.unkept
  BY <1>2 DEF CallTypes, Steps
<1> HIDE DEF c2
<1>4. ASSUME c.next = "set" PROVE Good(c2, screen', disk', history')
  BY <1>1, <1>2, <1>3, <1>4 DEF Good, Holds, Keeps, Edits, ToFile, ToScreen
<1>5. PICK c3 : Fails(a, c3) /\ Good(c3, screen', disk', history')
  BY <1>1, <1>4, NoCallIsGood
<1>6. call' \in [Agents -> CallTypes] /\ OneRuns' /\ CallsInv'
  BY <1>1, <1>5, OneMoves DEF Fails, Moves
<1>7. failures' \in 0 .. MaxFailures
  BY <1>5, EditsAssumption DEF Fails, Inv, Typed
<1> QED
  BY <1>1, <1>5, <1>6, <1>7, KeepFailsIs DEF Inv, Typed, HistoriesOK, Fails, Moves

(* A step that returns, whatever it puts on the screen. *)
LEMMA ScreenGood ==
  ASSUME Inv, InTab, NEW a \in Agents, Turn(a), Returns(a), UNCHANGED <<disk, history, keeps>>,
         screen' \in Docs, screen'.name = NoPart <=> screen'.script = NoText
  PROVE  Inv'
<1>1. call' \in [Agents -> CallTypes] /\ OneRuns' /\ CallsInv'
  BY OneMoves, NoCallIsGood DEF Goes, Moves, Returns
<1>2. Typed' /\ HistoriesOK'
  BY <1>1 DEF Inv, Typed, HistoriesOK, Goes, Moves, Returns
<1> QED
  BY <1>1, <1>2 DEF Inv

LEMMA SetScriptGood ==
  ASSUME Inv, InTab, NEW a \in Agents, SetScript(a)
  PROVE  Inv'
<1>1. Turn(a) /\ Returns(a) /\ UNCHANGED <<disk, history, keeps>> /\ call[a].text \in Texts
  BY TheCall DEF SetScript, At, Good, Holds
<1>2. screen' \in Docs /\ (screen'.name = NoPart <=> screen'.script = NoText)
  BY <1>1, EditsAssumption DEF SetScript, Put, Docs, Inv, Typed
<1> QED
  BY <1>1, <1>2, ScreenGood

LEMMA OpenProjectGood ==
  ASSUME Inv, InTab, NEW a \in Agents, OpenProject(a)
  PROVE  Inv'
<1>1. Turn(a) /\ Returns(a) /\ UNCHANGED <<disk, history, keeps>> /\ call[a].part \in Parts
  BY TheCall DEF OpenProject, Asked, At, Good, Holds
<1>2. screen' \in Docs /\ (screen'.name = NoPart <=> screen'.script = NoText)
  BY <1>1, EditsAssumption DEF OpenProject, Open, Docs, Inv, Typed
<1> QED
  BY <1>1, <1>2, ScreenGood

LEMMA RestoreReadsGood ==
  ASSUME Inv, InTab, NEW a \in Agents, RestoreReads(a)
  PROVE  Inv'
<1> DEFINE c == call[a]
<1>1. Turn(a) /\ c.at = "asked" /\ c.tool = "restore_snapshot" /\ UNCHANGED <<screen, disk, history, keeps>>
  BY DEF RestoreReads, Asked, At
<1>2. c \in CallTypes /\ Holds(c, history) /\ c.part \in Parts
  BY <1>1, TheCall DEF Good, Holds
<1>3. CASE Returns(a)
  BY <1>1, <1>3, ItReturns
<1>4. ASSUME NEW v \in history[c.part], Goes(a, [c EXCEPT !.at = "reopen", !.text = v.text]) PROVE Inv'
  <2> DEFINE c2 == [c EXCEPT !.at = "reopen", !.text = v.text]
  <2>1. v.text \in Texts
    BY <1>2 DEF Inv, HistoriesOK, HistoryOK, Versions
  <2>2. /\ c2 \in CallTypes /\ c2.at = "reopen" /\ c2.tool = c.tool /\ c2.part = c.part /\ c2.text = v.text
    BY <1>2, <2>1 DEF CallTypes, Steps
  <2> HIDE DEF c2
  <2>3. Good(c2, screen, disk, history)
    BY <1>1, <1>2, <2>1, <2>2, EditsAssumption DEF Good, Holds, Keeps, Edits, ToFile, ToScreen
  <2> QED
    BY <1>1, <1>4, <2>3, OnlyTheCallMoves DEF c2
<1> QED
  BY <1>3, <1>4 DEF RestoreReads

LEMMA RestoreOpensGood ==
  ASSUME Inv, InTab, NEW a \in Agents, RestoreOpens(a)
  PROVE  Inv'
<1> DEFINE c == call[a]
           c2 == [c EXCEPT !.at = "screen"]
<1>1. Turn(a) /\ c.at = "reopen" /\ UNCHANGED <<disk, history, keeps>>
  BY DEF RestoreOpens, At
<1>2. c \in CallTypes /\ Holds(c, history) /\ c.part \in Parts
  BY <1>1, TheCall DEF Good, Holds
<1>3. CASE Returns(a) /\ UNCHANGED screen
  BY <1>1, <1>3, ItReturns
<1>4. CASE Goes(a, c2) /\ (UNCHANGED screen \/ (disk[c.part] # NoText /\ Open(c.part)))
  <2>1. screen' \in Docs /\ (screen'.name = NoPart <=> screen'.script = NoText)
    BY <1>2, <1>4, EditsAssumption DEF Open, Docs, Inv, Typed
  <2>2. /\ c2 \in CallTypes /\ c2.at = "screen" /\ c2.tool = c.tool /\ c2.part = c.part /\ c2.text = c.text
    BY <1>2 DEF CallTypes, Steps
  <2> HIDE DEF c2
  <2>3. Good(c2, screen', disk', history')
    BY <1>1, <1>2, <2>2, EditsAssumption DEF Good, Holds, Keeps, Edits, ToFile, ToScreen
  <2>4. call' \in [Agents -> CallTypes] /\ OneRuns' /\ CallsInv'
    BY <1>1, <1>4, <2>3, OneMoves DEF Goes, Moves
  <2>5. Typed' /\ HistoriesOK'
    BY <1>1, <1>4, <2>1, <2>4 DEF Inv, Typed, HistoriesOK, Goes, Moves
  <2> QED
    BY <2>4, <2>5 DEF Inv
<1> QED
  BY <1>3, <1>4 DEF RestoreOpens

-----------------------------------------------------------------------------
(* The user, and calls that come *)

LEMMA UserGood ==
  ASSUME Inv, InTab, UserStep
  PROVE  Inv'
<1>1. /\ \A a \in Agents : call[a].at \in {"idle", "asked"}
      /\ acts < MaxActs /\ acts' = acts + 1 /\ UNCHANGED <<history, keeps, call, calls, failures>>
  BY DEF UserStep, UserSaves, UserTypes, UserOpens, Acts, UserTurn, Running
<1>2. \/ UserSaves
      \/ \E t \in Texts : UserTypes(t)
      \/ \E p \in Parts : UserOpens(p)
  BY DEF UserStep
<1>3. /\ screen' \in Docs /\ (screen'.name = NoPart <=> screen'.script = NoText)
      /\ disk' \in [Parts -> Texts \cup {NoText}]
  <2>0. screen \in Docs /\ (screen.name = NoPart <=> screen.script = NoText) /\ disk \in [Parts -> Texts \cup {NoText}]
    BY DEF Inv, Typed
  <2>1. CASE UserSaves
    BY <2>0, <2>1 DEF UserSaves, Docs
  <2>2. ASSUME NEW t \in Texts, UserTypes(t) PROVE <1>3!:
    BY <2>0, <2>2, EditsAssumption DEF UserTypes, Docs
  <2>3. ASSUME NEW p \in Parts, UserOpens(p) PROVE <1>3!:
    BY <2>0, <2>3, EditsAssumption DEF UserOpens, Open, Docs
  <2> QED
    BY <1>2, <2>1, <2>2, <2>3
<1>4. ASSUME NEW a \in Agents PROVE Good(call'[a], screen', disk', history')
  <2>1. Good(call[a], screen, disk, history)
    BY TheCall
  <2> QED
    BY <1>1, <2>1, WaitingIsGood
<1>5. CallsInv'
  BY <1>4 DEF CallsInv
<1>6. Typed' /\ OneRuns' /\ HistoriesOK'
  BY <1>1, <1>3, EditsAssumption DEF Inv, Typed, OneRuns, Running, HistoriesOK
<1> QED
  BY <1>5, <1>6 DEF Inv

LEMMA AskGood ==
  ASSUME Inv, NEW a \in Agents, NEW tool \in AllTools, NEW p \in Parts \cup {AtSession}, NEW t \in Texts, Ask(a, tool, p, t)
  PROVE  Inv'
<1> DEFINE c2 == [NoCall EXCEPT !.at = "asked", !.tool = tool, !.part = p, !.text = t]
<1>1. /\ call[a].at = "idle" /\ calls < MaxCalls /\ calls' = calls + 1 /\ (tool = "edit_part" \/ p # AtSession)
      /\ UNCHANGED <<screen, disk, history, keeps, acts, failures>> /\ call' = [call EXCEPT ![a] = c2]
  BY DEF Ask
<1>2. c2 \in CallTypes /\ c2.at = "asked" /\ c2.tool = tool /\ c2.part = p /\ c2.text = t
  <2>1. NoCall \in CallTypes
    BY NoCallIsGood DEF Good
  <2> QED
    BY <2>1 DEF CallTypes, Steps
<1> HIDE DEF c2
<1>3. Good(c2, screen, disk, history)
  BY <1>1, <1>2 DEF Good, Holds, Keeps, Edits, ToFile, ToScreen
<1>4. call' \in [Agents -> CallTypes] /\ \A b \in Agents : call'[b] = IF b = a THEN c2 ELSE call[b]
  BY <1>1, <1>2 DEF Inv, Typed
<1>5. ASSUME NEW b \in Agents PROVE Good(call'[b], screen', disk', history')
  BY <1>1, <1>3, <1>4, TheCall
<1>6. CallsInv' /\ OneRuns'
  BY <1>2, <1>4, <1>5 DEF CallsInv, OneRuns, Running, Inv
<1>7. Typed' /\ HistoriesOK'
  BY <1>1, <1>4, EditsAssumption DEF Inv, Typed, HistoriesOK
<1> QED
  BY <1>6, <1>7 DEF Inv

LEMMA InvInit ==
  ASSUME InTab, Init
  PROVE  Inv
<1>1. screen \in Docs /\ NoCall \in CallTypes
  BY NoCallIsGood DEF Init, NoDoc, Docs, Good
<1>2. Typed /\ CallsInv /\ OneRuns
  <2>1. \A a \in Agents : call[a] = NoCall
    BY DEF Init
  <2>2. CallsInv
    BY <2>1, NoCallIsGood DEF CallsInv
  <2>3. OneRuns
    BY <2>1 DEF OneRuns, Running, NoCall
  <2>4. Typed
    BY <1>1, EditsAssumption DEF Init, Typed, NoDoc
  <2> QED
    BY <2>2, <2>3, <2>4
<1>3. HistoryOK({}, 0) /\ Cardinality({}) <= HistoryKept + 0
  BY FS_EmptySet, EditsAssumption DEF HistoryOK
<1> QED
  BY <1>2, <1>3 DEF Init, Inv, HistoriesOK

LEMMA InvStep ==
  ASSUME Inv, InTab, [Next]_vars
  PROVE  Inv'
<1>1. CASE UserStep
  BY <1>1, UserGood
<1>2. ASSUME NEW a \in Agents, CallStep(a) PROVE Inv'
  BY <1>2, EditResolvesGood, EditLooksGood, EditBuildsGood, AskedGood, SnapshotGood, SnapshotMissesGood, WriteGood, WriteFailsGood,
     KeepScreenGood, ListedGood, KeptGood, KeepFailsGood, SetScriptGood, OpenProjectGood, RestoreReadsGood, RestoreOpensGood DEF CallStep
<1>3. ASSUME NEW a \in Agents, NEW tool \in AllTools, NEW p \in Parts \cup {AtSession}, NEW t \in Texts, Ask(a, tool, p, t)
      PROVE Inv'
  BY <1>3, AskGood
<1>4. CASE UNCHANGED vars
  <2>1. UNCHANGED <<screen, disk, history, keeps, call, calls, acts, failures>>
    BY <1>4 DEF vars
  <2>2. ASSUME NEW a \in Agents PROVE Good(call'[a], screen', disk', history')
    BY <2>1, TheCall
  <2> QED
    BY <2>1, <2>2 DEF Inv, Typed, OneRuns, Running, CallsInv, HistoriesOK
<1> QED
  BY <1>1, <1>2, <1>3, <1>4 DEF Next

(* A host in a tab runs one call at a time; the call that runs has read what is there, and keeps what it   *)
(* replaces; and the histories are in order (page.rs, mcp.rs, projects.rs).                                *)
THEOREM InATab == ASSUME InTab PROVE Spec => []Inv
<1>1. Init => Inv
  BY InvInit
<1>2. Inv /\ [Next]_vars => Inv'
  BY InvStep
<1> QED
  BY <1>1, <1>2, PTL DEF Spec

-----------------------------------------------------------------------------
(* What the run checks *)

(* What a call puts over the text on the screen or in a part's file, be it half written, is put there     *)
(* when that is in the part's history, or keeping just that failed (mcp.rs keep_screen, projects.rs         *)
(* snapshot).                                                                                               *)
THEOREM NothingIsLost == ASSUME InTab PROVE Spec => KeepsWhatItReplaces
<1> DEFINE OnScreen == \A a \in Agents : SetScript(a) /\ screen' # screen /\ screen.script # NoText =>
                          call[a].unkept \/ IsKept(screen)
           InFile == \A a \in Agents : (Write(a) \/ WriteFails(a)) /\ disk' # disk /\ disk[call[a].part] # NoText =>
                        call[a].unkept \/ IsKept([name |-> call[a].part, script |-> disk[call[a].part]])
<1>1. ASSUME Inv PROVE OnScreen
  <2> SUFFICES ASSUME NEW a \in Agents, SetScript(a), screen' # screen, screen.script # NoText, ~ call[a].unkept
               PROVE  IsKept(screen)
    OBVIOUS
  <2>1. call[a].at = "set" /\ screen' = Put(call[a].text) /\ screen \in Docs
    BY <1>1 DEF SetScript, At, Inv, Typed
  <2>2. screen.name = NoPart \/ screen.script = call[a].text \/ Has(history, screen)
    BY <1>1, <2>1, TheCall DEF Good, Keeps
  <2>3. screen.name # NoPart
    BY <2>1 DEF Put
  <2>4. screen.script # call[a].text
    BY <2>1, <2>3 DEF Put, Docs
  <2> QED
    BY <2>2, <2>3, <2>4 DEF IsKept, Has
<1>2. ASSUME Inv PROVE InFile
  <2> SUFFICES ASSUME NEW a \in Agents, Write(a) \/ WriteFails(a), disk[call[a].part] # NoText, ~ call[a].unkept
               PROVE  IsKept([name |-> call[a].part, script |-> disk[call[a].part]])
    OBVIOUS
  <2>1. Has(history, OfPart(call[a], disk))
    BY <1>2, TheCall DEF Write, WriteFails, At, Good, Keeps
  <2> QED
    BY <2>1 DEF IsKept, Has, OfPart
<1>3. Inv => OnScreen /\ InFile
  BY <1>1, <1>2
<1> HIDE DEF OnScreen, InFile
<1>4. Spec => [][OnScreen]_vars /\ [][InFile]_vars
  BY <1>3, InATab, PTL
<1> QED
  BY <1>4 DEF KeepsWhatItReplaces, ScreenIsKept, FileIsKept, OnScreen, InFile

(* An edit replaces the very text it was made of, where it read it: nothing came between, though the      *)
(* kernel may have been waited for (mcp.rs edit_part, page.rs).                                            *)
THEOREM EditsLandOnWhatTheyRead == ASSUME InTab PROVE Spec => EditsWhatItRead
<1> DEFINE Lands == \A a \in Agents : call[a].tool = "edit_part" =>
                      /\ Write(a) \/ WriteFails(a) => disk[call[a].part] = call[a].made.script
                      /\ SetScript(a) => screen = call[a].made
<1>1. ASSUME Inv PROVE Lands
  <2> SUFFICES ASSUME NEW a \in Agents, call[a].tool = "edit_part"
               PROVE  /\ Write(a) \/ WriteFails(a) => disk[call[a].part] = call[a].made.script
                      /\ SetScript(a) => screen = call[a].made
    OBVIOUS
  <2>1. Holds(call[a], history) /\ Edits(call[a], screen, disk)
    BY <1>1, TheCall DEF Good
  <2>2. ASSUME Write(a) \/ WriteFails(a) PROVE disk[call[a].part] = call[a].made.script
    <3>1. call[a].made = OfPart(call[a], disk)
      BY <2>1, <2>2 DEF Write, WriteFails, At, Holds, Edits, ToFile
    <3> QED
      BY <3>1 DEF OfPart
  <2>3. ASSUME SetScript(a) PROVE screen = call[a].made
    BY <2>1, <2>3 DEF SetScript, At, Edits, ToScreen
  <2> QED
    BY <2>2, <2>3
<1>2. Inv => Lands
  BY <1>1
<1> HIDE DEF Lands
<1>3. Spec => [][Lands]_vars
  BY <1>2, InATab, PTL
<1> QED
  BY <1>3 DEF EditsWhatItRead, Lands

(* The history of a part is its newest versions and no more of them, in the order they were kept in,        *)
(* whatever the clock says (projects.rs keep).                                                              *)
THEOREM HistoryIsTheNewest == ASSUME InTab PROVE Spec => HistoryKeepsNewest
<1> DEFINE Stay == \A p \in Parts : \A v \in history[p] \ history'[p] :
                     Cardinality({u \in history'[p] : u.nth > v.nth}) >= HistoryKept
<1>1. ASSUME Inv PROVE TypeOK /\ NewestIsLast /\ HistoryBounded
  <2>1. NewestIsLast /\ HistoryBounded /\ \A p \in Parts : \A v \in history[p] : v \in Versions
    BY <1>1 DEF Inv, HistoriesOK, HistoryOK, NewestIsLast, HistoryBounded
  <2>2. ASSUME NEW a \in Agents
        PROVE  call[a] \in [at : Steps, tool : AllTools \cup {"none"}, part : Parts \cup {NoPart, AtSession},
                 text : Texts \cup {NoText}, made : Docs, shows : BOOLEAN, unkept : BOOLEAN,
                 keeping : Docs, listing : {call[a].listing}, next : Steps]
    BY <1>1, TheCall DEF CallTypes
  <2>3. DOMAIN call = Agents
    BY <1>1 DEF Inv, Typed
  <2> QED
    BY <1>1, <2>1, <2>2, <2>3 DEF TypeOK, Inv, Typed
<1>2. ASSUME Inv, [Next]_vars PROVE Stay
  <2>1. CASE UNCHANGED history
    BY <2>1
  <2>2. ASSUME NEW a \in Agents, Kept(a) PROVE Stay
    <3> DEFINE d == call[a].keeping
    <3>1. PICK now \in Nat : /\ d.name \in Parts /\ d.script \in Texts /\ HistoryOK(history[d.name], keeps)
                             /\ history' = [history EXCEPT ![d.name] = With(@, now, d.script, keeps)]
      BY <1>2, <2>2, KeptIs
    <3>2. keeps \in Nat /\ DOMAIN history = Parts
      BY <1>2 DEF Inv, Typed
    <3>3. \A v \in history[d.name] \ history'[d.name] : Cardinality(Younger(history'[d.name], v)) >= HistoryKept
      <4>1. history'[d.name] = With(history[d.name], now, d.script, keeps)
        BY <3>1, <3>2
      <4> QED
        BY <3>1, <3>2, <4>1, WithIs
    <3>4. \A p \in Parts \ {d.name} : history'[p] = history[p]
      BY <3>1, <3>2
    <3> QED
      BY <3>3, <3>4 DEF Younger
  <2>3. ASSUME NEW a \in Agents, KeepFails(a) PROVE Stay
    BY <1>2, <2>3, KeepFailsIs
  <2>4. UNCHANGED history \/ \E a \in Agents : Kept(a) \/ KeepFails(a)
    BY <1>2 DEF Next, vars, UserStep, UserSaves, UserTypes, UserOpens, Acts, Ask, CallStep, EditResolves, EditLooks, EditFails,
       EditPauses, EditBuilds, SaveProject, Snapshot, SnapshotMisses, Write, WriteFails, SetScriptAsked, KeepScreen, Listed, SetScript, OpenProject,
       RestoreReads, RestoreOpens
  <2> QED
    BY <2>1, <2>2, <2>3, <2>4
<1> HIDE DEF Stay
<1>3. Spec => []Inv /\ [][Next]_vars
  BY InATab, PTL DEF Spec
<1>4. Spec => [][Stay]_vars /\ [](TypeOK /\ NewestIsLast /\ HistoryBounded)
  BY <1>1, <1>2, <1>3, PTL
<1> QED
  BY <1>4 DEF HistoryKeepsNewest, NewestStay, Stay
=============================================================================
