---------------------------- MODULE ScriptCache -----------------------------
(***************************************************************************)
(* The results of scripts that a host keeps (crates/parcad-host/src/       *)
(* script.rs, build_within and Cache): by account and source, with every   *)
(* saved part the script imported and what it read, each part read again   *)
(* before the result is handed out.  Parts are saved meanwhile.  A result  *)
(* is what it was made from, so that a wrong one shows.                    *)
(***************************************************************************)
EXTENDS Integers, Sequences, FiniteSets, SequencesExt

CONSTANTS
    Calls,       \* calls that build a script
    Account,     \* per call: whose it is
    Scripts,     \* which scripts the calls may build, each a function of the calls
    Parts,       \* saved parts that may be imported
    Wants(_, _), \* the part a script imports next, after what it has read, or None
    Impure,      \* scripts that read the clock or Math.random
    Costly,      \* scripts that go over their budget, once they have imported
    Weight,      \* per script: the bytes of its result
    CacheBytes,  \* CACHE_BYTES
    None,        \* no part, no call
    MaxSaves     \* bound: saves of parts

VARIABLES
    script,   \* per call: the script it builds
    at,       \* per call: "begin", "check", "run", "insert", "end"
    checked,  \* per call: the parts of the entry that still read the same
    reads,    \* per call: the parts its run has read, with what was read
    got,      \* per call: its result
    during,   \* per call: what the parts of its account were at any time in it
    lock,     \* who holds CACHE
    entries,  \* Cache.entries
    order,    \* Cache.order, the oldest first
    weight,   \* Cache.weight
    files,    \* per account and part: what is saved, one of two texts
    saves     \* how many saves there were
vars == <<script, at, checked, reads, got, during, lock, entries, order, weight, files, saves>>

Owners == {Account[c] : c \in Calls}

Key(c) == <<Account[c], script[c]>>
Result(c, end) == [account |-> Account[c], source |-> script[c], reads |-> reads[c], end |-> end, run |-> c]

File(c, part) == files[Account[c]][part]
Goes(c, where) == at' = [at EXCEPT ![c] = where]

(* Cache::remove; the order has a key once (TypeOK). *)
Without(key) ==
    /\ entries' = [k \in DOMAIN entries \ {key} |-> entries[k]]
    /\ order' = RemoveFirst(order, key)

Lighter(key) == weight - entries[key].weight

------------------------------------------------------------------------------
(* get: under the lock, which a save does not take *)

Begin(c) ==
    /\ at[c] = "begin" /\ lock = None
    /\ during' = [during EXCEPT ![c] = {<<part, File(c, part)>> : part \in Parts}]
    /\ IF Key(c) \in DOMAIN entries
       THEN Goes(c, "check") /\ lock' = c
       ELSE Goes(c, "run") /\ UNCHANGED lock
    /\ UNCHANGED <<checked, reads, got, entries, order, weight, files, script, saves>>

Read(c) == entries[Key(c)].result.reads[checked[c] + 1]

(* Mutant of Same: a part that was there is not read again. *)
Known(c) == TRUE

Same(c) == File(c, Read(c)[1]) = Read(c)[2]

(* One part of the entry is read again; one that differs drops the entry. *)
Check(c) ==
    /\ at[c] = "check" /\ checked[c] < Len(entries[Key(c)].result.reads)
    /\ \/ /\ Same(c)
          /\ checked' = [checked EXCEPT ![c] = @ + 1]
          /\ UNCHANGED <<at, lock, entries, order, weight>>
       \/ /\ ~Same(c)
          /\ Without(Key(c)) /\ weight' = Lighter(Key(c))
          /\ lock' = None /\ Goes(c, "run")
          /\ UNCHANGED checked
    /\ UNCHANGED <<reads, got, during, files, script, saves>>

(* A hit is the newest entry of the order. *)
Hit(c) ==
    /\ at[c] = "check" /\ checked[c] = Len(entries[Key(c)].result.reads)
    /\ got' = [got EXCEPT ![c] = entries[Key(c)].result]
    /\ order' = Append(RemoveFirst(order, Key(c)), Key(c))
    /\ lock' = None /\ Goes(c, "end")
    /\ UNCHANGED <<checked, reads, during, entries, weight, files, script, saves>>

------------------------------------------------------------------------------
(* run, without the lock *)

Noted(c, part) == Append(reads[c], <<part, File(c, part)>>)

Import(c) ==
    /\ at[c] = "run"
    /\ LET part == Wants(script[c], reads[c])
       IN  part # None /\ reads' = [reads EXCEPT ![c] = Noted(c, part)]
    /\ UNCHANGED <<at, checked, got, during, lock, entries, order, weight, files, script, saves>>

(* Mutant of Cacheable: what a script read from the clock is kept. *)
UnlessCut(c, end) == end # "cut"

Cacheable(c, end) == script[c] \notin Impure /\ end # "cut"

(* The script ends: with an answer or over its budget, which is the script's; or cut by the clock, or
   before it was started, which is not. *)
Finish(c, end) ==
    /\ at[c] = "run"
    /\ end # "cut" => Wants(script[c], reads[c]) = None
    /\ end = "budget" <=> end # "cut" /\ script[c] \in Costly
    /\ got' = [got EXCEPT ![c] = Result(c, end)]
    /\ Goes(c, IF Cacheable(c, end) THEN "insert" ELSE "end")
    /\ UNCHANGED <<checked, reads, during, lock, entries, order, weight, files, script, saves>>

Heavy(keys) == MapThenSumSet(LAMBDA k : entries[k].weight, keys)
Oldest(k) == ToSet(SubSeq(order, 1, k))

(* How many of the oldest entries go so that one of this weight fits. *)
Evicted(adds) == Min({k \in 0..Len(order) : weight - Heavy(Oldest(k)) + adds <= CacheBytes \/ k = Len(order)})

(* insert: a key that is there stays as it is, whatever was computed meanwhile. *)
Insert(c) ==
    /\ at[c] = "insert" /\ lock = None
    /\ LET key  == Key(c)
           adds == Weight[script[c]]
           k    == Evicted(adds)
           kept == DOMAIN entries \ Oldest(k)
       IN  IF adds > CacheBytes \/ key \in DOMAIN entries THEN UNCHANGED <<entries, order, weight>>
           ELSE /\ entries' = [x \in kept \union {key} |-> IF x = key THEN [result |-> got[c], weight |-> adds] ELSE entries[x]]
                /\ order' = Append(SubSeq(order, k + 1, Len(order)), key)
                /\ weight' = weight - Heavy(Oldest(k)) + adds
    /\ Goes(c, "end")
    /\ UNCHANGED <<checked, reads, got, during, lock, files, script, saves>>

(* Someone saves a part, or deletes it. *)
Save(account, part) ==
    /\ saves < MaxSaves /\ saves' = saves + 1
    /\ files' = [files EXCEPT ![account][part] = 1 - @]
    /\ during' = [c \in Calls |-> IF Account[c] = account /\ at[c] \notin {"begin", "end"}
                                  THEN during[c] \union {<<part, 1 - files[account][part]>>} ELSE during[c]]
    /\ UNCHANGED <<script, at, checked, reads, got, lock, entries, order, weight>>

Init ==
    /\ at = [c \in Calls |-> "begin"] /\ checked = [c \in Calls |-> 0]
    /\ reads = [c \in Calls |-> <<>>] /\ got = [c \in Calls |-> [end |-> "none"]] /\ during = [c \in Calls |-> {}]
    /\ lock = None /\ entries = <<>> /\ order = <<>> /\ weight = 0
    /\ files = [a \in Owners |-> [p \in Parts |-> 0]]
    /\ script \in Scripts /\ saves = 0

Next ==
    \/ \E c \in Calls : Begin(c) \/ Check(c) \/ Hit(c) \/ Import(c) \/ Insert(c)
    \/ \E c \in Calls, end \in {"answer", "budget", "cut"} : Finish(c, end)
    \/ \E a \in Owners, p \in Parts : Save(a, p)

Spec == Init /\ [][Next]_vars

------------------------------------------------------------------------------
(* Properties *)

Ended(c) == at[c] = "end"

(* Every variable has its type, the order lists each entry once, and the weight is theirs and within
   the limit: what leaves the cache leaves its count too, or the cache ends up keeping nothing. *)
TypeOK ==
    /\ at \in [Calls -> {"begin", "check", "run", "insert", "end"}]
    /\ lock \in Calls \union {None}
    /\ script \in Scripts /\ saves \in 0..MaxSaves
    /\ ToSet(order) = DOMAIN entries /\ Len(order) = Cardinality(DOMAIN entries)
    /\ weight = Heavy(DOMAIN entries) /\ weight <= CacheBytes

(* A call is answered with a result of its own account's script, made of what each part it imports
   really was, in that account, at some time during the call: a save before the call is always seen
   (script.rs Cache::get). *)
ReadsThisCall ==
    \A c \in Calls : Ended(c) =>
        /\ got[c].account = Account[c] /\ got[c].source = script[c]
        /\ ToSet(got[c].reads) \subseteq during[c]

(* A kept result is of a whole run: it has every import the script made, in their order, so none can
   change unseen (script.rs Meter.parts). *)
ReadsAreWhole ==
    \A key \in DOMAIN entries :
        LET r == entries[key].result
        IN  /\ Wants(r.source, r.reads) = None
            /\ \A i \in DOMAIN r.reads : Wants(r.source, SubSeq(r.reads, 1, i - 1)) = r.reads[i][1]

(* What the clock decided, or a script that read the clock, is given to the call it happened to and to
   no other (script.rs Meter.cacheable). *)
ChanceIsNotKept ==
    \A c \in Calls : Ended(c) /\ (got[c].end = "cut" \/ got[c].source \in Impure) => got[c].run = c
(* What is kept can be everyone's answer, and is counted. *)
KeptResults == TypeOK /\ ReadsAreWhole /\ ChanceIsNotKept
=============================================================================
