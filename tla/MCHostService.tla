---- MODULE MCHostService ----
(* Five parts of the host that share no state: the gates and the kept builds, the windows' reports, the
   folder, the kept results of scripts, and the host of a browser tab, which is another process.  No step
   of one can enable, disable or observe a step of another, so one of them moves in a behaviour: their
   product would show nothing more. *)
EXTENDS BuildGates

CONSTANTS Windows, MaxRevision, MaxReports
VARIABLES revision, shows, closed, posts, leaving, viewers, wait, told
S == INSTANCE ShownReports
ASSUME ReportsBounds == MaxRevision \in Nat /\ MaxReports \in Nat
reportVars == <<revision, shows, closed, posts, leaving, viewers, wait, told>>

CONSTANTS Paths, Releases, Earlier, MaxOps, MaxStops, MaxFailed
VARIABLES loose, bundle, trash, seeded, ships, op, asked, stops, failed, owed, cut, hurt, torn, arrived, gone
F == INSTANCE PartFolder
ASSUME FolderAssumption ==
    /\ Earlier \subseteq Paths /\ Releases \subseteq Seq(Paths)
    /\ MaxOps \in Nat /\ MaxStops \in Nat /\ MaxFailed \in Nat
folderVars == <<loose, bundle, trash, seeded, ships, op, asked, stops, failed, owed, cut, hurt, torn, arrived, gone>>

CONSTANTS TabCalls, TabPlan, TabSaves, Cached, KernelRounds, AnswersKept, MaxTrouble
VARIABLES phase, ticket, rounds, why, host, again, kernelQ, hears, disk, trouble
T == INSTANCE PageHost WITH Calls <- TabCalls, Plan <- TabPlan, Saves <- TabSaves
ASSUME TabAssumption ==
    /\ IsFiniteSet(TabCalls) /\ TabPlan \in [TabCalls -> Seq(T!Keys)] /\ "-" \notin T!Keys
    /\ {KernelRounds, AnswersKept, MaxTrouble} \subseteq Nat
tabVars == <<phase, ticket, rounds, why, host, again, kernelQ, hears, disk, trouble>>

CONSTANTS ScriptCalls, ImportedParts, Impure, Costly, CacheBytes, MaxSaves
VARIABLES script, runs, checked, reads, results, during, lock, entries, order, weight, files, saves
(* The case imports a screw, and then a screw again or, if that was changed, a nut. *)
MCWants(source, made) == CASE source \in {"clock", "case"} /\ made = <<>> -> "screw"
                           [] source = "case" /\ Len(made) = 1 -> IF made[1][2] = 1 THEN "nut" ELSE "screw"
                           [] OTHER -> "none"
MCAccount == [c \in ScriptCalls |-> IF c = "d" THEN "B" ELSE "A"]
MCScripts == {[c \in ScriptCalls |-> "case"],
              [c \in ScriptCalls |-> IF c = "d" THEN "case" ELSE "clock"],
              [c \in ScriptCalls |-> IF c = "b" THEN "case" ELSE "heavy"]}
(* Of two results that may be kept, one fits. *)
MCWeight == [s \in {"case", "clock", "heavy"} |-> IF s = "heavy" THEN CacheBytes + 1 ELSE CacheBytes - 1]
C == INSTANCE ScriptCache WITH Calls <- ScriptCalls, Account <- MCAccount, Scripts <- MCScripts, Parts <- ImportedParts,
                               Wants <- MCWants, Weight <- MCWeight, None <- "none", at <- runs, got <- results
ASSUME ScriptsAssumption ==
    {"screw", "nut"} \subseteq ImportedParts /\ "none" \notin ScriptCalls /\ CacheBytes \in Nat \ {0} /\ MaxSaves \in Nat
scriptVars == <<script, runs, checked, reads, results, during, lock, entries, order, weight, files, saves>>

VARIABLE part

(* Two accounts: one evaluates a graph and exports it, the other has a graph of the same text. *)
MCOf == [c \in Calls |-> IF c = "other" THEN "B" ELSE "A"]
MCGraph == [c \in Calls |-> "g1"]
MCCap == [g \in Gates |-> IF g = "A" THEN 2 ELSE 1]
(* The next version ships one more. *)
MCReleases == {<<"a">>, <<"a", "b">>}
(* A part with two checks, the same part again, and a save, which asks the kernel for nothing. *)
MCTabPlan == [c \in TabCalls |-> CASE c = "a" -> <<"build", "wall1", "wall2", "print">>
                                   [] c = "b" -> <<"build", "wall1">>
                                   [] OTHER -> <<>>]

HostInit ==
    /\ Init /\ S!Init /\ F!Init /\ T!Init /\ C!Init
    /\ part \in {"gates", "reports", "folder", "scripts", "tab"}
    /\ part = "folder" \/ ships = <<"a">>
    /\ part = "scripts" \/ script = [c \in ScriptCalls |-> "case"]
HostNext ==
    /\ UNCHANGED part
    /\ \/ part = "gates" /\ Next /\ UNCHANGED <<reportVars, folderVars, scriptVars, tabVars>>
       \/ part = "reports" /\ S!Next /\ UNCHANGED <<vars, folderVars, scriptVars, tabVars>>
       \/ part = "folder" /\ F!Next /\ UNCHANGED <<vars, reportVars, scriptVars, tabVars>>
       \/ part = "scripts" /\ C!Next /\ UNCHANGED <<vars, reportVars, folderVars, tabVars>>
       \/ part = "tab" /\ T!Next /\ UNCHANGED <<vars, reportVars, folderVars, scriptVars>>
(* Nothing that is fair is enabled in the parts that do not move. *)
HostSpec == HostInit /\ [][HostNext]_<<vars, reportVars, folderVars, scriptVars, tabVars, part>> /\ S!Fairness /\ T!Fairness

(* The host's record of its windows is true, and no wait misses a report. *)
ReportsStand == S!ReportsStand
(* A wait ends once its revision is shown, and the record comes back to what is shown. *)
ReportsSettle == S!ReportsSettle

(* No script is lost but one whose save was cut, and no part is broken but one that was being written. *)
FolderStands == F!FolderStands
(* A shipped part that was deleted or moved stays so while the record is whole. *)
DeletedStaysDeleted == F!DeletedStaysDeleted

(* What is kept is of whole runs, is no chance, and is counted. *)
KeptResults == C!KeptResults
(* A script's result is of what its parts were during the call. *)
ReadsThisCall == C!ReadsThisCall

(* The kernel is asked for a thing once at a time, and every ticket waited on is asked for. *)
TicketsStand == T!TicketsStand
(* Every call made of the tab's host ends. *)
CallsEnd == T!CallsEnd
(* A saved part reaches the browser's store, unless its host is ended first, and stays there. *)
SavesLast == T!SavesLast
====
