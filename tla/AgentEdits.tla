----------------------------- MODULE AgentEdits -----------------------------
(***************************************************************************)
(* What the tools of mcp.rs that change a part do to the three places its  *)
(* text lives in: the screen (session.rs), the file (projects.rs: write)   *)
(* and the history (projects.rs: keep), while the user types, saves and    *)
(* opens parts. A native host runs every call on a thread of its own, and  *)
(* each of its reads and writes is a step. A host in a tab (page.rs) has   *)
(* one thread: a call is not interleaved with anything, and one that needs *)
(* the kernel is run again from its start when the answer is there. A read *)
(* or a write of a file may fail, and a write that fails may leave the     *)
(* start of its text: some other text.                                     *)
(***************************************************************************)
EXTENDS Integers, FiniteSets

CONSTANTS
  Agents,        \* calls that can be in progress together
  Parts, NoPart,
  Texts, NoText, \* the text of a part without a file, and of an empty screen
  AtSession,     \* service::SESSION, "@session"
  InTab,         \* page::active()
  UserWaits,     \* the user does nothing while a call is in progress
  Times,         \* what the clock can say, in any order
  HistoryKept,   \* HISTORY_KEPT
  Tools,         \* the tools that are called
  MaxCalls,      \* bound: calls together
  MaxActs,       \* bound: things the user does
  MaxFailures    \* bound: reads and writes of a call that fail

AllTools == {"edit_part", "save_project", "set_script", "open_project", "restore_snapshot"}

ASSUME EditsAssumption ==
  /\ NoPart \notin Parts /\ NoText \notin Texts /\ AtSession \notin Parts \cup {NoPart}
  /\ InTab \in BOOLEAN /\ UserWaits \in BOOLEAN
  /\ Times \subseteq Nat /\ HistoryKept \in Nat \ {0, 1}
  /\ Tools \subseteq AllTools /\ MaxCalls \in Nat /\ MaxActs \in Nat /\ MaxFailures \in Nat

VARIABLES
  screen,   \* the Session: a name and a script
  disk,     \* part.js of every part
  history,  \* .history/<part>/<id>.js, and the how manieth version each was
  keeps,    \* versions kept so far
  call,     \* where a call is and what it holds
  calls, acts, failures  \* what was spent of the bounds

vars == <<screen, disk, history, keeps, call, calls, acts, failures>>

Docs     == [name : Parts \cup {NoPart}, script : Texts \cup {NoText}]
Versions == [id : Nat, text : Texts, nth : Nat]
Steps    == {"idle", "asked", "resolved", "looked", "snapshot", "list", "keep", "write", "screen", "set", "reopen"}

(* `part` is the argument and `text` the one to put. `made` is the document *)
(* the text was made from, `keeping` the one being kept, `listing` the      *)
(* versions it was compared with, `next` the step after it is kept;         *)
(* `shows` says that the text goes to the screen, `unkept` that keeping     *)
(* what it is about to replace has failed.                                  *)
NoDoc  == [name |-> NoPart, script |-> NoText]
NoCall == [at |-> "idle", tool |-> "none", part |-> NoPart, text |-> NoText, made |-> NoDoc,
           shows |-> FALSE, unkept |-> FALSE, keeping |-> NoDoc, listing |-> {}, next |-> "idle"]
Running(a) == call[a].at \notin {"idle", "asked"}
Turn(a) == InTab => \A b \in Agents \ {a} : ~Running(b)

UserTurn == /\ InTab => \A a \in Agents : ~Running(a)
            /\ UserWaits => \A a \in Agents : call[a].at = "idle"

At(a, step) == call[a].at = step /\ Turn(a)
Moves(a, c) == call' = [call EXCEPT ![a] = c] /\ UNCHANGED <<calls, acts>>
Goes(a, c) == Moves(a, c) /\ UNCHANGED failures
Fails(a, c) == Moves(a, c) /\ failures < MaxFailures /\ failures' = failures + 1
Returns(a) == Goes(a, NoCall)

-----------------------------------------------------------------------------
(* projects.rs: the history of a part. *)

Newest(versions) == CHOOSE v \in versions : \A u \in versions : u.id <= v.id

(* kept.skip(HISTORY_KEPT - 1), newest first. *)
Excess(versions) == {v \in versions : Cardinality({u \in versions : u.id > v.id}) >= HistoryKept - 1}

(* Mutant of IdAt: the time, whatever the newest version is called. *)
IdByClock(now, versions) == now
IdAt(now, versions) ==
  IF versions # {} /\ Newest(versions).id >= now THEN Newest(versions).id + 1 ELSE now

(* keep(d.name, d.script), and then `step`. *)
Keep(c, d, step) == [c EXCEPT !.at = "list", !.keeping = d, !.next = step, !.unkept = FALSE]

(* The newest version is not kept twice. *)
Listed(a) ==
  LET c == call[a]
      versions == history[c.keeping.name]
  IN  /\ At(a, "list")
      /\ IF versions # {} /\ Newest(versions).text = c.keeping.script
           THEN Goes(a, [c EXCEPT !.at = c.next])
           ELSE Goes(a, [c EXCEPT !.at = "keep", !.listing = versions])
      /\ UNCHANGED <<screen, disk, history, keeps>>

Kept(a) ==
  LET c == call[a]
  IN  /\ At(a, "keep")
      /\ \E now \in Times :
           LET new  == [id |-> IdAt(now, c.listing), text |-> c.keeping.script, nth |-> keeps + 1]
               gone == {v.id : v \in Excess(c.listing)} \cup {new.id}
           IN  history' = [history EXCEPT ![c.keeping.name] = {v \in @ : v.id \notin gone} \cup {new}]
      /\ keeps' = keeps + 1
      /\ Goes(a, [c EXCEPT !.at = c.next])
      /\ UNCHANGED <<screen, disk>>

(* It cannot be written, or not to its end, and then nothing is trimmed.   *)
(* snapshot(..)? ends the call; keep_screen goes on without.               *)
KeepFails(a) ==
  LET c == call[a]
  IN  /\ At(a, "keep")
      /\ \/ UNCHANGED <<history, keeps>>
         \/ /\ \E now \in Times, t \in Texts :
                 LET torn == [id |-> IdAt(now, c.listing), text |-> t, nth |-> keeps + 1]
                 IN  history' = [history EXCEPT ![c.keeping.name] = {v \in @ : v.id # torn.id} \cup {torn}]
            /\ keeps' = keeps + 1
      /\ Fails(a, IF c.next = "set" THEN [c EXCEPT !.at = "set", !.unkept = TRUE] ELSE NoCall)
      /\ UNCHANGED <<screen, disk>>

-----------------------------------------------------------------------------
(* The tools of mcp.rs. *)

Ask(a, tool, p, t) ==
  /\ call[a].at = "idle" /\ calls < MaxCalls /\ tool \in Tools
  /\ (tool = "edit_part") \/ p # AtSession
  /\ calls' = calls + 1
  /\ call' = [call EXCEPT ![a] = [NoCall EXCEPT !.at = "asked", !.tool = tool, !.part = p, !.text = t]]
  /\ UNCHANGED <<screen, disk, history, keeps, acts, failures>>

Asked(a, tool) == At(a, "asked") /\ call[a].tool = tool

(* edit_part: resolve_script reads the text the edits apply to, which the  *)
(* caller's expect_sha256 says it knows; @session needs one on screen.     *)
EditResolves(a) ==
  /\ Asked(a, "edit_part")
  /\ LET p == call[a].part
         read == IF p = AtSession THEN screen ELSE [name |-> p, script |-> disk[p]]
     IN  IF read.name = NoPart \/ read.script = NoText
           THEN Returns(a)
           ELSE Goes(a, [call[a] EXCEPT !.at = "resolved", !.made = read])
  /\ UNCHANGED <<screen, disk, history, keeps>>

(* Mutant of EditLooks: a part is written whatever is on screen. *)
EditLooksAway(a) ==
  /\ At(a, "resolved")
  /\ Goes(a, [call[a] EXCEPT !.at = "looked", !.shows = call[a].part \in {screen.name, AtSession}])
  /\ UNCHANGED <<screen, disk, history, keeps>>

(* A part that is on screen with another text than its file is refused. *)
EditLooks(a) ==
  /\ At(a, "resolved")
  /\ LET c == call[a]
         openHere == c.part # AtSession /\ screen.name = c.part
     IN  IF openHere /\ screen.script # c.made.script
           THEN Returns(a)
           ELSE Goes(a, [c EXCEPT !.at = "looked", !.shows = openHere \/ c.part = AtSession])
  /\ UNCHANGED <<screen, disk, history, keeps>>

(* measure, and the door: the part is built, which takes its time. It may  *)
(* be refused; in a tab the pass may end here, to be run again.            *)
EditFails(a) == At(a, "looked") /\ Returns(a) /\ UNCHANGED <<screen, disk, history, keeps>>

EditPauses(a) ==
  /\ InTab /\ At(a, "looked")
  /\ Goes(a, [NoCall EXCEPT !.at = "asked", !.tool = call[a].tool, !.part = call[a].part, !.text = call[a].text])
  /\ UNCHANGED <<screen, disk, history, keeps>>

EditBuilds(a) ==
  /\ At(a, "looked")
  /\ Goes(a, [call[a] EXCEPT !.at = IF call[a].part = AtSession THEN "screen" ELSE "snapshot"])
  /\ UNCHANGED <<screen, disk, history, keeps>>

SaveProject(a) ==
  /\ Asked(a, "save_project")
  /\ Goes(a, [call[a] EXCEPT !.at = "snapshot"])
  /\ UNCHANGED <<screen, disk, history, keeps>>

OnDisk(c) == [name |-> c.part, script |-> disk[c.part]]

(* projects::snapshot: what the file says, if there is one. *)
Snapshot(a) ==
  /\ At(a, "snapshot")
  /\ LET c == call[a]
     IN  IF disk[c.part] = NoText
           THEN Goes(a, [c EXCEPT !.at = "write"])
           ELSE Goes(a, Keep(c, OnDisk(c), "write"))
  /\ UNCHANGED <<screen, disk, history, keeps>>

(* What cannot be read counts as nothing to keep.                          *)
SnapshotMisses(a) ==
  /\ At(a, "snapshot") /\ disk[call[a].part] # NoText
  /\ Fails(a, [call[a] EXCEPT !.at = "write", !.unkept = TRUE])
  /\ UNCHANGED <<screen, disk, history, keeps>>

Write(a) ==
  /\ At(a, "write")
  /\ disk' = [disk EXCEPT ![call[a].part] = call[a].text]
  /\ IF call[a].shows THEN Goes(a, [call[a] EXCEPT !.at = "screen", !.unkept = FALSE]) ELSE Returns(a)
  /\ UNCHANGED <<screen, history, keeps>>

(* projects::write(..)? ends the call, before the screen.                  *)
WriteFails(a) ==
  /\ At(a, "write")
  /\ UNCHANGED disk \/ \E t \in Texts : disk' = [disk EXCEPT ![call[a].part] = t]
  /\ Fails(a, NoCall)
  /\ UNCHANGED <<screen, history, keeps>>

SetScriptAsked(a) ==
  /\ Asked(a, "set_script")
  /\ Goes(a, [call[a] EXCEPT !.at = "screen"])
  /\ UNCHANGED <<screen, disk, history, keeps>>

(* Mutant of WorthKeeping: what is in the file needs no keeping. *)
OnlyUnsaved(text) == screen.name # NoPart /\ screen.script \notin {NoText, text, disk[screen.name]}
WorthKeeping(text) == screen.name # NoPart /\ screen.script \notin {NoText, text}

(* keep_screen: reads the session, and keeps what is not to be put there. *)
KeepScreen(a) ==
  /\ At(a, "screen")
  /\ IF WorthKeeping(call[a].text)
       THEN Goes(a, Keep(call[a], screen, "set"))
       ELSE Goes(a, [call[a] EXCEPT !.at = "set"])
  /\ UNCHANGED <<screen, disk, history, keeps>>

Put(t) == IF screen.name = NoPart THEN screen ELSE [screen EXCEPT !.script = t]

(* session::set_script: under whatever name is open by then. *)
SetScript(a) ==
  /\ At(a, "set")
  /\ screen' = Put(call[a].text)
  /\ Returns(a)
  /\ UNCHANGED <<disk, history, keeps>>

Open(p) == screen' = [name |-> p, script |-> disk[p]]

OpenProject(a) ==
  /\ Asked(a, "open_project")
  /\ IF disk[call[a].part] = NoText THEN UNCHANGED screen ELSE Open(call[a].part)
  /\ Returns(a)
  /\ UNCHANGED <<disk, history, keeps>>

(* restore_snapshot: a version is read ... *)
RestoreReads(a) ==
  /\ Asked(a, "restore_snapshot")
  /\ LET p == call[a].part
     IN  \/ history[p] = {} /\ Returns(a)
         \/ \E v \in history[p] : Goes(a, [call[a] EXCEPT !.at = "reopen", !.text = v.text])
  /\ UNCHANGED <<screen, disk, history, keeps>>

(* ... its part opened where another one is on screen, and then it is put  *)
(* there as set_script puts a text.                                        *)
RestoreOpens(a) ==
  /\ At(a, "reopen")
  /\ LET p == call[a].part
     IN  IF screen.name # p /\ disk[p] = NoText
           THEN Returns(a) /\ UNCHANGED screen
           ELSE /\ Goes(a, [call[a] EXCEPT !.at = "screen"])
                /\ IF screen.name = p THEN UNCHANGED screen ELSE Open(p)
  /\ UNCHANGED <<disk, history, keeps>>

-----------------------------------------------------------------------------
(* The user, in a window: LiveSession says how a push gets here. *)

Acts == UserTurn /\ acts < MaxActs /\ acts' = acts + 1 /\ UNCHANGED <<history, keeps, call, calls, failures>>

UserTypes(t) ==
  /\ Acts /\ screen.name # NoPart
  /\ screen' = [screen EXCEPT !.script = t]
  /\ UNCHANGED disk

UserOpens(p) ==
  /\ Acts /\ disk[p] # NoText
  /\ Open(p)
  /\ UNCHANGED disk

(* save_project of routes.rs: no version is kept of what a user saves over. *)
UserSaves ==
  /\ Acts /\ screen.name # NoPart
  /\ disk' = [disk EXCEPT ![screen.name] = screen.script]
  /\ UNCHANGED screen

-----------------------------------------------------------------------------
Init ==
  /\ screen = NoDoc
  /\ disk \in [Parts -> Texts \cup {NoText}]
  /\ history = [p \in Parts |-> {}]
  /\ keeps = 0 /\ calls = 0 /\ acts = 0 /\ failures = 0
  /\ call = [a \in Agents |-> NoCall]

CallStep(a) ==
  \/ EditResolves(a) \/ EditLooks(a) \/ EditFails(a) \/ EditPauses(a) \/ EditBuilds(a)
  \/ SaveProject(a) \/ Snapshot(a) \/ SnapshotMisses(a) \/ Write(a) \/ WriteFails(a)
  \/ SetScriptAsked(a) \/ KeepScreen(a) \/ Listed(a) \/ Kept(a) \/ KeepFails(a) \/ SetScript(a)
  \/ OpenProject(a) \/ RestoreReads(a) \/ RestoreOpens(a)

UserStep == UserSaves \/ (\E t \in Texts : UserTypes(t)) \/ \E p \in Parts : UserOpens(p)

Next ==
  \/ UserStep
  \/ \E a \in Agents :
       \/ CallStep(a)
       \/ \E tool \in AllTools, p \in Parts \cup {AtSession}, t \in Texts : Ask(a, tool, p, t)

Spec == Init /\ [][Next]_vars

-----------------------------------------------------------------------------
TypeOK ==
  /\ screen \in Docs /\ (screen.name = NoPart <=> screen.script = NoText)
  /\ disk \in [Parts -> Texts \cup {NoText}]
  /\ \A p \in Parts : \A v \in history[p] : v \in Versions
  /\ keeps \in Nat /\ calls \in 0 .. MaxCalls /\ acts \in 0 .. MaxActs /\ failures \in 0 .. MaxFailures
  /\ DOMAIN call = Agents
  /\ \A a \in Agents : call[a] \in [at : Steps, tool : AllTools \cup {"none"}, part : Parts \cup {NoPart, AtSession},
        text : Texts \cup {NoText}, made : Docs, shows : BOOLEAN, unkept : BOOLEAN, keeping : Docs,
        listing : {call[a].listing}, next : Steps]

IsKept(d) == \E v \in history[d.name] : v.text = d.script

(* keep_screen: a version is kept before the script on screen is replaced, *)
(* of text the user typed and never saved too. Best effort: where keeping  *)
(* it failed, the script is replaced all the same.                         *)
ScreenIsKept ==
  [][\A a \in Agents : SetScript(a) /\ screen' # screen /\ screen.script # NoText =>
       call[a].unkept \/ IsKept(screen)]_vars

(* ... and before a call writes part.js, be it that the writing fails: a   *)
(* version that could not be kept ends the call, and only a file that      *)
(* could not be read is written over without one.                          *)
FileIsKept ==
  [][\A a \in Agents : (Write(a) \/ WriteFails(a)) /\ disk' # disk /\ disk[call[a].part] # NoText =>
       call[a].unkept \/ IsKept([name |-> call[a].part, script |-> disk[call[a].part]])]_vars

(* Nothing an agent replaces, on the screen or in the file, is lost with   *)
(* it, unless keeping just that failed.                                    *)
KeepsWhatItReplaces == ScreenIsKept /\ FileIsKept

(* With expect_sha256 a text is only ever replaced by an edit of itself,   *)
(* and the edit lands on the part it was made of, whichever is open.       *)
EditsWhatItRead ==
  [][\A a \in Agents : call[a].tool = "edit_part" =>
       /\ Write(a) \/ WriteFails(a) => disk[call[a].part] = call[a].made.script
       /\ SetScript(a) => screen = call[a].made]_vars

(* restore_snapshot keeps the current text as a snapshot first. *)
RestoreKeepsTheScreen ==
  [][\A a \in Agents : RestoreOpens(a) /\ screen' # screen =>
       screen.name = NoPart \/ disk[screen.name] = screen.script \/ IsKept(screen)]_vars

(* Versions are named in the order they were kept in, whatever the clock   *)
(* says: the newest one is the last one kept.                              *)
NewestIsLast == \A p \in Parts : \A u, v \in history[p] : u.nth < v.nth => u.id < v.id

(* The HISTORY_KEPT newest versions of a part are kept. *)
NewestStay ==
  [][\A p \in Parts : \A v \in history[p] \ history'[p] :
       Cardinality({u \in history'[p] : u.nth > v.nth}) >= HistoryKept]_vars

(* ... and no more, but for those that a failed write has left.            *)
HistoryBounded == \A p \in Parts : Cardinality(history[p]) <= HistoryKept + failures

(* A part's history is its HISTORY_KEPT newest versions, in their order.   *)
HistoryKeepsNewest == [](TypeOK /\ NewestIsLast /\ HistoryBounded) /\ NewestStay
=============================================================================
