---------------------------- MODULE EditorWindow ----------------------------
(***************************************************************************)
(* One editor window (engine.ts): the text being edited, the build of it   *)
(* that is on screen, and the file it is saved to, across the awaits of    *)
(* run, openProject, saveOpenPart and the part browser's rename. The       *)
(* window is one thread: what is between two awaits is one step.           *)
(*                                                                         *)
(* A push and the events of other authors reach the session and the window *)
(* at once here; LiveSession is about the ways in which they do not.       *)
(* The folder is shared: agents (save_project, edit_part, restore) and     *)
(* other windows write and delete the same files, and tell this window     *)
(* nothing of it unless the session changes too.                           *)
(***************************************************************************)
EXTENDS Integers, FiniteSets

CONSTANTS
  Parts, NoPart,
  Scripts,      \* what a text says, in whatever layout
  Saves,        \* saves that can be in progress together
  Races,        \* which races happen, of AllRaces
  MaxActs,      \* bound: things the user and an agent do
  MaxFailures   \* bound: saves that fail

(* "name":   an agent edits while the session has not been told of the     *)
(*           part this window has opened, or renamed.                      *)
(* "file":   a part is read, saved or renamed while another of the three   *)
(*           is on its way, or written anew under a name while a rename    *)
(*           away from it is on its way.                                   *)
(* "saves":  a save is begun while another is on its way.                  *)
AllRaces == {"name", "file", "saves"}

ASSUME WindowAssumption ==
  /\ NoPart \notin Parts /\ Races \subseteq AllRaces
  /\ MaxActs \in Nat /\ MaxFailures \in Nat

Texts   == [says : Scripts, tidy : BOOLEAN]
NoText  == [says |-> "nothing", tidy |-> TRUE]

(* A file that is not there has no text. *)
ASSUME NoTextAssumption == NoText \notin Texts

(* What an openProject has read. *)
Reads == [name : Parts, script : Texts, fresh : BOOLEAN]

NoShown == [path |-> NoPart, part |-> NoPart, source |-> NoText]
NoFile  == [text |-> NoText, readme |-> NoShown]
NoJob   == [part |-> NoPart, source |-> NoText]
NoSave  == [at |-> "none", path |-> NoPart, text |-> NoText, clean |-> FALSE, readme |-> NoShown]
NoMove  == [from |-> NoPart, to |-> NoPart]

VARIABLES
  open,      \* S.openPath
  doc,       \* the editor's text
  saved,     \* S.savedSource
  timer,     \* the debounce timer is armed
  job,       \* what the run() in progress is building
  dirty,     \* run() was asked for while it ran
  shown,     \* shownPath, and the part and text the geometry and its numbers are of
  built,     \* the text of the last build that ended, which the status line is about
  reading,   \* parts read by an openProject that goes on later, and whether nobody else wrote them since
  save,      \* the saveOpenPart()s in progress
  moving,    \* a rename the host has done and the window not yet heard of
  session,   \* the host's session: a name and a script
  disk,      \* of every part, part.js and what README.md was measured from
  unseen,    \* parts changed on disk since this window last read or saved them: by somebody else, or by
             \* a save of its own whose answer it never had
  acts, failures   \* what was spent of the bounds

evalVars == <<timer, job, dirty, shown, built>>
textVars == <<open, doc, saved>>
bounds   == <<acts, failures>>
vars == <<textVars, evalVars, reading, save, moving, session, disk, unseen, bounds>>

Acts == acts < MaxActs /\ acts' = acts + 1 /\ UNCHANGED failures

(* formatSource: the layout goes, what it says stays. *)
Formatted(t) == [t EXCEPT !.tidy = TRUE]

-----------------------------------------------------------------------------
(* The evaluation cycle. *)

(* run: the document is captured and pushed, or asked for again. *)
Fire ==
  /\ timer
  /\ timer' = FALSE
  /\ IF job = NoJob
       THEN /\ job' = [part |-> open, source |-> doc]
            /\ dirty' = FALSE
            /\ session' = [name |-> open, script |-> doc]
       ELSE dirty' = TRUE /\ UNCHANGED <<job, session>>
  /\ UNCHANGED <<textVars, shown, built, reading, save, moving, disk, unseen, bounds>>

(* Mutant of Rearmed: what was asked for meanwhile is forgotten. *)
Forgotten == timer
Rearmed == timer \/ dirty

Ends == job # NoJob /\ job' = NoJob /\ built' = job.source /\ timer' = Rearmed
        /\ UNCHANGED <<textVars, dirty, reading, save, moving, session, disk, unseen, bounds>>

(* show: the build is on screen, under the name that is open by now. *)
Show == [path |-> open, part |-> job.part, source |-> job.source]

BuildShown ==
  /\ Ends
  /\ shown' = Show

Discarded == NoShown

(* showError: what is on screen stays if it is this part's. *)
StillOurs == IF shown.path = open THEN shown ELSE Discarded

BuildFails ==
  /\ Ends
  /\ shown' = StillOurs

-----------------------------------------------------------------------------
(* The text: typed, opened, or changed by somebody else. *)

Type(t) ==
  /\ Acts /\ t # doc
  /\ doc' = t /\ timer' = TRUE
  /\ UNCHANGED <<open, saved, job, dirty, shown, built, reading, save, moving, session, disk, unseen>>

Exists(p) == disk[p].text # NoText
Saving    == {s \in Saves : save[s].at # "none"}

(* openProject: the part is read ... *)
OpenReads(p) ==
  /\ Acts /\ Exists(p)
  /\ "file" \in Races \/ (Saving = {} /\ moving = NoMove)
  /\ reading' = reading \cup {[name |-> p, script |-> disk[p].text, fresh |-> TRUE]}
  /\ UNCHANGED <<textVars, evalVars, save, moving, session, disk, unseen>>

(* ... and put in the editor, which reports a change of the text even when *)
(* it is the same; a part that is open and unmodified stays as it is.      *)
OpenApplies(read) ==
  /\ read \in reading
  /\ reading' = reading \ {read}
  /\ IF read.name = open /\ read.script = doc
       THEN UNCHANGED <<textVars, timer, unseen>>
       ELSE /\ open' = read.name /\ doc' = read.script /\ saved' = read.script
            /\ timer' = TRUE
            /\ unseen' = IF read.fresh THEN unseen \ {read.name} ELSE unseen \cup {read.name}
  /\ UNCHANGED <<job, dirty, shown, built, save, moving, session, disk, bounds>>

(* A name change is somebody opening a part, and its script the saved text. *)
SavedWith(d) == IF d.name # open THEN d.script ELSE saved

(* The handler of subscribeSession, for a change by another author. *)
Follow(d) ==
  /\ session' = d
  /\ open' = d.name /\ doc' = d.script
  /\ saved' = SavedWith(d)
  /\ timer' = TRUE
  /\ UNCHANGED <<job, dirty, shown, built, reading, save, moving, disk>>

AgentSets(t) ==
  /\ Acts /\ session.name # NoPart
  /\ "name" \in Races \/ session.name = open
  /\ Follow([session EXCEPT !.script = t])
  /\ UNCHANGED unseen

(* An open brings what the file has, unless a save of that part has yet to *)
(* be answered, which will say what the file had.                          *)
ReadNow(p) == p # open /\ \A s \in Saves : save[s].at = "written" => save[s].path # p

AgentOpens(p) ==
  /\ Acts /\ Exists(p)
  /\ Follow([name |-> p, script |-> disk[p].text])
  /\ unseen' = IF ReadNow(p) THEN unseen \ {p} ELSE unseen

(* Somebody else writes or deletes a part's file: an agent's save_project  *)
(* or restore_snapshot, the write of its edit_part (the set_script after   *)
(* it is an AgentSets), another window's save, or its delete.              *)
OthersChange(p, text) ==
  /\ Acts /\ text # disk[p].text
  /\ "file" \in Races \/ p # moving.from
  /\ disk' = [disk EXCEPT ![p] = IF text = NoText THEN NoFile ELSE [@ EXCEPT !.text = text]]
  /\ unseen' = unseen \cup {p}
  /\ reading' = {[r EXCEPT !.fresh = @ /\ r.name # p] : r \in reading}
  /\ UNCHANGED <<textVars, evalVars, save, moving, session>>

-----------------------------------------------------------------------------
(* saveOpenPart. *)

(* It captures the path and the text, and whether what is on screen is a   *)
(* build of that text.                                                     *)
SaveStarts(s) ==
  /\ Acts /\ save[s].at = "none" /\ open # NoPart
  /\ "saves" \in Races \/ Saving = {}
  /\ "file" \in Races \/ (reading = {} /\ moving = NoMove)
  /\ save' = [save EXCEPT ![s] = [at |-> "formatting", path |-> open, text |-> doc,
                                  clean |-> (shown # NoShown /\ shown.source = doc), readme |-> NoShown]]
  /\ UNCHANGED <<textVars, evalVars, reading, moving, session, disk, unseen>>

(* Mutant of StillThere: only the part is compared. *)
SamePart(s) == open = save[s].path
StillThere(s) == open = save[s].path /\ doc = save[s].text

(* readmeFor: its numbers are those on screen by now. *)
ReadmeNow(s) == IF save[s].clean THEN shown ELSE NoShown

(* After formatSource, which leaves a script that does not parse as typed: *)
(* the editor gets the formatted text if it still holds the one it was     *)
(* made from. A README that is to be written fails the save when nothing   *)
(* is on screen.                                                           *)
SaveFormats(s) ==
  /\ save[s].at = "formatting"
  /\ \E text \in {save[s].text, Formatted(save[s].text)} :
       /\ IF StillThere(s) /\ text # doc
            THEN doc' = text /\ timer' = TRUE
            ELSE UNCHANGED <<doc, timer>>
       /\ IF save[s].clean /\ shown = NoShown
            THEN save' = [save EXCEPT ![s] = NoSave]
            ELSE save' = [save EXCEPT ![s] = [at |-> "sent", path |-> save[s].path, text |-> text,
                                              clean |-> save[s].clean, readme |-> ReadmeNow(s)]]
  /\ UNCHANGED <<open, saved, job, dirty, shown, built, reading, moving, session, disk, unseen, bounds>>

(* save_project of routes.rs: write makes the part when it is not there. *)
HostSaves(s) ==
  /\ save[s].at = "sent"
  /\ disk' = [disk EXCEPT ![save[s].path] =
                [text |-> save[s].text, readme |-> IF save[s].clean THEN save[s].readme ELSE @.readme]]
  /\ save' = [save EXCEPT ![s].at = "written"]
  /\ unseen' = unseen \ {save[s].path}
  /\ UNCHANGED <<textVars, evalVars, reading, moving, session, bounds>>

(* Mutant of Hears: the open part is the one that was saved. *)
HearsAlways(s) == TRUE
Hears(s) == open = save[s].path

SaveAnswered(s) ==
  /\ save[s].at = "written"
  /\ saved' = IF Hears(s) THEN save[s].text ELSE saved
  /\ save' = [save EXCEPT ![s] = NoSave]
  /\ UNCHANGED <<open, doc, evalVars, reading, moving, session, disk, unseen, bounds>>

(* ... or it fails, before or after the host wrote: showError, as for a build. *)
SaveFails(s) ==
  /\ save[s].at \in {"sent", "written"}
  /\ failures < MaxFailures /\ failures' = failures + 1 /\ UNCHANGED acts
  /\ save' = [save EXCEPT ![s] = NoSave]
  /\ unseen' = unseen \cup (IF save[s].at = "written" THEN {save[s].path} ELSE {})
  /\ shown' = StillOurs
  /\ UNCHANGED <<textVars, timer, job, dirty, built, reading, moving, session, disk>>

-----------------------------------------------------------------------------
(* The part browser's rename: the file moves, then the name in the window. *)
(* The session keeps the old one until the next push.                      *)
HostRenames(from, to) ==
  /\ Acts /\ moving = NoMove /\ Exists(from) /\ ~Exists(to)
  /\ "file" \in Races \/ (reading = {} /\ Saving = {})
  /\ disk' = [disk EXCEPT ![to] = disk[from], ![from] = NoFile]
  /\ moving' = [from |-> from, to |-> to]
  /\ unseen' = unseen \cup (IF from \in unseen THEN {to} ELSE {})
  /\ UNCHANGED <<textVars, evalVars, reading, save, session>>

Renamed == IF open = moving.from THEN moving.to ELSE open

RenameApplies ==
  /\ moving # NoMove
  /\ open' = Renamed
  /\ moving' = NoMove
  /\ UNCHANGED <<doc, saved, evalVars, reading, save, session, disk, unseen, bounds>>

-----------------------------------------------------------------------------
(* A window that shows a part as it is on disk; there may be others. *)
Init ==
  /\ open \in Parts /\ doc \in {t \in Texts : t.tidy} /\ saved = doc
  /\ disk \in [Parts -> {NoFile} \cup {[text |-> t, readme |-> NoShown] : t \in {u \in Texts : u.tidy}}]
  /\ disk[open].text = doc
  /\ session = [name |-> open, script |-> doc]
  /\ timer = FALSE /\ job = NoJob /\ dirty = FALSE
  /\ shown = [path |-> open, part |-> open, source |-> doc]
  /\ built = doc /\ reading = {} /\ moving = NoMove
  /\ save = [s \in Saves |-> NoSave]
  /\ unseen = {}
  /\ acts = 0 /\ failures = 0

(* buildWithParts and the kernel: a part, or a refusal. *)
Build == BuildShown \/ BuildFails

WindowStep ==
  \/ Fire \/ Build \/ RenameApplies
  \/ \E read \in Reads : OpenApplies(read)
  \/ \E s \in Saves : SaveFormats(s) \/ HostSaves(s) \/ SaveAnswered(s)

Next ==
  \/ WindowStep
  \/ \E t \in Texts : Type(t) \/ AgentSets(t)
  \/ \E p \in Parts : OpenReads(p) \/ AgentOpens(p) \/ \E q \in Parts : HostRenames(p, q)
  \/ \E p \in Parts, text \in Texts \cup {NoText} : OthersChange(p, text)
  \/ \E s \in Saves : SaveStarts(s) \/ SaveFails(s)

Spec == Init /\ [][Next]_vars

(* The timer fires, and every await ends. *)
Fairness ==
  /\ WF_vars(Fire) /\ WF_vars(Build) /\ WF_vars(RenameApplies)
  /\ \A read \in Reads : WF_vars(OpenApplies(read))
  /\ \A s \in Saves : WF_vars(SaveFormats(s)) /\ WF_vars(HostSaves(s)) /\ WF_vars(SaveAnswered(s))

FairSpec == Spec /\ Fairness

-----------------------------------------------------------------------------
Anything == Texts \cup {NoText}
Pictures == [path : Parts, part : Parts, source : Texts] \cup {NoShown}

TextTyped == open \in Parts /\ doc \in Texts /\ saved \in Texts

EvalTyped ==
  /\ timer \in BOOLEAN /\ dirty \in BOOLEAN
  /\ job \in [part : Parts, source : Texts] \cup {NoJob}
  /\ built \in Texts /\ shown \in Pictures

SavesTyped ==
  save \in [Saves -> {NoSave} \cup
             [at : {"formatting", "sent", "written"}, path : Parts, text : Texts, clean : BOOLEAN, readme : Pictures]]

FilesTyped ==
  /\ reading \subseteq Reads /\ unseen \subseteq Parts
  /\ moving \in [from : Parts, to : Parts] \cup {NoMove}
  /\ session \in [name : Parts, script : Texts]
  /\ disk \in [Parts -> [text : Anything, readme : Pictures]]

TypeOK ==
  /\ TextTyped /\ EvalTyped /\ SavesTyped /\ FilesTyped
  /\ acts \in 0 .. MaxActs /\ failures \in 0 .. MaxFailures

(* The titlebar says whether the text in front of the user is the one on   *)
(* disk, as far as the window can know: with no save and no rename on its  *)
(* way, a part that is not marked as changed is in its file as the editor  *)
(* has it, unless the file was changed after this window last read or      *)
(* saved it: by somebody else, or by a save it was told had failed.        *)
CleanMeansSaved ==
  doc = saved /\ Saving = {} /\ moving = NoMove /\ open \notin unseen => disk[open].text = doc

(* ... which state.ts says of every file: the titlebar says whether the    *)
(* text in front of the user and the file disagree.                        *)
TitleTells == doc = saved /\ Saving = {} /\ moving = NoMove => disk[open].text = doc

(* Formatting on save lands only on the text it was formatted from: a      *)
(* keystroke or another part opened meanwhile wins.                        *)
KeystrokeWins == [][\A s \in Saves : SaveFormats(s) => doc'.says = doc.says]_vars

(* Whatever is typed or arrives during a build is built when it ends: when *)
(* nobody edits any more, the last build was of the text in the editor.    *)
Evaluates == <>[](built = doc)

(* A failed build leaves the last good part on screen only while that is   *)
(* still this part.                                                        *)
FailureKeepsThisPart ==
  [][BuildFails => shown' = NoShown \/ shown'.part = open]_vars

(* The numbers of a README are measured from the text beside it.           *)
ReadmeIsMeasured ==
  [][\A s \in Saves : HostSaves(s) /\ save[s].clean => save[s].readme.source.says = save[s].text.says]_vars
=============================================================================
