-------------------------- MODULE EditorWindowProofs --------------------------
(* What holds of EditorWindow for any parts, scripts, saves and bounds. *)
EXTENDS EditorWindow, TLAPS

-----------------------------------------------------------------------------
(* The operators. *)

(* Formatting leaves what a text says. *)
LEMMA FormattedKeeps ==
  ASSUME NEW t \in Texts
  PROVE  Formatted(t) \in Texts /\ Formatted(t).says = t.says
BY DEF Texts, Formatted

(* The values that stand for nothing are told apart from the rest. *)
LEMMA NothingIsNothing ==
  /\ NoShown.path = NoPart /\ NoMove.from = NoPart /\ NoFile.text = NoText
  /\ NoSave.at = "none" /\ NoShown \in Pictures
  /\ NoMove \notin [from : Parts, to : Parts]
  /\ NoJob \notin [part : Parts, source : Texts]
BY WindowAssumption DEF NoShown, NoMove, NoFile, NoSave, NoJob, Pictures

(* A save in progress has a part and a text; its step changes only it. *)
LEMMA SaveTyped ==
  ASSUME SavesTyped, NEW s \in Saves, save[s].at # "none"
  PROVE  /\ save[s].at \in {"formatting", "sent", "written"}
         /\ save[s].path \in Parts /\ save[s].text \in Texts
         /\ save[s].clean \in BOOLEAN /\ save[s].readme \in Pictures
<1>1. save[s] # NoSave
  BY NothingIsNothing
<1>2. save[s] \in [at : {"formatting", "sent", "written"}, path : Parts, text : Texts, clean : BOOLEAN, readme : Pictures]
  BY <1>1 DEF SavesTyped
<1> QED BY <1>2

LEMMA StillOursTyped ==
  ASSUME EvalTyped
  PROVE  StillOurs \in Pictures
BY NothingIsNothing DEF EvalTyped, StillOurs, Discarded

-----------------------------------------------------------------------------
(* Types. *)

LEMMA InitTyped == Init => TypeOK
<1> SUFFICES ASSUME Init PROVE TypeOK
  OBVIOUS
<1>1. TextTyped
  BY DEF Init, TextTyped
<1>2. EvalTyped
  BY DEF Init, EvalTyped, Pictures
<1>3. SavesTyped
  BY DEF Init, SavesTyped
<1>4. FilesTyped
  <2>1. disk \in [Parts -> [text : Anything, readme : Pictures]]
    <3>1. NoFile \in [text : Anything, readme : Pictures]
      BY NothingIsNothing DEF NoFile, Anything
    <3>2. \A t \in Texts : [text |-> t, readme |-> NoShown] \in [text : Anything, readme : Pictures]
      BY NothingIsNothing DEF Anything
    <3> QED BY <3>1, <3>2 DEF Init
  <2>2. session \in [name : Parts, script : Texts]
    BY DEF Init
  <2> QED BY <2>1, <2>2 DEF Init, FilesTyped
<1>5. acts \in 0 .. MaxActs /\ failures \in 0 .. MaxFailures
  BY WindowAssumption DEF Init
<1> QED BY <1>1, <1>2, <1>3, <1>4, <1>5 DEF TypeOK

(* The bounds are spent one at a time. *)
BoundsTyped == acts \in 0 .. MaxActs /\ failures \in 0 .. MaxFailures

LEMMA ActsTyped ==
  ASSUME BoundsTyped, Acts
  PROVE  BoundsTyped'
BY WindowAssumption DEF BoundsTyped, Acts

LEMMA BuildTyped ==
  ASSUME TypeOK, Build
  PROVE  TypeOK'
<1>0. Ends
  BY DEF Build, BuildShown, BuildFails
<1>1. job \in [part : Parts, source : Texts]
  BY <1>0 DEF Ends, TypeOK, EvalTyped
<1>2. shown' \in Pictures
  <2>1. CASE BuildShown
    BY <1>1, <2>1 DEF BuildShown, Show, Pictures, TypeOK, TextTyped
  <2>2. CASE BuildFails
    BY <2>2, StillOursTyped DEF BuildFails, TypeOK
  <2> QED BY <2>1, <2>2 DEF Build
<1>3. timer' \in BOOLEAN
  BY <1>0 DEF Ends, Rearmed, TypeOK, EvalTyped
<1>4. EvalTyped'
  BY <1>0, <1>1, <1>2, <1>3 DEF Ends, TypeOK, EvalTyped
<1> QED BY <1>0, <1>4 DEF Ends, TypeOK, TextTyped, SavesTyped, FilesTyped, textVars, bounds

LEMMA SavingTyped ==
  ASSUME TypeOK, NEW s \in Saves, SaveStarts(s) \/ SaveFormats(s) \/ HostSaves(s) \/ SaveAnswered(s) \/ SaveFails(s)
  PROVE  TypeOK'
<1> USE DEF TypeOK
<1> DEFINE Going == [at : {"formatting", "sent", "written"}, path : Parts, text : Texts, clean : BOOLEAN, readme : Pictures]
<1>0. save \in [Saves -> {NoSave} \cup Going]
  BY DEF SavesTyped
<1>1. ASSUME NEW x \in {NoSave} \cup Going, save' = [save EXCEPT ![s] = x]
      PROVE  SavesTyped'
  <2>1. save' \in [Saves -> {NoSave} \cup Going]
    <3> HIDE DEF Going
    <3> QED BY <1>0, <1>1
  <2> QED BY <2>1 DEF SavesTyped
<1>2. CASE SaveStarts(s)
  <2>1. [at |-> "formatting", path |-> open, text |-> doc,
         clean |-> (shown # NoShown /\ shown.source = doc), readme |-> NoShown] \in Going
    BY NothingIsNothing DEF TextTyped
  <2>2. SavesTyped'
    <3> HIDE DEF Going
    <3> QED BY <1>1, <1>2, <2>1 DEF SaveStarts
  <2>3. BoundsTyped'
    BY <1>2, ActsTyped DEF SaveStarts, BoundsTyped
  <2> QED BY <1>2, <2>2, <2>3 DEF SaveStarts, TextTyped, EvalTyped, FilesTyped, BoundsTyped, textVars, evalVars
<1>3. CASE SaveFormats(s)
  <2>1. /\ save[s].path \in Parts /\ save[s].text \in Texts /\ save[s].clean \in BOOLEAN
    BY <1>3, SaveTyped DEF SaveFormats
  <2>2. PICK text \in {save[s].text, Formatted(save[s].text)} :
          /\ IF StillThere(s) /\ text # doc THEN doc' = text /\ timer' = TRUE ELSE UNCHANGED <<doc, timer>>
          /\ IF save[s].clean /\ shown = NoShown
               THEN save' = [save EXCEPT ![s] = NoSave]
               ELSE save' = [save EXCEPT ![s] = [at |-> "sent", path |-> save[s].path, text |-> text,
                                                 clean |-> save[s].clean, readme |-> ReadmeNow(s)]]
    BY <1>3 DEF SaveFormats
  <2>3. text \in Texts
    BY <2>1, <2>2, FormattedKeeps
  <2>4. TextTyped' /\ EvalTyped'
    BY <1>3, <2>2, <2>3 DEF SaveFormats, TextTyped, EvalTyped
  <2>5. ReadmeNow(s) \in Pictures
    BY NothingIsNothing DEF ReadmeNow, EvalTyped
  <2>6. [at |-> "sent", path |-> save[s].path, text |-> text, clean |-> save[s].clean, readme |-> ReadmeNow(s)] \in Going
    BY <2>1, <2>3, <2>5
  <2>7. SavesTyped'
    <3> HIDE DEF Going
    <3> QED BY <1>1, <2>2, <2>6
  <2> QED BY <1>3, <2>4, <2>7 DEF SaveFormats, FilesTyped, bounds
<1>4. CASE HostSaves(s)
  <2>0. save[s] \in Going
    BY <1>0, <1>4, NothingIsNothing DEF HostSaves
  <2>1. /\ save[s].path \in Parts /\ save[s].text \in Texts /\ save[s].readme \in Pictures
    BY <2>0
  <2>2. [save[s] EXCEPT !.at = "written"] \in Going
    BY <2>0
  <2>3. SavesTyped'
    <3>1. save' = [save EXCEPT ![s] = [save[s] EXCEPT !.at = "written"]]
      BY <1>4 DEF HostSaves
    <3> HIDE DEF Going
    <3> QED BY <1>1, <2>2, <3>1
  <2>4. disk' \in [Parts -> [text : Anything, readme : Pictures]]
    <3> DEFINE new == [text |-> save[s].text,
                       readme |-> IF save[s].clean THEN save[s].readme ELSE disk[save[s].path].readme]
    <3>1. new \in [text : Anything, readme : Pictures]
      BY <2>1 DEF FilesTyped, Anything
    <3>2. disk' = [disk EXCEPT ![save[s].path] = new]
      BY <1>4 DEF HostSaves
    <3> HIDE DEF new
    <3> QED BY <3>1, <3>2 DEF FilesTyped
  <2> QED BY <1>4, <2>3, <2>4 DEF HostSaves, TextTyped, EvalTyped, FilesTyped, textVars, evalVars, bounds
<1>5. CASE SaveAnswered(s)
  <2>1. save[s].text \in Texts
    BY <1>5, SaveTyped DEF SaveAnswered
  <2>2. TextTyped'
    BY <1>5, <2>1 DEF SaveAnswered, TextTyped
  <2>3. SavesTyped'
    BY <1>1, <1>5 DEF SaveAnswered
  <2> QED BY <1>5, <2>2, <2>3 DEF SaveAnswered, EvalTyped, FilesTyped, evalVars, bounds
<1>6. CASE SaveFails(s)
  <2>1. SavesTyped'
    BY <1>1, <1>6 DEF SaveFails
  <2>2. EvalTyped'
    BY <1>6, StillOursTyped DEF SaveFails, EvalTyped
  <2>3. failures' \in 0 .. MaxFailures
    BY <1>6, WindowAssumption DEF SaveFails
  <2>4. unseen' \subseteq Parts
    BY <1>6, SaveTyped DEF SaveFails, FilesTyped
  <2> QED BY <1>6, <2>1, <2>2, <2>3, <2>4 DEF SaveFails, TextTyped, FilesTyped, textVars
<1> QED BY <1>2, <1>3, <1>4, <1>5, <1>6

(* What somebody else puts in a file is a text, or nothing.                *)
LEMMA ChangedFile ==
  ASSUME NEW text \in Texts \cup {NoText}, NEW file \in [text : Anything, readme : Pictures]
  PROVE  /\ (IF text = NoText THEN NoFile ELSE [file EXCEPT !.text = text]) \in [text : Anything, readme : Pictures]
         /\ (IF text = NoText THEN NoFile ELSE [file EXCEPT !.text = text]).text = text
<1>1. NoFile \in [text : Anything, readme : Pictures] /\ NoFile.text = NoText
  BY NothingIsNothing DEF NoFile, Anything
<1> QED BY <1>1 DEF Anything

LEMMA NextTyped == TypeOK /\ [Next]_vars => TypeOK'
<1> SUFFICES ASSUME TypeOK, [Next]_vars PROVE TypeOK'
  OBVIOUS
<1> USE DEF TypeOK
<1>1. CASE Fire
  <2>1. [part |-> open, source |-> doc] \in [part : Parts, source : Texts]
    BY DEF TextTyped
  <2>2. EvalTyped'
    BY <1>1, <2>1 DEF Fire, EvalTyped
  <2>3. session' \in [name : Parts, script : Texts]
    BY <1>1 DEF Fire, TextTyped, FilesTyped
  <2> QED BY <1>1, <2>2, <2>3 DEF Fire, TextTyped, SavesTyped, FilesTyped, textVars, bounds
<1>2. CASE Build
  BY <1>2, BuildTyped
<1>3. CASE RenameApplies
  <2>1. moving \in [from : Parts, to : Parts]
    BY <1>3 DEF RenameApplies, FilesTyped
  <2>2. TextTyped'
    BY <1>3, <2>1 DEF RenameApplies, Renamed, TextTyped
  <2>3. FilesTyped'
    BY <1>3 DEF RenameApplies, FilesTyped
  <2> QED BY <1>3, <2>2, <2>3 DEF RenameApplies, EvalTyped, SavesTyped, evalVars, bounds
<1>4. ASSUME NEW read \in Reads, OpenApplies(read)
      PROVE  TypeOK'
  <2>0. read.name \in Parts /\ read.script \in Texts /\ read.fresh \in BOOLEAN
    BY DEF Reads
  <2>1. \/ UNCHANGED <<textVars, timer, unseen>>
        \/ /\ open' = read.name /\ doc' = read.script /\ saved' = read.script /\ timer' = TRUE
           /\ unseen' = IF read.fresh THEN unseen \ {read.name} ELSE unseen \cup {read.name}
    BY <1>4 DEF OpenApplies
  <2>3. TextTyped' /\ timer' \in BOOLEAN /\ unseen' \subseteq Parts
    BY <2>0, <2>1 DEF textVars, TextTyped, EvalTyped, FilesTyped
  <2>2. FilesTyped'
    BY <1>4, <2>3 DEF OpenApplies, FilesTyped
  <2> QED BY <1>4, <2>2, <2>3 DEF OpenApplies, EvalTyped, SavesTyped, bounds
<1>5. ASSUME NEW s \in Saves, SaveStarts(s) \/ SaveFormats(s) \/ HostSaves(s) \/ SaveAnswered(s) \/ SaveFails(s)
      PROVE  TypeOK'
  BY <1>5, SavingTyped
<1>6. ASSUME NEW t \in Texts, Type(t) PROVE TypeOK'
  BY <1>6, ActsTyped DEF Type, BoundsTyped, TextTyped, EvalTyped, SavesTyped, FilesTyped
<1>7. ASSUME NEW d \in [name : Parts, script : Texts], Acts, Follow(d), unseen' \subseteq Parts PROVE TypeOK'
  <2>1. TextTyped'
    BY <1>7 DEF Follow, SavedWith, TextTyped
  <2> QED BY <1>7, <2>1, ActsTyped DEF Follow, BoundsTyped, EvalTyped, SavesTyped, FilesTyped
<1>8. ASSUME NEW t \in Texts, AgentSets(t) PROVE TypeOK'
  <2>1. [session EXCEPT !.script = t] \in [name : Parts, script : Texts]
    BY DEF FilesTyped
  <2> QED BY <1>7, <1>8, <2>1 DEF AgentSets, FilesTyped
<1>9. ASSUME NEW p \in Parts, Exists(p) PROVE [name |-> p, script |-> disk[p].text] \in [name : Parts, script : Texts]
  BY <1>9 DEF Exists, FilesTyped, Anything
<1>10. ASSUME NEW p \in Parts, OpenReads(p) PROVE TypeOK'
  <2>0. disk[p].text \in Texts
    BY <1>10 DEF OpenReads, Exists, FilesTyped, Anything
  <2>1. [name |-> p, script |-> disk[p].text, fresh |-> TRUE] \in Reads
    BY <2>0 DEF Reads
  <2>2. FilesTyped'
    BY <2>1, <1>10 DEF OpenReads, FilesTyped
  <2> QED BY <1>10, <2>2, ActsTyped DEF OpenReads, BoundsTyped, TextTyped, EvalTyped, SavesTyped, textVars, evalVars
<1>11. ASSUME NEW p \in Parts, AgentOpens(p) PROVE TypeOK'
  <2>1. unseen' \subseteq Parts
    BY <1>11 DEF AgentOpens, FilesTyped
  <2> QED BY <1>7, <1>9, <1>11, <2>1 DEF AgentOpens
<1>12. ASSUME NEW p \in Parts, NEW q \in Parts, HostRenames(p, q) PROVE TypeOK'
  <2>1. disk' \in [Parts -> [text : Anything, readme : Pictures]]
    <3>1. NoFile \in [text : Anything, readme : Pictures]
      BY NothingIsNothing DEF NoFile, Anything
    <3>2. disk' = [disk EXCEPT ![q] = disk[p], ![p] = NoFile] /\ disk[p] \in [text : Anything, readme : Pictures]
      BY <1>12 DEF HostRenames, FilesTyped
    <3> QED BY <3>1, <3>2 DEF FilesTyped
  <2>2. moving' \in [from : Parts, to : Parts]
    BY <1>12 DEF HostRenames
  <2>3. unseen' \subseteq Parts
    BY <1>12 DEF HostRenames, FilesTyped
  <2> QED BY <1>12, <2>1, <2>2, <2>3, ActsTyped DEF HostRenames, BoundsTyped, TextTyped, EvalTyped, SavesTyped, FilesTyped, textVars, evalVars
<1>13. CASE UNCHANGED vars
  BY <1>13 DEF vars, textVars, evalVars, bounds, TextTyped, EvalTyped, SavesTyped, FilesTyped
<1>14. ASSUME NEW p \in Parts, NEW text \in Texts \cup {NoText}, OthersChange(p, text) PROVE TypeOK'
  <2>1. reading' \subseteq Reads
    BY <1>14 DEF OthersChange, FilesTyped, Reads
  <2>2. disk' \in [Parts -> [text : Anything, readme : Pictures]]
    BY <1>14, ChangedFile DEF OthersChange, FilesTyped
  <2>3. FilesTyped'
    BY <1>14, <2>1, <2>2 DEF OthersChange, FilesTyped
  <2> QED BY <1>14, <2>3, ActsTyped DEF OthersChange, BoundsTyped, TextTyped, EvalTyped, SavesTyped, textVars, evalVars
<1> QED BY <1>1, <1>2, <1>3, <1>4, <1>5, <1>6, <1>8, <1>10, <1>11, <1>12, <1>13, <1>14 DEF Next, WindowStep

(* Every variable has its type, with every race and fault. *)
THEOREM Typing == Spec => []TypeOK
BY InitTyped, NextTyped, PTL DEF Spec

-----------------------------------------------------------------------------
(* The text on disk. Without the races the text last saved, or read, is in *)
(* the file of the open part, and of the part it is being renamed to,      *)
(* except between a save being written and its answer, and after a change  *)
(* of that file this window knows nothing of.                              *)

OneAtATime ==
  /\ \A s, t \in Saves : save[s].at # "none" /\ save[t].at # "none" => s = t
  /\ \A s \in Saves : save[s].at # "none" => reading = {} /\ moving = NoMove
  /\ reading # {} => moving = NoMove

FilesHold ==
  /\ \A r \in reading : r.fresh => disk[r.name].text = r.script
  /\ moving # NoMove => disk[moving.from].text = NoText
  /\ \A s \in Saves : save[s].at = "written" => save[s].path \in unseen \/ disk[save[s].path].text = save[s].text

Unheard == \E s \in Saves : save[s].at = "written" /\ save[s].path = open

SavedInv == OneAtATime /\ FilesHold /\ (Unheard \/ Renamed \in unseen \/ disk[Renamed].text = saved)

LEMMA SavedInit == ASSUME Init PROVE SavedInv
<1>1. \A s \in Saves : save[s].at = "none"
  BY NothingIsNothing DEF Init
<1>2. Renamed = open
  BY NothingIsNothing, WindowAssumption DEF Init, Renamed
<1> QED BY <1>1, <1>2 DEF Init, SavedInv, OneAtATime, FilesHold, Unheard

(* Most steps touch nothing of it. *)
LEMMA SavedKept ==
  ASSUME SavedInv, UNCHANGED <<open, saved, reading, save, moving, disk, unseen>>
  PROVE  SavedInv'
BY DEF SavedInv, OneAtATime, FilesHold, Unheard, Renamed

(* A part is opened, by the user or an agent: its text is in its file, or  *)
(* somebody else has changed that since it was read.                       *)
LEMMA SavedOpens ==
  ASSUME TypeOK, SavedInv, NEW p \in Parts, reading' \subseteq reading, UNCHANGED <<save, moving, disk>>,
         open' = p, p \in unseen' \/ disk[p].text = saved', unseen \subseteq unseen' \cup {p},
         p \in unseen' \/ \A s \in Saves : save[s].at # "written",
         p # moving.from
  PROVE  SavedInv'
<1>1. OneAtATime' /\ FilesHold'
  BY DEF SavedInv, OneAtATime, FilesHold
<1>2. Renamed' = p
  BY DEF Renamed
<1> QED BY <1>1, <1>2 DEF SavedInv

(* The steps of a save. *)
LEMMA SavedSaves ==
  ASSUME Races = {}, TypeOK, SavedInv, NEW s \in Saves,
         SaveStarts(s) \/ SaveFormats(s) \/ HostSaves(s) \/ SaveAnswered(s) \/ SaveFails(s)
  PROVE  SavedInv'
<1> USE DEF TypeOK
<1>0. save = [v \in Saves |-> save[v]]
  BY DEF SavesTyped
<1>1. ASSUME NEW x, save' = [save EXCEPT ![s] = x]
      PROVE  save'[s] = x /\ \A v \in Saves \ {s} : save'[v] = save[v]
  BY <1>0, <1>1
<1>2. moving = NoMove => open # moving.from /\ Renamed = open
  BY NothingIsNothing, WindowAssumption DEF Renamed, TextTyped
<1>3. CASE SaveStarts(s)
  <2>1. (\A v \in Saves : save[v].at = "none") /\ reading = {} /\ moving = NoMove
    BY <1>3 DEF SaveStarts, Saving
  <2>2. save'[s].at = "formatting" /\ \A v \in Saves \ {s} : save'[v] = save[v]
    BY <1>1, <1>3 DEF SaveStarts
  <2>3. UNCHANGED <<open, saved, reading, moving, disk, unseen>>
    BY <1>3 DEF SaveStarts, textVars
  <2> QED BY <2>1, <2>2, <2>3 DEF SavedInv, OneAtATime, FilesHold, Unheard, Renamed
<1>4. save[s].at # "none" => \A v \in Saves \ {s} : save[v].at = "none"
  BY DEF SavedInv, OneAtATime
<1>5. save[s].at # "none" => reading = {} /\ moving = NoMove
  BY DEF SavedInv, OneAtATime
<1>6. ASSUME save[s].at \in {"formatting", "sent"}, save'[s].at \in {"none", "sent"},
             \A v \in Saves \ {s} : save'[v] = save[v],
             UNCHANGED <<open, saved, reading, moving, disk, unseen>>
      PROVE  SavedInv'
  <2>1. ~Unheard /\ ~Unheard'
    BY <1>4, <1>6 DEF Unheard
  <2> QED BY <1>4, <1>5, <1>6, <2>1 DEF SavedInv, OneAtATime, FilesHold, Renamed
<1>7. CASE SaveFormats(s)
  <2>1. save'[s].at \in {"none", "sent"} /\ \A v \in Saves \ {s} : save'[v] = save[v]
    BY <1>1, <1>7, NothingIsNothing DEF SaveFormats
  <2> QED BY <1>6, <1>7, <2>1 DEF SaveFormats
<1>8. CASE SaveFails(s)
  <2>1. save'[s].at = "none" /\ \A v \in Saves \ {s} : save'[v] = save[v]
    BY <1>1, <1>8, NothingIsNothing DEF SaveFails
  <2>2. UNCHANGED <<open, saved, reading, moving, disk>>
    BY <1>8 DEF SaveFails, textVars
  <2>3. CASE save[s].at = "sent"
    BY <1>6, <1>8, <2>1, <2>2, <2>3 DEF SaveFails
  <2>4. CASE save[s].at = "written"
    <3>1. unseen' = unseen \cup {save[s].path}
      BY <1>8, <2>4 DEF SaveFails
    <3>2. OneAtATime' /\ FilesHold'
      BY <1>4, <1>5, <2>1, <2>2, <2>4, <3>1 DEF SavedInv, OneAtATime, FilesHold
    <3>3. open \in unseen' \/ disk[open].text = saved
      BY <1>2, <1>4, <1>5, <2>4, <3>1 DEF SavedInv, Unheard
    <3>4. Renamed' = open
      BY <1>2, <1>5, <2>2, <2>4 DEF Renamed
    <3> QED BY <2>2, <3>2, <3>3, <3>4 DEF SavedInv
  <2> QED BY <1>8, <2>3, <2>4 DEF SaveFails
<1>9. CASE HostSaves(s)
  <2>0. save[s].at = "sent" /\ save[s].path \in Parts /\ save[s].text \in Texts
    BY <1>9, SaveTyped DEF HostSaves
  <2> DEFINE x == [save[s] EXCEPT !.at = "written"]
  <2>1. save' = [save EXCEPT ![s] = x]
    BY <1>9 DEF HostSaves
  <2>2. x.at = "written" /\ x.path = save[s].path /\ x.text = save[s].text
    <3>1. save[s] \in [at : {"formatting", "sent", "written"}, path : Parts, text : Texts, clean : BOOLEAN, readme : Pictures]
      BY <2>0, NothingIsNothing DEF SavesTyped
    <3> QED BY <3>1
  <2>3. /\ save'[s].at = "written" /\ save'[s].path = save[s].path /\ save'[s].text = save[s].text
        /\ \A v \in Saves \ {s} : save'[v] = save[v]
    <3> HIDE DEF x
    <3> QED BY <1>1, <2>1, <2>2
  <2>4. /\ disk'[save[s].path].text = save[s].text /\ unseen' = unseen \ {save[s].path}
        /\ \A q \in Parts : q # save[s].path => disk'[q] = disk[q]
    BY <1>9, <2>0 DEF HostSaves, FilesTyped
  <2>5. UNCHANGED <<open, saved, reading, moving>>
    BY <1>9 DEF HostSaves, textVars
  <2>6. OneAtATime' /\ FilesHold'
    BY <1>4, <1>5, <2>0, <2>3, <2>4, <2>5 DEF SavedInv, OneAtATime, FilesHold
  <2>7. save[s].path = open \/ open \in unseen' \/ (disk[open].text = saved /\ disk'[open] = disk[open])
    BY <1>2, <1>4, <1>5, <2>0, <2>4 DEF SavedInv, Unheard, TextTyped
  <2>8. Unheard' \/ Renamed' \in unseen' \/ disk'[Renamed'].text = saved'
    BY <1>2, <1>5, <2>0, <2>3, <2>5, <2>7 DEF Unheard, Renamed
  <2> QED BY <2>6, <2>8 DEF SavedInv
<1>10. CASE SaveAnswered(s)
  <2>1. save[s].at = "written" /\ (save[s].path \in unseen \/ disk[save[s].path].text = save[s].text)
    BY <1>10 DEF SaveAnswered, SavedInv, FilesHold
  <2>2. save'[s].at = "none" /\ \A v \in Saves \ {s} : save'[v] = save[v]
    BY <1>1, <1>10, NothingIsNothing DEF SaveAnswered
  <2>3. UNCHANGED <<open, reading, moving, disk, unseen>>
    BY <1>10 DEF SaveAnswered
  <2>4. OneAtATime' /\ FilesHold'
    BY <1>4, <1>5, <2>1, <2>2, <2>3 DEF SavedInv, OneAtATime, FilesHold
  <2>5. open \in unseen \/ disk[open].text = saved'
    BY <1>2, <1>4, <1>5, <1>10, <2>1 DEF SaveAnswered, Hears, SavedInv, Unheard
  <2> QED BY <1>2, <1>5, <2>1, <2>3, <2>4, <2>5 DEF SavedInv, Renamed
<1> QED BY <1>3, <1>7, <1>8, <1>9, <1>10

LEMMA SavedStep ==
  ASSUME Races = {}, TypeOK, SavedInv, [Next]_vars
  PROVE  SavedInv'
<1>1. CASE Fire \/ Build \/ (\E t \in Texts : Type(t)) \/ UNCHANGED vars
  BY <1>1, SavedKept DEF Fire, Build, BuildShown, BuildFails, Ends, Type, vars, textVars
<1>2. CASE RenameApplies
  <2>0. UNCHANGED unseen
    BY <1>2 DEF RenameApplies
  <2>1. moving \in [from : Parts, to : Parts] /\ Renamed \in Parts
    BY <1>2 DEF RenameApplies, TypeOK, FilesTyped, Renamed, TextTyped
  <2>2. reading = {} /\ \A s \in Saves : save[s].at = "none"
    BY <1>2 DEF RenameApplies, SavedInv, OneAtATime
  <2>3. Renamed' = Renamed
    BY <1>2, <2>1, NothingIsNothing, WindowAssumption DEF RenameApplies, Renamed
  <2>4. Renamed \in unseen \/ disk[Renamed].text = saved
    BY <2>2 DEF SavedInv, Unheard
  <2> QED BY <1>2, <2>0, <2>2, <2>3, <2>4 DEF RenameApplies, SavedInv, OneAtATime, FilesHold
<1>3. ASSUME NEW read \in Reads, OpenApplies(read)
      PROVE  SavedInv'
  <2> DEFINE p == read.name
  <2>1. /\ read \in reading /\ reading' \subseteq reading /\ UNCHANGED <<save, moving, disk>>
        /\ p \in Parts /\ read.fresh \in BOOLEAN
    BY <1>3 DEF OpenApplies, Reads
  <2>2. read.fresh => disk[p].text = read.script
    BY <2>1 DEF SavedInv, FilesHold
  <2>3. (\A s \in Saves : save[s].at # "written") /\ p # moving.from
    BY <2>1, NothingIsNothing, WindowAssumption DEF SavedInv, OneAtATime
  <2>4. CASE open' = p /\ saved' = read.script /\ unseen' = IF read.fresh THEN unseen \ {p} ELSE unseen \cup {p}
    BY <2>1, <2>2, <2>3, <2>4, SavedOpens
  <2>5. CASE UNCHANGED <<open, saved, unseen>>
    BY <2>1, <2>5 DEF SavedInv, OneAtATime, FilesHold, Unheard, Renamed
  <2> QED BY <1>3, <2>4, <2>5 DEF OpenApplies, textVars
<1>4. ASSUME NEW s \in Saves, SaveStarts(s) \/ SaveFormats(s) \/ HostSaves(s) \/ SaveAnswered(s) \/ SaveFails(s)
      PROVE  SavedInv'
  BY <1>4, SavedSaves
<1>5. ASSUME NEW t \in Texts, AgentSets(t) PROVE SavedInv'
  BY <1>5, SavedKept DEF AgentSets, Follow, SavedWith, TypeOK, FilesTyped
<1>6. ASSUME NEW p \in Parts, OpenReads(p) PROVE SavedInv'
  BY <1>6 DEF OpenReads, Saving, textVars, SavedInv, OneAtATime, FilesHold, Unheard, Renamed
<1>7. ASSUME NEW p \in Parts, AgentOpens(p) PROVE SavedInv'
  <2>1. disk[p].text \in Texts
    BY <1>7 DEF AgentOpens, Exists, TypeOK, FilesTyped, Anything
  <2>2. /\ open' = p /\ UNCHANGED <<reading, save, moving, disk>>
        /\ saved' = IF p # open THEN disk[p].text ELSE saved
        /\ unseen' = IF ReadNow(p) THEN unseen \ {p} ELSE unseen
    BY <1>7 DEF AgentOpens, Follow, SavedWith
  <2>3. CASE p = open
    BY <2>2, <2>3, SavedKept DEF ReadNow
  <2>4. CASE ReadNow(p)
    <3>1. p # moving.from
      BY <2>1, NothingIsNothing, WindowAssumption, NoTextAssumption DEF SavedInv, FilesHold
    <3>2. OneAtATime' /\ FilesHold'
      BY <2>2, <2>4 DEF SavedInv, OneAtATime, FilesHold, ReadNow
    <3> QED BY <2>2, <2>4, <3>1, <3>2 DEF SavedInv, Renamed, ReadNow
  <2>5. ASSUME p # open, ~ReadNow(p) PROVE SavedInv'
    <3>1. OneAtATime' /\ Unheard'
      BY <2>2, <2>5 DEF SavedInv, OneAtATime, Unheard, ReadNow
    <3>2. FilesHold'
      BY <2>2, <2>5 DEF SavedInv, OneAtATime, FilesHold
    <3> QED BY <3>1, <3>2 DEF SavedInv
  <2> QED BY <2>3, <2>4, <2>5
<1>8. ASSUME NEW p \in Parts, NEW q \in Parts, HostRenames(p, q) PROVE SavedInv'
  <2>1. /\ moving = NoMove /\ reading = {} /\ disk[p].text # NoText /\ disk[q].text = NoText
        /\ \A s \in Saves : save[s].at = "none"
    BY <1>8 DEF HostRenames, Exists, Saving
  <2>2. /\ moving' = [from |-> p, to |-> q] /\ UNCHANGED <<open, saved, reading, save>>
        /\ disk' = [disk EXCEPT ![q] = disk[p], ![p] = NoFile]
        /\ unseen' = unseen \cup (IF p \in unseen THEN {q} ELSE {})
    BY <1>8 DEF HostRenames, textVars
  <2>3. p # q /\ disk'[q] = disk[p] /\ disk'[p] = NoFile /\ \A r \in Parts : r \notin {p, q} => disk'[r] = disk[r]
    BY <2>1, <2>2 DEF TypeOK, FilesTyped
  <2>4. (open \in unseen \/ disk[open].text = saved) /\ open \in Parts /\ saved \in Texts
    BY <2>1, NothingIsNothing, WindowAssumption DEF SavedInv, Unheard, Renamed, TypeOK, TextTyped
  <2>5. Renamed' = IF open = p THEN q ELSE open
    BY <2>2 DEF Renamed
  <2>6. Renamed' \in unseen' \/ disk'[Renamed'].text = saved'
    BY <2>1, <2>2, <2>3, <2>4, <2>5, NoTextAssumption
  <2>7. FilesHold' /\ OneAtATime'
    BY <2>1, <2>2, <2>3, NothingIsNothing DEF FilesHold, OneAtATime
  <2> QED BY <2>6, <2>7 DEF SavedInv
<1>9. ASSUME NEW p \in Parts, NEW text \in Texts \cup {NoText}, OthersChange(p, text) PROVE SavedInv'
  <2>1. /\ p # moving.from /\ unseen' = unseen \cup {p} /\ UNCHANGED <<open, saved, save, moving>>
        /\ \A q \in Parts \ {p} : disk'[q] = disk[q]
    BY <1>9 DEF OthersChange, textVars, TypeOK, FilesTyped
  <2>2. /\ reading' # {} => reading # {}
        /\ \A r \in reading' : r.fresh => r \in reading /\ r.name # p
    <3>1. ASSUME NEW r \in reading', r.fresh PROVE r \in reading /\ r.name # p
      <4>1. PICK o \in reading : r = [o EXCEPT !.fresh = @ /\ o.name # p]
        BY <1>9, <3>1 DEF OthersChange
      <4>2. o \in Reads
        BY DEF TypeOK, FilesTyped
      <4>3. r.fresh = (o.fresh /\ o.name # p) /\ r.name = o.name /\ r.script = o.script
        BY <4>1, <4>2 DEF Reads
      <4>4. o.fresh = TRUE /\ o.name # p
        BY <3>1, <4>2, <4>3 DEF Reads
      <4>5. r = o
        BY <4>1, <4>2, <4>4 DEF Reads
      <4> QED BY <4>4, <4>5
    <3>2. reading' # {} => reading # {}
      BY <1>9 DEF OthersChange
    <3> QED BY <3>1, <3>2
  <2>3. moving # NoMove => moving.from \in Parts
    BY DEF TypeOK, FilesTyped
  <2>4. \A s \in Saves : save[s].at = "written" => save[s].path \in Parts
    BY SaveTyped DEF TypeOK
  <2>5. reading = {} => reading' = {}
    BY <1>9 DEF OthersChange
  <2>6. \A r \in reading : r.name \in Parts
    BY DEF TypeOK, FilesTyped, Reads
  <2>7. FilesHold'
    BY <2>1, <2>2, <2>3, <2>4, <2>6 DEF SavedInv, FilesHold
  <2>8. Renamed \in Parts /\ Renamed' = Renamed /\ (Unheard => Unheard')
    <3>1. Renamed \in Parts
      BY NothingIsNothing, WindowAssumption DEF Renamed, TypeOK, TextTyped, FilesTyped
    <3> QED BY <2>1, <3>1 DEF Renamed, Unheard
  <2> QED BY <2>1, <2>2, <2>5, <2>7, <2>8 DEF SavedInv, OneAtATime
<1> QED BY <1>1, <1>2, <1>3, <1>4, <1>5, <1>6, <1>7, <1>8, <1>9 DEF Next, WindowStep

(* Without the races a part that is not marked as changed is in its file   *)
(* as the editor has it, once no save and no rename is on its way, unless  *)
(* the file has changed since it was read or saved here.                   *)
THEOREM CleanIsSaved ==
  ASSUME Races = {}
  PROVE  Spec => []CleanMeansSaved
<1>1. Init => TypeOK /\ SavedInv
  BY InitTyped, SavedInit
<1>2. TypeOK /\ SavedInv /\ [Next]_vars => (TypeOK /\ SavedInv)'
  BY NextTyped, SavedStep
<1>3. TypeOK /\ SavedInv => CleanMeansSaved
  BY NothingIsNothing, WindowAssumption
     DEF SavedInv, CleanMeansSaved, Saving, Unheard, Renamed, TypeOK, TextTyped
<1> QED BY <1>1, <1>2, <1>3, PTL DEF Spec

(* With every race: formatting never changes what the editor says. *)
THEOREM FormattingKeeps == Spec => KeystrokeWins
<1>1. ASSUME TypeOK, NEW s \in Saves, SaveFormats(s) PROVE doc'.says = doc.says
  <2>1. save[s].text \in Texts
    BY <1>1, SaveTyped DEF SaveFormats, TypeOK
  <2>2. PICK text \in {save[s].text, Formatted(save[s].text)} :
          IF StillThere(s) /\ text # doc THEN doc' = text ELSE doc' = doc
    BY <1>1 DEF SaveFormats
  <2> QED BY <2>1, <2>2, FormattedKeeps DEF StillThere
<1>2. TypeOK /\ [Next]_vars => [\A s \in Saves : SaveFormats(s) => doc'.says = doc.says]_vars
  BY <1>1
<1> QED BY <1>2, Typing, PTL DEF Spec, KeystrokeWins
=============================================================================
