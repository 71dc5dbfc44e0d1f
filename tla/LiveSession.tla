---------------------------- MODULE LiveSession ----------------------------
(***************************************************************************)
(* The live session of one tenant: the host's Screen (session.rs), the     *)
(* editor windows that push what they show and follow what others do       *)
(* (engine.ts: run, start, subscribeSession), the event stream between     *)
(* them (http.rs: session_events), and an agent that edits over MCP.       *)
(*                                                                         *)
(* A message that carries a whole Session is modelled by the place that    *)
(* state has in `log`, the sequence of every state the Screen has had: the *)
(* fields of a state never change once it is committed, so the place says  *)
(* all of them.  The host's current state is the last of the log.          *)
(***************************************************************************)
EXTENDS Integers, Sequences

CONSTANTS
  Windows,      \* viewer ids; an id is minted per page load and lives once
  Agent,        \* AGENT_ORIGIN
  Nobody,       \* the origin "" of a Screen nothing was put on yet
  Parts,        \* paths of saved parts
  NoPart,       \* Session.name = null
  Texts,        \* scripts somebody writes
  Blank,        \* the empty script of a new Screen and a new editor
  Initial,      \* the part a window opens when the session has none
  Already,      \* the windows that follow the session when the model begins
  Capacity,     \* broadcast::channel(64): events one receiver can be behind
  MaxEdits,     \* bound: keystrokes, opens and agent calls together
  MaxDrops,     \* bound: event streams that break and tabs that close
  MaxFailures,  \* bound: requests that fail
  MaxRestarts,  \* bound: host restarts
  Quiet         \* the phases, of {"start", "connect"}, nobody commits during

ASSUME ConstantsAssumption ==
  /\ Agent \notin Windows /\ Nobody \notin Windows /\ Agent # Nobody
  /\ NoPart \notin Parts /\ Blank \notin Texts /\ Initial \in Parts
  /\ Already \subseteq Windows
  /\ Capacity \in Nat \ {0}
  /\ MaxEdits \in Nat /\ MaxDrops \in Nat /\ MaxFailures \in Nat /\ MaxRestarts \in Nat
  /\ Quiet \subseteq {"start", "connect"}

VARIABLES
  log,      \* every state of Screen.state, oldest first
  life,     \* where a window is: "unopened", "loading", "opening", "live", "closed"
  started,  \* the state getSession answered start() with, 0 for none
  doc,      \* what a window's titlebar and editor hold
  seen,     \* the state sessionRevision is the revision of, 0 for null
  authored, \* who wrote that document: this window's "user" or the "session"
  timer,    \* the debounce timer is armed
  run,      \* where run() is: "idle", "sent", "answered", "building"
  dirty,    \* run() was asked for while it ran
  job,      \* what run() captured, the reply it got and the revision it learnt
  stream,   \* the event stream: "closed", "reading", "open"
  first,    \* the state session_events read before it subscribed, 0 when sent
  ring,     \* broadcast events the stream has still to send
  report,   \* lastReport: what a window last said it evaluated
  wrote,    \* what was written: who wrote last and what, all of it, and whether one wrote all and none twice
  edits, drops, failures, restarts   \* what was spent of the bounds

editorVars == <<doc, seen, authored, timer>>
runVars    == <<run, dirty, job>>
streamVars == <<stream, first, ring>>
startVars  == <<life, started>>
faultVars  == <<drops, failures, restarts>>
editVars   == <<edits, wrote>>
bounds     == <<editVars, faultVars>>
vars == <<log, startVars, editorVars, runVars, streamVars, report, bounds>>

-----------------------------------------------------------------------------
Origins == Windows \cup {Agent, Nobody}
Docs    == [name : Parts \cup {NoPart}, script : Texts \cup {Blank}]
Authors == {"user", "session"}
States  == [doc : Docs, revision : Nat, origin : Origins]

(* `base` is the state the run stands on, `reply` the one the push was     *)
(* answered with, `learnt` the one the report will name; 0 for none.       *)
Jobs    == [doc : Docs, authored : Authors, base : Nat, reply : Nat, learnt : Nat]
Reports == [doc : Docs, state : Nat]

Fresh    == [doc |-> [name |-> NoPart, script |-> Blank], revision |-> 0, origin |-> Nobody]
NoJob    == [doc |-> Fresh.doc, authored |-> "session", base |-> 0, reply |-> 0, learnt |-> 0]
NoReport == [doc |-> Fresh.doc, state |-> 0]

Session == log[Len(log)]

(* An edit by a user or the agent: one more of MaxEdits. *)
Wrote(who, d) ==
  /\ edits < MaxEdits
  /\ edits' = edits + 1
  /\ wrote' = [by |-> who, doc |-> d, docs |-> wrote.docs \cup {d},
                sole |-> wrote.sole /\ wrote.by \in {who, Nobody}, once |-> wrote.once /\ d \notin wrote.docs]

(* Mutant of Newer: the last revision heard. *)
LastHeard(a, b) == b

(* Math.max(sessionRevision ?? 0, revision): of two states, the one with   *)
(* the greater revision.                                                   *)
Newer(a, b) == IF a # 0 /\ log[a].revision > log[b].revision THEN a ELSE b

Awake(w) == life[w] \in {"loading", "opening", "live"}

Starting   == \E w \in Windows : life[w] \in {"loading", "opening"}
Connecting == \E w \in Windows : stream[w] = "reading"
Calm == /\ "start" \in Quiet => ~Starting
        /\ "connect" \in Quiet => ~Connecting

-----------------------------------------------------------------------------
(* The host: session.rs. *)

(* Mutant of Enqueue: a full queue turns the new event away. *)
TurnAway(q, e) == IF Len(q) < Capacity THEN Append(q, e) ELSE q

(* One receiver of the broadcast channel: it holds the newest Capacity     *)
(* events, the ones before them are lost to it.                            *)
Enqueue(q, e) == LET longer == Append(q, e)
                 IN  IF Len(longer) > Capacity THEN Tail(longer) ELSE longer

Commit(d, origin) ==
  /\ log' = Append(log, [doc |-> d, revision |-> Session.revision + 1, origin |-> origin])
  /\ ring' = [w \in Windows |-> IF stream[w] = "open" THEN Enqueue(ring[w], Len(log) + 1) ELSE ring[w]]

Identical(d) == Session.doc = d

(* Mutant of Replaced: every push is taken. *)
NeverReplaced(base, origin) == FALSE

Replaced(base, origin) ==
  /\ base # 0
  /\ log[base].revision < Session.revision
  /\ Session.origin # origin

(* push: taken, or answered with the state that stands. *)
HostPush(w) ==
  /\ run[w] = "sent" /\ Calm
  /\ IF Identical(job[w].doc) \/ Replaced(job[w].base, w)
       THEN UNCHANGED <<log, ring>>
       ELSE Commit(job[w].doc, w)
  /\ job' = [job EXCEPT ![w].reply = Len(log')]
  /\ run' = [run EXCEPT ![w] = "answered"]
  /\ UNCHANGED <<startVars, editorVars, dirty, stream, first, report, bounds>>

(* open_project over MCP: the script is whatever the disk holds. *)
AgentOpen(p, t) ==
  /\ Calm
  /\ Wrote(Agent, [name |-> p, script |-> t])
  /\ Commit([name |-> p, script |-> t], Agent)
  /\ UNCHANGED <<startVars, editorVars, runVars, stream, first, report, faultVars>>

(* set_script over MCP: always a new revision, refused while nothing is open. *)
AgentSetScript(t) ==
  /\ Calm
  /\ Session.doc.name # NoPart
  /\ Wrote(Agent, [Session.doc EXCEPT !.script = t])
  /\ Commit([Session.doc EXCEPT !.script = t], Agent)
  /\ UNCHANGED <<startVars, editorVars, runVars, stream, first, report, faultVars>>

(* The process ends and another is started: the Screen is new, every       *)
(* connection is gone and the requests on them fail in their windows; a    *)
(* start() that was reading its part rejects and does not run.             *)
Restart ==
  /\ restarts < MaxRestarts
  /\ restarts' = restarts + 1
  /\ log' = Append(log, Fresh)
  /\ stream' = [w \in Windows |-> "closed"]
  /\ first' = [w \in Windows |-> 0]
  /\ ring' = [w \in Windows |-> <<>>]
  /\ run' = [w \in Windows |-> IF run[w] \in {"sent", "answered"} THEN "building" ELSE run[w]]
  /\ life' = [w \in Windows |-> IF life[w] = "opening" THEN "live" ELSE life[w]]
  /\ started' = [w \in Windows |-> 0]
  /\ UNCHANGED <<editorVars, dirty, job, report, editVars, drops, failures>>

-----------------------------------------------------------------------------
(* The event stream: session_events, and EventSource on the other end. *)

(* Mutant of Connect: the stream begins with the changes. *)
ConnectBlind(w) ==
  /\ Awake(w) /\ stream[w] = "closed"
  /\ stream' = [stream EXCEPT ![w] = "reading"]
  /\ UNCHANGED <<log, startVars, editorVars, runVars, first, ring, report, bounds>>

(* session_events reads the state... *)
Connect(w) ==
  /\ Awake(w) /\ stream[w] = "closed"
  /\ stream' = [stream EXCEPT ![w] = "reading"]
  /\ first' = [first EXCEPT ![w] = Len(log)]
  /\ UNCHANGED <<log, startVars, editorVars, runVars, ring, report, bounds>>

(* ... and subscribes to the changes after it, in a step of its own. *)
Subscribe(w) ==
  /\ stream[w] = "reading"
  /\ stream' = [stream EXCEPT ![w] = "open"]
  /\ UNCHANGED <<log, startVars, editorVars, runVars, first, ring, report, bounds>>

Disconnect(w) ==
  /\ stream' = [stream EXCEPT ![w] = "closed"]
  /\ first' = [first EXCEPT ![w] = 0]
  /\ ring' = [ring EXCEPT ![w] = <<>>]

Drop(w) ==
  /\ stream[w] = "open" /\ drops < MaxDrops
  /\ drops' = drops + 1
  /\ Disconnect(w)
  /\ UNCHANGED <<log, startVars, editorVars, runVars, report, editVars, failures, restarts>>

(* Mutant of Follow: nothing to evaluate where the text is already there. *)
FollowNewText(w, state) ==
  /\ seen' = [seen EXCEPT ![w] = Newer(@, state)]
  /\ IF log[state].origin = w
       THEN UNCHANGED <<doc, authored, timer>>
       ELSE /\ doc' = [doc EXCEPT ![w] = log[state].doc]
            /\ authored' = [authored EXCEPT ![w] = "session"]
            /\ timer' = [timer EXCEPT ![w] = @ \/ doc[w].script # log[state].doc.script]

(* The handler of subscribeSession.  A foreign change replaces the         *)
(* document; its dispatch, or the schedule() when the text is already      *)
(* there, arms the timer.                                                  *)
Follow(w, state) ==
  /\ seen' = [seen EXCEPT ![w] = Newer(@, state)]
  /\ IF log[state].origin = w
       THEN UNCHANGED <<doc, authored, timer>>
       ELSE /\ doc' = [doc EXCEPT ![w] = log[state].doc]
            /\ authored' = [authored EXCEPT ![w] = "session"]
            /\ timer' = [timer EXCEPT ![w] = TRUE]

Deliver(w) ==
  /\ stream[w] = "open"
  /\ \/ /\ first[w] # 0
        /\ Follow(w, first[w])
        /\ first' = [first EXCEPT ![w] = 0]
        /\ UNCHANGED ring
     \/ /\ first[w] = 0 /\ ring[w] # <<>>
        /\ Follow(w, Head(ring[w]))
        /\ ring' = [ring EXCEPT ![w] = Tail(@)]
        /\ UNCHANGED first
  /\ UNCHANGED <<log, startVars, runVars, stream, report, bounds>>

-----------------------------------------------------------------------------
(* The window: engine.ts. *)

OpenWindow(w) ==
  /\ life[w] = "unopened"
  /\ life' = [life EXCEPT ![w] = "loading"]
  /\ UNCHANGED <<log, started, editorVars, runVars, streamVars, report, bounds>>

(* The tab goes with all it held; a push it sent may still reach the host. *)
CloseWindow(w) ==
  /\ Awake(w) /\ drops < MaxDrops
  /\ drops' = drops + 1
  /\ life' = [life EXCEPT ![w] = "closed"]
  /\ started' = [started EXCEPT ![w] = 0]
  /\ doc' = [doc EXCEPT ![w] = Fresh.doc]
  /\ seen' = [seen EXCEPT ![w] = 0]
  /\ authored' = [authored EXCEPT ![w] = "session"]
  /\ timer' = [timer EXCEPT ![w] = FALSE]
  /\ Disconnect(w)
  /\ report' = [report EXCEPT ![w] = NoReport]
  /\ UNCHANGED <<log, runVars, editVars, failures, restarts>>

(* run() captures the document, the name and the revision it stands on, or *)
(* remembers that it was asked for when it is already running.             *)
Run(w, d, author, base) ==
  IF run[w] = "idle"
    THEN /\ run' = [run EXCEPT ![w] = "sent"]
         /\ dirty' = [dirty EXCEPT ![w] = FALSE]
         /\ job' = [job EXCEPT ![w] = [doc |-> d, authored |-> author, base |-> base, reply |-> 0, learnt |-> 0]]
    ELSE dirty' = [dirty EXCEPT ![w] = TRUE] /\ UNCHANGED <<run, job>>

(* start(): getSession, answered or failed. *)
StartRead(w) ==
  /\ life[w] = "loading"
  /\ life' = [life EXCEPT ![w] = "opening"]
  /\ \/ started' = [started EXCEPT ![w] = Len(log)] /\ UNCHANGED failures
     \/ failures < MaxFailures /\ failures' = failures + 1 /\ UNCHANGED started
  /\ UNCHANGED <<log, editorVars, runVars, streamVars, report, editVars, drops, restarts>>

(* start() after its awaits: the part the session named, or the default,   *)
(* off the disk, and the session's script over it.  sessionRevision is     *)
(* assigned, not raised; then run().                                       *)
StartApply(w) ==
  /\ life[w] = "opening"
  /\ life' = [life EXCEPT ![w] = "live"]
  /\ started' = [started EXCEPT ![w] = 0]
  /\ \E disk \in Texts :
       LET current == started[w] # 0 /\ log[started[w]].doc.name # NoPart
           opened  == [name |-> IF current THEN log[started[w]].doc.name ELSE Initial, script |-> disk]
           showing == IF current THEN log[started[w]].doc ELSE opened
           base    == IF current THEN started[w] ELSE seen[w]
           author  == IF current THEN "session" ELSE "user"
       IN  /\ doc' = [doc EXCEPT ![w] = showing]
           /\ authored' = [authored EXCEPT ![w] = author]
           /\ seen' = [seen EXCEPT ![w] = base]
           /\ timer' = [timer EXCEPT ![w] = @ \/ doc[w] # opened \/ opened # showing]
           /\ Run(w, showing, author, base)
  /\ UNCHANGED <<log, streamVars, report, bounds>>

(* The user's document: typed, or another part opened. *)
Write(w, d) ==
  /\ doc[w] # d
  /\ Wrote(w, d)
  /\ doc' = [doc EXCEPT ![w] = d]
  /\ authored' = [authored EXCEPT ![w] = "user"]
  /\ timer' = [timer EXCEPT ![w] = TRUE]
  /\ UNCHANGED <<log, startVars, seen, runVars, streamVars, report, faultVars>>

Type(w, t) == Awake(w) /\ Write(w, [doc[w] EXCEPT !.script = t])

(* openProject: nothing when the part is open and unmodified. *)
OpenPart(w, p, t) == life[w] = "live" /\ Write(w, [name |-> p, script |-> t])

Fire(w) ==
  /\ Awake(w) /\ timer[w]
  /\ timer' = [timer EXCEPT ![w] = FALSE]
  /\ Run(w, doc[w], authored[w], seen[w])
  /\ UNCHANGED <<log, startVars, doc, seen, authored, streamVars, report, bounds>>

(* pushSession rejects, before or after the host took the push. *)
PushFails(w) ==
  /\ Awake(w) /\ run[w] \in {"sent", "answered"} /\ failures < MaxFailures
  /\ failures' = failures + 1
  /\ run' = [run EXCEPT ![w] = "building"]
  /\ UNCHANGED <<log, startVars, editorVars, dirty, job, streamVars, report, editVars, drops, restarts>>

(* Mutant of HearReply: whatever the push was answered with counts. *)
HearAny(w) ==
  /\ Awake(w) /\ run[w] = "answered"
  /\ run' = [run EXCEPT ![w] = "building"]
  /\ job' = [job EXCEPT ![w].learnt = job[w].reply]
  /\ seen' = [seen EXCEPT ![w] = Newer(@, job[w].reply)]
  /\ UNCHANGED <<log, startVars, doc, authored, timer, dirty, streamVars, report, bounds>>

(* The answer counts only when it is about the text that was pushed. *)
HearReply(w) ==
  /\ Awake(w) /\ run[w] = "answered"
  /\ run' = [run EXCEPT ![w] = "building"]
  /\ IF log[job[w].reply].doc = job[w].doc
       THEN /\ job' = [job EXCEPT ![w].learnt = job[w].reply]
            /\ seen' = [seen EXCEPT ![w] = Newer(@, job[w].reply)]
       ELSE UNCHANGED <<job, seen>>
  /\ UNCHANGED <<log, startVars, doc, authored, timer, dirty, streamVars, report, bounds>>

(* report: lastReport, said again on every heartbeat. *)
Told(w) ==
  IF job[w].learnt = 0 THEN report ELSE [report EXCEPT ![w] = [doc |-> job[w].doc, state |-> job[w].learnt]]

(* Mutant of Build: what was asked for meanwhile is forgotten. *)
BuildOnce(w) ==
  /\ Awake(w) /\ run[w] = "building"
  /\ run' = [run EXCEPT ![w] = "idle"]
  /\ job' = [job EXCEPT ![w] = NoJob]
  /\ report' = Told(w)
  /\ UNCHANGED <<log, startVars, doc, seen, authored, timer, dirty, streamVars, bounds>>

(* The evaluation ends, built or refused; either is reported under the     *)
(* revision run() learnt, when it learnt one.                              *)
Build(w) ==
  /\ Awake(w) /\ run[w] = "building"
  /\ run' = [run EXCEPT ![w] = "idle"]
  /\ job' = [job EXCEPT ![w] = NoJob]
  /\ report' = Told(w)
  /\ timer' = [timer EXCEPT ![w] = @ \/ dirty[w]]
  /\ UNCHANGED <<log, startVars, doc, seen, authored, dirty, streamVars, bounds>>

-----------------------------------------------------------------------------
(* The model begins with a new host and, when some windows are Already     *)
(* open, at the moment they all have taken a part one of them opened and   *)
(* are about to evaluate it.                                               *)
Opened(w, t) == [doc |-> [name |-> Initial, script |-> t], revision |-> 1, origin |-> w]

Init ==
  /\ log \in IF Already = {} THEN {<<Fresh>>} ELSE {<<Fresh, Opened(w, t)>> : w \in Already, t \in Texts}
  /\ life = [w \in Windows |-> IF w \in Already THEN "live" ELSE "unopened"]
  /\ started = [w \in Windows |-> 0]
  /\ doc = [w \in Windows |-> IF w \in Already THEN Session.doc ELSE Fresh.doc]
  /\ seen = [w \in Windows |-> IF w \in Already THEN Len(log) ELSE 0]
  /\ authored = [w \in Windows |-> IF w \in Already /\ Session.origin = w THEN "user" ELSE "session"]
  /\ timer = [w \in Windows |-> w \in Already]
  /\ run = [w \in Windows |-> "idle"]
  /\ dirty = [w \in Windows |-> FALSE]
  /\ job = [w \in Windows |-> NoJob]
  /\ stream = [w \in Windows |-> IF w \in Already THEN "open" ELSE "closed"]
  /\ first = [w \in Windows |-> 0]
  /\ ring = [w \in Windows |-> <<>>]
  /\ report = [w \in Windows |-> IF w \in Already THEN [doc |-> Session.doc, state |-> Len(log)] ELSE NoReport]
  /\ wrote = [by |-> Nobody, doc |-> Session.doc, docs |-> {log[i].doc : i \in DOMAIN log}, sole |-> TRUE, once |-> TRUE]
  /\ edits = 0 /\ drops = 0 /\ failures = 0 /\ restarts = 0

(* What a window, its connection and the host behind it do on their own. *)
WindowStep(w) ==
  \/ StartRead(w) \/ StartApply(w) \/ Fire(w) \/ HostPush(w) \/ HearReply(w) \/ Build(w)
  \/ Connect(w) \/ Subscribe(w) \/ Deliver(w)

(* What a user does to a window, and what goes wrong with it. *)
UserStep(w) ==
  \/ OpenWindow(w) \/ CloseWindow(w) \/ Drop(w) \/ PushFails(w)
  \/ \E t \in Texts : Type(w, t) \/ \E p \in Parts : OpenPart(w, p, t)

AgentStep == \E t \in Texts : AgentSetScript(t) \/ \E p \in Parts : AgentOpen(p, t)

Next == Restart \/ AgentStep \/ \E w \in Windows : WindowStep(w) \/ UserStep(w)

Spec == Init /\ [][Next]_vars

(* Timers fire, requests are answered, builds end (they have a timeout)    *)
(* and EventSource reconnects; nobody has to type, open or call.           *)
Fairness ==
  \A w \in Windows :
    /\ WF_vars(StartRead(w)) /\ WF_vars(StartApply(w))
    /\ WF_vars(Fire(w)) /\ WF_vars(HostPush(w)) /\ WF_vars(HearReply(w)) /\ WF_vars(Build(w))
    /\ WF_vars(Connect(w)) /\ WF_vars(Subscribe(w)) /\ WF_vars(Deliver(w))

FairSpec == Spec /\ Fairness

-----------------------------------------------------------------------------
HostTyped ==
  /\ log \in Seq(States) /\ log # <<>>
  /\ wrote \in [by : Origins, doc : Docs, docs : SUBSET Docs, sole : BOOLEAN, once : BOOLEAN]
  /\ edits \in 0 .. MaxEdits /\ drops \in 0 .. MaxDrops
  /\ failures \in 0 .. MaxFailures /\ restarts \in 0 .. MaxRestarts

WindowsTyped ==
  /\ life \in [Windows -> {"unopened", "loading", "opening", "live", "closed"}]
  /\ doc \in [Windows -> Docs]
  /\ authored \in [Windows -> Authors] /\ timer \in [Windows -> BOOLEAN] /\ dirty \in [Windows -> BOOLEAN]
  /\ run \in [Windows -> {"idle", "sent", "answered", "building"}]
  /\ stream \in [Windows -> {"closed", "reading", "open"}]
  /\ started \in [Windows -> Nat] /\ seen \in [Windows -> Nat] /\ first \in [Windows -> Nat]
  /\ job \in [Windows -> Jobs]
  /\ ring \in [Windows -> Seq(Nat)]
  /\ report \in [Windows -> Reports]

(* What names a state names one the Screen has had. *)
PlacesExist ==
  \A w \in Windows :
    /\ started[w] <= Len(log) /\ seen[w] <= Len(log) /\ first[w] <= Len(log)
    /\ job[w].base <= Len(log) /\ job[w].reply <= Len(log) /\ job[w].learnt <= Len(log)
    /\ report[w].state <= Len(log)
    /\ \A i \in 1 .. Len(ring[w]) : ring[w][i] \in 1 .. Len(log)

TypeOK == HostTyped /\ WindowsTyped /\ PlacesExist

(* Two viewers holding the same revision are showing the same text: what a *)
(* window reports as evaluated is what the session held at the revision it *)
(* names.                                                                  *)
ReportsAreTrue ==
  \A w \in Windows : report[w].state # 0 =>
    \A i \in 1 .. Len(log) : log[i].revision = log[report[w].state].revision => report[w].doc = log[i].doc

(* The push of an applied change is a no-op on the host, which ends the    *)
(* ripple: a document a window only took from the session is never         *)
(* committed back by it, so everything it commits, its user wrote.         *)
EchoNeverCommits ==
  [][\A w \in Windows : (HostPush(w) /\ log' # log) => job[w].authored = "user"]_vars

(* So it is as long as nobody writes a document that was written before:   *)
(* then the answer to a push cannot be about another change with the same  *)
(* text, and no window comes to stand on a state it has not been shown.    *)
EchoesDie ==
  [][\A w \in Windows : (wrote.once /\ HostPush(w) /\ log' # log) => job[w].authored = "user"]_vars

(* sessionRevision is the newest revision the window has seen: it never    *)
(* goes back while the window lives.                                       *)
SeenNeverFalls ==
  [][\A w \in Windows : (seen[w] # 0 /\ life'[w] # "closed") =>
       seen'[w] # 0 /\ log'[seen'[w]].revision >= log[seen[w]].revision]_vars

Settled == \A w \in Windows : life[w] = "live" => doc[w] = Session.doc

(* When edits stop, every open window shows what the session says, unless  *)
(* a request failed: a push that does is not sent again before an edit.    *)
Converges == <>[](failures = 0 => Settled)

(* ... and has reported evaluating that revision. *)
ReportsCatchUp ==
  <>[](failures = 0 => \A w \in Windows : life[w] = "live" => report[w] = [doc |-> Session.doc, state |-> Len(log)])

(* When one user or one agent did all the editing, and wrote nothing       *)
(* twice, the last thing they wrote is what the session says in the end:   *)
(* nobody's echo, stale push or reconnection takes it back.                *)
LastEditWins == <>[](failures = 0 /\ wrote.sole /\ wrote.once => Session.doc = wrote.doc)
=============================================================================
