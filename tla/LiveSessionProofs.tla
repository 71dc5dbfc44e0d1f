------------------------ MODULE LiveSessionProofs ------------------------
(* What holds of LiveSession for any windows, scripts and bounds. *)
EXTENDS LiveSession, TLAPS

-----------------------------------------------------------------------------
(* The operators. *)

LEMMA FreshTyped == Fresh.doc \in Docs /\ Fresh \in States /\ NoJob \in Jobs /\ NoReport \in Reports
BY ConstantsAssumption DEF Fresh, NoJob, NoReport, Docs, States, Jobs, Reports, Origins, Authors

(* The latest state is one of the log. *)
LEMMA SessionTyped ==
  ASSUME HostTyped
  PROVE  /\ Len(log) \in Nat \ {0}
         /\ Session \in States /\ Session.doc \in Docs
         /\ Session.revision \in Nat /\ Session.origin \in Origins
<1>1. log \in Seq(States) /\ Len(log) \in Nat \ {0}
  BY DEF HostTyped
<1>2. Session \in States
  BY <1>1 DEF Session
<1> QED BY <1>1, <1>2 DEF States

(* Of two places of the log, Newer is one. *)
LEMMA NewerIsOne == \A a, b : Newer(a, b) \in {a, b}
BY DEF Newer

(* A queue that takes an event holds it last, and holds nothing else new. *)
LEMMA EnqueueKeeps ==
  ASSUME NEW q \in Seq(Nat), NEW e \in Nat
  PROVE  /\ Enqueue(q, e) \in Seq(Nat)
         /\ \A i \in 1 .. Len(Enqueue(q, e)) :
              Enqueue(q, e)[i] = e \/ \E j \in 1 .. Len(q) : Enqueue(q, e)[i] = q[j]
<1> DEFINE longer == Append(q, e)
<1>0. Len(q) \in Nat
  OBVIOUS
<1>1. longer \in Seq(Nat) /\ Len(longer) = Len(q) + 1
  OBVIOUS
<1>2. \A i \in 1 .. Len(longer) : longer[i] = IF i = Len(q) + 1 THEN e ELSE q[i]
  OBVIOUS
<1>3. CASE Len(longer) > Capacity
  <2>1. Enqueue(q, e) = Tail(longer)
    BY <1>3 DEF Enqueue
  <2>2. Tail(longer) \in Seq(Nat) /\ Len(Tail(longer)) = Len(q)
    BY <1>0, <1>1
  <2>3. \A i \in 1 .. Len(q) : Tail(longer)[i] = longer[i + 1]
    BY <1>1
  <2> HIDE DEF longer
  <2>4. ASSUME NEW i \in 1 .. Len(q) PROVE Tail(longer)[i] = e \/ \E j \in 1 .. Len(q) : Tail(longer)[i] = q[j]
    <3>1. Tail(longer)[i] = IF i + 1 = Len(q) + 1 THEN e ELSE q[i + 1]
      BY SMTT(20), <1>0, <1>1, <1>2, <2>3
    <3>2. i + 1 = Len(q) + 1 \/ i + 1 \in 1 .. Len(q)
      BY <1>0
    <3> QED BY <3>1, <3>2
  <2> QED BY <2>1, <2>2, <2>4
<1>4. CASE ~(Len(longer) > Capacity)
  <2>1. Enqueue(q, e) = longer
    BY <1>4 DEF Enqueue
  <2> HIDE DEF longer
  <2> QED BY <2>1, <1>1, <1>2
<1> QED BY <1>3, <1>4

(* A commit adds one state and leaves the others; queues name states.      *)
LEMMA CommitAdds ==
  ASSUME TypeOK, NEW d \in Docs, NEW o \in Origins, Commit(d, o)
  PROVE  /\ log' \in Seq(States) /\ log' # <<>> /\ Len(log') = Len(log) + 1
         /\ \A i \in 1 .. Len(log) : log'[i] = log[i]
         /\ log'[Len(log')] = [doc |-> d, revision |-> Session.revision + 1, origin |-> o]
         /\ ring' \in [Windows -> Seq(Nat)]
         /\ \A w \in Windows : \A i \in 1 .. Len(ring'[w]) : ring'[w][i] \in 1 .. Len(log')
<1> DEFINE new == [doc |-> d, revision |-> Session.revision + 1, origin |-> o]
<1>1. new \in States
  BY SessionTyped DEF TypeOK, States
<1>2. log' = Append(log, new) /\ log \in Seq(States)
  BY DEF Commit, TypeOK, HostTyped
<1>3. /\ log' \in Seq(States) /\ log' # <<>> /\ Len(log') = Len(log) + 1
      /\ \A i \in 1 .. Len(log) : log'[i] = log[i]
      /\ log'[Len(log')] = new
  <2> HIDE DEF new
  <2> QED BY <1>1, <1>2
<1>4. ring' \in [Windows -> Seq(Nat)]
  BY SessionTyped, EnqueueKeeps DEF Commit, TypeOK, WindowsTyped
<1>5. ASSUME NEW w \in Windows, NEW i \in 1 .. Len(ring'[w]) PROVE ring'[w][i] \in 1 .. Len(log')
  <2>0. Len(log) \in Nat /\ ring[w] \in Seq(Nat) /\ \A j \in 1 .. Len(ring[w]) : ring[w][j] \in 1 .. Len(log)
    BY SessionTyped DEF TypeOK, WindowsTyped, PlacesExist
  <2>1. CASE stream[w] = "open"
    <3>1. ring'[w] = Enqueue(ring[w], Len(log) + 1)
      BY <2>1 DEF Commit
    <3>2. ring'[w][i] = Len(log) + 1 \/ \E j \in 1 .. Len(ring[w]) : ring'[w][i] = ring[w][j]
      <4> DEFINE q == ring[w]  e == Len(log) + 1
      <4>1. q \in Seq(Nat) /\ e \in Nat
        BY <2>0
      <4> HIDE DEF q, e
      <4>2. \A k \in 1 .. Len(Enqueue(q, e)) :
               Enqueue(q, e)[k] = e \/ \E j \in 1 .. Len(q) : Enqueue(q, e)[k] = q[j]
        BY <4>1, EnqueueKeeps
      <4> QED BY <4>2, <3>1 DEF q, e
    <3> QED BY <1>3, <2>0, <3>2
  <2>2. CASE stream[w] # "open"
    BY <1>3, <2>0, <2>2 DEF Commit
  <2> QED BY <2>1, <2>2
<1> QED BY <1>3, <1>4, <1>5

-----------------------------------------------------------------------------
LEMMA InitTyped == Init => TypeOK
<1> SUFFICES ASSUME Init PROVE TypeOK
  OBVIOUS
<1>1. log \in Seq(States) /\ log # <<>> /\ Session \in States /\ Session.doc \in Docs /\ Len(log) \in Nat \ {0}
  <2>1. CASE Already = {}
    <3>1. log = <<Fresh>>
      BY <2>1 DEF Init
    <3> QED BY <3>1, FreshTyped DEF Session
  <2>2. CASE Already # {}
    <3>1. PICK w \in Already, t \in Texts : log = <<Fresh, Opened(w, t)>>
      BY <2>2 DEF Init
    <3>2. Opened(w, t) \in States /\ Opened(w, t).doc \in Docs
      BY ConstantsAssumption DEF Opened, States, Docs, Origins
    <3> QED BY <3>1, <3>2, FreshTyped DEF Session
  <2> QED BY <2>1, <2>2
<1>2. HostTyped
  <2>1. \A i \in DOMAIN log : log[i].doc \in Docs
    <3>1. \A i \in DOMAIN log : log[i] \in States
      BY <1>1
    <3> QED BY <3>1 DEF States
  <2> QED BY <1>1, <2>1, ConstantsAssumption DEF Init, HostTyped, Origins
<1>3. WindowsTyped
  BY <1>1, FreshTyped DEF Init, WindowsTyped, Reports, Authors
<1>4. PlacesExist
  <2>1. NoJob.base = 0 /\ NoJob.reply = 0 /\ NoJob.learnt = 0 /\ NoReport.state = 0
    BY DEF NoJob, NoReport
  <2>2. Len(<<>>) = 0
    OBVIOUS
  <2>3. ASSUME NEW w \in Windows
        PROVE  /\ started[w] <= Len(log) /\ seen[w] <= Len(log) /\ first[w] <= Len(log)
               /\ job[w].base <= Len(log) /\ job[w].reply <= Len(log) /\ job[w].learnt <= Len(log)
               /\ report[w].state <= Len(log)
               /\ \A i \in 1 .. Len(ring[w]) : ring[w][i] \in 1 .. Len(log)
    <3>1. started[w] = 0 /\ seen[w] \in {0, Len(log)} /\ first[w] = 0
      BY DEF Init
    <3>2. job[w] = NoJob /\ ring[w] = <<>>
      BY DEF Init
    <3>3. report[w].state \in {0, Len(log)}
      BY <2>1 DEF Init
    <3>4. \A i \in 1 .. Len(ring[w]) : ring[w][i] \in 1 .. Len(log)
      BY <2>2, <3>2
    <3> QED BY <1>1, <2>1, <3>1, <3>2, <3>3, <3>4
  <2> QED BY <2>3 DEF PlacesExist
<1> QED BY <1>2, <1>3, <1>4 DEF TypeOK

(* An edit is counted and remembered. *)
LEMMA WroteTyped ==
  ASSUME HostTyped, NEW who \in Origins, NEW d \in Docs, Wrote(who, d)
  PROVE  edits' \in 0 .. MaxEdits /\ wrote' \in [by : Origins, doc : Docs, docs : SUBSET Docs, sole : BOOLEAN, once : BOOLEAN]
BY ConstantsAssumption DEF HostTyped, Wrote, Origins

LEMMA AgentTyped ==
  ASSUME TypeOK, NEW d \in Docs, Wrote(Agent, d), Commit(d, Agent),
         UNCHANGED <<startVars, editorVars, runVars, stream, first, report, faultVars>>
  PROVE  TypeOK'
<1>0. Agent \in Origins /\ HostTyped /\ WindowsTyped /\ PlacesExist /\ Len(log) \in Nat
  BY SessionTyped DEF Origins, TypeOK
<1>1. HostTyped'
  BY <1>0, CommitAdds, WroteTyped DEF HostTyped, faultVars
<1>2. WindowsTyped'
  BY <1>0, CommitAdds DEF WindowsTyped, startVars, editorVars, runVars
<1>3. PlacesExist'
  <2>1. Len(log') = Len(log) + 1 /\ \A w \in Windows : \A i \in 1 .. Len(ring'[w]) : ring'[w][i] \in 1 .. Len(log')
    BY <1>0, CommitAdds
  <2>2. \A w \in Windows : /\ started[w] \in Nat /\ seen[w] \in Nat /\ first[w] \in Nat
                          /\ job[w].base \in Nat /\ job[w].reply \in Nat /\ job[w].learnt \in Nat
                          /\ report[w].state \in Nat
    BY <1>0 DEF WindowsTyped, Jobs, Reports
  <2> QED BY SMTT(20), <1>0, <2>1, <2>2 DEF PlacesExist, startVars, editorVars, runVars
<1> QED BY <1>1, <1>2, <1>3 DEF TypeOK

(* What PlacesExist compares is numbers. *)
LEMMA PlacesTyped ==
  ASSUME TypeOK
  PROVE  /\ Len(log) \in Nat \ {0}
         /\ \A w \in Windows : /\ started[w] \in Nat /\ seen[w] \in Nat /\ first[w] \in Nat
                               /\ job[w].base \in Nat /\ job[w].reply \in Nat /\ job[w].learnt \in Nat
                               /\ job[w].doc \in Docs /\ report[w].state \in Nat
                               /\ ring[w] \in Seq(Nat) /\ Len(ring[w]) \in Nat
BY SessionTyped DEF TypeOK, WindowsTyped, Jobs, Reports

LEMMA PlacesBounded ==
  ASSUME TypeOK, NEW w \in Windows
  PROVE  /\ Len(log) \in Nat
         /\ started[w] \in 0 .. Len(log) /\ seen[w] \in 0 .. Len(log)
         /\ report[w].state \in 0 .. Len(log)
<1>1. /\ Len(log) \in Nat /\ started[w] \in Nat /\ seen[w] \in Nat /\ report[w].state \in Nat
  BY PlacesTyped
<1>2. started[w] <= Len(log) /\ seen[w] <= Len(log) /\ report[w].state <= Len(log)
  BY DEF TypeOK, PlacesExist
<1> QED BY <1>1, <1>2

(* A step that leaves the host alone has the windows to look after. *)
LEMMA WindowStepTyped ==
  ASSUME TypeOK, UNCHANGED <<log, bounds>>, WindowsTyped', PlacesExist'
  PROVE  TypeOK'
BY DEF TypeOK, HostTyped, bounds, faultVars, editVars

LEMMA DisconnectTyped ==
  ASSUME TypeOK, NEW w \in Windows, Disconnect(w)
  PROVE  /\ stream' \in [Windows -> {"closed", "reading", "open"}]
         /\ first' \in [Windows -> Nat] /\ ring' \in [Windows -> Seq(Nat)]
         /\ \A v \in Windows : /\ first'[v] <= Len(log)
                               /\ \A i \in 1 .. Len(ring'[v]) : ring'[v][i] \in 1 .. Len(log)
<1>1. /\ stream' \in [Windows -> {"closed", "reading", "open"}]
      /\ first' \in [Windows -> Nat] /\ ring' \in [Windows -> Seq(Nat)]
  BY DEF TypeOK, WindowsTyped, Disconnect
<1>2. ASSUME NEW v \in Windows
      PROVE  first'[v] <= Len(log) /\ \A i \in 1 .. Len(ring'[v]) : ring'[v][i] \in 1 .. Len(log)
  <2>1. CASE v = w
    <3>1. first'[v] = 0 /\ ring'[v] = <<>>
      BY <2>1 DEF TypeOK, WindowsTyped, Disconnect
    <3>2. Len(ring'[v]) = 0
      BY <3>1
    <3> QED BY <3>1, <3>2, PlacesTyped
  <2>2. CASE v # w
    BY <2>2 DEF TypeOK, WindowsTyped, PlacesExist, Disconnect
  <2> QED BY <2>1, <2>2
<1> QED BY <1>1, <1>2

(* Filling in one field of a job leaves the others. *)
LEMMA JobFields ==
  ASSUME NEW j \in Jobs, NEW n \in Nat
  PROVE  /\ [j EXCEPT !.reply = n] \in Jobs
         /\ [j EXCEPT !.reply = n].doc = j.doc /\ [j EXCEPT !.reply = n].base = j.base
         /\ [j EXCEPT !.reply = n].learnt = j.learnt /\ [j EXCEPT !.reply = n].reply = n
         /\ [j EXCEPT !.learnt = n] \in Jobs
         /\ [j EXCEPT !.learnt = n].doc = j.doc /\ [j EXCEPT !.learnt = n].base = j.base
         /\ [j EXCEPT !.learnt = n].reply = j.reply /\ [j EXCEPT !.learnt = n].learnt = n
BY DEF Jobs

(* run() captures typed things. *)
LEMMA RunTyped ==
  ASSUME TypeOK, NEW w \in Windows, NEW d \in Docs, NEW author \in Authors, NEW base \in 0 .. Len(log), Run(w, d, author, base)
  PROVE  /\ run' \in [Windows -> {"idle", "sent", "answered", "building"}]
         /\ dirty' \in [Windows -> BOOLEAN] /\ job' \in [Windows -> Jobs]
         /\ \A v \in Windows : /\ job'[v].base <= Len(log) /\ job'[v].reply <= Len(log)
                               /\ job'[v].learnt <= Len(log)
<1> DEFINE new == [doc |-> d, authored |-> author, base |-> base, reply |-> 0, learnt |-> 0]
<1>1. /\ new \in Jobs /\ new.base = base /\ new.reply = 0 /\ new.learnt = 0
  BY PlacesTyped DEF Jobs
<1>2. CASE run[w] = "idle"
  <2>1. /\ run' = [run EXCEPT ![w] = "sent"] /\ dirty' = [dirty EXCEPT ![w] = FALSE]
        /\ job' = [job EXCEPT ![w] = new]
    BY <1>2 DEF Run
  <2> HIDE DEF new
  <2> QED BY <1>1, <2>1, PlacesTyped DEF TypeOK, WindowsTyped, PlacesExist
<1>3. CASE run[w] # "idle"
  BY <1>3 DEF Run, TypeOK, WindowsTyped, PlacesExist
<1> QED BY <1>2, <1>3

(* Following a state types what it sets. *)
LEMMA FollowTyped ==
  ASSUME TypeOK, NEW w \in Windows, NEW state \in 1 .. Len(log), Follow(w, state)
  PROVE  /\ doc' \in [Windows -> Docs] /\ seen' \in [Windows -> Nat]
         /\ authored' \in [Windows -> Authors] /\ timer' \in [Windows -> BOOLEAN]
         /\ \A v \in Windows : seen'[v] <= Len(log)
<1>0. log[state] \in States
  BY DEF TypeOK, HostTyped
<1>1. log[state].doc \in Docs
  BY <1>0 DEF States
<1>2. Newer(seen[w], state) \in {seen[w], state}
  BY NewerIsOne
<1>3. seen' \in [Windows -> Nat] /\ \A v \in Windows : seen'[v] <= Len(log)
  BY <1>2, PlacesTyped DEF TypeOK, WindowsTyped, PlacesExist, Follow
<1> QED BY <1>1, <1>3 DEF TypeOK, WindowsTyped, Follow, Authors

-----------------------------------------------------------------------------
(* The steps, one by one. *)

LEMMA HostPushTyped == ASSUME TypeOK, NEW w \in Windows, HostPush(w) PROVE TypeOK'
<1>0. /\ w \in Origins /\ HostTyped /\ WindowsTyped /\ PlacesExist /\ job[w].doc \in Docs
  BY PlacesTyped DEF Origins, TypeOK
<1>1. /\ log' \in Seq(States) /\ log' # <<>> /\ Len(log') \in Nat /\ Len(log) \in Nat /\ Len(log) <= Len(log')
      /\ ring' \in [Windows -> Seq(Nat)]
      /\ \A v \in Windows : \A i \in 1 .. Len(ring'[v]) : ring'[v][i] \in 1 .. Len(log')
  <2>1. CASE Commit(job[w].doc, w)
    <3>1. /\ log' \in Seq(States) /\ log' # <<>> /\ Len(log') = Len(log) + 1
          /\ ring' \in [Windows -> Seq(Nat)]
          /\ \A v \in Windows : \A i \in 1 .. Len(ring'[v]) : ring'[v][i] \in 1 .. Len(log')
      BY <1>0, <2>1, CommitAdds
    <3> QED BY <3>1, PlacesTyped
  <2>2. CASE UNCHANGED <<log, ring>>
    BY <1>0, <2>2, PlacesTyped DEF HostTyped, WindowsTyped, PlacesExist
  <2> QED BY <2>1, <2>2 DEF HostPush
<1>2. HostTyped'
  BY <1>0, <1>1 DEF HostPush, HostTyped, bounds, editVars, faultVars
<1>3. WindowsTyped'
  <2>1. job' \in [Windows -> Jobs]
    BY <1>0, <1>1, JobFields DEF HostPush, WindowsTyped
  <2>2. run' \in [Windows -> {"idle", "sent", "answered", "building"}]
    BY <1>0 DEF HostPush, WindowsTyped
  <2> QED BY <1>0, <1>1, <2>1, <2>2 DEF HostPush, WindowsTyped, startVars, editorVars
<1>4. PlacesExist'
  <2>1. \A v \in Windows : /\ job'[v].base = job[v].base /\ job'[v].learnt = job[v].learnt
                          /\ job'[v].reply \in {job[v].reply, Len(log')}
    BY <1>0, <1>1, JobFields DEF HostPush, WindowsTyped
  <2>2. \A v \in Windows : /\ started'[v] = started[v] /\ seen'[v] = seen[v] /\ first'[v] = first[v]
                          /\ report'[v] = report[v]
    BY DEF HostPush, startVars, editorVars
  <2>3. ASSUME NEW v \in Windows
        PROVE  /\ started'[v] <= Len(log') /\ seen'[v] <= Len(log') /\ first'[v] <= Len(log')
               /\ job'[v].base <= Len(log') /\ job'[v].reply <= Len(log') /\ job'[v].learnt <= Len(log')
               /\ report'[v].state <= Len(log')
    <3>1. /\ started[v] <= Len(log) /\ seen[v] <= Len(log) /\ first[v] <= Len(log)
          /\ job[v].base <= Len(log) /\ job[v].reply <= Len(log) /\ job[v].learnt <= Len(log)
          /\ report[v].state <= Len(log)
      BY <1>0 DEF PlacesExist
    <3>2. /\ started[v] \in Nat /\ seen[v] \in Nat /\ first[v] \in Nat
          /\ job[v].base \in Nat /\ job[v].reply \in Nat /\ job[v].learnt \in Nat
          /\ report[v].state \in Nat
      BY PlacesTyped
    <3>3. /\ started[v] <= Len(log') /\ seen[v] <= Len(log') /\ first[v] <= Len(log')
          /\ job[v].base <= Len(log') /\ job[v].reply <= Len(log') /\ job[v].learnt <= Len(log')
          /\ report[v].state <= Len(log')
      <4>1. Len(log) \in Nat /\ Len(log') \in Nat /\ Len(log) <= Len(log')
        BY <1>1
      <4>2. \A n \in Nat : n <= Len(log) => n <= Len(log')
        BY <4>1
      <4> QED BY <3>1, <3>2, <4>2
    <3>4. job'[v].reply <= Len(log')
      <4>1. Len(log') <= Len(log')
        BY <1>1
      <4> QED BY <2>1, <3>3, <4>1
    <3> QED BY <2>1, <2>2, <3>3, <3>4
  <2> QED BY <1>1, <2>3 DEF PlacesExist
<1> QED BY <1>2, <1>3, <1>4 DEF TypeOK

LEMMA AgentStepTyped == ASSUME TypeOK, AgentStep PROVE TypeOK'
<1>1. ASSUME NEW t \in Texts, AgentSetScript(t) PROVE TypeOK'
  <2>1. [Session.doc EXCEPT !.script = t] \in Docs
    BY SessionTyped DEF Docs, TypeOK
  <2> QED BY <1>1, <2>1, AgentTyped DEF AgentSetScript
<1>2. ASSUME NEW t \in Texts, NEW p \in Parts, AgentOpen(p, t) PROVE TypeOK'
  <2>1. [name |-> p, script |-> t] \in Docs
    BY DEF Docs
  <2> QED BY <1>2, <2>1, AgentTyped DEF AgentOpen
<1> QED BY <1>1, <1>2 DEF AgentStep

LEMMA RestartTyped == ASSUME TypeOK, Restart PROVE TypeOK'
<1>0. /\ HostTyped /\ WindowsTyped /\ PlacesExist
  BY DEF TypeOK
<1>1. log' \in Seq(States) /\ log' # <<>> /\ Len(log') = Len(log) + 1
  BY <1>0, FreshTyped DEF Restart, HostTyped
<1>2. HostTyped'
  BY <1>0, <1>1, ConstantsAssumption DEF Restart, HostTyped, editVars
<1>3. WindowsTyped'
  BY <1>0 DEF Restart, WindowsTyped, editorVars
<1>4. PlacesExist'
  <2>1. \A v \in Windows : started'[v] = 0 /\ first'[v] = 0 /\ ring'[v] = <<>>
    BY <1>0 DEF Restart
  <2>2. Len(<<>>) = 0
    OBVIOUS
  <2> QED BY <1>0, <1>1, <2>1, <2>2, PlacesTyped DEF Restart, PlacesExist, editorVars
<1> QED BY <1>2, <1>3, <1>4 DEF TypeOK

LEMMA WindowStepsTyped == ASSUME TypeOK, NEW w \in Windows, WindowStep(w) PROVE TypeOK'
<1>0. /\ HostTyped /\ WindowsTyped /\ PlacesExist
  BY DEF TypeOK
<1>1. CASE StartRead(w)
  <2>1. /\ HostTyped'
    BY <1>0, <1>1, ConstantsAssumption DEF StartRead, HostTyped, editVars
  <2>2. WindowsTyped'
    <3>1. life' \in [Windows -> {"unopened", "loading", "opening", "live", "closed"}]
      BY <1>0, <1>1 DEF StartRead, WindowsTyped
    <3>2. started' \in [Windows -> Nat]
      BY <1>0, <1>1, PlacesTyped DEF StartRead, WindowsTyped
    <3> QED BY <1>0, <1>1, <3>1, <3>2 DEF StartRead, WindowsTyped, editorVars, runVars, streamVars
  <2>3. \A v \in Windows : started'[v] \in {started[v], Len(log)}
    BY <1>0, <1>1 DEF StartRead, WindowsTyped
  <2>4. PlacesExist'
    <3>1. /\ log' = log /\ seen' = seen /\ first' = first /\ ring' = ring
          /\ job' = job /\ report' = report
      BY <1>1 DEF StartRead, editorVars, runVars, streamVars
    <3>2. \A v \in Windows : started'[v] <= Len(log)
      <4>1. Len(log) <= Len(log)
        BY PlacesTyped
      <4> QED BY <1>0, <2>3, <4>1 DEF PlacesExist
    <3> QED BY <1>0, <3>1, <3>2 DEF PlacesExist
  <2> QED BY <2>1, <2>2, <2>4 DEF TypeOK
<1>2. CASE StartApply(w)
  <2> DEFINE current == started[w] # 0 /\ log[started[w]].doc.name # NoPart
             author  == IF current THEN "session" ELSE "user"
             base    == IF current THEN started[w] ELSE seen[w]
  <2>1. base \in 0 .. Len(log) /\ author \in Authors
    BY <1>0, PlacesTyped DEF PlacesExist, Authors
  <2>2. PICK disk \in Texts :
          LET opened  == [name |-> IF current THEN log[started[w]].doc.name ELSE Initial, script |-> disk]
              showing == IF current THEN log[started[w]].doc ELSE opened
          IN  /\ doc' = [doc EXCEPT ![w] = showing]
              /\ authored' = [authored EXCEPT ![w] = author]
              /\ seen' = [seen EXCEPT ![w] = base]
              /\ timer' = [timer EXCEPT ![w] = @ \/ doc[w] # opened \/ opened # showing]
              /\ Run(w, showing, author, base)
    BY <1>2 DEF StartApply
  <2> DEFINE opened  == [name |-> IF current THEN log[started[w]].doc.name ELSE Initial, script |-> disk]
             showing == IF current THEN log[started[w]].doc ELSE opened
  <2>3. showing \in Docs
    <3>1. CASE current
      <4>1. started[w] \in 1 .. Len(log)
        BY <1>0, <3>1, PlacesTyped DEF PlacesExist
      <4>2. log[started[w]] \in States
        BY <1>0, <4>1 DEF HostTyped
      <4> QED BY <3>1, <4>2 DEF States
    <3>2. CASE ~current
      BY <3>2, ConstantsAssumption DEF Docs
    <3> QED BY <3>1, <3>2
  <2>4. /\ doc' = [doc EXCEPT ![w] = showing] /\ authored' = [authored EXCEPT ![w] = author]
        /\ seen' = [seen EXCEPT ![w] = base] /\ Run(w, showing, author, base)
        /\ \E b \in BOOLEAN : timer' = [timer EXCEPT ![w] = b]
    BY <1>0, <2>2 DEF WindowsTyped
  <2>5. /\ run' \in [Windows -> {"idle", "sent", "answered", "building"}]
        /\ dirty' \in [Windows -> BOOLEAN] /\ job' \in [Windows -> Jobs]
        /\ \A v \in Windows : /\ job'[v].base <= Len(log) /\ job'[v].reply <= Len(log)
                              /\ job'[v].learnt <= Len(log)
    <3> HIDE DEF showing, author, base
    <3> QED BY <2>1, <2>3, <2>4, RunTyped
  <2> HIDE DEF showing, author, base, opened, current
  <2>6. WindowsTyped'
    BY <1>0, <1>2, <2>1, <2>3, <2>4, <2>5, PlacesTyped DEF StartApply, WindowsTyped, streamVars
  <2>7. \A v \in Windows : seen'[v] \in {seen[v], base} /\ started'[v] \in {started[v], 0}
    BY <1>0, <1>2, <2>4 DEF StartApply, WindowsTyped
  <2>8. PlacesExist'
    <3>1. log' = log /\ first' = first /\ report' = report /\ ring' = ring
      BY <1>2 DEF StartApply, streamVars
    <3> SUFFICES ASSUME NEW v \in Windows
                 PROVE  /\ started'[v] <= Len(log) /\ seen'[v] <= Len(log) /\ first'[v] <= Len(log)
                        /\ job'[v].base <= Len(log) /\ job'[v].reply <= Len(log) /\ job'[v].learnt <= Len(log)
                        /\ report'[v].state <= Len(log)
                        /\ \A i \in 1 .. Len(ring'[v]) : ring'[v][i] \in 1 .. Len(log)
      BY <3>1 DEF PlacesExist
    <3>2. started'[v] <= Len(log) /\ seen'[v] <= Len(log)
      <4>1. seen'[v] \in {seen[v], base} /\ started'[v] \in {started[v], 0}
        BY <2>7
      <4> QED BY <2>1, <4>1, PlacesBounded
    <3>3. /\ first'[v] <= Len(log) /\ report'[v].state <= Len(log)
          /\ \A i \in 1 .. Len(ring'[v]) : ring'[v][i] \in 1 .. Len(log)
      BY <1>0, <3>1 DEF PlacesExist
    <3> QED BY <2>5, <3>2, <3>3
  <2> QED BY <1>2, <2>6, <2>8, WindowStepTyped DEF StartApply
<1>3. CASE Fire(w)
  <2>1. doc[w] \in Docs /\ authored[w] \in Authors /\ seen[w] \in 0 .. Len(log)
    BY <1>0, PlacesTyped DEF WindowsTyped, PlacesExist
  <2>2. /\ run' \in [Windows -> {"idle", "sent", "answered", "building"}]
        /\ dirty' \in [Windows -> BOOLEAN] /\ job' \in [Windows -> Jobs]
        /\ \A v \in Windows : /\ job'[v].base <= Len(log) /\ job'[v].reply <= Len(log)
                              /\ job'[v].learnt <= Len(log)
    BY <1>3, <2>1, RunTyped DEF Fire
  <2>3. WindowsTyped'
    BY <1>0, <1>3, <2>2 DEF Fire, WindowsTyped, startVars, streamVars
  <2>4. PlacesExist'
    BY <1>0, <1>3, <2>2 DEF Fire, PlacesExist, startVars, streamVars
  <2> QED BY <1>3, <2>3, <2>4, WindowStepTyped DEF Fire
<1>4. CASE HostPush(w)
  BY <1>4, HostPushTyped
<1>5. CASE HearReply(w)
  <2>1. Newer(seen[w], job[w].reply) \in {seen[w], job[w].reply}
    BY NewerIsOne
  <2>2. run' \in [Windows -> {"idle", "sent", "answered", "building"}]
    BY <1>0, <1>5 DEF HearReply, WindowsTyped
  <2>3. /\ job' \in [Windows -> Jobs] /\ seen' \in [Windows -> Nat]
        /\ \A v \in Windows : /\ job'[v].base = job[v].base /\ job'[v].reply = job[v].reply
                              /\ job'[v].learnt \in {job[v].learnt, job[v].reply}
                              /\ seen'[v] \in {seen[v], job[v].reply}
    <3>1. CASE log[job[w].reply].doc = job[w].doc
      <4>1. job' = [job EXCEPT ![w] = [job[w] EXCEPT !.learnt = job[w].reply]]
        BY <1>5, <3>1 DEF HearReply
      <4>2. seen' = [seen EXCEPT ![w] = Newer(seen[w], job[w].reply)]
        BY <1>5, <3>1 DEF HearReply
      <4>3. /\ job' \in [Windows -> Jobs]
            /\ \A v \in Windows : /\ job'[v].base = job[v].base /\ job'[v].reply = job[v].reply
                                  /\ job'[v].learnt \in {job[v].learnt, job[v].reply}
        <5> DEFINE filled == [job[w] EXCEPT !.learnt = job[w].reply]
        <5>1. /\ filled \in Jobs /\ filled.base = job[w].base /\ filled.reply = job[w].reply
              /\ filled.learnt = job[w].reply
          BY <1>0, PlacesTyped, JobFields DEF WindowsTyped
        <5>2. job' = [job EXCEPT ![w] = filled]
          BY <4>1
        <5> HIDE DEF filled
        <5> QED BY <1>0, <5>1, <5>2 DEF WindowsTyped
      <4>4. seen' \in [Windows -> Nat] /\ \A v \in Windows : seen'[v] \in {seen[v], job[v].reply}
        BY <1>0, <2>1, <4>2, PlacesTyped DEF WindowsTyped
      <4> QED BY <4>3, <4>4
    <3>2. CASE log[job[w].reply].doc # job[w].doc
      BY <1>0, <1>5, <3>2 DEF HearReply, WindowsTyped
    <3> QED BY <3>1, <3>2
  <2>4. WindowsTyped'
    BY <1>0, <1>5, <2>2, <2>3 DEF HearReply, WindowsTyped, startVars, streamVars
  <2>5. PlacesExist'
    BY <1>0, <1>5, <2>3, PlacesTyped DEF HearReply, PlacesExist, startVars, streamVars
  <2> QED BY <1>5, <2>4, <2>5, WindowStepTyped DEF HearReply
<1>6. CASE Build(w)
  <2>0. NoJob \in Jobs /\ NoJob.base = 0 /\ NoJob.reply = 0 /\ NoJob.learnt = 0
    BY FreshTyped DEF NoJob
  <2>1. [doc |-> job[w].doc, state |-> job[w].learnt] \in Reports
    BY PlacesTyped DEF Reports
  <2>2. /\ job' \in [Windows -> Jobs] /\ report' \in [Windows -> Reports] /\ timer' \in [Windows -> BOOLEAN]
        /\ run' \in [Windows -> {"idle", "sent", "answered", "building"}]
    BY <1>0, <1>6, <2>0, <2>1 DEF Build, Told, WindowsTyped
  <2>3. \A v \in Windows : /\ job'[v] \in {job[v], NoJob}
                          /\ report'[v].state \in {report[v].state, job[v].learnt}
    BY <1>0, <1>6 DEF Build, Told, WindowsTyped
  <2>4. WindowsTyped'
    BY <1>0, <1>6, <2>2 DEF Build, Told, WindowsTyped, startVars, streamVars
  <2>5. PlacesExist'
    BY SMTT(20), <1>0, <1>6, <2>0, <2>3, PlacesTyped DEF Build, Told, PlacesExist, startVars, streamVars
  <2> QED BY <1>6, <2>4, <2>5, WindowStepTyped DEF Build
<1>7. CASE Connect(w)
  <2>1. WindowsTyped'
    BY <1>0, <1>7, PlacesTyped DEF Connect, WindowsTyped, startVars, editorVars, runVars
  <2>2. \A v \in Windows : first'[v] \in {first[v], Len(log)}
    BY <1>0, <1>7 DEF Connect, WindowsTyped
  <2>3. PlacesExist'
    BY <1>0, <1>7, <2>2, PlacesTyped DEF Connect, PlacesExist, startVars, editorVars, runVars
  <2> QED BY <1>7, <2>1, <2>3, WindowStepTyped DEF Connect
<1>8. CASE Subscribe(w)
  <2>1. WindowsTyped' /\ PlacesExist'
    BY <1>0, <1>8 DEF Subscribe, WindowsTyped, PlacesExist, startVars, editorVars, runVars
  <2> QED BY <1>8, <2>1, WindowStepTyped DEF Subscribe
<1>9. CASE Deliver(w)
  <2>1. CASE first[w] # 0 /\ Follow(w, first[w]) /\ first' = [first EXCEPT ![w] = 0] /\ UNCHANGED ring
    <3>1. first[w] \in 1 .. Len(log)
      BY <1>0, <2>1, PlacesTyped DEF PlacesExist
    <3>2. WindowsTyped'
      BY <1>0, <1>9, <2>1, <3>1, FollowTyped DEF Deliver, WindowsTyped, startVars, runVars
    <3>3. \A v \in Windows : first'[v] \in {first[v], 0}
      BY <1>0, <2>1 DEF WindowsTyped
    <3>4. PlacesExist'
      BY SMTT(20), <1>0, <1>9, <2>1, <3>1, <3>3, FollowTyped, PlacesTyped DEF Deliver, PlacesExist, startVars, runVars
    <3> QED BY <1>9, <3>2, <3>4, WindowStepTyped DEF Deliver
  <2>2. CASE first[w] = 0 /\ ring[w] # <<>> /\ Follow(w, Head(ring[w])) /\ ring' = [ring EXCEPT ![w] = Tail(@)] /\ UNCHANGED first
    <3>1. /\ ring[w] \in Seq(Nat) /\ Len(ring[w]) \in Nat \ {0} /\ Head(ring[w]) = ring[w][1]
          /\ Tail(ring[w]) \in Seq(Nat) /\ Len(Tail(ring[w])) = Len(ring[w]) - 1
          /\ \A i \in 1 .. Len(Tail(ring[w])) : Tail(ring[w])[i] = ring[w][i + 1]
      BY <1>0, <2>2 DEF WindowsTyped
    <3>2. Head(ring[w]) \in 1 .. Len(log)
      BY <1>0, <3>1 DEF PlacesExist
    <3>3. WindowsTyped'
      BY <1>0, <1>9, <2>2, <3>1, <3>2, FollowTyped DEF Deliver, WindowsTyped, startVars, runVars
    <3>4. ASSUME NEW v \in Windows PROVE \A i \in 1 .. Len(ring'[v]) : ring'[v][i] \in 1 .. Len(log)
      <4>1. CASE v = w
        <5>1. ring'[v] = Tail(ring[w])
          BY <1>0, <2>2, <4>1 DEF WindowsTyped
        <5>2. ASSUME NEW i \in 1 .. Len(Tail(ring[w])) PROVE Tail(ring[w])[i] \in 1 .. Len(log)
          BY <1>0, <3>1 DEF PlacesExist
        <5> QED BY <5>1, <5>2
      <4>2. CASE v # w
        BY <1>0, <2>2, <4>2 DEF WindowsTyped, PlacesExist
      <4> QED BY <4>1, <4>2
    <3>5. PlacesExist'
      BY <1>0, <1>9, <2>2, <3>2, <3>4, FollowTyped DEF Deliver, PlacesExist, startVars, runVars
    <3> QED BY <1>9, <3>3, <3>5, WindowStepTyped DEF Deliver
  <2> QED BY <1>9, <2>1, <2>2 DEF Deliver
<1> QED BY <1>1, <1>2, <1>3, <1>4, <1>5, <1>6, <1>7, <1>8, <1>9 DEF WindowStep

LEMMA UserStepsTyped == ASSUME TypeOK, NEW w \in Windows, UserStep(w) PROVE TypeOK'
<1>0. /\ HostTyped /\ WindowsTyped /\ PlacesExist
  BY DEF TypeOK
<1>1. CASE OpenWindow(w)
  <2>1. WindowsTyped' /\ PlacesExist'
    BY <1>0, <1>1 DEF OpenWindow, WindowsTyped, PlacesExist, editorVars, runVars, streamVars
  <2> QED BY <1>1, <2>1, WindowStepTyped DEF OpenWindow
<1>2. CASE CloseWindow(w)
  <2>1. HostTyped'
    BY <1>0, <1>2, ConstantsAssumption DEF CloseWindow, HostTyped, editVars
  <2>2. WindowsTyped'
    BY <1>0, <1>2, DisconnectTyped, FreshTyped DEF CloseWindow, WindowsTyped, runVars, Authors
  <2>3. NoReport.state = 0
    BY DEF NoReport
  <2>4. \A v \in Windows : started'[v] \in {started[v], 0} /\ seen'[v] \in {seen[v], 0} /\ report'[v] \in {report[v], NoReport}
    BY <1>0, <1>2 DEF CloseWindow, WindowsTyped
  <2>5. PlacesExist'
    <3>1. log' = log /\ job' = job /\ Disconnect(w)
      BY <1>2 DEF CloseWindow, runVars
    <3> SUFFICES ASSUME NEW v \in Windows
                 PROVE  /\ started'[v] <= Len(log) /\ seen'[v] <= Len(log) /\ first'[v] <= Len(log)
                        /\ job'[v].base <= Len(log) /\ job'[v].reply <= Len(log) /\ job'[v].learnt <= Len(log)
                        /\ report'[v].state <= Len(log)
                        /\ \A i \in 1 .. Len(ring'[v]) : ring'[v][i] \in 1 .. Len(log)
      BY <3>1 DEF PlacesExist
    <3>2. started'[v] <= Len(log) /\ seen'[v] <= Len(log) /\ report'[v].state <= Len(log)
      <4>1. started'[v] \in {started[v], 0} /\ seen'[v] \in {seen[v], 0}
            /\ report'[v].state \in {report[v].state, 0}
        BY <2>3, <2>4
      <4> QED BY <4>1, PlacesBounded
    <3>3. job'[v].base <= Len(log) /\ job'[v].reply <= Len(log) /\ job'[v].learnt <= Len(log)
      BY <1>0, <3>1 DEF PlacesExist
    <3> QED BY <3>1, <3>2, <3>3, DisconnectTyped
  <2> QED BY <2>1, <2>2, <2>5 DEF TypeOK
<1>3. CASE Drop(w)
  <2>1. HostTyped'
    BY <1>0, <1>3, ConstantsAssumption DEF Drop, HostTyped, editVars
  <2>2. WindowsTyped' /\ PlacesExist'
    BY <1>0, <1>3, DisconnectTyped DEF Drop, WindowsTyped, PlacesExist, startVars, editorVars, runVars
  <2> QED BY <2>1, <2>2 DEF TypeOK
<1>4. CASE PushFails(w)
  <2>1. HostTyped'
    BY <1>0, <1>4, ConstantsAssumption DEF PushFails, HostTyped, editVars
  <2>2. WindowsTyped' /\ PlacesExist'
    BY <1>0, <1>4 DEF PushFails, WindowsTyped, PlacesExist, startVars, editorVars, streamVars
  <2> QED BY <2>1, <2>2 DEF TypeOK
<1>5. ASSUME NEW d \in Docs, Write(w, d) PROVE TypeOK'
  <2>1. HostTyped'
    BY <1>0, <1>5, WroteTyped DEF Write, HostTyped, faultVars, Origins
  <2>2. WindowsTyped' /\ PlacesExist'
    BY <1>0, <1>5 DEF Write, WindowsTyped, PlacesExist, startVars, runVars, streamVars, Authors
  <2> QED BY <2>1, <2>2 DEF TypeOK
<1>6. ASSUME NEW t \in Texts, Type(w, t) PROVE TypeOK'
  <2>1. [doc[w] EXCEPT !.script = t] \in Docs
    <3>1. doc[w] \in Docs
      BY <1>0 DEF WindowsTyped
    <3> QED BY <3>1 DEF Docs
  <2> QED BY <1>5, <1>6, <2>1 DEF Type
<1>7. ASSUME NEW t \in Texts, NEW p \in Parts, OpenPart(w, p, t) PROVE TypeOK'
  <2>1. [name |-> p, script |-> t] \in Docs
    BY DEF Docs
  <2> QED BY <1>5, <1>7, <2>1 DEF OpenPart
<1> QED BY <1>1, <1>2, <1>3, <1>4, <1>6, <1>7 DEF UserStep

LEMMA StepTyped == TypeOK /\ [Next]_vars => TypeOK'
<1> SUFFICES ASSUME TypeOK, [Next]_vars PROVE TypeOK'
  OBVIOUS
<1>1. CASE Next
  BY <1>1, RestartTyped, AgentStepTyped, WindowStepsTyped, UserStepsTyped DEF Next
<1>2. CASE UNCHANGED vars
  BY <1>2 DEF vars, startVars, editorVars, runVars, streamVars, bounds, editVars, faultVars,
              TypeOK, HostTyped, WindowsTyped, PlacesExist
<1> QED BY <1>1, <1>2

(* Every variable has its type and names only states the Screen has had,   *)
(* whatever the windows, scripts and bounds.                               *)
THEOREM Typing == Spec => []TypeOK
<1>1. Init => TypeOK
  BY InitTyped
<1>2. TypeOK /\ [Next]_vars => TypeOK'
  BY StepTyped
<1> QED BY <1>1, <1>2, PTL DEF Spec

-----------------------------------------------------------------------------
(* Revisions.  While the host runs, a state's revision is its place, so    *)
(* the revision alone says which document it is of; that a report names    *)
(* the state its document was is then enough.  The invariant adds the jobs *)
(* that will report.                                                       *)
RevisionsCount == \A i \in 1 .. Len(log) : log[i].revision = i - 1

LearntIsPushed == \A w \in Windows : job[w].learnt # 0 => log[job[w].learnt].doc = job[w].doc

ReportsName == \A w \in Windows : report[w].state # 0 => log[report[w].state].doc = report[w].doc

ReportInv == TypeOK /\ RevisionsCount /\ LearntIsPushed /\ ReportsName

(* No step rewrites a state; short of a restart, the one it adds takes the *)
(* next revision.                                                          *)
LEMMA LogGrows ==
  ASSUME TypeOK, [Next]_vars
  PROVE  /\ Len(log') \in {Len(log), Len(log) + 1}
         /\ \A i \in 1 .. Len(log) : log'[i] = log[i]
         /\ ~Restart => log' = log \/ (/\ Len(log') = Len(log) + 1
                                      /\ log'[Len(log')].revision = log[Len(log)].revision + 1)
<1> DEFINE Goal == /\ Len(log') \in {Len(log), Len(log) + 1}
                   /\ \A i \in 1 .. Len(log) : log'[i] = log[i]
                   /\ ~Restart => log' = log \/ (/\ Len(log') = Len(log) + 1
                                                /\ log'[Len(log')].revision = log[Len(log)].revision + 1)
<1>1. CASE log' = log
  BY <1>1
<1>2. ASSUME NEW d \in Docs, NEW o \in Origins, Commit(d, o) PROVE Goal
  <2>1. /\ Len(log') = Len(log) + 1 /\ \A i \in 1 .. Len(log) : log'[i] = log[i]
        /\ log'[Len(log')] = [doc |-> d, revision |-> Session.revision + 1, origin |-> o]
    BY <1>2, CommitAdds
  <2>2. log'[Len(log')].revision = Session.revision + 1
    BY <2>1
  <2> QED BY <2>1, <2>2 DEF Session
<1>3. CASE Restart
  <2>1. log' = Append(log, Fresh) /\ log \in Seq(States)
    BY <1>3 DEF Restart, TypeOK, HostTyped
  <2>2. Len(log') = Len(log) + 1 /\ \A i \in 1 .. Len(log) : log'[i] = log[i]
    BY <2>1, FreshTyped
  <2> QED BY <1>3, <2>2
<1>4. CASE AgentStep
  <2>1. ASSUME NEW t \in Texts, AgentSetScript(t) PROVE Goal
    <3>1. [Session.doc EXCEPT !.script = t] \in Docs /\ Agent \in Origins
      BY SessionTyped DEF Docs, TypeOK, Origins
    <3> QED BY <1>2, <2>1, <3>1 DEF AgentSetScript
  <2>2. ASSUME NEW t \in Texts, NEW p \in Parts, AgentOpen(p, t) PROVE Goal
    <3>1. [name |-> p, script |-> t] \in Docs /\ Agent \in Origins
      BY DEF Docs, Origins
    <3> QED BY <1>2, <2>2, <3>1 DEF AgentOpen
  <2> QED BY <1>4, <2>1, <2>2 DEF AgentStep
<1>5. ASSUME NEW w \in Windows, WindowStep(w) PROVE Goal
  <2>1. CASE HostPush(w)
    <3>1. job[w].doc \in Docs /\ w \in Origins
      BY PlacesTyped DEF Origins
    <3> QED BY <1>1, <1>2, <2>1, <3>1 DEF HostPush
  <2>2. CASE log' = log
    BY <1>1, <2>2
  <2>3. HostPush(w) \/ log' = log
    BY <1>5 DEF WindowStep, StartRead, StartApply, Fire, HearReply, Build, Connect, Subscribe, Deliver
  <2> QED BY <2>1, <2>2, <2>3
<1>6. ASSUME NEW w \in Windows, UserStep(w) PROVE Goal
  <2>1. log' = log
    BY <1>6 DEF UserStep, OpenWindow, CloseWindow, Drop, PushFails, Type, OpenPart, Write
  <2> QED BY <1>1, <2>1
<1>7. CASE UNCHANGED vars
  BY <1>1, <1>7 DEF vars
<1> QED BY <1>3, <1>4, <1>5, <1>6, <1>7 DEF Next

LEMMA InitReports == Init => ReportInv
<1> SUFFICES ASSUME Init PROVE ReportInv
  OBVIOUS
<1>1. TypeOK
  BY InitTyped
<1>2. RevisionsCount
  <2>1. CASE Already = {}
    <3>1. log = <<Fresh>>
      BY <2>1 DEF Init
    <3> QED BY <3>1 DEF RevisionsCount, Fresh
  <2>2. CASE Already # {}
    <3>1. PICK w \in Already, t \in Texts : log = <<Fresh, Opened(w, t)>>
      BY <2>2 DEF Init
    <3>2. Fresh.revision = 0 /\ Opened(w, t).revision = 1
      BY DEF Fresh, Opened
    <3>3. Len(log) = 2 /\ log[1] = Fresh /\ log[2] = Opened(w, t)
      BY <3>1
    <3> QED BY <3>2, <3>3 DEF RevisionsCount
  <2> QED BY <2>1, <2>2
<1>3. NoJob.learnt = 0 /\ NoReport.state = 0
  BY DEF NoJob, NoReport
<1>4. LearntIsPushed
  BY <1>3 DEF Init, LearntIsPushed
<1>5. ReportsName
  BY <1>3 DEF Init, ReportsName, Session
<1> QED BY <1>1, <1>2, <1>4, <1>5 DEF ReportInv

(* A step changes what a job learnt only when the answer is about the text *)
(* the job pushed, or ends it; a report is made of a job.                  *)
LEMMA JobSteps ==
  ASSUME TypeOK, [Next]_vars, NEW w \in Windows
  PROVE  /\ \/ job'[w].learnt = 0
            \/ job'[w].learnt = job[w].learnt /\ job'[w].doc = job[w].doc
            \/ /\ job'[w].learnt = job[w].reply /\ job'[w].doc = job[w].doc
               /\ log[job[w].reply].doc = job[w].doc
         /\ \/ report'[w].state = 0
            \/ report'[w] = report[w]
            \/ report'[w].state = job[w].learnt /\ report'[w].doc = job[w].doc
<1> DEFINE Goal == /\ \/ job'[w].learnt = 0
                      \/ job'[w].learnt = job[w].learnt /\ job'[w].doc = job[w].doc
                      \/ /\ job'[w].learnt = job[w].reply /\ job'[w].doc = job[w].doc
                         /\ log[job[w].reply].doc = job[w].doc
                   /\ \/ report'[w].state = 0
                      \/ report'[w] = report[w]
                      \/ report'[w].state = job[w].learnt /\ report'[w].doc = job[w].doc
<1>0. /\ WindowsTyped /\ NoJob.learnt = 0 /\ NoReport.state = 0
      /\ \A v \in Windows : job[v] \in Jobs
  BY DEF TypeOK, WindowsTyped, NoJob, NoReport
<1>1. CASE UNCHANGED <<job, report>>
  BY <1>1
<1>2. ASSUME NEW v \in Windows, HostPush(v) PROVE Goal
  <2>1. job' = [job EXCEPT ![v] = [job[v] EXCEPT !.reply = Len(log')]] /\ report' = report
    BY <1>2 DEF HostPush
  <2>2. Len(log') \in Nat
    BY LogGrows, PlacesTyped
  <2>3. job'[w].learnt = job[w].learnt /\ job'[w].doc = job[w].doc
    BY <1>0, <2>1, <2>2, JobFields DEF WindowsTyped
  <2> QED BY <2>1, <2>3
<1>3. ASSUME NEW v \in Windows, HearReply(v) PROVE Goal
  <2>1. CASE log[job[v].reply].doc = job[v].doc
    <3> DEFINE filled == [job[v] EXCEPT !.learnt = job[v].reply]
    <3>1. job' = [job EXCEPT ![v] = filled] /\ report' = report
      BY <1>3, <2>1 DEF HearReply
    <3>2. filled.learnt = job[v].reply /\ filled.doc = job[v].doc
      BY <1>0, PlacesTyped, JobFields
    <3> HIDE DEF filled
    <3> QED BY <1>0, <2>1, <3>1, <3>2 DEF WindowsTyped
  <2>2. CASE log[job[v].reply].doc # job[v].doc
    BY <1>1, <1>3, <2>2 DEF HearReply
  <2> QED BY <2>1, <2>2
<1>4. ASSUME NEW v \in Windows, Build(v) PROVE Goal
  <2>1. job'[w] \in {job[w], NoJob}
    BY <1>0, <1>4 DEF Build, Told, WindowsTyped
  <2>2. \/ report'[w] = report[w]
        \/ report'[w] = [doc |-> job[w].doc, state |-> job[w].learnt]
    BY <1>0, <1>4 DEF Build, Told, WindowsTyped
  <2> QED BY <1>0, <2>1, <2>2
<1>5. ASSUME NEW v \in Windows, NEW d, NEW author, NEW base, Run(v, d, author, base), report' = report PROVE Goal
  <2>1. CASE run[v] = "idle"
    <3> DEFINE new == [doc |-> d, authored |-> author, base |-> base, reply |-> 0, learnt |-> 0]
    <3>1. job' = [job EXCEPT ![v] = new]
      BY <1>5, <2>1 DEF Run
    <3>2. new.learnt = 0
      OBVIOUS
    <3> HIDE DEF new
    <3>3. job'[w].learnt = 0 \/ job'[w] = job[w]
      BY <1>0, <3>1, <3>2 DEF WindowsTyped
    <3> QED BY <1>5, <3>3
  <2>2. CASE run[v] # "idle"
    BY <1>1, <1>5, <2>2 DEF Run
  <2> QED BY <2>1, <2>2
<1>6. ASSUME NEW v \in Windows, WindowStep(v) PROVE Goal
  <2>1. CASE StartApply(v)
    BY <1>5, <2>1 DEF StartApply
  <2>2. CASE Fire(v)
    BY <1>5, <2>2 DEF Fire
  <2>3. CASE StartRead(v) \/ Connect(v) \/ Subscribe(v) \/ Deliver(v)
    BY <1>1, <2>3 DEF StartRead, Connect, Subscribe, Deliver, runVars
  <2> QED BY <1>2, <1>3, <1>4, <1>6, <2>1, <2>2, <2>3 DEF WindowStep
<1>7. ASSUME NEW v \in Windows, UserStep(v) PROVE Goal
  <2>1. CASE CloseWindow(v)
    <3>1. job' = job /\ (report'[w] = report[w] \/ report'[w] = NoReport)
      BY <1>0, <2>1 DEF CloseWindow, runVars, WindowsTyped
    <3> QED BY <1>0, <3>1
  <2>2. CASE ~CloseWindow(v)
    BY <1>1, <1>7, <2>2 DEF UserStep, OpenWindow, Drop, PushFails, Type, OpenPart, Write, runVars
  <2> QED BY <2>1, <2>2
<1>8. CASE Restart \/ AgentStep
  BY <1>1, <1>8 DEF Restart, AgentStep, AgentOpen, AgentSetScript, runVars
<1>9. CASE UNCHANGED vars
  BY <1>1, <1>9 DEF vars, runVars
<1> QED BY <1>6, <1>7, <1>8, <1>9 DEF Next

LEMMA RevisionsStep ==
  ASSUME MaxRestarts = 0, TypeOK, RevisionsCount, [Next]_vars
  PROVE  RevisionsCount'
<1>1. Len(log) \in Nat \ {0} /\ \A i \in 1 .. Len(log) : log'[i] = log[i]
  BY LogGrows, PlacesTyped
<1>2. ~Restart
  BY DEF Restart, TypeOK, HostTyped
<1>3. CASE log' = log
  BY <1>3 DEF RevisionsCount
<1>4. CASE Len(log') = Len(log) + 1 /\ log'[Len(log')].revision = log[Len(log)].revision + 1
  BY <1>1, <1>4 DEF RevisionsCount
<1> QED BY <1>2, <1>3, <1>4, LogGrows

LEMMA StepReports == ASSUME MaxRestarts = 0 PROVE ReportInv /\ [Next]_vars => ReportInv'
<1> SUFFICES ASSUME ReportInv, [Next]_vars PROVE ReportInv'
  OBVIOUS
<1>0. TypeOK /\ PlacesExist /\ RevisionsCount /\ LearntIsPushed /\ ReportsName /\ Len(log) \in Nat \ {0}
  BY PlacesTyped DEF ReportInv, TypeOK
<1>1. TypeOK'
  BY <1>0, StepTyped
<1>3. \A i \in 1 .. Len(log) : log'[i] = log[i]
  BY <1>0, LogGrows
<1>4. RevisionsCount'
  BY <1>0, RevisionsStep
<1>5. LearntIsPushed'
  <2> SUFFICES ASSUME NEW w \in Windows, job'[w].learnt # 0 PROVE log'[job'[w].learnt].doc = job'[w].doc
    BY DEF LearntIsPushed
  <2>1. CASE job'[w].learnt = job[w].learnt /\ job'[w].doc = job[w].doc
    <3>1. job[w].learnt \in 1 .. Len(log) /\ log[job[w].learnt].doc = job[w].doc
      BY <1>0, <2>1, PlacesTyped DEF PlacesExist, LearntIsPushed
    <3> QED BY <1>3, <2>1, <3>1
  <2>2. CASE job'[w].learnt = job[w].reply /\ job'[w].doc = job[w].doc /\ log[job[w].reply].doc = job[w].doc
    <3>1. job[w].reply \in 1 .. Len(log)
      BY <1>0, <2>2, PlacesTyped DEF PlacesExist
    <3> QED BY <1>3, <2>2, <3>1
  <2> QED BY <1>0, <2>1, <2>2, JobSteps
<1>6. ReportsName'
  <2> SUFFICES ASSUME NEW w \in Windows, report'[w].state # 0 PROVE log'[report'[w].state].doc = report'[w].doc
    BY DEF ReportsName
  <2>1. CASE report'[w] = report[w]
    <3>1. report[w].state \in 1 .. Len(log) /\ log[report[w].state].doc = report[w].doc
      BY <1>0, <2>1, PlacesTyped DEF PlacesExist, ReportsName
    <3> QED BY <1>3, <2>1, <3>1
  <2>2. CASE report'[w].state = job[w].learnt /\ report'[w].doc = job[w].doc
    <3>1. job[w].learnt \in 1 .. Len(log) /\ log[job[w].learnt].doc = job[w].doc
      BY <1>0, <2>2, PlacesTyped DEF PlacesExist, LearntIsPushed
    <3> QED BY <1>3, <2>2, <3>1
  <2> QED BY <1>0, <2>1, <2>2, JobSteps
<1> QED BY <1>1, <1>4, <1>5, <1>6 DEF ReportInv

(* While the host does not restart, what a window reports as evaluated is  *)
(* what the session held at the revision the report names: "two viewers    *)
(* holding the same revision are showing the same text".                   *)
THEOREM ReportsTrue == ASSUME MaxRestarts = 0 PROVE Spec => []ReportsAreTrue
<1>1. Init => ReportInv
  BY InitReports
<1>2. ReportInv /\ [Next]_vars => ReportInv'
  BY StepReports
<1>3. ReportInv => ReportsAreTrue
  <2> SUFFICES ASSUME ReportInv, NEW w \in Windows, report[w].state # 0, NEW i \in 1 .. Len(log),
                      log[i].revision = log[report[w].state].revision
               PROVE  report[w].doc = log[i].doc
    BY DEF ReportsAreTrue
  <2>1. report[w].state \in 1 .. Len(log) /\ Len(log) \in Nat
    BY PlacesTyped DEF ReportInv, TypeOK, PlacesExist
  <2>2. report[w].state = i
    BY <2>1 DEF ReportInv, RevisionsCount
  <2> QED BY <2>2 DEF ReportInv, ReportsName
<1> QED BY <1>1, <1>2, <1>3, PTL DEF Spec

-----------------------------------------------------------------------------
(* What a window has seen.  Once every window has started, nothing assigns *)
(* sessionRevision a state that was read before: it is only raised.        *)
AllStarted == \A w \in Windows : life[w] \in {"live", "closed"}

AnswersName == \A w \in Windows : run[w] = "answered" => job[w].reply # 0

SeenInv == TypeOK /\ AllStarted /\ AnswersName

LEMMA StartedStep ==
  ASSUME TypeOK, AllStarted, [Next]_vars
  PROVE  AllStarted' /\ \A w \in Windows : ~StartApply(w)
<1>0. WindowsTyped /\ \A w \in Windows : life[w] \in {"live", "closed"}
  BY DEF TypeOK, AllStarted
<1>1. \A w \in Windows : ~StartRead(w) /\ ~StartApply(w) /\ ~OpenWindow(w)
  BY <1>0 DEF StartRead, StartApply, OpenWindow
<1>2. CASE life' = life
  BY <1>0, <1>1, <1>2 DEF AllStarted
<1>3. ASSUME NEW v \in Windows, WindowStep(v) PROVE AllStarted'
  BY <1>1, <1>2, <1>3 DEF WindowStep, Fire, HostPush, HearReply, Build, Connect, Subscribe, Deliver, startVars
<1>4. ASSUME NEW v \in Windows, UserStep(v) PROVE AllStarted'
  <2>1. CASE CloseWindow(v)
    BY <1>0, <2>1 DEF CloseWindow, WindowsTyped, AllStarted
  <2>2. CASE ~CloseWindow(v)
    BY <1>1, <1>2, <1>4, <2>2 DEF UserStep, Drop, PushFails, Type, OpenPart, Write, startVars
  <2> QED BY <2>1, <2>2
<1>5. CASE AgentStep \/ UNCHANGED vars
  BY <1>2, <1>5 DEF AgentStep, AgentOpen, AgentSetScript, startVars, vars
<1>6. CASE Restart
  BY <1>0, <1>1, <1>6 DEF Restart, WindowsTyped, AllStarted
<1>7. AllStarted'
  BY <1>3, <1>4, <1>5, <1>6 DEF Next
<1> QED BY <1>1, <1>7

LEMMA AnswersStep ==
  ASSUME TypeOK, AnswersName, [Next]_vars
  PROVE  AnswersName'
<1> SUFFICES ASSUME NEW w \in Windows, run'[w] = "answered" PROVE job'[w].reply # 0
  BY DEF AnswersName
<1>0. WindowsTyped /\ \A v \in Windows : job[v] \in Jobs
  BY DEF TypeOK, WindowsTyped
<1>1. CASE run'[w] = run[w] /\ job'[w] = job[w]
  BY <1>1 DEF AnswersName
<1>2. ASSUME NEW v \in Windows, NEW d, NEW author, NEW base, Run(v, d, author, base) PROVE job'[w].reply # 0
  BY <1>0, <1>1, <1>2 DEF Run, WindowsTyped
<1>3. ASSUME NEW v \in Windows, HostPush(v) PROVE job'[w].reply # 0
  <2>1. Len(log') \in Nat \ {0}
    BY LogGrows, PlacesTyped
  <2>2. CASE v = w
    <3>1. job'[w] = [job[w] EXCEPT !.reply = Len(log')]
      BY <1>0, <1>3, <2>2 DEF HostPush, WindowsTyped
    <3> QED BY <1>0, <2>1, <3>1, JobFields
  <2>3. CASE v # w
    BY <1>0, <1>1, <1>3, <2>3 DEF HostPush, WindowsTyped
  <2> QED BY <2>2, <2>3
<1>4. ASSUME NEW v \in Windows, WindowStep(v) PROVE job'[w].reply # 0
  <2>1. CASE StartApply(v) \/ Fire(v)
    BY <1>2, <2>1 DEF StartApply, Fire
  <2>2. CASE HearReply(v) \/ Build(v)
    BY <1>0, <1>1, <2>2 DEF HearReply, Build, WindowsTyped
  <2>3. CASE StartRead(v) \/ Connect(v) \/ Subscribe(v) \/ Deliver(v)
    BY <1>1, <2>3 DEF StartRead, Connect, Subscribe, Deliver, runVars
  <2> QED BY <1>3, <1>4, <2>1, <2>2, <2>3 DEF WindowStep
<1>5. ASSUME NEW v \in Windows, UserStep(v) PROVE job'[w].reply # 0
  BY <1>0, <1>1, <1>5 DEF UserStep, OpenWindow, CloseWindow, Drop, PushFails, Type, OpenPart, Write, runVars, WindowsTyped
<1>6. CASE Restart
  BY <1>0, <1>1, <1>6 DEF Restart, WindowsTyped
<1>7. CASE AgentStep
  BY <1>1, <1>7 DEF AgentStep, AgentOpen, AgentSetScript, runVars
<1>8. CASE UNCHANGED vars
  BY <1>1, <1>8 DEF vars, runVars
<1> QED BY <1>4, <1>5, <1>6, <1>7, <1>8 DEF Next

LEMMA SeenBegins == ASSUME Already = Windows PROVE Init => SeenInv
<1> SUFFICES ASSUME Init PROVE SeenInv
  OBVIOUS
<1>1. AllStarted /\ AnswersName
  BY DEF Init, AllStarted, AnswersName
<1> QED BY <1>1, InitTyped DEF SeenInv

LEMMA RevisionsTyped == ASSUME TypeOK PROVE \A i \in 1 .. Len(log) : log[i].revision \in Nat
<1>1. \A i \in 1 .. Len(log) : log[i] \in States
  BY DEF TypeOK, HostTyped
<1> QED BY <1>1 DEF States

(* Of two states, Newer has the revision of the newer one. *)
LEMMA NewerIsLater ==
  ASSUME TypeOK, NEW a \in 1 .. Len(log), NEW b \in 1 .. Len(log)
  PROVE  Newer(a, b) \in 1 .. Len(log) /\ log[Newer(a, b)].revision >= log[a].revision
<1>1. log[a].revision \in Nat /\ log[b].revision \in Nat
  BY RevisionsTyped
<1> QED BY <1>1 DEF Newer

(* What a window has seen only gives way to a newer state. *)
LEMMA SeenMovesOn ==
  ASSUME SeenInv, [Next]_vars, NEW w \in Windows, seen[w] # 0, life'[w] # "closed"
  PROVE  seen'[w] \in 1 .. Len(log) /\ log[seen'[w]].revision >= log[seen[w]].revision
<1> DEFINE Goal == seen'[w] \in 1 .. Len(log) /\ log[seen'[w]].revision >= log[seen[w]].revision
<1>0. /\ TypeOK /\ WindowsTyped /\ Len(log) \in Nat /\ seen[w] \in 1 .. Len(log)
      /\ log[seen[w]].revision \in Nat
  <2>1. TypeOK /\ seen[w] \in 1 .. Len(log)
    BY PlacesTyped DEF SeenInv, TypeOK, PlacesExist
  <2> QED BY <2>1, PlacesTyped, RevisionsTyped DEF TypeOK
<1>1. CASE seen'[w] = seen[w]
  BY <1>0, <1>1
<1>2. ASSUME NEW v \in Windows, NEW b \in 1 .. Len(log), seen' = [seen EXCEPT ![v] = Newer(@, b)] PROVE Goal
  BY <1>0, <1>1, <1>2, NewerIsLater DEF WindowsTyped
<1>3. ASSUME NEW v \in Windows, WindowStep(v) PROVE Goal
  <2>1. ~StartApply(v)
    BY StartedStep DEF SeenInv
  <2>2. CASE HearReply(v)
    <3>1. job[v].reply \in 1 .. Len(log)
      BY <1>0, <2>2, PlacesTyped DEF HearReply, SeenInv, AnswersName, TypeOK, PlacesExist
    <3> QED BY <1>1, <1>2, <2>2, <3>1 DEF HearReply
  <2>3. CASE Deliver(v)
    <3>1. CASE first[v] # 0 /\ Follow(v, first[v])
      <4>1. first[v] \in 1 .. Len(log)
        BY <1>0, <3>1, PlacesTyped DEF TypeOK, PlacesExist
      <4> QED BY <1>2, <3>1, <4>1 DEF Follow
    <3>2. CASE ring[v] # <<>> /\ Follow(v, Head(ring[v]))
      <4>1. ring[v] \in Seq(Nat) /\ ring[v] # <<>>
        BY <1>0, <3>2 DEF WindowsTyped
      <4>2. 1 \in 1 .. Len(ring[v]) /\ Head(ring[v]) = ring[v][1]
        BY <4>1
      <4>3. Head(ring[v]) \in 1 .. Len(log)
        BY <1>0, <4>2 DEF TypeOK, PlacesExist
      <4> QED BY <1>2, <3>2, <4>3 DEF Follow
    <3> QED BY <2>3, <3>1, <3>2 DEF Deliver
  <2>4. CASE StartRead(v) \/ Fire(v) \/ HostPush(v) \/ Build(v) \/ Connect(v) \/ Subscribe(v)
    BY <1>1, <2>4 DEF StartRead, Fire, HostPush, Build, Connect, Subscribe, editorVars
  <2> QED BY <1>3, <2>1, <2>2, <2>3, <2>4 DEF WindowStep
<1>4. ASSUME NEW v \in Windows, UserStep(v) PROVE Goal
  <2>1. CASE CloseWindow(v)
    BY <1>0, <1>1, <2>1 DEF CloseWindow, WindowsTyped
  <2>2. CASE ~CloseWindow(v)
    BY <1>1, <1>4, <2>2 DEF UserStep, OpenWindow, Drop, PushFails, Type, OpenPart, Write, editorVars
  <2> QED BY <2>1, <2>2
<1>5. CASE Restart \/ AgentStep
  BY <1>1, <1>5 DEF Restart, AgentStep, AgentOpen, AgentSetScript, editorVars
<1>6. CASE UNCHANGED vars
  BY <1>1, <1>6 DEF vars, editorVars
<1> QED BY <1>3, <1>4, <1>5, <1>6 DEF Next

(* Once the windows have started, a window's sessionRevision never goes    *)
(* back, whatever it hears and is answered, however often its stream       *)
(* breaks and the host restarts.  A window that is starting may go back:   *)
(* start() assigns what it read before the events of its stream.           *)
THEOREM SeenHolds ==
  ASSUME Already = Windows
  PROVE  Spec => SeenNeverFalls
<1> DEFINE Never == \A w \in Windows : (seen[w] # 0 /\ life'[w] # "closed") =>
                      seen'[w] # 0 /\ log'[seen'[w]].revision >= log[seen[w]].revision
<1>1. Init => SeenInv
  BY SeenBegins
<1>2. SeenInv /\ [Next]_vars => SeenInv'
  BY StepTyped, StartedStep, AnswersStep DEF SeenInv
<1>3. ASSUME SeenInv, [Next]_vars PROVE Never
  <2> SUFFICES ASSUME NEW w \in Windows, seen[w] # 0, life'[w] # "closed"
               PROVE  seen'[w] # 0 /\ log'[seen'[w]].revision >= log[seen[w]].revision
    OBVIOUS
  <2>1. seen'[w] \in 1 .. Len(log) /\ log[seen'[w]].revision >= log[seen[w]].revision
    BY <1>3, SeenMovesOn
  <2>2. log'[seen'[w]] = log[seen'[w]]
    BY <1>3, <2>1, LogGrows DEF SeenInv
  <2> QED BY <2>1, <2>2
<1>4. SeenInv /\ [Next]_vars => [Never]_vars
  BY <1>3
<1> QED BY <1>1, <1>2, <1>4, PTL DEF Spec, SeenNeverFalls

-----------------------------------------------------------------------------
(* Echoes.  A window pushes what it took from the session back to it, and  *)
(* the host must see that it is nothing new.  It does when the window has  *)
(* not been told a newer state than the one it shows; the answer to a push *)
(* can tell it one, when it is about another change with the same text.    *)
(* So the invariant is about what nobody wrote twice: it says where in the *)
(* log what a window holds is, as against what it has seen, and what is    *)
(* still on its way to it.                                                 *)
Places == 1 .. Len(log)

Own(w, i) == log[i].origin = w

(* The user's document d: no state but one of the window's own is of it,   *)
(* and whatever came after that is somebody else's and newer than b.       *)
Stands(w, d, b) ==
  \A i \in Places : log[i].doc = d => Own(w, i) /\ \A j \in Places : j > i => ~Own(w, j) /\ b < j

(* The session's document d: state b is of it, and is somebody else's; the *)
(* window has committed nothing since.                                     *)
Taken(w, d, b) ==
  /\ b \in Places /\ log[b].doc = d /\ ~Own(w, b)
  /\ \A j \in Places : j > b => ~Own(w, j)

EditorKnows(w) ==
  /\ authored[w] = "user" => Stands(w, doc[w], seen[w])
  /\ authored[w] = "session" => Taken(w, doc[w], seen[w])

PushKnows(w) == run[w] = "sent" =>
  /\ job[w].base \in Places /\ job[w].base <= seen[w]
  /\ job[w].authored = "user" => Stands(w, job[w].doc, job[w].base)
  /\ job[w].authored = "session" => Taken(w, job[w].doc, job[w].base)
  /\ job[w].authored = "user" /\ authored[w] = "session" => job[w].base < seen[w]
  /\ job[w].authored = "user" /\ authored[w] = "user" /\ doc[w] # job[w].doc =>
       \A i \in Places : log[i].doc # doc[w]

AnswerKnown(w) == run[w] = "answered" /\ log[job[w].reply].doc = job[w].doc =>
  Own(w, job[w].reply) \/ job[w].reply <= seen[w]

QueueAhead(w) ==
  /\ \A i \in 1 .. Len(ring[w]) : ~Own(w, ring[w][i]) => seen[w] < ring[w][i]
  /\ \A i, j \in 1 .. Len(ring[w]) : i < j => ring[w][i] < ring[w][j]

SeesBefore(w) == \A m, f \in Places : Own(w, m) /\ ~Own(w, f) /\ f < m => f <= seen[w]

Knows(w) == EditorKnows(w) /\ PushKnows(w) /\ AnswerKnown(w) /\ QueueAhead(w) /\ SeesBefore(w)

(* Whose user wrote d, and has it on screen or on its way. *)
Holds(w, d) ==
  \/ authored[w] = "user" /\ doc[w] = d
  \/ run[w] = "sent" /\ job[w].authored = "user" /\ job[w].doc = d

Distinct == \A i, j \in Places : log[i].doc = log[j].doc => i = j
WrittenKnown ==
  /\ \A i \in Places : log[i].doc \in wrote.docs
  /\ \A w \in Windows : \A d \in Docs : Holds(w, d) => d \in wrote.docs
Apart == \A v, w \in Windows : \A d \in Docs : Holds(v, d) /\ Holds(w, d) => v = w

AllFollow == \A w \in Windows :
  life[w] = "live" /\ stream[w] = "open" /\ first[w] = 0 /\ seen[w] \in Places

EchoFacts == Distinct /\ WrittenKnown /\ Apart /\ \A w \in Windows : Knows(w)

EchoInv == TypeOK /\ RevisionsCount /\ AnswersName /\ AllFollow /\ (wrote.once => EchoFacts)

(* The windows follow the session from the start, their streams hold and   *)
(* the host stays up.                                                      *)
Steady == Already = Windows /\ MaxDrops = 0 /\ MaxRestarts = 0

LEMMA EchoBegins == ASSUME Steady PROVE Init => EchoInv
<1> SUFFICES ASSUME Init PROVE EchoInv
  OBVIOUS
<1>1. TypeOK /\ RevisionsCount /\ AnswersName
  BY InitReports DEF ReportInv, Init, AnswersName
<1>2. CASE Windows = {}
  <2>1. log = <<Fresh>> /\ wrote.docs = {log[i].doc : i \in DOMAIN log}
    BY <1>2 DEF Init, Steady
  <2>2. Places = {1} /\ DOMAIN log = {1}
    BY <2>1 DEF Places
  <2> QED BY <1>1, <1>2, <2>1, <2>2 DEF EchoInv, AllFollow, EchoFacts, Distinct, WrittenKnown, Apart
<1>3. CASE Windows # {}
  <2>1. PICK v \in Windows, t \in Texts : log = <<Fresh, Opened(v, t)>>
    BY <1>3 DEF Init, Steady
  <2>2. /\ Places = {1, 2} /\ DOMAIN log = {1, 2} /\ Len(log) = 2
        /\ log[1] = Fresh /\ log[2] = Opened(v, t) /\ Session = Opened(v, t)
    BY <2>1 DEF Places, Session
  <2>3. /\ log[1].doc # log[2].doc /\ log[1].origin = Nobody /\ log[2].origin = v /\ Nobody \notin Windows
        /\ Session.doc = log[2].doc /\ Session.origin = v
    BY <2>2, ConstantsAssumption DEF Fresh, Opened
  <2>4. /\ wrote.docs = {log[1].doc, log[2].doc}
        /\ \A w \in Windows : /\ life[w] = "live" /\ stream[w] = "open" /\ first[w] = 0 /\ seen[w] = 2
                              /\ doc[w] = log[2].doc /\ run[w] = "idle" /\ ring[w] = <<>>
                              /\ authored[w] = IF w = v THEN "user" ELSE "session"
    BY <2>2, <2>3 DEF Init, Steady
  <2>5. AllFollow
    BY <2>2, <2>4 DEF AllFollow
  <2>6. Distinct /\ WrittenKnown /\ Apart
    BY <2>2, <2>3, <2>4 DEF Distinct, WrittenKnown, Apart, Holds
  <2>7. ASSUME NEW w \in Windows PROVE Knows(w)
    <3>1. Len(ring[w]) = 0
      BY <2>4
    <3>2. PushKnows(w) /\ AnswerKnown(w)
      BY <2>4 DEF PushKnows, AnswerKnown
    <3>3. QueueAhead(w)
      BY <3>1 DEF QueueAhead
    <3>4. EditorKnows(w)
      BY <2>2, <2>3, <2>4 DEF EditorKnows, Stands, Taken, Own
    <3>5. SeesBefore(w)
      BY <2>2, <2>4 DEF SeesBefore
    <3> QED BY <3>2, <3>3, <3>4, <3>5 DEF Knows
  <2> QED BY <1>1, <2>5, <2>6, <2>7 DEF EchoInv, EchoFacts
<1> QED BY <1>2, <1>3

-----------------------------------------------------------------------------
(* Of two places, Newer is the later, and a push is replaced when somebody *)
(* else has the latest one and it stands on an earlier one.                *)
LEMMA PlacesCompare ==
  ASSUME TypeOK, RevisionsCount
  PROVE  /\ Len(log) \in Places /\ Len(log) \in Nat
         /\ \A a, b \in Places : Newer(a, b) = IF a > b THEN a ELSE b
         /\ \A a \in Places : \A o : Replaced(a, o) <=> (a < Len(log) /\ ~(log[Len(log)].origin = o))
<1>1. Len(log) \in Nat \ {0}
  BY PlacesTyped
<1>2. \A a \in Places : log[a].revision = a - 1 /\ a \in Nat /\ a # 0
  BY <1>1 DEF RevisionsCount, Places
<1>3. Len(log) \in Places
  BY <1>1 DEF Places
<1>4. \A a, b \in Places : Newer(a, b) = IF a > b THEN a ELSE b
  BY <1>2 DEF Newer
<1>5. \A a \in Places : \A o : Replaced(a, o) <=> (a < Len(log) /\ ~(log[Len(log)].origin = o))
  BY <1>2, <1>3 DEF Replaced, Session
<1> QED BY <1>1, <1>3, <1>4, <1>5

(* A queue in order, of events before this one, stays in order.            *)
LEMMA EnqueueInOrder ==
  ASSUME NEW q \in Seq(Nat), NEW e \in Nat,
         \A i \in 1 .. Len(q) : q[i] < e,
         \A i, j \in 1 .. Len(q) : i < j => q[i] < q[j]
  PROVE  \A i, j \in 1 .. Len(Enqueue(q, e)) : i < j => Enqueue(q, e)[i] < Enqueue(q, e)[j]
<1> DEFINE longer == Append(q, e)
<1>1. longer \in Seq(Nat) /\ Len(longer) = Len(q) + 1 /\ Len(q) \in Nat
  OBVIOUS
<1>2. \A i \in 1 .. Len(longer) : longer[i] = IF i = Len(q) + 1 THEN e ELSE q[i]
  OBVIOUS
<1>3. Enqueue(q, e) = IF Len(longer) > Capacity THEN Tail(longer) ELSE longer
  BY DEF Enqueue
<1> HIDE DEF longer
<1>4. ASSUME NEW i \in 1 .. Len(longer), NEW j \in 1 .. Len(longer), i < j PROVE longer[i] < longer[j]
  <2>1. i \in 1 .. Len(q) /\ longer[i] = q[i]
    BY <1>1, <1>2, <1>4
  <2>2. CASE j = Len(q) + 1
    BY <1>2, <2>1, <2>2
  <2>3. CASE j # Len(q) + 1
    <3>1. j \in 1 .. Len(q) /\ longer[j] = q[j]
      BY <1>1, <1>2, <2>3
    <3> QED BY <1>4, <2>1, <3>1
  <2> QED BY <2>2, <2>3
<1>5. CASE Len(longer) > Capacity
  <2>1. Enqueue(q, e) = Tail(longer) /\ Len(Tail(longer)) = Len(q)
    BY <1>1, <1>3, <1>5
  <2>2. \A i \in 1 .. Len(q) : Tail(longer)[i] = longer[i + 1] /\ i + 1 \in 1 .. Len(longer)
    BY <1>1
  <2>3. ASSUME NEW i \in 1 .. Len(q), NEW j \in 1 .. Len(q), i < j PROVE Tail(longer)[i] < Tail(longer)[j]
    <3>1. longer[i + 1] < longer[j + 1]
      BY <1>4, <2>2, <2>3
    <3> QED BY <2>2, <3>1
  <2> QED BY <2>1, <2>3
<1>6. CASE ~(Len(longer) > Capacity)
  BY <1>3, <1>4, <1>6
<1> QED BY <1>5, <1>6

(* A window nothing happens to, and no change of the session.              *)
LEMMA NothingNew ==
  ASSUME NEW w \in Windows, Knows(w), log' = log,
         doc'[w] = doc[w], seen'[w] = seen[w], authored'[w] = authored[w],
         run'[w] = run[w], job'[w] = job[w], ring'[w] = ring[w]
  PROVE  Knows(w)' /\ \A d \in Docs : Holds(w, d)' <=> Holds(w, d)
<1>1. EditorKnows(w)' /\ SeesBefore(w)'
  BY DEF Knows, EditorKnows, SeesBefore, Stands, Taken, Own, Places
<1>2. PushKnows(w)'
  BY DEF Knows, PushKnows, Stands, Taken, Own, Places
<1>3. AnswerKnown(w)' /\ QueueAhead(w)'
  BY DEF Knows, AnswerKnown, QueueAhead, Own
<1>4. \A d \in Docs : Holds(w, d)' <=> Holds(w, d)
  BY DEF Holds
<1> QED BY <1>1, <1>2, <1>3, <1>4 DEF Knows

(* The session changes to what the window does not hold. *)
Grows(d, o) ==
  /\ Len(log') = Len(log) + 1
  /\ \A i \in Places : log'[i] = log[i]
  /\ log'[Len(log) + 1].doc = d /\ log'[Len(log) + 1].origin = o

LEMMA CommitGrows ==
  ASSUME TypeOK, NEW d \in Docs, NEW o \in Origins, Commit(d, o)
  PROVE  Grows(d, o) /\ \A w \in Windows : stream[w] = "open" => ring'[w] = Enqueue(ring[w], Len(log) + 1)
<1>1. Grows(d, o)
  <2>1. /\ Len(log') = Len(log) + 1 /\ \A i \in 1 .. Len(log) : log'[i] = log[i]
        /\ log'[Len(log')] = [doc |-> d, revision |-> Session.revision + 1, origin |-> o]
    BY CommitAdds
  <2>2. log'[Len(log) + 1].doc = d /\ log'[Len(log) + 1].origin = o
    BY <2>1
  <2> QED BY <2>1, <2>2 DEF Grows, Places
<1> QED BY <1>1 DEF Commit

LEMMA QueueGrows ==
  ASSUME TypeOK, AllFollow, NEW w \in Windows, QueueAhead(w), NEW d, NEW o, Grows(d, o),
         ring'[w] = Enqueue(ring[w], Len(log) + 1), seen'[w] = seen[w]
  PROVE  QueueAhead(w)'
<1> DEFINE e == Len(log) + 1
<1>1. Len(log) \in Nat /\ e \in Nat /\ ring[w] \in Seq(Nat) /\ \A i \in 1 .. Len(ring[w]) : ring[w][i] \in Places
  BY PlacesTyped DEF TypeOK, PlacesExist, Places
<1>2. \A i \in 1 .. Len(ring[w]) : ring[w][i] < e
  BY <1>1 DEF Places
<1>3. \A i, j \in 1 .. Len(ring'[w]) : i < j => ring'[w][i] < ring'[w][j]
  <2> HIDE DEF e
  <2>1. ring'[w] = Enqueue(ring[w], e)
    BY DEF e
  <2> QED BY <1>1, <1>2, <2>1, EnqueueInOrder DEF QueueAhead
<1>4. ASSUME NEW i \in 1 .. Len(ring'[w]), log'[ring'[w][i]].origin # w PROVE seen'[w] < ring'[w][i]
  <2>1. ring'[w][i] = e \/ \E j \in 1 .. Len(ring[w]) : ring'[w][i] = ring[w][j]
    <3> HIDE DEF e
    <3>1. ring'[w] = Enqueue(ring[w], e)
      BY DEF e
    <3>2. \A k \in 1 .. Len(Enqueue(ring[w], e)) :
            Enqueue(ring[w], e)[k] = e \/ \E j \in 1 .. Len(ring[w]) : Enqueue(ring[w], e)[k] = ring[w][j]
      BY <1>1, EnqueueKeeps
    <3> QED BY <3>1, <3>2
  <2>2. CASE ring'[w][i] = e
    <3>1. seen[w] \in Places
      BY DEF AllFollow
    <3> QED BY <1>1, <2>2, <3>1 DEF Places
  <2>3. ASSUME NEW j \in 1 .. Len(ring[w]), ring'[w][i] = ring[w][j] PROVE seen'[w] < ring'[w][i]
    <3>1. log'[ring[w][j]] = log[ring[w][j]]
      BY <1>1 DEF Grows
    <3>2. ~Own(w, ring[w][j])
      BY <1>4, <2>3, <3>1 DEF Own
    <3> QED BY <2>3, <3>2 DEF QueueAhead
  <2> QED BY <2>1, <2>2, <2>3
<1> QED BY <1>3, <1>4 DEF QueueAhead, Own

LEMMA SomebodysChange ==
  ASSUME TypeOK, AllFollow, AnswersName, NEW w \in Windows, Knows(w), NEW d \in Docs, NEW o, Grows(d, o),
         o # w, ~Holds(w, d), ring'[w] = Enqueue(ring[w], Len(log) + 1),
         doc'[w] = doc[w], seen'[w] = seen[w], authored'[w] = authored[w],
         run'[w] = run[w], job'[w] = job[w]
  PROVE  Knows(w)' /\ \A x \in Docs : Holds(w, x)' <=> Holds(w, x)
<1> DEFINE e == Len(log) + 1
<1>1. /\ Len(log) \in Nat /\ seen[w] \in Places /\ Places' = Places \cup {e} /\ e \notin Places /\ e \in Nat
      /\ \A i \in Places : i \in Nat /\ i < e /\ log'[i] = log[i]
  <2>1. Len(log) \in Nat /\ seen[w] \in Places
    BY PlacesTyped DEF AllFollow
  <2> QED BY <2>1 DEF Grows, Places
<1>2. log'[e].doc = d /\ log'[e].origin = o
  BY DEF Grows
<1> HIDE DEF e
<1>3. \A x, b : (x # d /\ b \in Places /\ Stands(w, x, b)) =>
        \A i \in Places' : log'[i].doc = x =>
          log'[i].origin = w /\ \A j \in Places' : j > i => log'[j].origin # w /\ b < j
  BY <1>1, <1>2 DEF Stands, Own
<1>5. EditorKnows(w)'
  <2>1. authored[w] = "user" => doc[w] # d
    BY DEF Holds
  <2>2. authored[w] = "user" => Stands(w, doc[w], seen[w])'
    <3>1. authored[w] = "user" => \A i \in Places' : log'[i].doc = doc[w] =>
            log'[i].origin = w /\ \A j \in Places' : j > i => log'[j].origin # w /\ seen[w] < j
      BY <1>1, <1>3, <2>1 DEF Knows, EditorKnows
    <3> QED BY <3>1 DEF Stands, Own
  <2>3. authored[w] = "session" => Taken(w, doc[w], seen[w])'
    BY <1>1, <1>2 DEF Knows, EditorKnows, Taken, Own
  <2> QED BY <2>2, <2>3 DEF EditorKnows
<1>6. PushKnows(w)'
  <2> SUFFICES ASSUME run[w] = "sent" PROVE PushKnows(w)'
    BY DEF PushKnows
  <2>0. PushKnows(w)
    BY DEF Knows
  <2>1. job[w].authored = "user" => job[w].doc # d
    BY DEF Holds
  <2>2. authored[w] = "user" => doc[w] # d
    BY DEF Holds
  <2>3. job[w].base \in Places /\ job[w].base <= seen[w]
    BY <2>0 DEF PushKnows
  <2>4. job[w].authored = "user" => Stands(w, job[w].doc, job[w].base)'
    <3>1. job[w].authored = "user" => Stands(w, job[w].doc, job[w].base)
      BY <2>0 DEF PushKnows
    <3>2. job[w].authored = "user" => \A i \in Places' : log'[i].doc = job[w].doc =>
            log'[i].origin = w /\ \A j \in Places' : j > i => log'[j].origin # w /\ job[w].base < j
      BY <1>3, <2>1, <2>3, <3>1
    <3> QED BY <3>2 DEF Stands, Own
  <2>5. job[w].authored = "session" => Taken(w, job[w].doc, job[w].base)'
    <3>1. job[w].authored = "session" => Taken(w, job[w].doc, job[w].base)
      BY <2>0 DEF PushKnows
    <3> QED BY <1>1, <1>2, <3>1 DEF Taken, Own
  <2>6. job[w].authored = "user" /\ authored[w] = "user" /\ doc[w] # job[w].doc =>
          \A i \in Places' : log'[i].doc # doc[w]
    BY <1>1, <1>2, <2>0, <2>2 DEF PushKnows
  <2> QED BY <1>1, <2>0, <2>3, <2>4, <2>5, <2>6 DEF PushKnows
<1>7. AnswerKnown(w)'
  <2>1. run[w] = "answered" => job[w].reply \in Places
    BY <1>1, PlacesTyped DEF AnswersName, TypeOK, PlacesExist, Places
  <2> QED BY <1>1, <2>1 DEF Knows, AnswerKnown, Own
<1>8. QueueAhead(w)'
  BY QueueGrows DEF Knows
<1>9. SeesBefore(w)'
  <2> SUFFICES ASSUME NEW m \in Places', NEW f \in Places', log'[m].origin = w, log'[f].origin # w, f < m
               PROVE  f <= seen'[w]
    BY DEF SeesBefore, Own
  <2>1. m \in Places /\ log'[m] = log[m]
    BY <1>1, <1>2
  <2>2. f \in Places /\ log'[f] = log[f]
    BY <1>1, <2>1
  <2> QED BY <2>1, <2>2 DEF Knows, SeesBefore, Own
<1>10. \A x \in Docs : Holds(w, x)' <=> Holds(w, x)
  BY DEF Holds
<1> QED BY <1>5, <1>6, <1>7, <1>8, <1>9, <1>10 DEF Knows

-----------------------------------------------------------------------------
(* What a window does by itself.  The session does not change, and the     *)
(* other windows are left alone.                                           *)
Alone(v) ==
  /\ UNCHANGED <<log, life, stream, first, wrote>>
  /\ \A w \in Windows : w # v =>
       /\ doc'[w] = doc[w] /\ seen'[w] = seen[w] /\ authored'[w] = authored[w]
       /\ run'[w] = run[w] /\ job'[w] = job[w] /\ ring'[w] = ring[w]

LEMMA AloneKeeps ==
  ASSUME EchoFacts, NEW v \in Windows, Alone(v), Knows(v)', \A d \in Docs : Holds(v, d)' => Holds(v, d)
  PROVE  EchoFacts'
<1>1. ASSUME NEW w \in Windows PROVE Knows(w)' /\ \A d \in Docs : Holds(w, d)' => Holds(w, d)
  <2>1. CASE w = v
    BY <2>1
  <2>2. CASE w # v
    BY <2>2, NothingNew DEF EchoFacts, Alone
  <2> QED BY <2>1, <2>2
<1>2. Distinct'
  BY DEF EchoFacts, Alone, Distinct, Places
<1>3. WrittenKnown'
  BY <1>1 DEF EchoFacts, Alone, WrittenKnown, Places
<1>4. Apart'
  BY <1>1 DEF EchoFacts, Apart
<1> QED BY <1>1, <1>2, <1>3, <1>4 DEF EchoFacts

(* Fire: the push that goes out is of what is on screen. *)
LEMMA FireKeeps ==
  ASSUME TypeOK, AllFollow, NEW v \in Windows, Fire(v), Knows(v)
  PROVE  Alone(v) /\ Knows(v)' /\ \A d \in Docs : Holds(v, d)' => Holds(v, d)
<1>0. WindowsTyped /\ seen[v] \in Places /\ seen[v] <= seen[v] /\ authored[v] \in {"user", "session"}
  <2>1. seen[v] \in Nat
    BY PlacesTyped
  <2> QED BY <2>1 DEF TypeOK, WindowsTyped, AllFollow, Authors
<1>1. UNCHANGED <<log, life, stream, first, wrote, doc, seen, authored, ring>>
  BY DEF Fire, startVars, streamVars, bounds, editVars
<1>2. CASE run[v] # "idle"
  <2>1. UNCHANGED <<run, job>>
    BY <1>2 DEF Fire, Run
  <2> QED BY <1>1, <2>1, NothingNew DEF Alone
<1>3. CASE run[v] = "idle"
  <2>1. /\ run' = [run EXCEPT ![v] = "sent"]
        /\ job' = [job EXCEPT ![v] = [doc |-> doc[v], authored |-> authored[v], base |-> seen[v], reply |-> 0, learnt |-> 0]]
    BY <1>3 DEF Fire, Run
  <2>2. /\ run'[v] = "sent" /\ job'[v].doc = doc[v] /\ job'[v].authored = authored[v] /\ job'[v].base = seen[v]
        /\ \A w \in Windows : w # v => run'[w] = run[w] /\ job'[w] = job[w]
    BY <1>0, <2>1 DEF WindowsTyped
  <2>3. Alone(v)
    BY <1>1, <2>2 DEF Alone
  <2>4. EditorKnows(v)' /\ SeesBefore(v)' /\ QueueAhead(v)' /\ AnswerKnown(v)'
    BY <1>1, <2>2 DEF Knows, EditorKnows, SeesBefore, QueueAhead, AnswerKnown, Stands, Taken, Own, Places
  <2>5. PushKnows(v)'
    <3>1. authored[v] = "user" => Stands(v, doc[v], seen[v])
      BY DEF Knows, EditorKnows
    <3>2. authored[v] = "session" => Taken(v, doc[v], seen[v])
      BY DEF Knows, EditorKnows
    <3>3. (job[v].authored = "user" => Stands(v, job[v].doc, job[v].base))'
      BY <1>1, <2>2, <3>1 DEF Stands, Own, Places
    <3>4. (job[v].authored = "session" => Taken(v, job[v].doc, job[v].base))'
      BY <1>1, <2>2, <3>2 DEF Taken, Own, Places
    <3>5. (job[v].base \in Places /\ job[v].base <= seen[v])'
      BY <1>0, <1>1, <2>2 DEF Places
    <3> QED BY <1>1, <2>2, <3>3, <3>4, <3>5 DEF PushKnows
  <2>6. \A d \in Docs : Holds(v, d)' => Holds(v, d)
    BY <1>1, <2>2 DEF Holds
  <2> QED BY <2>3, <2>4, <2>5, <2>6 DEF Knows
<1> QED BY <1>2, <1>3

(* Build and a push that failed: the run has nothing on its way. *)
LEMMA RunEnds ==
  ASSUME TypeOK, AllFollow, NEW v \in Windows, Knows(v),
         UNCHANGED <<log, life, stream, first, wrote, doc, seen, authored, ring>>,
         run'[v] \notin {"sent", "answered"},
         \A w \in Windows : w # v => run'[w] = run[w] /\ job'[w] = job[w]
  PROVE  Alone(v) /\ Knows(v)' /\ \A d \in Docs : Holds(v, d)' => Holds(v, d)
<1>1. Alone(v)
  BY DEF Alone
<1>2. EditorKnows(v)' /\ SeesBefore(v)' /\ QueueAhead(v)'
  BY DEF Knows, EditorKnows, SeesBefore, QueueAhead, Stands, Taken, Own, Places
<1>3. PushKnows(v)' /\ AnswerKnown(v)'
  BY DEF PushKnows, AnswerKnown
<1>4. \A d \in Docs : Holds(v, d)' => Holds(v, d)
  BY DEF Holds
<1> QED BY <1>1, <1>2, <1>3, <1>4 DEF Knows

(* What a window is told of its own change: then it shows nothing but what *)
(* its user wrote, and the changes of others before it were there already. *)
LEMMA RaisedToOwn ==
  ASSUME TypeOK, AllFollow, NEW v \in Windows, Knows(v), NEW r \in Places, Own(v, r), seen[v] < r,
         log' = log, doc'[v] = doc[v], authored'[v] = authored[v], seen'[v] = r
  PROVE  EditorKnows(v)' /\ SeesBefore(v)'
<1>0. seen[v] \in Nat /\ r \in Nat /\ (\A i \in Places : i \in Nat) /\ seen[v] \in Places
  BY PlacesTyped DEF Places, AllFollow
<1>1. authored[v] # "session"
  BY DEF Knows, EditorKnows, Taken
<1>2. authored[v] = "user" => \A i \in Places : log[i].doc = doc[v] =>
        Own(v, i) /\ \A j \in Places : j > i => ~Own(v, j) /\ r < j
  <2> SUFFICES ASSUME authored[v] = "user", NEW i \in Places, log[i].doc = doc[v]
               PROVE  Own(v, i) /\ \A j \in Places : j > i => ~Own(v, j) /\ r < j
    OBVIOUS
  <2>1. Own(v, i) /\ \A j \in Places : j > i => ~Own(v, j) /\ seen[v] < j
    BY DEF Knows, EditorKnows, Stands
  <2>2. ~(r > i)
    BY <2>1
  <2>3. \A j \in Places : j > i => r < j
    BY <1>0, <2>2
  <2> QED BY <2>1, <2>3
<1>3. EditorKnows(v)'
  BY <1>1, <1>2 DEF EditorKnows, Stands, Own, Places
<1>4. SeesBefore(v)'
  <2> SUFFICES ASSUME NEW m \in Places, NEW f \in Places, Own(v, m), ~Own(v, f), f < m PROVE f <= r
    BY DEF SeesBefore, Own, Places
  <2>1. f <= seen[v]
    BY DEF Knows, SeesBefore
  <2> QED BY <1>0, <2>1
<1> QED BY <1>3, <1>4

(* HearReply: an answer about the text that was pushed is the window's own *)
(* change, or one it has seen.                                             *)
LEMMA HearReplyKeeps ==
  ASSUME TypeOK, RevisionsCount, AnswersName, AllFollow, NEW v \in Windows, HearReply(v), Knows(v)
  PROVE  Alone(v) /\ Knows(v)' /\ \A d \in Docs : Holds(v, d)' => Holds(v, d)
<1> DEFINE r == job[v].reply
<1>0. WindowsTyped /\ seen[v] \in Places /\ Len(log) \in Nat /\ r \in Places
  BY PlacesTyped DEF TypeOK, AllFollow, HearReply, AnswersName, PlacesExist, Places
<1>1. /\ UNCHANGED <<log, life, stream, first, wrote, doc, authored, ring>>
      /\ run' = [run EXCEPT ![v] = "building"]
  BY DEF HearReply, startVars, streamVars, bounds, editVars
<1>2. /\ run'[v] = "building"
      /\ \A w \in Windows : w # v => run'[w] = run[w] /\ job'[w] = job[w] /\ seen'[w] = seen[w]
  BY <1>0, <1>1 DEF HearReply, WindowsTyped
<1>3. CASE seen' = seen
  BY <1>1, <1>2, <1>3, RunEnds
<1>4. CASE seen' # seen
  <2>1. log[r].doc = job[v].doc /\ seen'[v] = Newer(seen[v], r)
    BY <1>0, <1>4 DEF HearReply, WindowsTyped
  <2>2. seen'[v] = IF seen[v] > r THEN seen[v] ELSE r
    BY <1>0, <2>1, PlacesCompare
  <2>3. Own(v, r) \/ r <= seen[v]
    BY <2>1 DEF Knows, AnswerKnown, HearReply
  <2>4. CASE r <= seen[v]
    <3>1. seen'[v] = seen[v]
      BY <1>0, <2>2, <2>4 DEF Places
    <3>2. \A w \in Windows : seen'[w] = seen[w]
      BY <1>2, <3>1
    <3>3. seen' = seen
      BY <1>0, <3>2 DEF HearReply, WindowsTyped
    <3> QED BY <1>4, <3>3
  <2>5. CASE ~(r <= seen[v])
    <3>1. Own(v, r) /\ seen'[v] = r /\ seen[v] < r /\ seen[v] \in Nat /\ r \in Nat
      BY <1>0, <2>2, <2>3, <2>5 DEF Places
    <3>2. EditorKnows(v)' /\ SeesBefore(v)'
      <4> HIDE DEF r
      <4> QED BY <1>0, <1>1, <3>1, RaisedToOwn
    <3>3. QueueAhead(v)'
      <4> SUFFICES ASSUME NEW i \in 1 .. Len(ring[v]), ~Own(v, ring[v][i]) PROVE r < ring[v][i]
        BY <1>1, <3>1 DEF Knows, QueueAhead, Own
      <4>1. ring[v][i] \in Places /\ seen[v] < ring[v][i]
        BY DEF TypeOK, PlacesExist, Places, Knows, QueueAhead
      <4>2. ~(ring[v][i] < r)
        <5>1. ring[v][i] < r => ring[v][i] <= seen[v]
          BY <1>0, <3>1, <4>1 DEF Knows, SeesBefore
        <5> QED BY <3>1, <4>1, <5>1 DEF Places
      <4>3. ring[v][i] # r
        BY <3>1
      <4> QED BY <3>1, <4>1, <4>2, <4>3 DEF Places
    <3>5. PushKnows(v)' /\ AnswerKnown(v)'
      BY <1>2 DEF PushKnows, AnswerKnown
    <3>6. Alone(v) /\ \A d \in Docs : Holds(v, d)' => Holds(v, d)
      BY <1>1, <1>2 DEF Alone, Holds
    <3> QED BY <3>2, <3>3, <3>5, <3>6 DEF Knows
  <2> QED BY <2>4, <2>5
<1> QED BY <1>3, <1>4

(* Deliver: an event of the window's own raises what it has seen; another  *)
(* is newer than that, and replaces the document.                          *)
LEMMA DeliverKeeps ==
  ASSUME TypeOK, RevisionsCount, AnswersName, AllFollow, NEW v \in Windows, Deliver(v), Knows(v)
  PROVE  Alone(v) /\ Knows(v)' /\ \A d \in Docs : Holds(v, d)' => Holds(v, d)
<1> DEFINE e == ring[v][1]
<1>0. /\ WindowsTyped /\ seen[v] \in Places /\ first[v] = 0
      /\ (\A i \in Places : i \in Nat) /\ \A i \in 1 .. Len(ring[v]) : ring[v][i] \in Places
  BY PlacesTyped DEF TypeOK, AllFollow, PlacesExist, Places
<1>1. /\ ring[v] # <<>> /\ Follow(v, Head(ring[v])) /\ ring' = [ring EXCEPT ![v] = Tail(ring[v])]
      /\ UNCHANGED <<log, life, stream, first, wrote, run, job>>
  BY <1>0 DEF Deliver, startVars, runVars, bounds, editVars
<1>2. /\ Head(ring[v]) = e /\ e \in Places /\ ring'[v] = Tail(ring[v])
      /\ Len(Tail(ring[v])) = Len(ring[v]) - 1 /\ Len(ring[v]) \in Nat /\ 1 \in 1 .. Len(ring[v])
      /\ \A i \in 1 .. Len(Tail(ring[v])) : Tail(ring[v])[i] = ring[v][i + 1] /\ i + 1 \in 1 .. Len(ring[v])
  <2>1. ring[v] \in Seq(Nat) /\ ring[v] # <<>>
    BY <1>0, <1>1 DEF WindowsTyped
  <2>2. Len(ring[v]) \in Nat \ {0} /\ Head(ring[v]) = ring[v][1] /\ Len(Tail(ring[v])) = Len(ring[v]) - 1
        /\ \A i \in 1 .. Len(Tail(ring[v])) : Tail(ring[v])[i] = ring[v][i + 1]
    BY <2>1
  <2> QED BY <1>0, <1>1, <2>2 DEF WindowsTyped
<1> HIDE DEF e
<1>3. /\ \A w \in Windows : w # v => doc'[w] = doc[w] /\ seen'[w] = seen[w] /\ authored'[w] = authored[w] /\ ring'[w] = ring[w]
      /\ seen'[v] = IF seen[v] > e THEN seen[v] ELSE e
      /\ Own(v, e) => doc'[v] = doc[v] /\ authored'[v] = authored[v]
      /\ ~Own(v, e) => doc'[v] = log[e].doc /\ authored'[v] = "session"
  <2>1. Newer(seen[v], e) = IF seen[v] > e THEN seen[v] ELSE e
    BY <1>0, <1>2, PlacesCompare
  <2>2. seen'[v] = Newer(seen[v], e)
    BY <1>0, <1>1, <1>2 DEF Follow, WindowsTyped
  <2> QED BY <1>0, <1>1, <1>2, <2>1, <2>2 DEF Follow, WindowsTyped, Own
<1>4. Alone(v)
  BY <1>1, <1>3 DEF Alone
<1>5. /\ \A i, j \in 1 .. Len(ring'[v]) : i < j => ring'[v][i] < ring'[v][j]
      /\ \A i \in 1 .. Len(ring'[v]) : e < ring'[v][i] /\ \E k \in 1 .. Len(ring[v]) : ring'[v][i] = ring[v][k]
  <2>1. \A i, j \in 1 .. Len(ring[v]) : i < j => ring[v][i] < ring[v][j]
    BY DEF Knows, QueueAhead
  <2>2. \A i \in 1 .. Len(Tail(ring[v])) : e < Tail(ring[v])[i]
    BY <1>2, <2>1 DEF e
  <2>3. ASSUME NEW i \in 1 .. Len(Tail(ring[v])), NEW j \in 1 .. Len(Tail(ring[v])), i < j
        PROVE  Tail(ring[v])[i] < Tail(ring[v])[j]
    <3>1. ring[v][i + 1] < ring[v][j + 1]
      BY <1>2, <2>1, <2>3
    <3> QED BY <1>2, <3>1
  <2> QED BY <1>2, <2>2, <2>3
<1>6. seen[v] <= seen'[v] /\ seen'[v] \in Places
  BY <1>0, <1>2, <1>3
<1>7. QueueAhead(v)'
  <2>1. ASSUME NEW i \in 1 .. Len(ring'[v]), ~Own(v, ring'[v][i]) PROVE seen'[v] < ring'[v][i]
    <3>1. PICK k \in 1 .. Len(ring[v]) : ring'[v][i] = ring[v][k]
      BY <1>5
    <3>2. seen[v] < ring'[v][i]
      BY <2>1, <3>1 DEF Knows, QueueAhead
    <3> QED BY <1>3, <1>5, <3>2
  <2> QED BY <1>1, <1>5, <2>1 DEF QueueAhead, Own
<1>8. AnswerKnown(v)'
  <2>1. run[v] = "answered" => job[v].reply \in Nat
    BY PlacesTyped
  <2> QED BY <1>0, <1>1, <1>6, <2>1 DEF Knows, AnswerKnown, Own
<1>9. CASE Own(v, e)
  <2>1. EditorKnows(v)' /\ SeesBefore(v)'
    <3>1. CASE seen[v] < e
      BY <1>0, <1>1, <1>2, <1>3, <1>9, <3>1, RaisedToOwn
    <3>2. CASE ~(seen[v] < e)
      <4>1. seen'[v] = seen[v]
        BY <1>0, <1>2, <1>3, <3>2
      <4> QED BY <1>1, <1>3, <1>9, <4>1 DEF Knows, EditorKnows, SeesBefore, Stands, Taken, Own, Places
    <3> QED BY <3>1, <3>2
  <2>2. PushKnows(v)'
    <3> SUFFICES ASSUME run[v] = "sent" PROVE PushKnows(v)'
      BY <1>1 DEF PushKnows
    <3>1. PushKnows(v) /\ job[v].base \in Places
      BY DEF Knows, PushKnows
    <3>2. job[v].base <= seen'[v] /\ (job[v].base < seen[v] => job[v].base < seen'[v])
      BY <1>0, <1>6, <3>1 DEF PushKnows
    <3> QED BY <1>1, <1>3, <1>9, <3>1, <3>2 DEF PushKnows, Stands, Taken, Own, Places
  <2>3. \A d \in Docs : Holds(v, d)' => Holds(v, d)
    BY <1>1, <1>3, <1>9 DEF Holds
  <2> QED BY <1>4, <1>7, <1>8, <2>1, <2>2, <2>3 DEF Knows
<1>10. CASE ~Own(v, e)
  <2>1. seen[v] < e /\ seen'[v] = e
    <3>1. seen[v] < e
      BY <1>2, <1>10 DEF Knows, QueueAhead, e
    <3> QED BY <1>0, <1>2, <1>3, <3>1
  <2>2. \A j \in Places : j > e => ~Own(v, j)
    BY <1>0, <1>2, <1>10, <2>1 DEF Knows, SeesBefore
  <2>3. EditorKnows(v)'
    BY <1>1, <1>2, <1>3, <1>10, <2>1, <2>2 DEF EditorKnows, Taken, Own, Places
  <2>4. SeesBefore(v)'
    <3> SUFFICES ASSUME NEW m \in Places, NEW f \in Places, Own(v, m), ~Own(v, f), f < m PROVE f <= seen'[v]
      BY <1>1 DEF SeesBefore, Own, Places
    <3>1. f <= seen[v]
      BY DEF Knows, SeesBefore
    <3> QED BY <1>0, <1>6, <3>1
  <2>5. PushKnows(v)'
    <3> SUFFICES ASSUME run[v] = "sent" PROVE PushKnows(v)'
      BY <1>1 DEF PushKnows
    <3>1. PushKnows(v) /\ job[v].base \in Places
      BY DEF Knows, PushKnows
    <3>2. job[v].base < seen'[v]
      BY <1>0, <1>2, <2>1, <3>1 DEF PushKnows
    <3>3. job[v].base <= seen'[v]
      BY <1>0, <1>2, <2>1, <3>1, <3>2
    <3> QED BY <1>1, <1>3, <1>10, <3>1, <3>2, <3>3 DEF PushKnows, Stands, Taken, Own, Places
  <2>6. \A d \in Docs : Holds(v, d)' => Holds(v, d)
    BY <1>1, <1>3, <1>10 DEF Holds
  <2> QED BY <1>4, <1>7, <1>8, <2>3, <2>4, <2>5, <2>6 DEF Knows
<1> QED BY <1>9, <1>10

-----------------------------------------------------------------------------
(* HostPush. *)

(* What the host takes: nothing the window only took from the session, and *)
(* nothing the session has held; the window has seen all before it.        *)
LEMMA WhatIsTaken ==
  ASSUME TypeOK, RevisionsCount, AllFollow, Distinct, NEW v \in Windows, Knows(v), run[v] = "sent",
         ~Identical(job[v].doc), ~Replaced(job[v].base, v)
  PROVE  /\ job[v].authored = "user" /\ authored[v] = "user"
         /\ \A i \in Places : log[i].doc # job[v].doc
         /\ \A f \in Places : ~Own(v, f) => f <= seen[v]
<1> DEFINE b == job[v].base  L == Len(log)
<1>1. /\ L \in Places /\ L \in Nat /\ b \in Places /\ b \in Nat /\ b <= L
      /\ \A i \in Places : i \in Nat /\ i <= L
      /\ seen[v] \in Places /\ seen[v] \in Nat /\ seen[v] <= L /\ b <= seen[v]
  BY PlacesCompare DEF Knows, PushKnows, Places, AllFollow
<1>2. b = L \/ Own(v, L)
  <2>1. ~(b < L /\ ~(log[L].origin = v))
    BY <1>1, PlacesCompare
  <2> QED BY <1>1, <2>1 DEF Own
<1>3. log[L].doc # job[v].doc
  BY DEF Identical, Session
<1>4. job[v].authored \in {"user", "session"} /\ authored[v] \in {"user", "session"}
  BY DEF TypeOK, WindowsTyped, Jobs, Authors
<1> HIDE DEF b, L
<1>5. job[v].authored = "user"
  <2> SUFFICES ASSUME job[v].authored = "session" PROVE FALSE
    BY <1>4
  <2>1. Taken(v, job[v].doc, b)
    BY DEF Knows, PushKnows, b
  <2>2. b # L
    BY <1>3, <2>1 DEF Taken
  <2>3. Own(v, L) /\ L > b
    BY <1>1, <1>2, <2>2
  <2> QED BY <1>1, <2>1, <2>3 DEF Taken
<1>6. authored[v] = "user"
  <2> SUFFICES ASSUME authored[v] = "session" PROVE FALSE
    BY <1>4
  <2>1. b < seen[v] /\ Taken(v, doc[v], seen[v])
    BY <1>5 DEF Knows, PushKnows, EditorKnows, b
  <2>2. Own(v, L)
    BY <1>1, <1>2, <2>1
  <2>3. ~(L > seen[v]) /\ ~Own(v, seen[v])
    BY <1>1, <2>1, <2>2 DEF Taken
  <2>4. L = seen[v]
    BY <1>1, <2>3
  <2> QED BY <2>2, <2>3, <2>4
<1>7. ASSUME NEW i \in Places, log[i].doc = job[v].doc PROVE FALSE
  <2>1. \A j \in Places : j > i => ~Own(v, j) /\ b < j
    BY <1>5, <1>7 DEF Knows, PushKnows, Stands, b
  <2>2. i # L
    BY <1>3, <1>7
  <2>3. L > i
    BY <1>1, <1>7, <2>2
  <2>4. ~Own(v, L) /\ b < L
    BY <1>1, <2>1, <2>3
  <2> QED BY <1>1, <1>2, <2>4
<1>8. ASSUME NEW f \in Places, ~Own(v, f) PROVE f <= seen[v]
  <2>1. CASE Own(v, L)
    <3>1. f < L
      BY <1>1, <1>8, <2>1
    <3> QED BY <1>1, <1>8, <2>1, <3>1 DEF Knows, SeesBefore
  <2>2. CASE ~Own(v, L)
    BY <1>1, <1>2, <2>2
  <2> QED BY <2>1, <2>2
<1> QED BY <1>5, <1>6, <1>7, <1>8

LEMMA AnsweredOnly ==
  ASSUME TypeOK, RevisionsCount, AllFollow, EchoFacts, NEW v \in Windows, HostPush(v), UNCHANGED <<log, ring>>
  PROVE  EchoFacts'
<1>0. WindowsTyped /\ Knows(v) /\ run[v] = "sent" /\ Distinct /\ Len(log) \in Places /\ Len(log) \in Nat
  BY PlacesCompare DEF TypeOK, EchoFacts, HostPush
<1>1. UNCHANGED <<log, life, stream, first, wrote, doc, seen, authored, ring>>
  BY DEF HostPush, startVars, editorVars, bounds, editVars
<1>2. /\ run'[v] = "answered" /\ job'[v].doc = job[v].doc /\ job'[v].reply = Len(log)
      /\ \A w \in Windows : w # v => run'[w] = run[w] /\ job'[w] = job[w]
  <2>1. job[v] \in Jobs
    BY <1>0 DEF WindowsTyped
  <2>2. job' = [job EXCEPT ![v] = [job[v] EXCEPT !.reply = Len(log)]] /\ run' = [run EXCEPT ![v] = "answered"]
    BY <1>1 DEF HostPush
  <2> QED BY <1>0, <2>1, <2>2, JobFields DEF WindowsTyped
<1>3. Alone(v)
  BY <1>1, <1>2 DEF Alone
<1>4. EditorKnows(v)' /\ SeesBefore(v)' /\ QueueAhead(v)' /\ PushKnows(v)'
  BY <1>0, <1>1, <1>2 DEF Knows, EditorKnows, SeesBefore, QueueAhead, PushKnows, Stands, Taken, Own, Places
<1>5. AnswerKnown(v)'
  <2> SUFFICES ASSUME log[Len(log)].doc = job[v].doc PROVE Own(v, Len(log)) \/ Len(log) <= seen[v]
    BY <1>1, <1>2 DEF AnswerKnown, Own
  <2>1. job[v].authored \in {"user", "session"} /\ PushKnows(v)
    BY <1>0 DEF WindowsTyped, Jobs, Authors, Knows
  <2>2. CASE job[v].authored = "user"
    BY <1>0, <2>1, <2>2 DEF PushKnows, Stands
  <2>3. CASE job[v].authored = "session"
    <3>1. job[v].base \in Places /\ log[job[v].base].doc = log[Len(log)].doc /\ job[v].base <= seen[v]
      BY <1>0, <2>1, <2>3 DEF PushKnows, Taken
    <3>2. job[v].base = Len(log)
      BY <1>0, <3>1 DEF Distinct
    <3> QED BY <3>1, <3>2
  <2> QED BY <2>1, <2>2, <2>3
<1>6. \A d \in Docs : Holds(v, d)' => Holds(v, d)
  BY <1>1, <1>2 DEF Holds
<1> QED BY <1>3, <1>4, <1>5, <1>6, AloneKeeps DEF Knows

LEMMA TakenKeeps ==
  ASSUME TypeOK, RevisionsCount, AnswersName, AllFollow, EchoFacts, NEW v \in Windows, HostPush(v),
         ~Identical(job[v].doc), ~Replaced(job[v].base, v)
  PROVE  EchoFacts'
<1> DEFINE d == job[v].doc  e == Len(log) + 1
<1>0. /\ WindowsTyped /\ Knows(v) /\ run[v] = "sent" /\ d \in Docs /\ v \in Origins
      /\ Len(log) \in Nat /\ (\A i \in Places : i \in Nat) /\ \A w \in Windows : stream[w] = "open"
  BY PlacesTyped DEF TypeOK, EchoFacts, HostPush, Origins, Places, AllFollow
<1>1. /\ job[v].authored = "user" /\ authored[v] = "user"
      /\ \A i \in Places : log[i].doc # d
      /\ \A f \in Places : ~Own(v, f) => f <= seen[v]
  BY <1>0, WhatIsTaken DEF EchoFacts
<1>2. Commit(d, v)
  BY DEF HostPush
<1> HIDE DEF d
<1>3. Grows(d, v) /\ \A w \in Windows : ring'[w] = Enqueue(ring[w], Len(log) + 1)
  BY <1>0, <1>2, CommitGrows
<1>4. /\ Places' = Places \cup {e} /\ e \notin Places /\ e \in Nat /\ \A i \in Places : i < e /\ log'[i] = log[i]
      /\ log'[e].doc = d /\ log'[e].origin = v /\ Len(log') = e
  BY <1>0, <1>3 DEF Grows, Places
<1>5. UNCHANGED <<wrote, doc, seen, authored>>
  BY DEF HostPush, editorVars, bounds, editVars
<1>6. /\ run'[v] = "answered" /\ job'[v].doc = d /\ job'[v].reply = e
      /\ \A w \in Windows : w # v => run'[w] = run[w] /\ job'[w] = job[w]
  <2>1. job[v] \in Jobs
    BY <1>0 DEF WindowsTyped
  <2>2. job' = [job EXCEPT ![v] = [job[v] EXCEPT !.reply = e]] /\ run' = [run EXCEPT ![v] = "answered"]
    BY <1>4 DEF HostPush
  <2> HIDE DEF e
  <2> QED BY <1>0, <1>4, <2>1, <2>2, JobFields DEF WindowsTyped, d
<1> HIDE DEF e
<1>7. Holds(v, d)
  BY <1>0, <1>1 DEF Holds, d
<1>8. Knows(v)'
  <2>1. EditorKnows(v)'
    <3>1. doc[v] # d => \A i \in Places : log[i].doc # doc[v]
      BY <1>0, <1>1 DEF Knows, PushKnows, d
    <3>2. \A i \in Places' : log'[i].doc = doc[v] => i = e /\ doc[v] = d
      BY <1>1, <1>4, <3>1
    <3>3. \A j \in Places' : ~(j > e)
      BY <1>0, <1>4
    <3>4. Stands(v, doc[v], seen[v])'
      BY <1>4, <1>5, <3>2, <3>3 DEF Stands, Own
    <3> QED BY <1>1, <1>5, <3>4 DEF EditorKnows
  <2>2. PushKnows(v)' /\ AnswerKnown(v)'
    BY <1>4, <1>6 DEF PushKnows, AnswerKnown, Own
  <2>3. QueueAhead(v)'
    BY <1>0, <1>3, <1>5, QueueGrows DEF Knows
  <2>4. SeesBefore(v)'
    <3> SUFFICES ASSUME NEW m \in Places', NEW f \in Places', log'[m].origin = v, log'[f].origin # v, f < m
                 PROVE  f <= seen[v]
      BY <1>5 DEF SeesBefore, Own
    <3>1. f \in Places /\ ~Own(v, f)
      BY <1>4 DEF Own
    <3> QED BY <1>1, <3>1
  <2> QED BY <2>1, <2>2, <2>3, <2>4 DEF Knows
<1>9. ASSUME NEW w \in Windows, w # v PROVE Knows(w)' /\ \A x \in Docs : Holds(w, x)' <=> Holds(w, x)
  <2>1. ~Holds(w, d) /\ Knows(w)
    BY <1>0, <1>7, <1>9 DEF EchoFacts, Apart
  <2> QED BY <1>0, <1>3, <1>5, <1>6, <1>9, <2>1, SomebodysChange
<1>10. \A w \in Windows : \A x \in Docs : Holds(w, x)' => Holds(w, x)
  <2>1. \A x \in Docs : Holds(v, x)' => Holds(v, x)
    BY <1>5, <1>6 DEF Holds
  <2> QED BY <1>9, <2>1
<1>11. Distinct'
  BY <1>1, <1>4 DEF EchoFacts, Distinct
<1>12. WrittenKnown'
  BY <1>0, <1>4, <1>5, <1>7, <1>10 DEF EchoFacts, WrittenKnown
<1>13. Apart'
  BY <1>10 DEF EchoFacts, Apart
<1> QED BY <1>8, <1>9, <1>11, <1>12, <1>13 DEF EchoFacts

LEMMA PushKeeps ==
  ASSUME TypeOK, RevisionsCount, AnswersName, AllFollow, EchoFacts, NEW v \in Windows, HostPush(v)
  PROVE  EchoFacts'
<1>1. CASE Identical(job[v].doc) \/ Replaced(job[v].base, v)
  BY <1>1, AnsweredOnly DEF HostPush
<1>2. CASE ~(Identical(job[v].doc) \/ Replaced(job[v].base, v))
  BY <1>2, TakenKeeps
<1> QED BY <1>1, <1>2

-----------------------------------------------------------------------------
(* What somebody writes is nothing that was written before. *)
LEMMA WriteKeeps ==
  ASSUME TypeOK, AllFollow, EchoFacts, NEW v \in Windows, NEW d \in Docs, Write(v, d), wrote'.once
  PROVE  EchoFacts'
<1>0. WindowsTyped /\ d \notin wrote.docs /\ wrote'.docs = wrote.docs \cup {d}
      /\ UNCHANGED <<log, life, stream, first, seen, run, job, ring>>
  BY DEF TypeOK, Write, Wrote, startVars, runVars, streamVars
<1>1. /\ doc'[v] = d /\ authored'[v] = "user"
      /\ \A w \in Windows : w # v => doc'[w] = doc[w] /\ authored'[w] = authored[w]
  BY <1>0 DEF Write, WindowsTyped
<1>2. \A i \in Places : log[i].doc # d
  BY <1>0 DEF EchoFacts, WrittenKnown
<1>3. \A w \in Windows : ~Holds(w, d)
  BY <1>0 DEF EchoFacts, WrittenKnown
<1>4. Knows(v)'
  <2>0. Knows(v)
    BY DEF EchoFacts
  <2>1. EditorKnows(v)'
    BY <1>0, <1>1, <1>2 DEF EditorKnows, Stands, Places
  <2>2. PushKnows(v)'
    <3>1. PushKnows(v)
      BY <2>0 DEF Knows
    <3> QED BY <1>0, <1>1, <1>2, <3>1 DEF PushKnows, Stands, Taken, Own, Places
  <2>3. SeesBefore(v)' /\ QueueAhead(v)' /\ AnswerKnown(v)'
    BY <1>0, <2>0 DEF Knows, SeesBefore, QueueAhead, AnswerKnown, Own, Places
  <2> QED BY <2>1, <2>2, <2>3 DEF Knows
<1>5. ASSUME NEW w \in Windows, w # v PROVE Knows(w)' /\ \A x \in Docs : Holds(w, x)' <=> Holds(w, x)
  <2>1. Knows(w)
    BY DEF EchoFacts
  <2> QED BY <1>0, <1>1, <1>5, <2>1, NothingNew
<1>6. \A x \in Docs : Holds(v, x)' => Holds(v, x) \/ x = d
  BY <1>0, <1>1 DEF Holds
<1>7. Distinct'
  BY <1>0 DEF EchoFacts, Distinct, Places
<1>8. WrittenKnown'
  BY <1>0, <1>5, <1>6 DEF EchoFacts, WrittenKnown, Places
<1>9. Apart'
  <2> SUFFICES ASSUME NEW x \in Docs, NEW w \in Windows, NEW u \in Windows, Holds(w, x)', Holds(u, x)' PROVE w = u
    BY DEF Apart
  <2>1. CASE x = d
    <3>1. w = v /\ u = v
      BY <1>3, <1>5, <2>1
    <3> QED BY <3>1
  <2>2. CASE x # d
    <3>1. Holds(w, x) /\ Holds(u, x)
      BY <1>5, <1>6, <2>2
    <3> QED BY <3>1 DEF EchoFacts, Apart
  <2> QED BY <2>1, <2>2
<1> QED BY <1>4, <1>5, <1>7, <1>8, <1>9 DEF EchoFacts

LEMMA AgentKeeps ==
  ASSUME TypeOK, AnswersName, AllFollow, EchoFacts, NEW d \in Docs, Wrote(Agent, d), Commit(d, Agent),
         UNCHANGED <<startVars, editorVars, runVars, stream, first, report, faultVars>>, wrote'.once
  PROVE  EchoFacts'
<1>0. /\ d \notin wrote.docs /\ wrote'.docs = wrote.docs \cup {d} /\ Agent \in Origins /\ Agent \notin Windows
      /\ UNCHANGED <<doc, seen, authored, run, job>> /\ Len(log) \in Nat
  BY ConstantsAssumption, PlacesTyped DEF Wrote, Origins, editorVars, runVars
<1>1. Grows(d, Agent) /\ \A w \in Windows : ring'[w] = Enqueue(ring[w], Len(log) + 1)
  BY <1>0, CommitGrows DEF AllFollow
<1>2. \A i \in Places : log[i].doc # d
  BY <1>0 DEF EchoFacts, WrittenKnown
<1>3. ASSUME NEW w \in Windows PROVE Knows(w)' /\ ~Holds(w, d) /\ \A x \in Docs : Holds(w, x)' <=> Holds(w, x)
  <2>1. ~Holds(w, d) /\ Knows(w) /\ Agent # w
    BY <1>0 DEF EchoFacts, WrittenKnown
  <2> QED BY <1>0, <1>1, <2>1, SomebodysChange
<1>4. Places' = Places \cup {Len(log) + 1} /\ log'[Len(log) + 1].doc = d /\ \A i \in Places : log'[i] = log[i]
  BY <1>0, <1>1 DEF Grows, Places
<1>5. Distinct'
  BY <1>2, <1>4 DEF EchoFacts, Distinct
<1>6. WrittenKnown'
  BY <1>0, <1>3, <1>4 DEF EchoFacts, WrittenKnown
<1>7. Apart'
  BY <1>3 DEF EchoFacts, Apart
<1> QED BY <1>3, <1>5, <1>6, <1>7 DEF EchoFacts

(* What can happen while everybody follows the session and nothing breaks. *)
LEMMA SteadySteps ==
  ASSUME Steady, TypeOK, AllFollow, Next
  PROVE  \/ \E d \in Docs : /\ Wrote(Agent, d) /\ Commit(d, Agent)
                            /\ UNCHANGED <<startVars, editorVars, runVars, stream, first, report, faultVars>>
         \/ \E v \in Windows : \/ Fire(v) \/ HostPush(v) \/ HearReply(v) \/ Build(v) \/ Deliver(v) \/ PushFails(v)
                               \/ \E d \in Docs : Write(v, d)
<1> DEFINE Goal == \/ \E d \in Docs : /\ Wrote(Agent, d) /\ Commit(d, Agent)
                                      /\ UNCHANGED <<startVars, editorVars, runVars, stream, first, report, faultVars>>
                   \/ \E v \in Windows : \/ Fire(v) \/ HostPush(v) \/ HearReply(v) \/ Build(v) \/ Deliver(v) \/ PushFails(v)
                                         \/ \E d \in Docs : Write(v, d)
<1>1. drops \in Nat /\ ~(drops < MaxDrops) /\ ~(restarts < MaxRestarts)
  BY DEF TypeOK, HostTyped, Steady
<1>2. ~Restart
  BY <1>1 DEF Restart
<1>3. CASE AgentStep
  <2>1. ASSUME NEW t \in Texts, AgentSetScript(t) PROVE Goal
    <3>1. [Session.doc EXCEPT !.script = t] \in Docs
      BY SessionTyped DEF Docs, TypeOK
    <3> QED BY <2>1, <3>1 DEF AgentSetScript
  <2>2. ASSUME NEW t \in Texts, NEW p \in Parts, AgentOpen(p, t) PROVE Goal
    <3>1. [name |-> p, script |-> t] \in Docs
      BY DEF Docs
    <3> QED BY <2>2, <3>1 DEF AgentOpen
  <2> QED BY <1>3, <2>1, <2>2 DEF AgentStep
<1>4. ASSUME NEW v \in Windows, WindowStep(v) PROVE Goal
  <2>1. ~StartRead(v) /\ ~StartApply(v) /\ ~Connect(v) /\ ~Subscribe(v)
    BY DEF AllFollow, StartRead, StartApply, Connect, Subscribe
  <2> QED BY <1>4, <2>1 DEF WindowStep
<1>5. ASSUME NEW v \in Windows, UserStep(v) PROVE Goal
  <2>1. ~OpenWindow(v) /\ ~CloseWindow(v) /\ ~Drop(v)
    BY <1>1 DEF AllFollow, OpenWindow, CloseWindow, Drop
  <2>2. ASSUME NEW t \in Texts, Type(v, t) PROVE Goal
    <3>1. [doc[v] EXCEPT !.script = t] \in Docs
      <4>1. doc[v] \in Docs
        BY DEF TypeOK, WindowsTyped
      <4> QED BY <4>1 DEF Docs
    <3> QED BY <2>2, <3>1 DEF Type
  <2>3. ASSUME NEW t \in Texts, NEW p \in Parts, OpenPart(v, p, t) PROVE Goal
    <3>1. [name |-> p, script |-> t] \in Docs
      BY DEF Docs
    <3> QED BY <2>3, <3>1 DEF OpenPart
  <2> QED BY <1>5, <2>1, <2>2, <2>3 DEF UserStep
<1> QED BY <1>2, <1>3, <1>4, <1>5 DEF Next

LEMMA FollowKeeps ==
  ASSUME Steady, TypeOK, RevisionsCount, AnswersName, AllFollow, [Next]_vars
  PROVE  AllFollow'
<1>1. ASSUME NEW w \in Windows
      PROVE  life'[w] = "live" /\ stream'[w] = "open" /\ first'[w] = 0 /\ seen'[w] \in Places'
  <2>0. /\ WindowsTyped /\ life[w] = "live" /\ stream[w] = "open" /\ first[w] = 0 /\ seen[w] \in Places
        /\ Places \subseteq Places'
    <3>1. Len(log') \in {Len(log), Len(log) + 1} /\ Len(log) \in Nat
      BY LogGrows, PlacesTyped
    <3> QED BY <3>1 DEF TypeOK, AllFollow, Places
  <2>1. CASE UNCHANGED <<life, stream, first, seen>>
    BY <2>0, <2>1
  <2>2. CASE UNCHANGED vars
    BY <2>1, <2>2 DEF vars, startVars, streamVars, editorVars
  <2>3. ASSUME NEW d \in Docs, UNCHANGED <<startVars, editorVars, runVars, stream, first, report, faultVars>>
        PROVE  UNCHANGED <<life, stream, first, seen>>
    BY <2>3 DEF startVars, editorVars
  <2>4. ASSUME NEW v \in Windows, Fire(v) \/ HostPush(v) \/ Build(v) \/ PushFails(v) \/ \E d \in Docs : Write(v, d)
        PROVE  UNCHANGED <<life, stream, first, seen>>
    BY <2>4 DEF Fire, HostPush, Build, PushFails, Write, startVars, streamVars, editorVars
  <2>5. ASSUME NEW v \in Windows, HearReply(v) \/ Deliver(v)
        PROVE  UNCHANGED <<life, stream, first>> /\ seen'[w] \in Places
    <3>0. /\ job[v].reply \in 1 .. Len(log) \/ run[v] # "answered"
          /\ first[v] = 0 /\ seen[v] \in Places
      BY PlacesTyped DEF AnswersName, TypeOK, PlacesExist, AllFollow
    <3>1. CASE HearReply(v)
      <4>1. job[v].reply \in Places
        BY <3>0, <3>1 DEF HearReply, Places
      <4>2. Newer(seen[v], job[v].reply) \in Places
        BY <3>0, <4>1, NewerIsOne
      <4>3. UNCHANGED <<life, stream, first>> /\ (seen' = seen \/ seen' = [seen EXCEPT ![v] = Newer(seen[v], job[v].reply)])
        BY <3>1 DEF HearReply, startVars, streamVars
      <4> QED BY <2>0, <4>2, <4>3 DEF WindowsTyped
    <3>2. CASE Deliver(v)
      <4>1. ring[v] # <<>> /\ Follow(v, Head(ring[v])) /\ UNCHANGED <<life, stream, first>>
        BY <3>0, <3>2 DEF Deliver, startVars
      <4>2. Head(ring[v]) \in Places
        <5>1. ring[v] \in Seq(Nat)
          BY <2>0 DEF WindowsTyped
        <5>2. Head(ring[v]) = ring[v][1] /\ 1 \in 1 .. Len(ring[v])
          BY <4>1, <5>1
        <5> QED BY <5>2 DEF TypeOK, PlacesExist, Places
      <4>3. Newer(seen[v], Head(ring[v])) \in Places
        BY <3>0, <4>2, NewerIsOne
      <4>4. seen' = [seen EXCEPT ![v] = Newer(seen[v], Head(ring[v]))]
        BY <4>1 DEF Follow
      <4> QED BY <2>0, <4>1, <4>3, <4>4 DEF WindowsTyped
    <3> QED BY <2>5, <3>1, <3>2
  <2>6. CASE Next
    BY <2>0, <2>1, <2>3, <2>4, <2>5, <2>6, SteadySteps
  <2> QED BY <2>2, <2>6
<1> QED BY <1>1 DEF AllFollow

LEMMA FactsKeep ==
  ASSUME Steady, EchoInv, Next, wrote'.once
  PROVE  EchoFacts'
<1>0. TypeOK /\ RevisionsCount /\ AnswersName /\ AllFollow
  BY DEF EchoInv
<1>1. ASSUME NEW d \in Docs, Wrote(Agent, d), Commit(d, Agent),
             UNCHANGED <<startVars, editorVars, runVars, stream, first, report, faultVars>>
      PROVE  EchoFacts'
  <2>1. EchoFacts
    BY <1>1 DEF EchoInv, Wrote
  <2> QED BY <1>0, <1>1, <2>1, AgentKeeps
<1>2. ASSUME NEW v \in Windows, NEW d \in Docs, Write(v, d) PROVE EchoFacts'
  <2>1. EchoFacts
    BY <1>2 DEF EchoInv, Write, Wrote
  <2> QED BY <1>0, <1>2, <2>1, WriteKeeps
<1>3. ASSUME NEW v \in Windows, Fire(v) \/ HostPush(v) \/ HearReply(v) \/ Build(v) \/ Deliver(v) \/ PushFails(v)
      PROVE  EchoFacts'
  <2>1. EchoFacts /\ Knows(v)
    BY <1>3 DEF EchoInv, EchoFacts, Fire, HostPush, HearReply, Build, Deliver, PushFails, bounds, editVars
  <2>2. CASE HostPush(v)
    BY <1>0, <2>1, <2>2, PushKeeps
  <2>3. CASE Fire(v)
    BY <1>0, <2>1, <2>3, FireKeeps, AloneKeeps
  <2>4. CASE HearReply(v)
    BY <1>0, <2>1, <2>4, HearReplyKeeps, AloneKeeps
  <2>5. CASE Deliver(v)
    BY <1>0, <2>1, <2>5, DeliverKeeps, AloneKeeps
  <2>6. CASE Build(v) \/ PushFails(v)
    <3>1. /\ UNCHANGED <<log, life, stream, first, wrote, doc, seen, authored, ring>>
          /\ run'[v] \notin {"sent", "answered"}
          /\ \A w \in Windows : w # v => run'[w] = run[w] /\ job'[w] = job[w]
      BY <1>0, <2>6 DEF TypeOK, WindowsTyped, Build, PushFails, startVars, streamVars, editorVars, bounds, editVars
    <3> QED BY <1>0, <2>1, <3>1, RunEnds, AloneKeeps
  <2> QED BY <1>3, <2>2, <2>3, <2>4, <2>5, <2>6
<1> QED BY <1>0, <1>1, <1>2, <1>3, SteadySteps

LEMMA EchoStep == ASSUME Steady PROVE EchoInv /\ [Next]_vars => EchoInv'
<1> SUFFICES ASSUME EchoInv, [Next]_vars PROVE EchoInv'
  OBVIOUS
<1>0. TypeOK /\ RevisionsCount /\ AnswersName /\ AllFollow
  BY DEF EchoInv
<1>1. TypeOK' /\ AnswersName' /\ AllFollow'
  BY <1>0, StepTyped, AnswersStep, FollowKeeps
<1>2. RevisionsCount'
  BY <1>0, RevisionsStep DEF Steady
<1>3. wrote'.once => EchoFacts'
  <2>1. CASE Next
    BY <2>1, FactsKeep
  <2>2. CASE UNCHANGED vars
    <3>1. UNCHANGED <<log, wrote, doc, seen, authored, run, job, ring>>
      BY <2>2 DEF vars, editorVars, runVars, streamVars, bounds, editVars
    <3>2. ASSUME EchoFacts, NEW w \in Windows PROVE Knows(w)' /\ \A d \in Docs : Holds(w, d)' <=> Holds(w, d)
      <4>1. Knows(w)
        BY <3>2 DEF EchoFacts
      <4> QED BY <3>1, <4>1, NothingNew
    <3>3. ASSUME EchoFacts PROVE Distinct' /\ WrittenKnown' /\ Apart'
      BY <3>1, <3>2, <3>3 DEF EchoFacts, Distinct, WrittenKnown, Apart, Places
    <3> QED BY <3>1, <3>2, <3>3 DEF EchoFacts, EchoInv
  <2> QED BY <2>1, <2>2
<1> QED BY <1>1, <1>2, <1>3 DEF EchoInv

(* However many windows follow a session and whatever their users and an   *)
(* agent write, however a push, its answer and the events of others cross, *)
(* and with a queue of any length: as long as nothing is written twice, a  *)
(* window never puts back what it was shown; what the host takes from it,  *)
(* its user wrote.                                                         *)
THEOREM EchoesDieAll == ASSUME Steady PROVE Spec => EchoesDie
<1> DEFINE UsersOnly == \A w \in Windows : (wrote.once /\ HostPush(w) /\ log' # log) => job[w].authored = "user"
<1>1. Init => EchoInv
  BY EchoBegins
<1>2. EchoInv /\ [Next]_vars => EchoInv'
  BY EchoStep
<1>3. EchoInv => UsersOnly
  <2> SUFFICES ASSUME EchoInv, NEW w \in Windows, wrote.once, HostPush(w), log' # log
               PROVE  job[w].authored = "user"
    OBVIOUS
  <2>1. TypeOK /\ RevisionsCount /\ AllFollow /\ Distinct /\ Knows(w) /\ run[w] = "sent"
    BY DEF EchoInv, EchoFacts, HostPush
  <2>2. ~Identical(job[w].doc) /\ ~Replaced(job[w].base, w)
    BY DEF HostPush
  <2> QED BY <2>1, <2>2, WhatIsTaken
<1>4. EchoInv /\ [Next]_vars => [UsersOnly]_vars
  BY <1>3
<1> QED BY <1>1, <1>2, <1>4, PTL DEF Spec, EchoesDie
=============================================================================
