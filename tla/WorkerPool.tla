----------------------------- MODULE WorkerPool -----------------------------
(***************************************************************************)
(* The kernel outside the process (parcad-occt host.rs, bin/worker.rs):    *)
(* callers take a warm worker process from a small pool or start one, send *)
(* it one frame on stdin, and read its stderr, through a reader thread,    *)
(* until the reply is announced, the process dies or a deadline passes.    *)
(*                                                                         *)
(* A process id is reused once the process is dropped, so |Callers| +      *)
(* MaxIdle of them are enough.                                             *)
(***************************************************************************)
EXTENDS Integers, Sequences

CONSTANTS
  Callers,      \* threads that call run_process
  Workers,      \* process ids
  NoWorker,
  Requests,     \* Frame.request
  NoRequest,
  MaxIdle,      \* MAX_IDLE
  MaxSteps,     \* bound: breadcrumbs the kernel prints for one request
  MaxCalls,     \* bound: calls together
  MaxDeaths     \* bound: workers that die by themselves

ASSUME PoolAssumption ==
  /\ NoWorker \notin Workers /\ NoRequest \notin Requests
  /\ MaxIdle \in Nat /\ MaxSteps \in Nat /\ MaxCalls \in Nat /\ MaxDeaths \in Nat

VARIABLES
  seq,      \* REPLY_SEQ; it numbers the reply paths
  pc,       \* where a caller is: "idle", "taking", "reusing", "starting", "sending", "waiting", "stopping", "returning"
  asked,    \* the request of its frame
  path,     \* reply_path
  using,    \* the Worker it owns
  outcome,  \* what its last call returned: an answer to a request, or a failure
  named,    \* the breadcrumb a failed call was told
  idle,     \* IDLE: the pool
  proc,     \* the process: "none", "running", "dead", or "closed" once its stderr is read to the end
  stdin,    \* frames written and not yet read by it
  work,     \* the frame it works on or answered last, how far it is
  load,     \* whether it holds more than KEEP_UNDER_KB: 1, or 0
  stderr,   \* lines it printed and the reader thread has not read
  events,   \* the reader's channel
  latest,   \* the breadcrumb slot the reader keeps
  held,     \* held_kb: what it last said it holds
  files,    \* reply files
  deaths    \* what was spent of MaxDeaths

callerVars == <<pc, asked, path, using, outcome, named>>
kernelVars == <<stdin, work, load>>
readerVars == <<stderr, events, latest>>
workerVars == <<proc, kernelVars, readerVars, held>>
vars == <<seq, callerVars, idle, workerVars, files, deaths>>

-----------------------------------------------------------------------------
Paths  == Nat
Frames == [path : Paths, request : Requests]
Stages == [path : Paths, step : Nat]      \* a breadcrumb: of which request, how far
Lines  == [kind : {"stage", "held", "reply", "eof"}, path : Paths, at : Nat]
Works  == [path : Paths, request : Requests \cup {NoRequest}, step : Nat,
           phase : {"reading", "working", "written"}]

Line(kind, p, at) == [kind |-> kind, path |-> p, at |-> at]
Eof        == Line("eof", 0, 0)
StartingUp == [path |-> 0, step |-> 0]    \* "starting up"
NoWork     == [path |-> 0, request |-> NoRequest, step |-> 0, phase |-> "reading"]

Calls == INSTANCE KernelCalls WITH
           asking <- [c \in Callers |-> IF pc[c] \in {"idle", "returning"} THEN NoRequest ELSE asked[c]]

-----------------------------------------------------------------------------
(* Dropping Workers kills and reaps them; nothing of them is left. *)
Cleared(f, S, empty) == [w \in Workers |-> IF w \in S THEN empty ELSE f[w]]

Dropped(S) ==
  /\ proc' = Cleared(proc, S, "none")
  /\ stdin' = Cleared(stdin, S, <<>>) /\ work' = Cleared(work, S, NoWork) /\ load' = Cleared(load, S, 0)
  /\ stderr' = Cleared(stderr, S, <<>>) /\ events' = Cleared(events, S, <<>>)
  /\ latest' = Cleared(latest, S, StartingUp) /\ held' = Cleared(held, S, 0)

(* Mutant of NextPath: one reply path for every call. *)
OnePath == 1
NextPath == seq + 1

(* run_process, up to the frame. *)
Call(c, q) ==
  /\ pc[c] = "idle" /\ seq < MaxCalls
  /\ seq' = seq + 1
  /\ pc' = [pc EXCEPT ![c] = "taking"]
  /\ asked' = [asked EXCEPT ![c] = q]
  /\ path' = [path EXCEPT ![c] = NextPath]
  /\ outcome' = [outcome EXCEPT ![c] = Calls!Nothing]
  /\ named' = [named EXCEPT ![c] = StartingUp]
  /\ UNCHANGED <<using, idle, workerVars, files, deaths>>

Alive(w) == proc[w] = "running"

After(i) == SubSeq(idle, i + 1, Len(idle))

(* take, under the pool's lock: the first idle worker that is alive; the   *)
(* dead ones before it are dropped.                                        *)
TakeWarm(c) ==
  /\ pc[c] = "taking"
  /\ \E i \in 1 .. Len(idle) :
       /\ Alive(idle[i]) /\ \A j \in 1 .. i - 1 : ~Alive(idle[j])
       /\ using' = [using EXCEPT ![c] = idle[i]]
       /\ Dropped({idle[j] : j \in 1 .. i - 1})
       /\ idle' = After(i)
  /\ pc' = [pc EXCEPT ![c] = "reusing"]
  /\ UNCHANGED <<seq, asked, path, outcome, named, files, deaths>>

TakeNone(c) ==
  /\ pc[c] = "taking"
  /\ \A i \in 1 .. Len(idle) : ~Alive(idle[i])
  /\ Dropped({idle[i] : i \in 1 .. Len(idle)})
  /\ idle' = <<>>
  /\ pc' = [pc EXCEPT ![c] = "starting"]
  /\ UNCHANGED <<seq, asked, path, using, outcome, named, files, deaths>>

(* run_process returns: what it held and its locals are gone. *)
Ends(c) ==
  /\ pc' = [pc EXCEPT ![c] = "idle"]
  /\ asked' = [asked EXCEPT ![c] = NoRequest]
  /\ path' = [path EXCEPT ![c] = 0]
  /\ using' = [using EXCEPT ![c] = NoWorker]

(* ... with a failure, and what it says of how far the kernel got. *)
Fails(c, how, stage) ==
  /\ Ends(c)
  /\ outcome' = [outcome EXCEPT ![c] = Calls!Failed(how)]
  /\ named' = [named EXCEPT ![c] = stage]

(* spawn *)
Spawn(c) ==
  /\ pc[c] = "starting"
  /\ \E w \in Workers :
       /\ proc[w] = "none"
       /\ proc' = [proc EXCEPT ![w] = "running"]
       /\ using' = [using EXCEPT ![c] = w]
  /\ pc' = [pc EXCEPT ![c] = "sending"]
  /\ UNCHANGED <<seq, asked, path, outcome, named, idle, kernelVars, readerVars, held, files, deaths>>

SpawnFails(c) ==
  /\ pc[c] = "starting"
  /\ Fails(c, "host", StartingUp)
  /\ UNCHANGED <<seq, idle, workerVars, files, deaths>>

(* Mutant of Reset: the slot keeps what the last request left in it. *)
KeepSlot(w) == latest
Reset(w) == [latest EXCEPT ![w] = StartingUp]

(* send: a living process has room for the frame in its stdin. *)
Send(c) ==
  /\ pc[c] \in {"reusing", "sending"} /\ Alive(using[c])
  /\ latest' = Reset(using[c])
  /\ stdin' = [stdin EXCEPT ![using[c]] = Append(@, [path |-> path[c], request |-> asked[c]])]
  /\ pc' = [pc EXCEPT ![c] = "waiting"]
  /\ UNCHANGED <<seq, asked, path, using, outcome, named, idle, proc, work, load, stderr, events, held, files, deaths>>

(* A broken pipe: a worker of the pool is replaced by a fresh one ... *)
ReuseBreaks(c) ==
  /\ pc[c] = "reusing" /\ ~Alive(using[c])
  /\ Dropped({using[c]})
  /\ using' = [using EXCEPT ![c] = NoWorker]
  /\ pc' = [pc EXCEPT ![c] = "starting"]
  /\ UNCHANGED <<seq, asked, path, outcome, named, idle, files, deaths>>

(* ... and a fresh one that takes no request is the host's to report. *)
SendBreaks(c) ==
  /\ pc[c] = "sending" /\ ~Alive(using[c])
  /\ Dropped({using[c]})
  /\ Fails(c, "host", StartingUp)
  /\ UNCHANGED <<seq, idle, files, deaths>>

-----------------------------------------------------------------------------
(* The worker process (bin/worker.rs) and the thread that reads it. *)

Says(w, lines) == stderr' = [stderr EXCEPT ![w] = @ \o lines]

(* The next line of stdin; the last frame is done with. *)
ReadFrame(w) ==
  /\ Alive(w) /\ work[w].phase = "reading" /\ stdin[w] # <<>>
  /\ work' = [work EXCEPT ![w] = [path |-> Head(stdin[w]).path, request |-> Head(stdin[w]).request,
                                  step |-> 0, phase |-> "working"]]
  /\ stdin' = [stdin EXCEPT ![w] = Tail(@)]
  /\ UNCHANGED <<seq, callerVars, idle, proc, load, readerVars, held, files, deaths>>

(* serve.rs says what it is about to do. *)
Breadcrumb(w) ==
  /\ Alive(w) /\ work[w].phase = "working" /\ work[w].step < MaxSteps
  /\ work' = [work EXCEPT ![w].step = @ + 1]
  /\ Says(w, <<Line("stage", work[w].path, work[w].step + 1)>>)
  /\ UNCHANGED <<seq, callerVars, idle, proc, stdin, load, events, latest, held, files, deaths>>

(* write_reply: std::fs::write replaces what is there. *)
WriteReply(w) ==
  /\ Alive(w) /\ work[w].phase = "working"
  /\ work' = [work EXCEPT ![w].phase = "written"]
  /\ files' = {f \in files : f.path # work[w].path} \cup {[path |-> work[w].path, request |-> work[w].request]}
  /\ \E heavy \in {0, 1} : load' = [load EXCEPT ![w] = heavy]
  /\ UNCHANGED <<seq, callerVars, idle, proc, stdin, readerVars, held, deaths>>

(* Mutant of Announcement: the reply first, what it holds afterwards. *)
ReplyFirst(w) == <<Line("reply", work[w].path, 0), Line("held", 0, load[w])>>
Announcement(w) == <<Line("held", 0, load[w]), Line("reply", work[w].path, 0)>>

(* What the process holds, then the reply: two lines in a row. *)
Announce(w) ==
  /\ Alive(w) /\ work[w].phase = "written"
  /\ work' = [work EXCEPT ![w].phase = "reading"]
  /\ Says(w, Announcement(w))
  /\ UNCHANGED <<seq, callerVars, idle, proc, stdin, load, events, latest, held, files, deaths>>

(* OCCT crashes, the system kills it, it cannot write its reply. *)
Die(w) ==
  /\ Alive(w) /\ deaths < MaxDeaths
  /\ proc' = [proc EXCEPT ![w] = "dead"]
  /\ deaths' = deaths + 1
  /\ UNCHANGED <<seq, callerVars, idle, kernelVars, readerVars, held, files>>

(* The reader thread: a breadcrumb goes to the slot, the rest to the channel. *)
ReadLine(w) ==
  /\ stderr[w] # <<>>
  /\ LET line == Head(stderr[w])
     IN  IF line.kind = "stage"
           THEN /\ latest' = [latest EXCEPT ![w] = [path |-> line.path, step |-> line.at]]
                /\ UNCHANGED events
           ELSE /\ events' = [events EXCEPT ![w] = Append(@, line)]
                /\ UNCHANGED latest
  /\ stderr' = [stderr EXCEPT ![w] = Tail(@)]
  /\ UNCHANGED <<seq, callerVars, idle, proc, kernelVars, held, files, deaths>>

(* ... and the end of stderr is an event too. *)
ReadEnd(w) ==
  /\ proc[w] = "dead" /\ stderr[w] = <<>>
  /\ proc' = [proc EXCEPT ![w] = "closed"]
  /\ events' = [events EXCEPT ![w] = Append(@, Eof)]
  /\ UNCHANGED <<seq, callerVars, idle, kernelVars, stderr, latest, held, files, deaths>>

-----------------------------------------------------------------------------
(* wait_for_reply, and what run_process does with its result. *)

Waits(c) == pc[c] = "waiting" /\ events[using[c]] # <<>>
Event(c) == Head(events[using[c]])
Consume(c) == events' = [events EXCEPT ![using[c]] = Tail(@)]

HearHeld(c) ==
  /\ Waits(c) /\ Event(c).kind = "held"
  /\ held' = [held EXCEPT ![using[c]] = Event(c).at]
  /\ Consume(c)
  /\ UNCHANGED <<seq, callerVars, idle, proc, kernelVars, stderr, latest, files, deaths>>

(* The reply at the path this call sent is read; one at another path is    *)
(* removed and the wait goes on; one that left no file is an error.        *)
HearReply(c) ==
  /\ Waits(c) /\ Event(c).kind = "reply"
  /\ LET left == {f \in files : f.path = path[c]}
     IN  IF Event(c).path # path[c]
           THEN /\ Consume(c)
                /\ files' = {f \in files : f.path # Event(c).path}
                /\ UNCHANGED <<seq, callerVars, idle, proc, kernelVars, stderr, latest, held, deaths>>
         ELSE IF left # {}
           THEN /\ \E f \in left : outcome' = [outcome EXCEPT ![c] = Calls!Answer(f.request)]
                /\ Consume(c)
                /\ pc' = [pc EXCEPT ![c] = "returning"]
                /\ UNCHANGED <<seq, asked, path, using, named, idle, proc, kernelVars, stderr, latest, held, files, deaths>>
           ELSE /\ Dropped({using[c]})
                /\ Fails(c, "host", latest[using[c]])
                /\ UNCHANGED <<seq, idle, files, deaths>>

(* The process is gone and all it said was read: the caller is told how    *)
(* far it got.                                                             *)
HearEnd(c) ==
  /\ Waits(c) /\ Event(c).kind = "eof"
  /\ Dropped({using[c]})
  /\ Fails(c, "crashed", latest[using[c]])
  /\ UNCHANGED <<seq, idle, files, deaths>>

(* Mutant of Late: the wait for an event has no deadline. *)
NeverLate(c) == FALSE
Late(c) == events[using[c]] = <<>>

(* The deadline passes and no event is there: the process is killed, *)
Timeout(c) ==
  /\ pc[c] = "waiting" /\ Late(c)
  /\ proc' = [proc EXCEPT ![using[c]] = IF @ = "running" THEN "dead" ELSE @]
  /\ pc' = [pc EXCEPT ![c] = "stopping"]
  /\ UNCHANGED <<seq, asked, path, using, outcome, named, idle, kernelVars, readerVars, held, files, deaths>>

(* and what its reader has still to say is waited for, for 500 ms at most. *)
Stop(c) ==
  /\ pc[c] = "stopping"
  /\ Dropped({using[c]})
  /\ Fails(c, "timed out", latest[using[c]])
  /\ UNCHANGED <<seq, idle, files, deaths>>

Kept(w) == held[w] = 0 /\ Len(idle) < MaxIdle

(* release, and the reply file is removed. *)
Release(c) ==
  /\ pc[c] = "returning"
  /\ IF Kept(using[c])
       THEN idle' = Append(idle, using[c]) /\ UNCHANGED workerVars
       ELSE Dropped({using[c]}) /\ UNCHANGED idle
  /\ files' = {f \in files : f.path # path[c]}
  /\ Ends(c)
  /\ UNCHANGED <<seq, outcome, named, deaths>>

-----------------------------------------------------------------------------
Init ==
  /\ seq = 0 /\ idle = <<>> /\ files = {} /\ deaths = 0
  /\ pc = [c \in Callers |-> "idle"]
  /\ asked = [c \in Callers |-> NoRequest]
  /\ path = [c \in Callers |-> 0]
  /\ using = [c \in Callers |-> NoWorker]
  /\ outcome = [c \in Callers |-> Calls!Nothing]
  /\ named = [c \in Callers |-> StartingUp]
  /\ proc = [w \in Workers |-> "none"]
  /\ stdin = [w \in Workers |-> <<>>] /\ work = [w \in Workers |-> NoWork] /\ load = [w \in Workers |-> 0]
  /\ stderr = [w \in Workers |-> <<>>] /\ events = [w \in Workers |-> <<>>]
  /\ latest = [w \in Workers |-> StartingUp] /\ held = [w \in Workers |-> 0]

CallerStep(c) ==
  \/ TakeWarm(c) \/ TakeNone(c) \/ Spawn(c) \/ SpawnFails(c)
  \/ Send(c) \/ ReuseBreaks(c) \/ SendBreaks(c)
  \/ HearHeld(c) \/ HearReply(c) \/ HearEnd(c) \/ Timeout(c) \/ Stop(c) \/ Release(c)

KernelStep(w) == ReadFrame(w) \/ Breadcrumb(w) \/ WriteReply(w) \/ Announce(w) \/ Die(w)

ReaderStep(w) == ReadLine(w) \/ ReadEnd(w)

Next ==
  \/ \E c \in Callers : CallerStep(c) \/ \E q \in Requests : Call(c, q)
  \/ \E w \in Workers : KernelStep(w) \/ ReaderStep(w)

Spec == Init /\ [][Next]_vars

(* Threads are scheduled and waits end at their deadline; the kernel may   *)
(* never answer.                                                           *)
FairSpec ==
  Spec /\ (\A c \in Callers : WF_vars(CallerStep(c))) /\ \A w \in Workers : WF_vars(ReaderStep(w))

-----------------------------------------------------------------------------
CallersTyped ==
  /\ pc \in [Callers -> {"idle", "taking", "reusing", "starting", "sending", "waiting", "stopping", "returning"}]
  /\ asked \in [Callers -> Requests \cup {NoRequest}]
  /\ path \in [Callers -> Paths]
  /\ using \in [Callers -> Workers \cup {NoWorker}]
  /\ outcome \in [Callers -> [kind : Calls!Failures \cup {"answered", "none"}, of : Requests \cup {NoRequest}]]
  /\ named \in [Callers -> Stages]

ProcessesTyped ==
  /\ proc \in [Workers -> {"none", "running", "dead", "closed"}]
  /\ stdin \in [Workers -> Seq(Frames)]
  /\ work \in [Workers -> Works]
  /\ load \in [Workers -> {0, 1}] /\ held \in [Workers -> Nat]
  /\ stderr \in [Workers -> Seq(Lines)] /\ events \in [Workers -> Seq(Lines)]
  /\ latest \in [Workers -> Stages]

PoolTyped ==
  /\ seq \in 0 .. MaxCalls /\ deaths \in 0 .. MaxDeaths
  /\ idle \in Seq(Workers) /\ Len(idle) <= MaxIdle
  /\ files \in SUBSET Frames

TypeOK == CallersTyped /\ ProcessesTyped /\ PoolTyped

Idle == {idle[i] : i \in 1 .. Len(idle)}
Holds(c) == pc[c] \in {"reusing", "sending", "waiting", "stopping", "returning"}

(* Every process has one owner: a call, or the pool, never both, and none  *)
(* runs that nobody owns. Between calls no more than MAX_IDLE are left.    *)
OneOwner ==
  /\ \A c \in Callers : Holds(c) <=> using[c] # NoWorker
  /\ \A c, d \in Callers : (Holds(c) /\ using[c] = using[d]) => c = d
  /\ \A c \in Callers : using[c] \notin Idle
  /\ \A i, j \in 1 .. Len(idle) : idle[i] = idle[j] => i = j
  /\ \A w \in Workers : proc[w] # "none" <=> w \in Idle \/ \E c \in Callers : using[c] = w

(* No worker is kept warm that still holds more than the pool keeps, going *)
(* by the process itself and not by what it said last.                     *)
KeepsLight == \A w \in Idle : load[w] = 0

(* What a worker announces to a call is the reply to that call: a reply to *)
(* an earlier, abandoned request never reaches the next one.               *)
NoStrayReply ==
  \A c \in Callers : (pc[c] = "waiting" /\ events[using[c]] # <<>> /\ Event(c).kind = "reply") => Event(c).path = path[c]

(* The pool at any time: its types, one owner of every process, light      *)
(* workers kept warm, and no reply in front of a call that is not its own. *)
PoolIsSound == TypeOK /\ OneOwner /\ KeepsLight /\ NoStrayReply

(* How far the worker got with the request of this call, by its own count. *)
Reached(c) ==
  LET w == work[using[c]]
  IN  IF w.path = path[c] /\ w.step > 0 THEN [path |-> path[c], step |-> w.step] ELSE StartingUp

FailsNow(c, how) == pc[c] # "idle" /\ pc'[c] = "idle" /\ outcome'[c] = Calls!Failed(how)

(* A crash is reported with the last breadcrumb the worker printed.        *)
CrashNamesTheStep == [][\A c \in Callers : FailsNow(c, "crashed") => named'[c] = Reached(c)]_vars

(* A timeout is reported with a breadcrumb of that very request, and with  *)
(* the last one it printed where its reader says anything in time.         *)
TimeoutNamesAStep ==
  [][\A c \in Callers : FailsNow(c, "timed out") =>
       /\ named'[c].path \in {0, path[c]}
       /\ events[using[c]] # <<>> => named'[c] = Reached(c)]_vars

(* A person who reads a failure is told the step of the kernel it is about *)
(* and never one of another call.                                          *)
FailuresNameTheStep == CrashNamesTheStep /\ TimeoutNamesAStep

(* A call returns the answer to its own request or a failure, whatever     *)
(* process served it and whatever the other calls did to that process.     *)
Implements == Calls!Spec

(* ... and it returns, although the kernel may never answer.               *)
Returns == Calls!FairSpec
=============================================================================
