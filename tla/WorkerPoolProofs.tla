-------------------------- MODULE WorkerPoolProofs --------------------------
(* Any callers, processes, requests and bounds: the pool is sound, a failure names the step of its own
   request, and a call is what KernelCalls promises. *)
EXTENDS WorkerPool, TLAPS

-----------------------------------------------------------------------------
(* The invariant *)

Asking(c) == pc[c] # "idle"
Busy(c) == pc[c] \in {"waiting", "stopping"}
Before(c) == pc[c] \in {"taking", "reusing", "starting", "sending"}

(* A path is of one call, and a call that has not sent its frame is known to no worker. *)
PathsInv ==
  /\ \A c \in Callers : Asking(c) => path[c] \in 1 .. seq /\ asked[c] \in Requests
  /\ \A c, d \in Callers : Asking(c) /\ Asking(d) /\ path[c] = path[d] => c = d
  /\ \A w \in Workers : work[w].path <= seq
  /\ \A c \in Callers : Before(c) => \A w \in Workers : work[w].path # path[c]

(* A reply file at a call's path is the answer to that call. *)
FilesInv ==
  \A f \in files : /\ f.path <= seq
                   /\ \A c \in Callers : Asking(c) /\ f.path = path[c] => f.request = asked[c]

(* A process that serves no call has nothing to do and nothing to say but its end. *)
OnlyEnd(s, n) == \A i \in n .. Len(s) : s[i] = Eof
Quiet(w) ==
  /\ stdin[w] = <<>> /\ work[w].phase = "reading" /\ stderr[w] = <<>>
  /\ OnlyEnd(events[w], 1) /\ (events[w] # <<>> => proc[w] = "closed")
  /\ held[w] = load[w]
Attends(c, w) == Busy(c) /\ using[c] = w
QuietInv == \A w \in Workers : (\A c \in Callers : ~ Attends(c, w)) => Quiet(w)

(* A busy process has the frame of its call, and no other. *)
Serves(c, w) ==
  /\ Len(stdin[w]) <= 1
  /\ \A i \in 1 .. Len(stdin[w]) : stdin[w][i] = [path |-> path[c], request |-> asked[c]]
  /\ stdin[w] # <<>> => work[w].phase = "reading" /\ work[w].path # path[c] /\ stderr[w] = <<>>
  /\ work[w].phase # "reading" => work[w].path = path[c] /\ work[w].request = asked[c]

(* What it says: breadcrumbs, what it holds, the reply and its end, as far as they were read. *)
Weight(w) == Line("held", 0, load[w])
Reply(c) == Line("reply", path[c], 0)
OnlyStages(s, n) == \A i \in 1 .. n : s[i].kind = "stage"
Done(w) == stdin[w] = <<>> /\ work[w].phase = "reading"
NotYet(w) ==
  /\ OnlyStages(stderr[w], Len(stderr[w])) /\ OnlyEnd(events[w], 1)
  /\ events[w] # <<>> => proc[w] = "closed" /\ stderr[w] = <<>>
Said(c, w) ==
  LET n == Len(stderr[w]) IN
  /\ Done(w) /\ events[w] = <<>> /\ n >= 2
  /\ OnlyStages(stderr[w], n - 2) /\ stderr[w][n - 1] = Weight(w) /\ stderr[w][n] = Reply(c)
HalfRead(c, w) ==
  /\ Done(w) /\ Len(stderr[w]) = 1 /\ stderr[w][1] = Reply(c)
  /\ \/ Len(events[w]) = 1 /\ events[w][1] = Weight(w)
     \/ events[w] = <<>> /\ held[w] = load[w]
AllRead(c, w) ==
  /\ Done(w) /\ stderr[w] = <<>>
  /\ \/ Len(events[w]) >= 2 /\ events[w][1] = Weight(w) /\ events[w][2] = Reply(c) /\ OnlyEnd(events[w], 3)
     \/ Len(events[w]) >= 1 /\ events[w][1] = Reply(c) /\ OnlyEnd(events[w], 2) /\ held[w] = load[w]
  /\ (\E i \in 1 .. Len(events[w]) : events[w][i] = Eof) => proc[w] = "closed"
Speaks(c, w) == NotYet(w) \/ Said(c, w) \/ HalfRead(c, w) \/ AllRead(c, w)

(* The breadcrumbs are of its call, the last one is how far it got, and the slot has it once all are read. *)
StepOf(c, w) ==
  IF work[w].path = path[c] /\ work[w].step > 0 THEN [path |-> path[c], step |-> work[w].step] ELSE StartingUp
NoStage(w) == stderr[w] = <<>> \/ stderr[w][1].kind # "stage"
Traces(c, w) ==
  /\ latest[w].path \in {0, path[c]}
  /\ \A i \in 1 .. Len(stderr[w]) : stderr[w][i].kind = "stage" =>
       /\ stderr[w][i].path = path[c]
       /\ (i = Len(stderr[w]) \/ stderr[w][i + 1].kind # "stage") =>
            work[w].path = path[c] /\ work[w].step > 0 /\ stderr[w][i].at = work[w].step
  /\ NoStage(w) => latest[w] = StepOf(c, w)

Pair(c, w) == Serves(c, w) /\ Speaks(c, w) /\ Traces(c, w)
BusyInv == \A c \in Callers, w \in Workers : Attends(c, w) => Pair(c, w)

Inv == TypeOK /\ OneOwner /\ KeepsLight /\ PathsInv /\ FilesInv /\ QuietInv /\ BusyInv

-----------------------------------------------------------------------------
(* Functions, sequences and lines *)

(* A function changed at one point. *)
LEMMA Put ==
  ASSUME NEW D, NEW S, NEW f \in [D -> S], NEW d \in D, NEW v \in S
  PROVE  /\ [f EXCEPT ![d] = v] \in [D -> S]
         /\ [f EXCEPT ![d] = v][d] = v
         /\ \A e \in D \ {d} : [f EXCEPT ![d] = v][e] = f[e]
OBVIOUS

LEMMA TailIs ==
  ASSUME NEW S, NEW s \in Seq(S), s # <<>>
  PROVE  /\ Len(s) \in Nat /\ Len(s) >= 1 /\ Head(s) = s[1] /\ Head(s) \in S
         /\ Tail(s) \in Seq(S) /\ Len(Tail(s)) = Len(s) - 1
         /\ \A i \in 1 .. Len(s) - 1 : Tail(s)[i] = s[i + 1]
OBVIOUS

LEMMA AppendIs ==
  ASSUME NEW S, NEW s \in Seq(S), NEW x \in S
  PROVE  /\ Len(s) \in Nat /\ Append(s, x) \in Seq(S) /\ Len(Append(s, x)) = Len(s) + 1
         /\ \A i \in 1 .. Len(s) : Append(s, x)[i] = s[i]
         /\ Append(s, x)[Len(s) + 1] = x
OBVIOUS

LEMMA ConcatIs ==
  ASSUME NEW S, NEW s \in Seq(S), NEW t \in Seq(S)
  PROVE  /\ Len(s) \in Nat /\ Len(t) \in Nat /\ s \o t \in Seq(S) /\ Len(s \o t) = Len(s) + Len(t)
         /\ \A i \in 1 .. Len(s) : (s \o t)[i] = s[i]
         /\ \A i \in 1 .. Len(t) : (s \o t)[Len(s) + i] = t[i]
<1>1. \A i \in 1 .. Len(s) : (s \o t)[i] = s[i]
  OBVIOUS
<1>2. ASSUME NEW i \in 1 .. Len(t) PROVE (s \o t)[Len(s) + i] = t[i]
  OBVIOUS
<1> QED BY <1>1, <1>2

LEMMA EmptyIs ==
  ASSUME NEW S, NEW s \in Seq(S)
  PROVE  /\ Len(s) \in Nat /\ (s = <<>> <=> Len(s) = 0)
         /\ \A i \in 1 .. Len(s) : s[i] \in S
OBVIOUS

LEMMA LinesSaid ==
  /\ Eof.kind = "eof" /\ Eof \in Lines
  /\ \A c : Reply(c).kind = "reply" /\ Reply(c).path = path[c]
  /\ \A w : Weight(w).kind = "held" /\ Weight(w).at = load[w]
BY DEF Eof, Reply, Weight, Line, Lines, Paths

-----------------------------------------------------------------------------
(* What a step leaves alone, and what it drops *)

SameCaller(c) == pc'[c] = pc[c] /\ asked'[c] = asked[c] /\ path'[c] = path[c] /\ using'[c] = using[c]
SameWorker(w) ==
  /\ proc'[w] = proc[w] /\ stdin'[w] = stdin[w] /\ work'[w] = work[w] /\ load'[w] = load[w]
  /\ stderr'[w] = stderr[w] /\ events'[w] = events[w] /\ latest'[w] = latest[w] /\ held'[w] = held[w]
Gone(w) ==
  /\ proc'[w] = "none" /\ stdin'[w] = <<>> /\ work'[w] = NoWork /\ load'[w] = 0
  /\ stderr'[w] = <<>> /\ events'[w] = <<>> /\ latest'[w] = StartingUp /\ held'[w] = 0
OtherCallers(c) == \A d \in Callers \ {c} : SameCaller(d)
OtherWorkers(w) == \A v \in Workers \ {w} : SameWorker(v)
Drops(S) == \A w \in Workers : IF w \in S THEN Gone(w) ELSE SameWorker(w)

LEMMA DroppedDoes ==
  ASSUME ProcessesTyped, NEW S, Dropped(S)
  PROVE  ProcessesTyped' /\ Drops(S)
<1>1. NoWork \in Works /\ StartingUp \in Stages
  BY DEF NoWork, Works, StartingUp, Stages, Paths
<1>2. ProcessesTyped'
  BY <1>1 DEF ProcessesTyped, Dropped, Cleared
<1>3. Drops(S)
  BY DEF Dropped, Cleared, Drops, Gone, SameWorker
<1> QED BY <1>2, <1>3

LEMMA PairFrame ==
  ASSUME NEW c \in Callers, NEW w \in Workers, SameCaller(c), SameWorker(w), Pair(c, w)
  PROVE  Pair(c, w)'
<1>1. Serves(c, w)'
  BY DEF Pair, Serves, SameCaller, SameWorker
<1>2. Weight(w)' = Weight(w) /\ Reply(c)' = Reply(c) /\ (Done(w) <=> Done(w)')
  BY DEF Weight, Reply, Done, SameCaller, SameWorker
<1>3. Speaks(c, w)'
  BY <1>2 DEF Pair, Speaks, NotYet, Said, HalfRead, AllRead, SameWorker, OnlyStages, OnlyEnd
<1>4. Traces(c, w)'
  BY DEF Pair, Traces, NoStage, StepOf, SameCaller, SameWorker
<1> QED BY <1>1, <1>3, <1>4 DEF Pair

LEMMA QuietFrame ==
  ASSUME NEW w \in Workers, SameWorker(w), Quiet(w)
  PROVE  Quiet(w)'
BY DEF Quiet, SameWorker, OnlyEnd

LEMMA GoneIsQuiet ==
  ASSUME NEW w \in Workers, Gone(w)
  PROVE  Quiet(w)'
<1>1. Len(events'[w]) = 0
  BY DEF Gone
<1> QED BY <1>1 DEF Quiet, Gone, OnlyEnd, NoWork

-----------------------------------------------------------------------------
(* Who attends to a process *)

LEMMA OnePerWorker ==
  ASSUME Inv, NEW c \in Callers, NEW d \in Callers, NEW w \in Workers, Attends(c, w), using[d] = w
  PROVE  c = d /\ w # NoWorker /\ w \notin Idle /\ proc[w] # "none" /\ Pair(c, w) /\ Asking(c)
<1>1. w # NoWorker
  BY PoolAssumption
<1>2. Holds(c) /\ Holds(d) /\ Asking(c)
  BY <1>1 DEF Inv, OneOwner, Attends, Holds, Asking, Busy
<1> QED BY <1>1, <1>2 DEF Inv, OneOwner, Attends, BusyInv

(* A process with anything to do or to say is attended to. *)
LEMMA Attended ==
  ASSUME Inv, NEW w \in Workers, ~ Quiet(w)
  PROVE  \E c \in Callers : Attends(c, w) /\ Pair(c, w) /\ Asking(c)
BY OnePerWorker DEF Inv, QuietInv, BusyInv, Attends

(* The pool is not quiet about what it is not asked. *)
LEMMA IdleIsQuiet ==
  ASSUME Inv, NEW w \in Idle
  PROVE  w \in Workers /\ Quiet(w)
<1>1. w \in Workers
  BY DEF Inv, TypeOK, PoolTyped, Idle
<1> QED BY <1>1, Attended, OnePerWorker DEF Attends

(* A step of one process, or of what it is heard to say, keeps the invariant where it keeps what its call and its owner
   know of it. *)
LEMMA WorkerStep ==
  ASSUME Inv, NEW w \in Workers, TypeOK', \A c \in Callers : SameCaller(c), OtherWorkers(w),
         idle' = idle, seq' = seq, FilesInv',
         proc'[w] = "none" <=> proc[w] = "none",
         load'[w] = load[w] \/ ~ Quiet(w),
         work'[w].path = work[w].path \/ \E c \in Callers : Attends(c, w) /\ work'[w].path = path[c],
         \A c \in Callers : Attends(c, w) => Pair(c, w)',
         Quiet(w) => Quiet(w)'
  PROVE  Inv'
<1> USE DEF Inv
<1>0. Idle' = Idle
  BY DEF Idle
<1>1. OneOwner'
  <2>1. \A v \in Workers : proc'[v] # "none" <=> proc[v] # "none"
    BY DEF OtherWorkers, SameWorker
  <2> QED BY <1>0, <2>1 DEF OneOwner, Holds, SameCaller
<1>2. KeepsLight'
  <2>1. ASSUME NEW v \in Idle PROVE load'[v] = 0
    <3>1. v \in Workers /\ Quiet(v) /\ load[v] = 0
      BY IdleIsQuiet DEF KeepsLight
    <3> QED BY <3>1 DEF OtherWorkers, SameWorker
  <2> QED BY <1>0, <2>1 DEF KeepsLight
<1>3. PathsInv'
  <2>1. ASSUME NEW v \in Workers PROVE work'[v].path <= seq
    <3>1. work[v].path <= seq
      BY DEF PathsInv
    <3>2. \A c \in Callers : Attends(c, w) => path[c] <= seq
      <4>1. seq \in Nat
        BY DEF TypeOK, PoolTyped
      <4>2. ASSUME NEW c \in Callers, Attends(c, w) PROVE path[c] \in 1 .. seq
        BY <4>2 DEF PathsInv, Attends, Busy, Asking
      <4> QED BY <4>1, <4>2
    <3>3. work'[v] = work[v] \/ v = w
      BY DEF OtherWorkers, SameWorker
    <3> QED BY <3>1, <3>2, <3>3
  <2>2. ASSUME NEW c \in Callers, Before(c), NEW v \in Workers PROVE work'[v].path # path[c]
    <3>1. CASE work'[v] = work[v] \/ work'[v].path = work[v].path
      BY <2>2, <3>1 DEF PathsInv
    <3>2. CASE v = w /\ \E d \in Callers : Attends(d, w) /\ work'[w].path = path[d]
      <4>1. PICK d \in Callers : Attends(d, w) /\ work'[w].path = path[d]
        BY <3>2
      <4>2. c # d /\ Asking(c) /\ Asking(d)
        BY <2>2, <4>1 DEF Attends, Busy, Before, Asking
      <4> QED BY <3>2, <4>1, <4>2 DEF PathsInv
    <3> QED BY <3>1, <3>2 DEF OtherWorkers, SameWorker
  <2>3. /\ \A c \in Callers : Asking(c)' => path'[c] \in 1 .. seq' /\ asked'[c] \in Requests
        /\ \A c, d \in Callers : Asking(c)' /\ Asking(d)' /\ path'[c] = path'[d] => c = d
    BY DEF PathsInv, SameCaller, Asking
  <2>4. \A c \in Callers : Before(c)' => Before(c) /\ path'[c] = path[c]
    BY DEF Before, SameCaller
  <2> QED BY <2>1, <2>2, <2>3, <2>4 DEF PathsInv
<1>4. \A c \in Callers, v \in Workers : Attends(c, v)' <=> Attends(c, v)
  BY DEF Attends, Busy, SameCaller
<1>5. QuietInv'
  <2> SUFFICES ASSUME NEW v \in Workers, \A c \in Callers : ~ Attends(c, v)' PROVE Quiet(v)'
    BY DEF QuietInv
  <2>1. Quiet(v)
    BY <1>4 DEF QuietInv
  <2> QED BY <2>1, QuietFrame DEF OtherWorkers
<1>6. BusyInv'
  <2> SUFFICES ASSUME NEW c \in Callers, NEW v \in Workers, Attends(c, v)' PROVE Pair(c, v)'
    BY DEF BusyInv
  <2>1. Attends(c, v) /\ Pair(c, v)
    BY <1>4 DEF BusyInv
  <2>2. CASE v = w
    BY <2>1, <2>2
  <2>3. CASE v # w
    BY <2>1, <2>3, PairFrame DEF OtherWorkers
  <2> QED BY <2>2, <2>3
<1> QED BY <1>1, <1>2, <1>3, <1>5, <1>6

(* A step of a call that hands its frame to nobody and drops processes that serve nobody else. *)
LEMMA DropStep ==
  ASSUME Inv, NEW c \in Callers, NEW S, TypeOK', OneOwner', OtherCallers(c), Drops(S),
         seq' = seq, Idle' \subseteq Idle, files' \subseteq files,
         ~ Busy(c)', \A w \in Workers : Busy(c) /\ using[c] = w => w \in S,
         \A d \in Callers \ {c} : using[d] \notin S,
         Asking(c)' => Before(c) /\ Before(c)' /\ path'[c] = path[c] /\ asked'[c] = asked[c]
  PROVE  Inv'
<1> USE DEF Inv
<1>1. \A d \in Callers : Asking(d)' => Asking(d) /\ path'[d] = path[d] /\ asked'[d] = asked[d]
  BY DEF OtherCallers, SameCaller, Asking, Before
<1>2. KeepsLight'
  <2>1. \A w \in Idle : w \in Workers /\ load[w] = 0
    BY IdleIsQuiet DEF KeepsLight
  <2> QED BY <2>1 DEF KeepsLight, Drops, Gone, SameWorker
<1>3. PathsInv'
  <2>1. ASSUME NEW w \in Workers PROVE work'[w].path = 0 \/ work'[w].path = work[w].path
    BY DEF Drops, Gone, SameWorker, NoWork
  <2>2. \A d \in Callers : Before(d)' => Before(d) /\ Asking(d) /\ path'[d] = path[d]
    BY DEF OtherCallers, SameCaller, Asking, Before
  <2>3. seq \in Nat /\ \A d \in Callers : Asking(d) => path[d] # 0
    BY DEF TypeOK, PoolTyped, PathsInv
  <2>4. \A w \in Workers : work'[w].path <= seq
    BY <2>1, <2>3 DEF PathsInv
  <2>5. \A d \in Callers : Before(d)' => \A w \in Workers : work'[w].path # path'[d]
    BY <2>1, <2>2, <2>3 DEF PathsInv
  <2>6. /\ \A d \in Callers : Asking(d)' => path'[d] \in 1 .. seq /\ asked'[d] \in Requests
        /\ \A d, e \in Callers : Asking(d)' /\ Asking(e)' /\ path'[d] = path'[e] => d = e
    BY <1>1 DEF PathsInv
  <2> QED BY <2>4, <2>5, <2>6 DEF PathsInv
<1>4. FilesInv'
  BY <1>1 DEF FilesInv
<1>5. \A d \in Callers, w \in Workers : Attends(d, w)' => d # c /\ w \notin S /\ Attends(d, w)
  BY DEF Attends, Busy, OtherCallers, SameCaller
<1>6. QuietInv'
  <2> SUFFICES ASSUME NEW w \in Workers, \A d \in Callers : ~ Attends(d, w)' PROVE Quiet(w)'
    BY DEF QuietInv
  <2>1. CASE w \in S
    BY <2>1, GoneIsQuiet DEF Drops
  <2>2. CASE w \notin S
    <3>1. \A d \in Callers : ~ Attends(d, w)
      BY <2>2 DEF Attends, Busy, OtherCallers, SameCaller
    <3>2. Quiet(w)
      BY <3>1 DEF QuietInv
    <3> QED BY <2>2, <3>2, QuietFrame DEF Drops
  <2> QED BY <2>1, <2>2
<1>7. BusyInv'
  <2> SUFFICES ASSUME NEW d \in Callers, NEW w \in Workers, Attends(d, w)' PROVE Pair(d, w)'
    BY DEF BusyInv
  <2>1. Attends(d, w) /\ Pair(d, w) /\ SameCaller(d) /\ SameWorker(w)
    BY <1>5 DEF BusyInv, OtherCallers, Drops
  <2> QED BY <2>1, PairFrame
<1> QED BY <1>2, <1>3, <1>4, <1>6, <1>7

-----------------------------------------------------------------------------
(* The steps of a process *)

LEMMA ReadFrameKeeps ==
  ASSUME Inv, NEW w \in Workers, ReadFrame(w)
  PROVE  Inv'
<1> USE DEF Inv
<1> DEFINE f == stdin[w][1]
           v == [path |-> Head(stdin[w]).path, request |-> Head(stdin[w]).request, step |-> 0, phase |-> "working"]
<1>1. /\ Alive(w) /\ stdin[w] # <<>> /\ work' = [work EXCEPT ![w] = v] /\ stdin' = [stdin EXCEPT ![w] = Tail(stdin[w])]
      /\ UNCHANGED <<seq, callerVars, idle, proc, load, readerVars, held, files, deaths>>
  BY DEF ReadFrame
<1>2. stdin[w] \in Seq(Frames) /\ Head(stdin[w]) = f /\ f \in Frames
  <2>1. stdin[w] \in Seq(Frames)
    BY DEF TypeOK, ProcessesTyped
  <2> QED BY <1>1, <2>1, TailIs
<1>3. v \in Works /\ v.path = f.path /\ v.request = f.request /\ v.step = 0 /\ v.phase = "working"
  BY <1>2 DEF Works, Frames
<1> HIDE DEF v
<1>4. /\ \A u \in Workers : proc'[u] = proc[u] /\ load'[u] = load[u] /\ stderr'[u] = stderr[u] /\ events'[u] = events[u]
                            /\ latest'[u] = latest[u] /\ held'[u] = held[u]
      /\ work'[w] = v /\ stdin'[w] = Tail(stdin[w])
      /\ \A u \in Workers \ {w} : work'[u] = work[u] /\ stdin'[u] = stdin[u]
      /\ work' \in [Workers -> Works] /\ stdin' \in [Workers -> Seq(Frames)]
  <2>1. Tail(stdin[w]) \in Seq(Frames)
    BY <1>1, <1>2, TailIs
  <2>2. work \in [Workers -> Works] /\ stdin \in [Workers -> Seq(Frames)]
    BY DEF TypeOK, ProcessesTyped
  <2>3. work'[w] = v /\ (\A u \in Workers \ {w} : work'[u] = work[u]) /\ work' \in [Workers -> Works]
    BY <1>1, <1>3, <2>2, Put
  <2>4. /\ stdin'[w] = Tail(stdin[w]) /\ \A u \in Workers \ {w} : stdin'[u] = stdin[u]
        /\ stdin' \in [Workers -> Seq(Frames)]
    BY <1>1, <2>1, <2>2, Put
  <2> QED BY <1>1, <2>3, <2>4 DEF readerVars
<1>5. TypeOK'
  BY <1>1, <1>4 DEF TypeOK, CallersTyped, ProcessesTyped, PoolTyped, callerVars, readerVars
<1>6. (\A c \in Callers : SameCaller(c)) /\ OtherWorkers(w) /\ FilesInv'
  <2>1. \A c \in Callers : SameCaller(c)
    BY <1>1 DEF callerVars, SameCaller
  <2>2. OtherWorkers(w)
    BY <1>4 DEF OtherWorkers, SameWorker
  <2> QED BY <1>1, <2>1, <2>2 DEF FilesInv, callerVars, Asking
<1>7. PICK c \in Callers : Attends(c, w) /\ Pair(c, w)
  BY <1>1, Attended DEF Quiet
<1>8. /\ f.path = path[c] /\ f.request = asked[c] /\ Len(stdin[w]) = 1 /\ stdin'[w] = <<>>
      /\ work[w].phase = "reading" /\ work[w].path # path[c] /\ stderr[w] = <<>>
  <2>1. Len(stdin[w]) \in Nat /\ Len(stdin[w]) >= 1 /\ Len(stdin[w]) <= 1
    BY <1>1, <1>2, <1>7, TailIs DEF Pair, Serves
  <2>2. f = [path |-> path[c], request |-> asked[c]] /\ Len(stdin[w]) = 1
    <3>1. 1 \in 1 .. Len(stdin[w])
      BY <2>1
    <3>2. \A i \in 1 .. Len(stdin[w]) : stdin[w][i] = [path |-> path[c], request |-> asked[c]]
      BY <1>7 DEF Pair, Serves
    <3>3. stdin[w][1] = [path |-> path[c], request |-> asked[c]]
      BY <3>1, <3>2
    <3>4. \A m \in Nat : m >= 1 /\ m <= 1 => m = 1
      OBVIOUS
    <3>5. Len(stdin[w]) = 1
      BY <2>1, <3>4, Zenon
    <3> QED BY <3>3, <3>5
  <2>3. stdin'[w] = <<>>
    <3>1. Tail(stdin[w]) \in Seq(Frames) /\ Len(Tail(stdin[w])) = 0
      BY <1>1, <1>2, <2>2, TailIs
    <3> QED BY <1>4, <3>1, EmptyIs
  <2> QED BY <1>1, <1>7, <2>2, <2>3 DEF Pair, Serves
<1>9. path'[c] = path[c] /\ asked'[c] = asked[c]
  BY <1>6 DEF SameCaller
<1>10. Pair(c, w)'
  <2>1. Serves(c, w)'
    <3>1. Len(stdin'[w]) = 0 /\ stdin'[w] = <<>>
      BY <1>8
    <3>2. work'[w].path = path'[c] /\ work'[w].request = asked'[c]
      BY <1>3, <1>4, <1>8, <1>9
    <3>3. \A i \in 1 .. Len(stdin'[w]) : FALSE
      BY <3>1
    <3> QED BY <3>1, <3>2, <3>3 DEF Serves
  <2>2. Speaks(c, w)'
    <3>1. NotYet(w)
      BY <1>1, <1>7 DEF Pair, Speaks, Said, HalfRead, AllRead, Done
    <3>2. NotYet(w)'
      BY <1>4, <3>1 DEF NotYet, OnlyStages, OnlyEnd
    <3> QED BY <3>2 DEF Speaks
  <2>3. Traces(c, w)'
    <3>1. latest[w] = StartingUp /\ latest[w].path \in {0, path[c]}
      BY <1>7, <1>8 DEF Pair, Traces, NoStage, StepOf
    <3>2. StepOf(c, w)' = StartingUp
      BY <1>3, <1>4 DEF StepOf
    <3>3. stderr'[w] = <<>> /\ Len(stderr'[w]) = 0
      BY <1>4, <1>8
    <3> QED BY <1>4, <1>9, <3>1, <3>2, <3>3 DEF Traces
  <2> QED BY <2>1, <2>2, <2>3 DEF Pair
<1>11. \A d \in Callers : Attends(d, w) => Pair(d, w)'
  BY <1>7, <1>10, OnePerWorker DEF Attends
<1>12. ~ Quiet(w)
  BY <1>1 DEF Quiet
<1>13. work'[w].path = path[c]
  BY <1>3, <1>4, <1>8
<1>14. seq' = seq /\ idle' = idle /\ proc'[w] = proc[w] /\ load'[w] = load[w]
  BY <1>1, <1>4
<1> QED BY <1>5, <1>6, <1>7, <1>11, <1>12, <1>13, <1>14, WorkerStep

LEMMA BreadcrumbKeeps ==
  ASSUME Inv, NEW w \in Workers, Breadcrumb(w)
  PROVE  Inv'
<1> USE DEF Inv
<1> DEFINE k == work[w].step + 1
           v == [work[w] EXCEPT !.step = k]
           l == Line("stage", work[w].path, k)
           n == Len(stderr[w])
<1>1. /\ Alive(w) /\ work[w].phase = "working" /\ work' = [work EXCEPT ![w] = v]
      /\ stderr' = [stderr EXCEPT ![w] = stderr[w] \o <<l>>]
      /\ UNCHANGED <<seq, callerVars, idle, proc, stdin, load, events, latest, held, files, deaths>>
  BY DEF Breadcrumb, Says
<1>2. work \in [Workers -> Works] /\ stderr \in [Workers -> Seq(Lines)] /\ stderr[w] \in Seq(Lines) /\ work[w] \in Works
  BY DEF TypeOK, ProcessesTyped
<1>3. k \in Nat /\ k > 0
  BY <1>2 DEF Works
<1> HIDE DEF k
<1>4. /\ v \in Works /\ v.path = work[w].path /\ v.request = work[w].request /\ v.step = k /\ v.phase = work[w].phase
  BY <1>2, <1>3 DEF Works
<1>5. l \in Lines /\ l.kind = "stage" /\ l.path = work[w].path /\ l.at = k
  BY <1>2, <1>3 DEF Works, Line, Lines
<1> HIDE DEF v, l
<1>6. /\ n \in Nat /\ stderr[w] \o <<l>> \in Seq(Lines) /\ Len(stderr[w] \o <<l>>) = n + 1
      /\ \A i \in 1 .. n : (stderr[w] \o <<l>>)[i] = stderr[w][i]
      /\ (stderr[w] \o <<l>>)[n + 1] = l
  <2>1. <<l>> \in Seq(Lines) /\ Len(<<l>>) = 1 /\ <<l>>[1] = l
    BY <1>5
  <2> QED BY <1>2, <2>1, ConcatIs
<1>7. /\ \A u \in Workers : proc'[u] = proc[u] /\ load'[u] = load[u] /\ stdin'[u] = stdin[u] /\ events'[u] = events[u]
                            /\ latest'[u] = latest[u] /\ held'[u] = held[u]
      /\ work'[w] = v /\ stderr'[w] = stderr[w] \o <<l>>
      /\ \A u \in Workers \ {w} : work'[u] = work[u] /\ stderr'[u] = stderr[u]
      /\ work' \in [Workers -> Works] /\ stderr' \in [Workers -> Seq(Lines)]
  <2>1. work'[w] = v /\ (\A u \in Workers \ {w} : work'[u] = work[u]) /\ work' \in [Workers -> Works]
    BY <1>1, <1>2, <1>4, Put
  <2>2. /\ stderr'[w] = stderr[w] \o <<l>> /\ \A u \in Workers \ {w} : stderr'[u] = stderr[u]
        /\ stderr' \in [Workers -> Seq(Lines)]
    BY <1>1, <1>2, <1>6, Put
  <2> QED BY <1>1, <2>1, <2>2
<1>8. TypeOK'
  BY <1>1, <1>7 DEF TypeOK, CallersTyped, ProcessesTyped, PoolTyped, callerVars
<1>9. (\A c \in Callers : SameCaller(c)) /\ OtherWorkers(w) /\ FilesInv'
  <2>1. \A c \in Callers : SameCaller(c)
    BY <1>1 DEF callerVars, SameCaller
  <2>2. OtherWorkers(w)
    BY <1>7 DEF OtherWorkers, SameWorker
  <2> QED BY <1>1, <2>1, <2>2 DEF FilesInv, callerVars, Asking
<1>10. ~ Quiet(w)
  BY <1>1 DEF Quiet
<1>11. PICK c \in Callers : Attends(c, w) /\ Pair(c, w)
  BY <1>10, Attended
<1>12. path'[c] = path[c] /\ asked'[c] = asked[c] /\ work[w].path = path[c]
  BY <1>1, <1>9, <1>11 DEF SameCaller, Pair, Serves
<1>13. /\ NotYet(w) /\ events[w] = <<>>
  <2>1. NotYet(w)
    BY <1>1, <1>11 DEF Pair, Speaks, Said, HalfRead, AllRead, Done
  <2> QED BY <1>1, <2>1 DEF NotYet, Alive
<1>14. Pair(c, w)'
  <2>1. Serves(c, w)'
    BY <1>1, <1>4, <1>7, <1>11, <1>12 DEF Pair, Serves
  <2>2. \A i \in 1 .. n + 1 : stderr'[w][i].kind = "stage"
    <3>1. \A i \in 1 .. n : stderr[w][i].kind = "stage"
      BY <1>13 DEF NotYet, OnlyStages
    <3>2. \A i \in 1 .. n + 1 : i \in 1 .. n \/ i = n + 1
      BY <1>6
    <3> HIDE DEF n
    <3> QED BY <1>5, <1>6, <1>7, <3>1, <3>2
  <2>3. Len(stderr'[w]) = n + 1
    BY <1>6, <1>7
  <2>4. Speaks(c, w)'
    <3>1. events'[w] = <<>> /\ OnlyEnd(events'[w], 1)
      BY <1>7, <1>13 DEF NotYet
    <3> QED BY <2>2, <2>3, <3>1 DEF Speaks, NotYet, OnlyStages, OnlyEnd
  <2>5. Traces(c, w)'
    <3>1. latest'[w].path \in {0, path[c]}
      BY <1>7, <1>11 DEF Pair, Traces
    <3>2. \A i \in 1 .. n : stderr[w][i].path = path[c]
      BY <1>11, <1>13 DEF Pair, Traces, NotYet, OnlyStages
    <3>3. \A i \in 1 .. n + 1 : stderr'[w][i].path = path[c]
      BY <1>5, <1>6, <1>7, <1>12, <3>2
    <3>4. stderr'[w][n + 1].at = work'[w].step /\ work'[w].path = path[c] /\ work'[w].step > 0
      BY <1>3, <1>4, <1>5, <1>6, <1>7, <1>12
    <3>5. ~ NoStage(w)'
      <4>1. stderr'[w] # <<>>
        BY <1>6, <2>3
      <4> QED BY <1>6, <2>2, <4>1 DEF NoStage
    <3>6. \A i \in 1 .. n + 1 : i = n + 1 \/ i + 1 \in 1 .. n + 1
      BY <1>6
    <3> QED BY <1>12, <2>2, <2>3, <3>1, <3>3, <3>4, <3>5, <3>6 DEF Traces
  <2> QED BY <2>1, <2>4, <2>5 DEF Pair
<1>15. \A d \in Callers : Attends(d, w) => Pair(d, w)'
  BY <1>11, <1>14, OnePerWorker DEF Attends
<1>16. seq' = seq /\ idle' = idle /\ proc'[w] = proc[w] /\ load'[w] = load[w] /\ work'[w].path = work[w].path
  BY <1>1, <1>4, <1>7
<1> QED BY <1>8, <1>9, <1>10, <1>15, <1>16, WorkerStep

LEMMA WriteReplyKeeps ==
  ASSUME Inv, NEW w \in Workers, WriteReply(w)
  PROVE  Inv'
<1> USE DEF Inv
<1>1. PICK heavy \in {0, 1} :
      /\ Alive(w) /\ work[w].phase = "working" /\ work' = [work EXCEPT ![w] = [@ EXCEPT !.phase = "written"]]
      /\ files' = {f \in files : f.path # work[w].path} \cup {[path |-> work[w].path, request |-> work[w].request]}
      /\ load' = [load EXCEPT ![w] = heavy]
      /\ UNCHANGED <<seq, callerVars, idle, proc, stdin, readerVars, held, deaths>>
  BY DEF WriteReply
<1> DEFINE v == [work[w] EXCEPT !.phase = "written"]
           f == [path |-> work[w].path, request |-> work[w].request]
<1>2. work' = [work EXCEPT ![w] = v] /\ files' = {g \in files : g.path # work[w].path} \cup {f}
  BY <1>1
<1>3. work \in [Workers -> Works] /\ load \in [Workers -> {0, 1}] /\ work[w] \in Works
  BY DEF TypeOK, ProcessesTyped
<1>4. v \in Works /\ v.path = work[w].path /\ v.request = work[w].request /\ v.step = work[w].step /\ v.phase = "written"
  BY <1>3 DEF Works
<1>5. f.path = work[w].path /\ f.request = work[w].request
  OBVIOUS
<1>6. ~ Quiet(w)
  BY <1>1 DEF Quiet
<1>7. PICK c \in Callers : Attends(c, w) /\ Pair(c, w) /\ Asking(c)
  BY <1>6, Attended
<1>8. work[w].path = path[c] /\ work[w].request = asked[c] /\ asked[c] \in Requests /\ path[c] \in 1 .. seq
  BY <1>1, <1>7 DEF Pair, Serves, PathsInv
<1>9. f \in Frames
  BY <1>3, <1>8 DEF Frames, Works
<1> HIDE DEF v, f
<1>10. /\ \A u \in Workers : proc'[u] = proc[u] /\ stdin'[u] = stdin[u] /\ stderr'[u] = stderr[u] /\ events'[u] = events[u]
                             /\ latest'[u] = latest[u] /\ held'[u] = held[u]
       /\ work'[w] = v
       /\ \A u \in Workers \ {w} : work'[u] = work[u] /\ load'[u] = load[u]
       /\ work' \in [Workers -> Works] /\ load' \in [Workers -> {0, 1}]
  <2>1. work'[w] = v /\ (\A u \in Workers \ {w} : work'[u] = work[u]) /\ work' \in [Workers -> Works]
    BY <1>2, <1>3, <1>4, Put
  <2>2. (\A u \in Workers \ {w} : load'[u] = load[u]) /\ load' \in [Workers -> {0, 1}]
    BY <1>1, <1>3
  <2> QED BY <1>1, <2>1, <2>2 DEF readerVars
<1>11. TypeOK'
  <2>1. files' \in SUBSET Frames
    BY <1>2, <1>9 DEF TypeOK, PoolTyped
  <2> QED BY <1>1, <1>10, <2>1 DEF TypeOK, CallersTyped, ProcessesTyped, PoolTyped, callerVars, readerVars
<1>12. \A d \in Callers : SameCaller(d)
  BY <1>1 DEF callerVars, SameCaller
<1>13. OtherWorkers(w)
  BY <1>10 DEF OtherWorkers, SameWorker
<1>14. FilesInv'
  <2> SUFFICES ASSUME NEW g \in files'
               PROVE g.path <= seq' /\ \A d \in Callers : Asking(d)' /\ g.path = path'[d] => g.request = asked'[d]
    BY DEF FilesInv
  <2>1. CASE g \in files
    BY <1>1, <1>12, <2>1 DEF FilesInv, SameCaller, Asking
  <2>2. CASE g = f
    <3>1. g.path = path[c] /\ g.request = asked[c]
      BY <1>5, <1>8, <2>2
    <3>2. path[c] <= seq
      BY <1>8 DEF TypeOK, PoolTyped
    <3>3. \A d \in Callers : Asking(d) /\ path[d] = path[c] => d = c
      BY <1>7 DEF PathsInv
    <3> QED BY <1>1, <1>12, <3>1, <3>2, <3>3 DEF SameCaller, Asking
  <2> QED BY <1>2, <2>1, <2>2
<1>15. path'[c] = path[c] /\ asked'[c] = asked[c]
  BY <1>12 DEF SameCaller
<1>16. NotYet(w) /\ stdin[w] = <<>>
  BY <1>1, <1>7 DEF Pair, Serves, Speaks, Said, HalfRead, AllRead, Done
<1>17. Pair(c, w)'
  <2>1. Serves(c, w)'
    BY <1>1, <1>4, <1>7, <1>8, <1>10, <1>15, <1>16 DEF Pair, Serves
  <2>2. Speaks(c, w)'
    BY <1>10, <1>16 DEF Speaks, NotYet, OnlyStages, OnlyEnd
  <2>3. Traces(c, w)'
    BY <1>4, <1>7, <1>10, <1>15 DEF Pair, Traces, NoStage, StepOf
  <2> QED BY <2>1, <2>2, <2>3 DEF Pair
<1>18. \A d \in Callers : Attends(d, w) => Pair(d, w)'
  BY <1>7, <1>17, OnePerWorker DEF Attends
<1>19. seq' = seq /\ idle' = idle /\ proc'[w] = proc[w] /\ work'[w].path = work[w].path
  BY <1>1, <1>4, <1>10
<1> QED BY <1>6, <1>11, <1>12, <1>13, <1>14, <1>18, <1>19, WorkerStep

LEMMA AnnounceKeeps ==
  ASSUME Inv, NEW w \in Workers, Announce(w)
  PROVE  Inv'
<1> USE DEF Inv
<1> DEFINE v == [work[w] EXCEPT !.phase = "reading"]
           a == Line("held", 0, load[w])
           b == Line("reply", work[w].path, 0)
           n == Len(stderr[w])
<1>1. /\ Alive(w) /\ work[w].phase = "written" /\ work' = [work EXCEPT ![w] = v]
      /\ stderr' = [stderr EXCEPT ![w] = stderr[w] \o <<a, b>>]
      /\ UNCHANGED <<seq, callerVars, idle, proc, stdin, load, events, latest, held, files, deaths>>
  BY DEF Announce, Announcement, Says
<1>2. /\ work \in [Workers -> Works] /\ stderr \in [Workers -> Seq(Lines)] /\ stderr[w] \in Seq(Lines) /\ work[w] \in Works
      /\ load[w] \in {0, 1}
  BY DEF TypeOK, ProcessesTyped
<1>3. v \in Works /\ v.path = work[w].path /\ v.request = work[w].request /\ v.step = work[w].step /\ v.phase = "reading"
  BY <1>2 DEF Works
<1>4. a \in Lines /\ a.kind = "held" /\ b \in Lines /\ b.kind = "reply"
  BY <1>2 DEF Works, Line, Lines, Paths
<1>5. ~ Quiet(w)
  BY <1>1 DEF Quiet
<1>6. PICK c \in Callers : Attends(c, w) /\ Pair(c, w)
  BY <1>5, Attended
<1>7. work[w].path = path[c] /\ work[w].request = asked[c] /\ a = Weight(w) /\ b = Reply(c)
  BY <1>1, <1>6 DEF Pair, Serves, Weight, Reply
<1> HIDE DEF v, a, b
<1>8. /\ n \in Nat /\ stderr[w] \o <<a, b>> \in Seq(Lines) /\ Len(stderr[w] \o <<a, b>>) = n + 2
      /\ \A i \in 1 .. n : (stderr[w] \o <<a, b>>)[i] = stderr[w][i]
      /\ (stderr[w] \o <<a, b>>)[n + 1] = a /\ (stderr[w] \o <<a, b>>)[n + 2] = b
  <2>1. <<a, b>> \in Seq(Lines) /\ Len(<<a, b>>) = 2 /\ <<a, b>>[1] = a /\ <<a, b>>[2] = b
    BY <1>4
  <2> QED BY <1>2, <2>1, ConcatIs
<1>9. /\ \A u \in Workers : proc'[u] = proc[u] /\ load'[u] = load[u] /\ stdin'[u] = stdin[u] /\ events'[u] = events[u]
                            /\ latest'[u] = latest[u] /\ held'[u] = held[u]
      /\ work'[w] = v /\ stderr'[w] = stderr[w] \o <<a, b>>
      /\ \A u \in Workers \ {w} : work'[u] = work[u] /\ stderr'[u] = stderr[u]
      /\ work' \in [Workers -> Works] /\ stderr' \in [Workers -> Seq(Lines)]
  <2>1. work'[w] = v /\ (\A u \in Workers \ {w} : work'[u] = work[u]) /\ work' \in [Workers -> Works]
    BY <1>1, <1>2, <1>3, Put
  <2>2. /\ stderr'[w] = stderr[w] \o <<a, b>> /\ \A u \in Workers \ {w} : stderr'[u] = stderr[u]
        /\ stderr' \in [Workers -> Seq(Lines)]
    BY <1>1, <1>2, <1>8, Put
  <2> QED BY <1>1, <2>1, <2>2
<1>10. TypeOK'
  BY <1>1, <1>9 DEF TypeOK, CallersTyped, ProcessesTyped, PoolTyped, callerVars
<1>11. (\A d \in Callers : SameCaller(d)) /\ OtherWorkers(w) /\ FilesInv'
  <2>1. \A d \in Callers : SameCaller(d)
    BY <1>1 DEF callerVars, SameCaller
  <2>2. OtherWorkers(w)
    BY <1>9 DEF OtherWorkers, SameWorker
  <2> QED BY <1>1, <2>1, <2>2 DEF FilesInv, callerVars, Asking
<1>12. path'[c] = path[c] /\ asked'[c] = asked[c] /\ Weight(w)' = a /\ Reply(c)' = b
  BY <1>7, <1>9, <1>11 DEF SameCaller, Weight, Reply
<1>13. NotYet(w) /\ events[w] = <<>> /\ stdin[w] = <<>>
  <2>1. NotYet(w) /\ stdin[w] = <<>>
    BY <1>1, <1>6 DEF Pair, Serves, Speaks, Said, HalfRead, AllRead, Done
  <2> QED BY <1>1, <2>1 DEF NotYet, Alive
<1>14. Len(stderr'[w]) = n + 2 /\ \A i \in 1 .. n : stderr[w][i].kind = "stage" /\ stderr'[w][i] = stderr[w][i]
  BY <1>8, <1>9, <1>13 DEF NotYet, OnlyStages
<1>15. stderr'[w][n + 1] = a /\ stderr'[w][n + 2] = b
  BY <1>8, <1>9
<1> HIDE DEF n
<1>16. n \in Nat
  BY <1>8
<1>17. Pair(c, w)'
  <2>1. Serves(c, w)'
    BY <1>3, <1>6, <1>9, <1>12, <1>13 DEF Pair, Serves
  <2>2. Said(c, w)'
    <3>1. Done(w)' /\ events'[w] = <<>>
      BY <1>3, <1>9, <1>13 DEF Done
    <3>2. (n + 2) - 2 = n /\ (n + 2) - 1 = n + 1 /\ n + 2 >= 2
      BY <1>16
    <3>3. OnlyStages(stderr'[w], n)
      BY <1>14 DEF OnlyStages
    <3> QED BY <1>12, <1>14, <1>15, <3>1, <3>2, <3>3 DEF Said
  <2>3. Traces(c, w)'
    <3>1. latest'[w].path \in {0, path'[c]}
      BY <1>6, <1>9, <1>12 DEF Pair, Traces
    <3>2. \A i \in 1 .. Len(stderr'[w]) : stderr'[w][i].kind = "stage" => i \in 1 .. n
      <4>1. \A i \in 1 .. n + 2 : i \in 1 .. n \/ i = n + 1 \/ i = n + 2
        BY <1>16
      <4> QED BY <1>4, <1>14, <1>15, <4>1
    <3>3. \A i \in 1 .. n : stderr[w][i].path = path[c]
      BY <1>6, <1>14 DEF Pair, Traces, n
    <3>4. n # 0 => work[w].path = path[c] /\ work[w].step > 0 /\ stderr[w][n].at = work[w].step
      <4> SUFFICES ASSUME n # 0 PROVE work[w].path = path[c] /\ work[w].step > 0 /\ stderr[w][n].at = work[w].step
        OBVIOUS
      <4>1. n \in 1 .. n
        BY <1>16
      <4>2. stderr[w][n].kind = "stage"
        BY <1>14, <4>1
      <4> QED BY <1>6, <4>1, <4>2 DEF Pair, Traces, n
    <3>5. ASSUME NEW i \in 1 .. n, i = n + 2 \/ stderr'[w][i + 1].kind # "stage"
          PROVE  i = n
      <4>1. i # n + 2 /\ (i # n => i + 1 \in 1 .. n)
        BY <1>16
      <4> QED BY <1>14, <3>5, <4>1
    <3>6. \A i \in 1 .. Len(stderr'[w]) : stderr'[w][i].kind = "stage" =>
            /\ stderr'[w][i].path = path'[c]
            /\ (i = Len(stderr'[w]) \/ stderr'[w][i + 1].kind # "stage") =>
                 work'[w].path = path'[c] /\ work'[w].step > 0 /\ stderr'[w][i].at = work'[w].step
      <4> SUFFICES ASSUME NEW i \in 1 .. Len(stderr'[w]), stderr'[w][i].kind = "stage"
                   PROVE  /\ stderr'[w][i].path = path'[c]
                          /\ (i = Len(stderr'[w]) \/ stderr'[w][i + 1].kind # "stage") =>
                               work'[w].path = path'[c] /\ work'[w].step > 0 /\ stderr'[w][i].at = work'[w].step
        OBVIOUS
      <4>1. i \in 1 .. n /\ stderr'[w][i] = stderr[w][i] /\ n # 0
        BY <1>14, <1>16, <3>2
      <4>2. (i = Len(stderr'[w]) \/ stderr'[w][i + 1].kind # "stage") => i = n
        BY <1>14, <3>5, <4>1
      <4>3. work'[w].path = work[w].path /\ work'[w].step = work[w].step
        BY <1>3, <1>9
      <4> QED BY <1>12, <3>3, <3>4, <4>1, <4>2, <4>3
    <3>7. NoStage(w)' => latest'[w] = StepOf(c, w)'
      <4> SUFFICES ASSUME NoStage(w)' PROVE latest'[w] = StepOf(c, w)'
        OBVIOUS
      <4>1. n = 0
        <5> SUFFICES ASSUME n # 0 PROVE FALSE
          OBVIOUS
        <5>1. 1 \in 1 .. n /\ n + 2 # 0
          BY <1>16
        <5>2. stderr'[w] # <<>> /\ stderr'[w][1].kind = "stage"
          BY <1>14, <5>1
        <5> QED BY <5>2 DEF NoStage
      <4>2. stderr[w] = <<>>
        BY <1>2, <4>1, EmptyIs DEF n
      <4>3. latest[w] = StepOf(c, w)
        BY <1>6, <4>2 DEF Pair, Traces, NoStage
      <4>4. StepOf(c, w)' = StepOf(c, w)
        BY <1>3, <1>9, <1>12 DEF StepOf
      <4> QED BY <1>9, <4>3, <4>4
    <3> QED BY <3>1, <3>6, <3>7 DEF Traces
  <2> QED BY <2>1, <2>2, <2>3 DEF Pair, Speaks
<1>18. \A d \in Callers : Attends(d, w) => Pair(d, w)'
  BY <1>6, <1>17, OnePerWorker DEF Attends
<1>19. seq' = seq /\ idle' = idle /\ proc'[w] = proc[w] /\ load'[w] = load[w] /\ work'[w].path = work[w].path
  BY <1>1, <1>3, <1>9
<1> QED BY <1>5, <1>10, <1>11, <1>18, <1>19, WorkerStep

LEMMA DieKeeps ==
  ASSUME Inv, NEW w \in Workers, Die(w)
  PROVE  Inv'
<1> USE DEF Inv
<1>1. /\ Alive(w) /\ deaths < MaxDeaths /\ deaths' = deaths + 1 /\ proc' = [proc EXCEPT ![w] = "dead"]
      /\ UNCHANGED <<seq, callerVars, idle, kernelVars, readerVars, held, files>>
  BY DEF Die
<1>2. /\ \A u \in Workers : load'[u] = load[u] /\ stdin'[u] = stdin[u] /\ work'[u] = work[u] /\ stderr'[u] = stderr[u]
                            /\ events'[u] = events[u] /\ latest'[u] = latest[u] /\ held'[u] = held[u]
      /\ proc'[w] = "dead" /\ \A u \in Workers \ {w} : proc'[u] = proc[u]
      /\ proc' \in [Workers -> {"none", "running", "dead", "closed"}]
  BY <1>1 DEF TypeOK, ProcessesTyped, kernelVars, readerVars
<1>3. TypeOK'
  <2>1. deaths' \in 0 .. MaxDeaths
    BY <1>1, PoolAssumption DEF TypeOK, PoolTyped
  <2> QED BY <1>1, <1>2, <2>1 DEF TypeOK, CallersTyped, ProcessesTyped, PoolTyped, callerVars, kernelVars, readerVars
<1>4. (\A c \in Callers : SameCaller(c)) /\ OtherWorkers(w) /\ FilesInv'
  <2>1. \A c \in Callers : SameCaller(c)
    BY <1>1 DEF callerVars, SameCaller
  <2>2. OtherWorkers(w)
    BY <1>2 DEF OtherWorkers, SameWorker
  <2> QED BY <1>1, <2>1, <2>2 DEF FilesInv, callerVars, Asking
<1>5. proc[w] = "running"
  BY <1>1 DEF Alive
<1>6. Quiet(w) => Quiet(w)'
  BY <1>2, <1>5 DEF Quiet, OnlyEnd
<1>7. ASSUME NEW c \in Callers, Attends(c, w) PROVE Pair(c, w)'
  <2>1. Pair(c, w) /\ SameCaller(c)
    BY <1>4, <1>7 DEF BusyInv
  <2>2. Serves(c, w)'
    BY <1>2, <2>1 DEF Pair, Serves, SameCaller
  <2>3. Traces(c, w)'
    BY <1>2, <2>1 DEF Pair, Traces, NoStage, StepOf, SameCaller
  <2>4. Weight(w)' = Weight(w) /\ Reply(c)' = Reply(c) /\ (Done(w) <=> Done(w)')
    BY <1>2, <2>1 DEF Weight, Reply, Done, SameCaller
  <2>5. NotYet(w) => NotYet(w)'
    BY <1>2, <1>5 DEF NotYet, OnlyStages, OnlyEnd
  <2>6. Said(c, w) => Said(c, w)'
    BY <1>2, <2>4 DEF Said, OnlyStages
  <2>7. HalfRead(c, w) => HalfRead(c, w)'
    BY <1>2, <2>4 DEF HalfRead
  <2>8. AllRead(c, w) => AllRead(c, w)'
    BY <1>2, <1>5, <2>4 DEF AllRead, OnlyEnd
  <2> QED BY <2>1, <2>2, <2>3, <2>5, <2>6, <2>7, <2>8 DEF Pair, Speaks
<1> QED BY <1>1, <1>2, <1>3, <1>4, <1>5, <1>6, <1>7, WorkerStep

(* The end of what a process says is told once all it said is. *)
LEMMA ReadEndKeeps ==
  ASSUME Inv, NEW w \in Workers, ReadEnd(w)
  PROVE  Inv'
<1> USE DEF Inv
<1> DEFINE n == Len(events[w])
<1>1. /\ proc[w] = "dead" /\ stderr[w] = <<>> /\ proc' = [proc EXCEPT ![w] = "closed"]
      /\ events' = [events EXCEPT ![w] = Append(events[w], Eof)]
      /\ UNCHANGED <<seq, callerVars, idle, kernelVars, stderr, latest, held, files, deaths>>
  BY DEF ReadEnd
<1>2. events \in [Workers -> Seq(Lines)] /\ events[w] \in Seq(Lines)
  BY DEF TypeOK, ProcessesTyped
<1>3. /\ n \in Nat /\ Append(events[w], Eof) \in Seq(Lines) /\ Len(Append(events[w], Eof)) = n + 1
      /\ \A i \in 1 .. n : Append(events[w], Eof)[i] = events[w][i]
      /\ Append(events[w], Eof)[n + 1] = Eof
  BY <1>2, LinesSaid, AppendIs
<1>4. /\ \A u \in Workers : load'[u] = load[u] /\ stdin'[u] = stdin[u] /\ work'[u] = work[u] /\ stderr'[u] = stderr[u]
                            /\ latest'[u] = latest[u] /\ held'[u] = held[u]
      /\ proc'[w] = "closed" /\ events'[w] = Append(events[w], Eof)
      /\ \A u \in Workers \ {w} : proc'[u] = proc[u] /\ events'[u] = events[u]
      /\ proc' \in [Workers -> {"none", "running", "dead", "closed"}] /\ events' \in [Workers -> Seq(Lines)]
  <2>1. /\ events'[w] = Append(events[w], Eof) /\ \A u \in Workers \ {w} : events'[u] = events[u]
        /\ events' \in [Workers -> Seq(Lines)]
    BY <1>1, <1>2, <1>3, Put
  <2>2. /\ proc'[w] = "closed" /\ \A u \in Workers \ {w} : proc'[u] = proc[u]
        /\ proc' \in [Workers -> {"none", "running", "dead", "closed"}]
    BY <1>1 DEF TypeOK, ProcessesTyped
  <2> QED BY <1>1, <2>1, <2>2 DEF kernelVars
<1>5. TypeOK'
  BY <1>1, <1>4 DEF TypeOK, CallersTyped, ProcessesTyped, PoolTyped, callerVars, kernelVars
<1>6. (\A c \in Callers : SameCaller(c)) /\ OtherWorkers(w) /\ FilesInv'
  <2>1. \A c \in Callers : SameCaller(c)
    BY <1>1 DEF callerVars, SameCaller
  <2>2. OtherWorkers(w)
    BY <1>4 DEF OtherWorkers, SameWorker
  <2> QED BY <1>1, <2>1, <2>2 DEF FilesInv, callerVars, Asking
<1>7. /\ Len(events'[w]) = n + 1 /\ \A i \in 1 .. n : events'[w][i] = events[w][i]
      /\ events'[w][n + 1] = Eof /\ (events[w] = <<>> <=> n = 0)
      /\ \A i \in 1 .. n + 1 : i \in 1 .. n \/ i = n + 1
  BY <1>2, <1>3, <1>4, EmptyIs
<1>8. \A k \in {1, 2, 3} : OnlyEnd(events[w], k) => OnlyEnd(events'[w], k)
  BY <1>3, <1>7 DEF OnlyEnd
<1> HIDE DEF n
<1>9. Quiet(w) => Quiet(w)'
  BY <1>4, <1>8 DEF Quiet
<1>10. ASSUME NEW c \in Callers, Attends(c, w) PROVE Pair(c, w)'
  <2>1. Pair(c, w) /\ SameCaller(c)
    BY <1>6, <1>10 DEF BusyInv
  <2>2. Serves(c, w)'
    BY <1>4, <2>1 DEF Pair, Serves, SameCaller
  <2>3. Traces(c, w)'
    <3>1. latest'[w] = latest[w] /\ work'[w] = work[w] /\ stderr'[w] = stderr[w]
      BY <1>4
    <3> QED BY <2>1, <3>1 DEF Pair, Traces, NoStage, StepOf, SameCaller
  <2>4. Weight(w)' = Weight(w) /\ Reply(c)' = Reply(c) /\ (Done(w) <=> Done(w)')
    BY <1>4, <2>1 DEF Weight, Reply, Done, SameCaller
  <2>5. NotYet(w) => NotYet(w)'
    <3>1. stderr'[w] = <<>> /\ Len(stderr'[w]) = 0
      BY <1>1, <1>4
    <3> QED BY <1>4, <1>8, <3>1 DEF NotYet, OnlyStages
  <2>6. ~ Said(c, w) /\ ~ HalfRead(c, w)
    <3>1. Len(stderr[w]) = 0
      BY <1>1
    <3> QED BY <3>1 DEF Said, HalfRead
  <2>7. AllRead(c, w) => AllRead(c, w)'
    <3> SUFFICES ASSUME AllRead(c, w) PROVE AllRead(c, w)'
      OBVIOUS
    <3>1. n \in Nat /\ n + 1 >= n /\ (n >= 1 => 1 \in 1 .. n) /\ (n >= 2 => 1 \in 1 .. n /\ 2 \in 1 .. n /\ n + 1 >= 2)
          /\ n + 1 >= 1
      BY <1>3
    <3>2. CASE n >= 2 /\ events[w][1] = Weight(w) /\ events[w][2] = Reply(c) /\ OnlyEnd(events[w], 3)
      BY <1>1, <1>4, <1>7, <1>8, <2>4, <3>1, <3>2 DEF AllRead
    <3>3. CASE n >= 1 /\ events[w][1] = Reply(c) /\ OnlyEnd(events[w], 2) /\ held[w] = load[w]
      BY <1>1, <1>4, <1>7, <1>8, <2>4, <3>1, <3>3 DEF AllRead
    <3> QED BY <3>2, <3>3 DEF AllRead, n
  <2> QED BY <2>1, <2>2, <2>3, <2>5, <2>6, <2>7 DEF Pair, Speaks
<1>11. /\ proc'[w] = "none" <=> proc[w] = "none"
       /\ seq' = seq /\ idle' = idle /\ load'[w] = load[w] /\ work'[w].path = work[w].path
  BY <1>1, <1>4
<1> QED BY <1>5, <1>6, <1>9, <1>10, <1>11, WorkerStep

(* A line is read: a breadcrumb goes to the slot, what the process holds and its reply to the channel. *)
LEMMA ReadLineKeeps ==
  ASSUME Inv, NEW w \in Workers, ReadLine(w)
  PROVE  Inv'
<1> USE DEF Inv
<1> DEFINE n == Len(stderr[w])
           m == Len(events[w])
           l == stderr[w][1]
           v == [path |-> l.path, step |-> l.at]
<1>1. /\ stderr \in [Workers -> Seq(Lines)] /\ stderr[w] \in Seq(Lines) /\ stderr[w] # <<>>
      /\ events \in [Workers -> Seq(Lines)] /\ events[w] \in Seq(Lines)
      /\ latest \in [Workers -> Stages]
  BY DEF TypeOK, ProcessesTyped, ReadLine
<1>2. /\ n \in Nat /\ n >= 1 /\ Head(stderr[w]) = l /\ l \in Lines
      /\ Tail(stderr[w]) \in Seq(Lines) /\ Len(Tail(stderr[w])) = n - 1
      /\ \A i \in 1 .. n - 1 : Tail(stderr[w])[i] = stderr[w][i + 1]
  BY <1>1, TailIs
<1>3. /\ m \in Nat /\ Append(events[w], l) \in Seq(Lines) /\ Len(Append(events[w], l)) = m + 1
      /\ \A i \in 1 .. m : Append(events[w], l)[i] = events[w][i]
      /\ Append(events[w], l)[m + 1] = l
  BY <1>1, <1>2, AppendIs
<1>4. v \in Stages /\ v.path = l.path /\ v.step = l.at
  BY <1>2 DEF Stages, Lines
<1>5. /\ stderr' = [stderr EXCEPT ![w] = Tail(stderr[w])]
      /\ IF l.kind = "stage" THEN latest' = [latest EXCEPT ![w] = v] /\ events' = events
         ELSE events' = [events EXCEPT ![w] = Append(events[w], l)] /\ latest' = latest
      /\ UNCHANGED <<seq, callerVars, idle, proc, kernelVars, held, files, deaths>>
  BY <1>2 DEF ReadLine
<1> HIDE DEF v, l
<1>6. /\ \A u \in Workers : proc'[u] = proc[u] /\ load'[u] = load[u] /\ stdin'[u] = stdin[u] /\ work'[u] = work[u]
                            /\ held'[u] = held[u]
      /\ stderr'[w] = Tail(stderr[w])
      /\ l.kind = "stage" => latest'[w] = v /\ events'[w] = events[w]
      /\ l.kind # "stage" => latest'[w] = latest[w] /\ events'[w] = Append(events[w], l)
      /\ \A u \in Workers \ {w} : stderr'[u] = stderr[u] /\ latest'[u] = latest[u] /\ events'[u] = events[u]
      /\ stderr' \in [Workers -> Seq(Lines)] /\ events' \in [Workers -> Seq(Lines)] /\ latest' \in [Workers -> Stages]
  <2>1. /\ stderr'[w] = Tail(stderr[w]) /\ \A u \in Workers \ {w} : stderr'[u] = stderr[u]
        /\ stderr' \in [Workers -> Seq(Lines)]
    BY <1>1, <1>2, <1>5, Put
  <2>2. CASE l.kind = "stage"
    <3>1. latest'[w] = v /\ (\A u \in Workers \ {w} : latest'[u] = latest[u]) /\ latest' \in [Workers -> Stages]
      <4>1. latest' = [latest EXCEPT ![w] = v]
        BY <1>5, <2>2
      <4> QED BY <1>1, <1>4, <4>1, Put
    <3> QED BY <1>1, <1>5, <2>1, <2>2, <3>1 DEF kernelVars
  <2>3. CASE l.kind # "stage"
    <3>1. /\ events'[w] = Append(events[w], l) /\ \A u \in Workers \ {w} : events'[u] = events[u]
          /\ events' \in [Workers -> Seq(Lines)]
      <4>1. events' = [events EXCEPT ![w] = Append(events[w], l)]
        BY <1>5, <2>3
      <4> QED BY <1>1, <1>3, <4>1, Put
    <3> QED BY <1>1, <1>5, <2>1, <2>3, <3>1 DEF kernelVars
  <2> QED BY <2>2, <2>3
<1>7. TypeOK'
  BY <1>5, <1>6 DEF TypeOK, CallersTyped, ProcessesTyped, PoolTyped, callerVars, kernelVars
<1>8. (\A d \in Callers : SameCaller(d)) /\ OtherWorkers(w) /\ FilesInv'
  <2>1. \A d \in Callers : SameCaller(d)
    BY <1>5 DEF callerVars, SameCaller
  <2>2. OtherWorkers(w)
    BY <1>6 DEF OtherWorkers, SameWorker
  <2> QED BY <1>5, <2>1, <2>2 DEF FilesInv, callerVars, Asking
<1>9. ~ Quiet(w)
  BY <1>1 DEF Quiet
<1>10. PICK c \in Callers : Attends(c, w) /\ Pair(c, w)
  BY <1>9, Attended
<1>11. path'[c] = path[c] /\ asked'[c] = asked[c] /\ Weight(w)' = Weight(w) /\ Reply(c)' = Reply(c) /\ (Done(w)' <=> Done(w))
  BY <1>6, <1>8 DEF SameCaller, Weight, Reply, Done
<1>12. Len(stderr'[w]) = n - 1 /\ (\A i \in 1 .. n - 1 : stderr'[w][i] = stderr[w][i + 1]) /\ l = stderr[w][1]
       /\ (stderr'[w] = <<>> <=> n = 1)
  <2>1. stderr'[w] = <<>> <=> Len(stderr'[w]) = 0
    <3>1. stderr'[w] \in Seq(Lines)
      BY <1>6
    <3> QED BY <3>1, EmptyIs
  <2> QED BY <1>2, <1>6, <2>1 DEF l
<1>13. l.kind # "stage" => /\ Len(events'[w]) = m + 1 /\ \A i \in 1 .. m : events'[w][i] = events[w][i]
                           /\ events'[w][m + 1] = l /\ (events[w] = <<>> <=> m = 0)
  BY <1>1, <1>3, <1>6, EmptyIs
<1>14. ~ AllRead(c, w)
  BY <1>1 DEF AllRead
<1>15. NotYet(w) => l.kind = "stage" /\ events[w] = <<>> /\ \A i \in 1 .. n : stderr[w][i].kind = "stage"
  <2>1. 1 \in 1 .. n
    BY <1>2
  <2> QED BY <1>1, <1>12, <2>1 DEF NotYet, OnlyStages
<1>16. HalfRead(c, w) => n = 1 /\ l = Reply(c)
  BY <1>12 DEF HalfRead
<1>17. n \in Nat /\ n >= 1 /\ m \in Nat
  BY <1>2, <1>3
<1>18. Traces(c, w)'
  <2>1. /\ latest[w].path \in {0, path[c]}
        /\ \A i \in 1 .. n : stderr[w][i].kind = "stage" =>
             /\ stderr[w][i].path = path[c]
             /\ (i = n \/ stderr[w][i + 1].kind # "stage") =>
                  work[w].path = path[c] /\ work[w].step > 0 /\ stderr[w][i].at = work[w].step
        /\ NoStage(w) => latest[w] = StepOf(c, w)
    BY <1>10 DEF Pair, Traces
  <2>2. StepOf(c, w)' = StepOf(c, w)
    BY <1>6, <1>11 DEF StepOf
  <2>3. latest'[w].path \in {0, path[c]}
    <3>1. 1 \in 1 .. n
      BY <1>17
    <3> QED BY <1>4, <1>6, <1>12, <2>1, <3>1
  <2>4. ASSUME NEW i \in 1 .. n - 1, stderr'[w][i].kind = "stage"
        PROVE  /\ stderr'[w][i].path = path[c]
               /\ (i = n - 1 \/ stderr'[w][i + 1].kind # "stage") =>
                    work[w].path = path[c] /\ work[w].step > 0 /\ stderr'[w][i].at = work[w].step
    <3> DEFINE j == i + 1
    <3>1. j \in 1 .. n /\ (j = n <=> i = n - 1) /\ (i # n - 1 => i + 1 \in 1 .. n - 1)
      BY <1>17
    <3>2. stderr'[w][i] = stderr[w][j] /\ (i # n - 1 => stderr'[w][i + 1] = stderr[w][j + 1])
      BY <1>12, <3>1
    <3> HIDE DEF j
    <3> QED BY <2>1, <2>4, <3>1, <3>2
  <2>5. ASSUME NoStage(w)' PROVE latest'[w] = StepOf(c, w)
    <3>1. CASE l.kind # "stage"
      <4>1. NoStage(w)
        BY <1>12, <3>1 DEF NoStage
      <4> QED BY <1>6, <2>1, <3>1, <4>1
    <3>2. CASE l.kind = "stage"
      <4>1. 1 \in 1 .. n /\ (n # 1 => 1 \in 1 .. n - 1)
        <5> HIDE DEF n
        <5> QED BY <1>17
      <4>2. n = 1 \/ stderr[w][1 + 1].kind # "stage"
        BY <1>12, <2>5, <4>1 DEF NoStage
      <4>3. l.path = path[c] /\ work[w].path = path[c] /\ work[w].step > 0 /\ l.at = work[w].step
        BY <1>12, <2>1, <3>2, <4>1, <4>2
      <4>4. v = StepOf(c, w)
        BY <4>3 DEF v, StepOf
      <4> QED BY <1>6, <3>2, <4>4
    <3> QED BY <3>1, <3>2
  <2>6. \A i \in 1 .. n - 1 : stderr'[w][i].kind = "stage" =>
               /\ stderr'[w][i].path = path[c]
               /\ (i = n - 1 \/ stderr'[w][i + 1].kind # "stage") =>
                    work[w].path = path[c] /\ work[w].step > 0 /\ stderr'[w][i].at = work[w].step
    BY <2>4
  <2>7. work'[w] = work[w] /\ Len(stderr'[w]) = n - 1
    BY <1>6, <1>12
  <2> HIDE DEF n
  <2> QED BY <1>11, <2>2, <2>3, <2>5, <2>6, <2>7 DEF Traces
<1>19. Speaks(c, w)'
  <2>1. NotYet(w) => NotYet(w)'
    <3> SUFFICES ASSUME NotYet(w) PROVE NotYet(w)'
      OBVIOUS
    <3>1. events'[w] = <<>> /\ \A i \in 1 .. n - 1 : stderr'[w][i].kind = "stage"
      <4>1. \A i \in 1 .. n - 1 : i + 1 \in 1 .. n
        BY <1>17
      <4> QED BY <1>6, <1>12, <1>15, <4>1
    <3>2. OnlyEnd(events'[w], 1)
      BY <3>1 DEF OnlyEnd
    <3> QED BY <1>12, <3>1, <3>2 DEF NotYet, OnlyStages
  <2>2. Said(c, w) => Said(c, w)' \/ HalfRead(c, w)'
    <3> SUFFICES ASSUME Said(c, w) PROVE Said(c, w)' \/ HalfRead(c, w)'
      OBVIOUS
    <3>1. /\ Done(w) /\ events[w] = <<>> /\ n >= 2 /\ stderr[w][n - 1] = Weight(w) /\ stderr[w][n] = Reply(c)
          /\ \A i \in 1 .. n - 2 : stderr[w][i].kind = "stage"
      BY DEF Said, OnlyStages
    <3>2. CASE n = 2
      <4>1. l = Weight(w) /\ l.kind # "stage" /\ stderr'[w][1] = Reply(c) /\ Len(stderr'[w]) = 1 /\ m = 0
        BY <1>12, <3>1, <3>2, LinesSaid
      <4>2. Len(events'[w]) = 1 /\ events'[w][1] = Weight(w)
        BY <1>13, <4>1
      <4> QED BY <1>11, <3>1, <4>1, <4>2 DEF HalfRead
    <3>3. CASE n # 2
      <4>1. n >= 3 /\ 1 \in 1 .. n - 2 /\ n - 2 \in 1 .. n - 1 /\ n - 1 \in 1 .. n - 1
            /\ (n - 2) + 1 = n - 1 /\ (n - 1) + 1 = n /\ (n - 1) - 1 = n - 2 /\ (n - 1) - 2 = n - 3 /\ n - 1 >= 2
        <5>1. n \in Nat /\ n >= 2 /\ n # 2
          BY <1>17, <3>1, <3>3
        <5> HIDE DEF n, m
        <5> QED BY ONLY <5>1
      <4>2. l.kind = "stage"
        BY <1>12, <3>1, <4>1
      <4>3. stderr'[w][(n - 1) - 1] = Weight(w) /\ stderr'[w][n - 1] = Reply(c)
        BY <1>12, <3>1, <4>1
      <4>4. OnlyStages(stderr'[w], (n - 1) - 2)
        <5>1. \A i \in 1 .. n - 3 : i \in 1 .. n - 1 /\ i + 1 \in 1 .. n - 2
          BY <1>17
        <5>2. \A i \in 1 .. n - 3 : stderr'[w][i].kind = "stage"
          BY <1>12, <3>1, <5>1
        <5> QED BY <4>1, <5>2 DEF OnlyStages
      <4>5. events'[w] = <<>>
        BY <1>6, <3>1, <4>2
      <4> QED BY <1>11, <1>12, <3>1, <4>1, <4>3, <4>4, <4>5 DEF Said
    <3> QED BY <3>2, <3>3
  <2>3. HalfRead(c, w) => AllRead(c, w)'
    <3> SUFFICES ASSUME HalfRead(c, w) PROVE AllRead(c, w)'
      OBVIOUS
    <3>1. n = 1 /\ l = Reply(c) /\ l.kind = "reply" /\ stderr'[w] = <<>> /\ Done(w)'
      BY <1>11, <1>12, <1>16, LinesSaid DEF HalfRead
    <3>2. Len(events'[w]) = m + 1 /\ (\A i \in 1 .. m : events'[w][i] = events[w][i]) /\ events'[w][m + 1] = l
          /\ (events[w] = <<>> <=> m = 0)
      BY <1>13, <3>1
    <3>3. CASE m = 1 /\ events[w][1] = Weight(w)
      <4>1. Len(events'[w]) = 2 /\ events'[w][1] = Weight(w) /\ events'[w][2] = Reply(c)
        BY <3>1, <3>2, <3>3
      <4>2. OnlyEnd(events'[w], 3)
        BY <4>1 DEF OnlyEnd
      <4>3. \A i \in 1 .. 2 : i = 1 \/ i = 2
        OBVIOUS
      <4>4. ~ \E i \in 1 .. Len(events'[w]) : events'[w][i] = Eof
        BY <4>1, <4>3, LinesSaid
      <4> QED BY <1>11, <3>1, <4>1, <4>2, <4>4 DEF AllRead
    <3>4. CASE m = 0 /\ held[w] = load[w]
      <4>1. Len(events'[w]) = 1 /\ events'[w][1] = Reply(c)
        BY <3>1, <3>2, <3>4
      <4>2. OnlyEnd(events'[w], 2)
        BY <4>1 DEF OnlyEnd
      <4>3. \A i \in 1 .. 1 : i = 1
        OBVIOUS
      <4>4. ~ \E i \in 1 .. Len(events'[w]) : events'[w][i] = Eof
        BY <4>1, <4>3, LinesSaid
      <4>5. held'[w] = load'[w]
        BY <1>6, <3>4
      <4> QED BY <1>11, <3>1, <4>1, <4>2, <4>4, <4>5 DEF AllRead
    <3> QED BY <3>2, <3>3, <3>4 DEF HalfRead
  <2> QED BY <1>10, <1>14, <2>1, <2>2, <2>3 DEF Pair, Speaks
<1>20. Serves(c, w)'
  <2>1. stdin[w] = <<>>
    BY <1>1, <1>10 DEF Pair, Serves
  <2> QED BY <1>6, <1>10, <1>11, <2>1 DEF Pair, Serves
<1>21. \A d \in Callers : Attends(d, w) => Pair(d, w)'
  BY <1>10, <1>18, <1>19, <1>20, OnePerWorker DEF Attends, Pair
<1>22. seq' = seq /\ idle' = idle /\ proc'[w] = proc[w] /\ load'[w] = load[w] /\ work'[w].path = work[w].path
  BY <1>5, <1>6
<1> QED BY <1>7, <1>8, <1>9, <1>21, <1>22, WorkerStep

-----------------------------------------------------------------------------
(* The steps of a call *)

LEMMA HeldIs ==
  ASSUME Inv, NEW c \in Callers, Holds(c)
  PROVE  using[c] \in Workers
BY DEF Inv, TypeOK, CallersTyped, OneOwner

(* The front of a channel that has anything in it. *)
LEMMA FrontIs ==
  ASSUME Inv, NEW w \in Workers, events[w] # <<>>
  PROVE  /\ Head(events[w]) = events[w][1] /\ events[w][1] \in Lines /\ 1 \in 1 .. Len(events[w])
         /\ Tail(events[w]) \in Seq(Lines) /\ Len(Tail(events[w])) = Len(events[w]) - 1 /\ Len(events[w]) \in Nat \ {0}
         /\ \A i \in 1 .. Len(events[w]) - 1 : Tail(events[w])[i] = events[w][i + 1]
         /\ OnlyEnd(events[w], 1) => events[w][1] = Eof
         /\ \A k \in 1 .. 3 : OnlyEnd(events[w], k + 1) => OnlyEnd(Tail(events[w]), k)
<1> DEFINE s == events[w]
           n == Len(s)
<1>1. s \in Seq(Lines) /\ s # <<>>
  BY DEF Inv, TypeOK, ProcessesTyped
<1> HIDE DEF s
<1>2. /\ n \in Nat /\ n >= 1 /\ Head(s) = s[1] /\ Head(s) \in Lines
      /\ Tail(s) \in Seq(Lines) /\ Len(Tail(s)) = n - 1
      /\ \A i \in 1 .. n - 1 : Tail(s)[i] = s[i + 1]
  BY <1>1, TailIs
<1>3. OnlyEnd(s, 1) => s[1] = Eof
  BY <1>2 DEF OnlyEnd
<1>4. ASSUME NEW k \in 1 .. 3, OnlyEnd(s, k + 1) PROVE OnlyEnd(Tail(s), k)
  <2> SUFFICES ASSUME NEW i \in k .. n - 1 PROVE Tail(s)[i] = Eof
    BY <1>2 DEF OnlyEnd
  <2>1. i \in 1 .. n - 1 /\ i + 1 \in k + 1 .. n
    BY <1>2
  <2> QED BY <1>2, <1>4, <2>1 DEF OnlyEnd
<1>5. 1 \in 1 .. n /\ n # 0
  BY <1>2
<1> QED BY <1>2, <1>3, <1>4, <1>5 DEF s

LEMMA HearHeldKeeps ==
  ASSUME Inv, NEW c \in Callers, HearHeld(c)
  PROVE  Inv'
<1> USE DEF Inv
<1>1. PICK w \in Workers : w = using[c]
  BY HeldIs DEF HearHeld, Waits, Holds
<1>2. Attends(c, w) /\ Pair(c, w) /\ events[w] # <<>>
  BY <1>1 DEF HearHeld, Waits, Attends, Busy, BusyInv
<1> DEFINE k == events[w][1].at
           n == Len(events[w])
<1>3. /\ events[w][1].kind = "held" /\ held' = [held EXCEPT ![w] = k] /\ events' = [events EXCEPT ![w] = Tail(events[w])]
      /\ UNCHANGED <<seq, callerVars, idle, proc, kernelVars, stderr, latest, files, deaths>>
  BY <1>1, <1>2, FrontIs DEF HearHeld, Event, Consume
<1>4. /\ events \in [Workers -> Seq(Lines)] /\ events[w] \in Seq(Lines) /\ held \in [Workers -> Nat]
  BY DEF TypeOK, ProcessesTyped
<1>5. k \in Nat /\ Tail(events[w]) \in Seq(Lines)
  BY <1>2, FrontIs DEF Lines
<1> HIDE DEF k
<1>6. /\ \A u \in Workers : proc'[u] = proc[u] /\ load'[u] = load[u] /\ stdin'[u] = stdin[u] /\ work'[u] = work[u]
                            /\ stderr'[u] = stderr[u] /\ latest'[u] = latest[u]
      /\ events'[w] = Tail(events[w]) /\ held'[w] = k
      /\ \A u \in Workers \ {w} : events'[u] = events[u] /\ held'[u] = held[u]
      /\ events' \in [Workers -> Seq(Lines)] /\ held' \in [Workers -> Nat]
  <2>1. /\ events'[w] = Tail(events[w]) /\ \A u \in Workers \ {w} : events'[u] = events[u]
        /\ events' \in [Workers -> Seq(Lines)]
    BY <1>3, <1>4, <1>5, Put
  <2>2. held'[w] = k /\ (\A u \in Workers \ {w} : held'[u] = held[u]) /\ held' \in [Workers -> Nat]
    BY <1>3, <1>4, <1>5, Put
  <2> QED BY <1>3, <2>1, <2>2 DEF kernelVars
<1>7. TypeOK'
  BY <1>3, <1>6 DEF TypeOK, CallersTyped, ProcessesTyped, PoolTyped, callerVars, kernelVars
<1>8. (\A d \in Callers : SameCaller(d)) /\ OtherWorkers(w) /\ FilesInv'
  <2>1. \A d \in Callers : SameCaller(d)
    BY <1>3 DEF callerVars, SameCaller
  <2>2. OtherWorkers(w)
    BY <1>6 DEF OtherWorkers, SameWorker
  <2> QED BY <1>3, <2>1, <2>2 DEF FilesInv, callerVars, Asking
<1>9. events[w][1] # Eof /\ events[w][1] # Reply(c) /\ ~ OnlyEnd(events[w], 1)
  BY <1>2, <1>3, FrontIs, LinesSaid
<1>10. ~ Quiet(w)
  BY <1>9 DEF Quiet
<1>11. path'[c] = path[c] /\ asked'[c] = asked[c] /\ Weight(w)' = Weight(w) /\ Reply(c)' = Reply(c) /\ (Done(w)' <=> Done(w))
  BY <1>6, <1>8 DEF SameCaller, Weight, Reply, Done
<1>12. Serves(c, w)'
  BY <1>2, <1>6, <1>11 DEF Pair, Serves
<1>13. Traces(c, w)'
  <2>1. latest'[w] = latest[w] /\ work'[w] = work[w] /\ stderr'[w] = stderr[w]
    BY <1>6
  <2> QED BY <1>2, <1>11, <2>1 DEF Pair, Traces, NoStage, StepOf
<1>14. events[w][1] = Weight(w) => held'[w] = load'[w]
  BY <1>6, LinesSaid DEF k
<1>15. Len(events'[w]) = n - 1 /\ n \in Nat \ {0} /\ \A i \in 1 .. n - 1 : events'[w][i] = events[w][i + 1]
  BY <1>2, <1>6, FrontIs
<1>16. Speaks(c, w)'
  <2>1. ~ NotYet(w) /\ ~ Said(c, w)
    BY <1>2, <1>9 DEF NotYet, Said
  <2>2. HalfRead(c, w) => HalfRead(c, w)'
    <3> SUFFICES ASSUME HalfRead(c, w) PROVE HalfRead(c, w)'
      OBVIOUS
    <3>1. n = 1 /\ events[w][1] = Weight(w) /\ Len(stderr[w]) = 1 /\ stderr[w][1] = Reply(c) /\ Done(w)
      BY <1>2 DEF HalfRead
    <3>2. events'[w] = <<>>
      <4>1. events'[w] \in Seq(Lines)
        BY <1>6
      <4>2. Len(events'[w]) = 0
        <5> HIDE DEF n
        <5> QED BY <1>15, <3>1
      <4> QED BY <4>1, <4>2, EmptyIs
    <3> QED BY <1>6, <1>11, <1>14, <3>1, <3>2 DEF HalfRead
  <2>3. AllRead(c, w) => AllRead(c, w)'
    <3> SUFFICES ASSUME AllRead(c, w) PROVE AllRead(c, w)'
      OBVIOUS
    <3>1. /\ n >= 2 /\ events[w][1] = Weight(w) /\ events[w][2] = Reply(c) /\ OnlyEnd(events[w], 3)
          /\ Done(w) /\ stderr[w] = <<>>
      BY <1>9 DEF AllRead
    <3>2. events'[w][1] = Reply(c) /\ n - 1 >= 1
      <4> HIDE DEF n
      <4>1. 1 \in 1 .. n - 1 /\ n - 1 >= 1 /\ 1 + 1 = 2
        BY <1>15, <3>1
      <4> QED BY <1>15, <3>1, <4>1
    <3>3. OnlyEnd(events'[w], 2)
      <4>1. 2 \in 1 .. 3 /\ 2 + 1 = 3
        OBVIOUS
      <4> QED BY <1>2, <1>6, <3>1, <4>1, FrontIs
    <3>4. (\E i \in 1 .. n - 1 : events'[w][i] = Eof) => proc[w] = "closed"
      <4> SUFFICES ASSUME NEW i \in 1 .. n - 1, events'[w][i] = Eof PROVE proc[w] = "closed"
        OBVIOUS
      <4>1. i + 1 \in 1 .. n
        BY <1>15
      <4>2. events[w][i + 1] = Eof
        BY <1>15
      <4> QED BY <4>1, <4>2 DEF AllRead
    <3> QED BY <1>6, <1>11, <1>14, <1>15, <3>1, <3>2, <3>3, <3>4 DEF AllRead
  <2> QED BY <1>2, <2>1, <2>2, <2>3 DEF Pair, Speaks
<1>17. \A d \in Callers : Attends(d, w) => Pair(d, w)'
  BY <1>2, <1>12, <1>13, <1>16, OnePerWorker DEF Attends, Pair
<1>18. seq' = seq /\ idle' = idle /\ proc'[w] = proc[w] /\ load'[w] = load[w] /\ work'[w].path = work[w].path
  BY <1>3, <1>6
<1> QED BY <1>7, <1>8, <1>10, <1>17, <1>18, WorkerStep

LEMMA EndsDoes ==
  ASSUME TypeOK, NEW c \in Callers, Ends(c)
  PROVE  /\ pc'[c] = "idle" /\ using'[c] = NoWorker /\ OtherCallers(c)
         /\ pc' \in [Callers -> {"idle", "taking", "reusing", "starting", "sending", "waiting", "stopping", "returning"}]
         /\ asked' \in [Callers -> Requests \cup {NoRequest}]
         /\ path' \in [Callers -> Paths]
         /\ using' \in [Callers -> Workers \cup {NoWorker}]
<1>1. CallersTyped
  BY DEF TypeOK
<1>2. pc'[c] = "idle" /\ using'[c] = NoWorker /\ OtherCallers(c)
  BY <1>1 DEF CallersTyped, Ends, OtherCallers, SameCaller
<1>3. 0 \in Paths
  BY DEF Paths
<1> QED BY <1>1, <1>2, <1>3 DEF CallersTyped, Ends

LEMMA FailsDoes ==
  ASSUME TypeOK, NEW c \in Callers, NEW how \in Calls!Failures, NEW stage \in Stages, Fails(c, how, stage)
  PROVE  pc'[c] = "idle" /\ using'[c] = NoWorker /\ OtherCallers(c) /\ CallersTyped'
<1>1. Calls!Failed(how) \in [kind : Calls!Failures \cup {"answered", "none"}, of : Requests \cup {NoRequest}]
  BY DEF Calls!Failed
<1>2. outcome' \in [Callers -> [kind : Calls!Failures \cup {"answered", "none"}, of : Requests \cup {NoRequest}]]
  BY <1>1 DEF Fails, TypeOK, CallersTyped
<1>3. named' \in [Callers -> Stages]
  BY DEF Fails, TypeOK, CallersTyped
<1> QED BY <1>2, <1>3, EndsDoes DEF Fails, CallersTyped

(* A call ends, and the process it had with it. *)
LEMMA LeaveStep ==
  ASSUME Inv, NEW c \in Callers, TypeOK', Asking(c), pc'[c] = "idle", using'[c] = NoWorker, OtherCallers(c),
         Drops({using[c]}), idle' = idle, seq' = seq, files' \subseteq files
  PROVE  Inv'
<1> USE DEF Inv
<1>1. Idle' = Idle
  BY DEF Idle
<1>2. \A d \in Callers : using[d] = using[c] /\ using[c] # NoWorker => d = c
  BY DEF OneOwner
<1>3. OneOwner'
  <2>1. \A d \in Callers : Holds(d)' <=> using'[d] # NoWorker
    BY DEF OneOwner, Holds, OtherCallers, SameCaller
  <2>2. \A d, e \in Callers : (Holds(d)' /\ using'[d] = using'[e]) => d = e
    BY DEF OneOwner, Holds, OtherCallers, SameCaller
  <2>3. \A d \in Callers : using'[d] \notin Idle
    <3>1. NoWorker \notin Idle
      BY PoolAssumption, IdleIsQuiet
    <3> QED BY <3>1 DEF OneOwner, OtherCallers, SameCaller
  <2>4. ASSUME NEW w \in Workers PROVE proc'[w] # "none" <=> w \in Idle \/ \E d \in Callers : using'[d] = w
    <3>1. w # NoWorker
      BY PoolAssumption
    <3>2. CASE w = using[c]
      BY <1>2, <3>1, <3>2 DEF OneOwner, Drops, Gone, OtherCallers, SameCaller
    <3>3. CASE w # using[c]
      BY <3>1, <3>3 DEF OneOwner, Drops, SameWorker, OtherCallers, SameCaller
    <3> QED BY <3>2, <3>3
  <2> QED BY <1>1, <2>1, <2>2, <2>3, <2>4 DEF OneOwner
<1>4. ~ Asking(c)' /\ ~ Busy(c)'
  BY DEF Asking, Busy
<1>5. CASE using[c] = NoWorker
  <2>1. Drops({}) /\ ~ Busy(c)
    BY <1>5, PoolAssumption DEF Drops, OneOwner, Holds, Busy
  <2> QED BY <1>1, <1>3, <1>4, <2>1, DropStep
<1>6. CASE using[c] # NoWorker
  BY <1>1, <1>2, <1>3, <1>4, <1>6, DropStep
<1> QED BY <1>5, <1>6

(* ... as it does when it fails. *)
LEMMA FailStep ==
  ASSUME Inv, NEW c \in Callers, Asking(c), NEW how \in Calls!Failures, NEW stage \in Stages, Fails(c, how, stage),
         Dropped({using[c]}), UNCHANGED <<seq, idle, files, deaths>>
  PROVE  Inv'
<1>1. TypeOK
  BY DEF Inv
<1>2. ProcessesTyped' /\ Drops({using[c]})
  BY <1>1, DroppedDoes DEF TypeOK
<1>3. pc'[c] = "idle" /\ using'[c] = NoWorker /\ OtherCallers(c) /\ CallersTyped'
  BY <1>1, FailsDoes
<1>4. TypeOK'
  BY <1>1, <1>2, <1>3 DEF TypeOK, PoolTyped
<1> QED BY <1>2, <1>3, <1>4, LeaveStep

LEMMA StagesAre ==
  /\ StartingUp \in Stages
  /\ Inv => \A w \in Workers : latest[w] \in Stages
BY DEF StartingUp, Stages, Paths, Inv, TypeOK, ProcessesTyped

LEMMA SpawnFailsKeeps ==
  ASSUME Inv, NEW c \in Callers, SpawnFails(c)
  PROVE  Inv'
<1>1. Asking(c) /\ using[c] = NoWorker
  BY DEF SpawnFails, Asking, Inv, OneOwner, Holds
<1>2. pc'[c] = "idle" /\ using'[c] = NoWorker /\ OtherCallers(c) /\ CallersTyped'
  <2>1. "host" \in Calls!Failures
    BY DEF Calls!Failures
  <2> QED BY <2>1, FailsDoes, StagesAre DEF SpawnFails, Inv
<1>3. UNCHANGED <<seq, idle, workerVars, files, deaths>>
  BY DEF SpawnFails
<1>4. TypeOK'
  BY <1>2, <1>3 DEF Inv, TypeOK, ProcessesTyped, PoolTyped, workerVars, kernelVars, readerVars
<1>5. Drops({using[c]})
  <2>1. \A w \in Workers : SameWorker(w) /\ w \notin {using[c]}
    BY <1>1, <1>3, PoolAssumption DEF SameWorker, workerVars, kernelVars, readerVars
  <2> QED BY <2>1 DEF Drops
<1> QED BY <1>1, <1>2, <1>3, <1>4, <1>5, LeaveStep

LEMMA SendBreaksKeeps ==
  ASSUME Inv, NEW c \in Callers, SendBreaks(c)
  PROVE  Inv'
<1>1. "host" \in Calls!Failures /\ Asking(c)
  BY DEF Calls!Failures, SendBreaks, Asking
<1> QED BY <1>1, FailStep, StagesAre DEF SendBreaks

LEMMA HearEndKeeps ==
  ASSUME Inv, NEW c \in Callers, HearEnd(c)
  PROVE  Inv'
<1>1. "crashed" \in Calls!Failures /\ Asking(c) /\ Holds(c)
  BY DEF Calls!Failures, HearEnd, Waits, Asking, Holds
<1>2. latest[using[c]] \in Stages
  BY <1>1, HeldIs, StagesAre
<1> QED BY <1>1, <1>2, FailStep DEF HearEnd

LEMMA StopKeeps ==
  ASSUME Inv, NEW c \in Callers, Stop(c)
  PROVE  Inv'
<1>1. "timed out" \in Calls!Failures /\ Asking(c) /\ Holds(c)
  BY DEF Calls!Failures, Stop, Asking, Holds
<1>2. latest[using[c]] \in Stages
  BY <1>1, HeldIs, StagesAre
<1> QED BY <1>1, <1>2, FailStep DEF Stop

(* A call moves on, and so may processes of its own: what the others know of theirs stays. *)
LEMMA MoveStep ==
  ASSUME Inv, NEW c \in Callers, NEW S, OtherCallers(c), \A v \in Workers \ S : SameWorker(v),
         \A d \in Callers \ {c} : using[d] \notin S,
         \A v \in Workers : Attends(c, v) \/ Attends(c, v)' => v \in S,
         \A v \in Workers : v \in S => (Attends(c, v)' => Pair(c, v)') /\ (~ Attends(c, v)' => Quiet(v)')
  PROVE  QuietInv' /\ BusyInv'
<1> USE DEF Inv
<1>1. \A d \in Callers \ {c}, v \in Workers : Attends(d, v)' <=> Attends(d, v)
  BY DEF Attends, Busy, OtherCallers, SameCaller
<1>2. \A d \in Callers \ {c}, v \in Workers : Attends(d, v) => v \notin S
  BY DEF Attends
<1>3. QuietInv'
  <2> SUFFICES ASSUME NEW v \in Workers, \A d \in Callers : ~ Attends(d, v)' PROVE Quiet(v)'
    BY DEF QuietInv
  <2>1. CASE v \in S
    BY <2>1
  <2>2. CASE v \notin S
    <3>1. \A d \in Callers : ~ Attends(d, v)
      BY <1>1, <2>2
    <3>2. Quiet(v)
      BY <3>1 DEF QuietInv
    <3> QED BY <2>2, <3>2, QuietFrame
  <2> QED BY <2>1, <2>2
<1>4. BusyInv'
  <2> SUFFICES ASSUME NEW d \in Callers, NEW v \in Workers, Attends(d, v)' PROVE Pair(d, v)'
    BY DEF BusyInv
  <2>1. CASE d = c
    BY <2>1
  <2>2. CASE d # c
    <3>1. Attends(d, v) /\ v \notin S /\ Pair(d, v)
      BY <1>1, <1>2, <2>2 DEF BusyInv
    <3> QED BY <2>2, <3>1, PairFrame DEF OtherCallers
  <2> QED BY <2>1, <2>2
<1> QED BY <1>3, <1>4

(* ... and a call that moves on without a process of its own, or leaves it alone. *)
LEMMA MoveNone ==
  ASSUME Inv, NEW c \in Callers, OtherCallers(c), \A v \in Workers : SameWorker(v), ~ Busy(c), ~ Busy(c)'
  PROVE  QuietInv' /\ BusyInv'
<1> DEFINE S == {}
<1>1. /\ \A v \in Workers \ S : SameWorker(v)
      /\ \A d \in Callers \ {c} : using[d] \notin S
      /\ \A v \in Workers : Attends(c, v) \/ Attends(c, v)' => v \in S
      /\ \A v \in Workers : v \in S => (Attends(c, v)' => Pair(c, v)') /\ (~ Attends(c, v)' => Quiet(v)')
  BY DEF Attends
<1> HIDE DEF S
<1> QED BY <1>1, MoveStep

LEMMA CallKeeps ==
  ASSUME Inv, NEW c \in Callers, NEW q \in Requests, Call(c, q)
  PROVE  Inv'
<1> USE DEF Inv
<1> DEFINE k == seq + 1
<1>1. /\ pc[c] = "idle" /\ seq < MaxCalls /\ seq' = k
      /\ pc' = [pc EXCEPT ![c] = "taking"] /\ asked' = [asked EXCEPT ![c] = q] /\ path' = [path EXCEPT ![c] = k]
      /\ outcome' = [outcome EXCEPT ![c] = Calls!Nothing] /\ named' = [named EXCEPT ![c] = StartingUp]
      /\ UNCHANGED <<using, idle, workerVars, files, deaths>>
  BY DEF Call, NextPath
<1>2. seq \in Nat /\ k \in Nat /\ k \in Paths /\ k \in 1 .. k /\ k \in 0 .. MaxCalls /\ seq <= k /\ \A n \in 1 .. seq : n \in 1 .. k /\ n # k
  BY <1>1, PoolAssumption DEF TypeOK, PoolTyped, Paths
<1> HIDE DEF k
<1>3. /\ pc'[c] = "taking" /\ asked'[c] = q /\ path'[c] = k /\ OtherCallers(c) /\ using' = using
  <2>1. CallersTyped
    BY DEF TypeOK
  <2> QED BY <1>1, <2>1 DEF CallersTyped, OtherCallers, SameCaller
<1>4. TypeOK'
  <2>1. CallersTyped'
    <3>1. Calls!Nothing \in [kind : Calls!Failures \cup {"answered", "none"}, of : Requests \cup {NoRequest}]
      BY DEF Calls!Nothing
    <3>2. CallersTyped
      BY DEF TypeOK
    <3>3. pc' \in [Callers -> {"idle", "taking", "reusing", "starting", "sending", "waiting", "stopping", "returning"}]
      BY <1>1, <3>2 DEF CallersTyped
    <3>4. asked' \in [Callers -> Requests \cup {NoRequest}] /\ path' \in [Callers -> Paths] /\ using' \in [Callers -> Workers \cup {NoWorker}]
      BY <1>1, <1>2, <3>2 DEF CallersTyped
    <3>5. outcome' \in [Callers -> [kind : Calls!Failures \cup {"answered", "none"}, of : Requests \cup {NoRequest}]]
      BY <1>1, <3>1, <3>2 DEF CallersTyped
    <3>6. named' \in [Callers -> Stages]
      BY <1>1, <3>2, StagesAre DEF CallersTyped
    <3> QED BY <3>3, <3>4, <3>5, <3>6 DEF CallersTyped
  <2> QED BY <1>1, <1>2, <2>1 DEF TypeOK, ProcessesTyped, PoolTyped, workerVars, kernelVars, readerVars
<1>5. \A w \in Workers : SameWorker(w)
  BY <1>1 DEF SameWorker, workerVars, kernelVars, readerVars
<1>6. Idle' = Idle /\ idle' = idle /\ files' = files
  BY <1>1 DEF Idle
<1>7. ~ Asking(c) /\ ~ Holds(c) /\ ~ Holds(c)' /\ Before(c)' /\ ~ Busy(c) /\ ~ Busy(c)'
  BY <1>1, <1>3 DEF Asking, Holds, Before, Busy
<1>8. OneOwner'
  <2>1. \A d \in Callers : Holds(d)' <=> Holds(d)
    BY <1>3, <1>7 DEF Holds, OtherCallers, SameCaller
  <2> QED BY <1>3, <1>5, <1>6, <2>1 DEF OneOwner, SameWorker
<1>9. KeepsLight'
  <2>1. \A w \in Idle : w \in Workers
    BY IdleIsQuiet
  <2> QED BY <1>5, <1>6, <2>1 DEF KeepsLight, SameWorker
<1>10. PathsInv'
  <2>1. \A d \in Callers \ {c} : /\ Asking(d)' => Asking(d)
                                 /\ Before(d)' => Before(d)
                                 /\ path'[d] = path[d] /\ asked'[d] = asked[d]
    BY <1>3 DEF Asking, Before, OtherCallers, SameCaller
  <2>2. \A d \in Callers : Asking(d)' => path'[d] \in 1 .. k /\ asked'[d] \in Requests
    BY <1>2, <1>3, <2>1 DEF PathsInv
  <2>3. \A d, e \in Callers : Asking(d)' /\ Asking(e)' /\ path'[d] = path'[e] => d = e
    BY <1>2, <1>3, <2>1 DEF PathsInv
  <2>4. ASSUME NEW w \in Workers PROVE work'[w].path <= k /\ work'[w].path # k /\ work'[w] = work[w]
    <3>1. work[w].path <= seq /\ work[w].path \in Nat
      BY DEF PathsInv, TypeOK, ProcessesTyped, Works, Paths
    <3>2. \A n \in Nat : n <= seq => n <= k /\ n # k
      BY <1>2 DEF k
    <3> QED BY <1>5, <3>1, <3>2 DEF SameWorker
  <2>5. \A d \in Callers : Before(d)' => \A w \in Workers : work'[w].path # path'[d]
    BY <1>3, <2>1, <2>4 DEF PathsInv
  <2> QED BY <1>1, <2>2, <2>3, <2>4, <2>5 DEF PathsInv
<1>11. FilesInv'
  <2> SUFFICES ASSUME NEW f \in files
               PROVE f.path <= k /\ \A d \in Callers : Asking(d)' /\ f.path = path'[d] => f.request = asked'[d]
    BY <1>1, <1>6 DEF FilesInv
  <2>1. f.path <= seq /\ f.path \in Nat
    BY DEF FilesInv, TypeOK, PoolTyped, Frames, Paths
  <2>2. \A n \in Nat : n <= seq => n <= k /\ n # k
    BY <1>2 DEF k
  <2>3. f.path <= k /\ f.path # k
    BY <2>1, <2>2
  <2> QED BY <1>3, <2>3 DEF FilesInv, OtherCallers, SameCaller, Asking
<1>12. QuietInv' /\ BusyInv'
  BY <1>3, <1>5, <1>7, MoveNone
<1> QED BY <1>4, <1>8, <1>9, <1>10, <1>11, <1>12

(* One process changes, and the call it belongs to. *)
LEMMA MoveOne ==
  ASSUME Inv, NEW c \in Callers, NEW w \in Workers, OtherCallers(c), OtherWorkers(w),
         \A d \in Callers \ {c} : using[d] # w,
         using[c] = w \/ ~ Busy(c), using'[c] = w,
         Busy(c)' => Pair(c, w)', ~ Busy(c)' => Quiet(w)'
  PROVE  QuietInv' /\ BusyInv'
<1> DEFINE S == {w}
<1>1. /\ \A v \in Workers \ S : SameWorker(v)
      /\ \A d \in Callers \ {c} : using[d] \notin S
      /\ \A v \in Workers : Attends(c, v) \/ Attends(c, v)' => v \in S
      /\ \A v \in Workers : v \in S => (Attends(c, v)' => Pair(c, v)') /\ (~ Attends(c, v)' => Quiet(v)')
  BY DEF OtherWorkers, Attends
<1> HIDE DEF S
<1> QED BY <1>1, MoveStep

LEMMA SpawnKeeps ==
  ASSUME Inv, NEW c \in Callers, Spawn(c)
  PROVE  Inv'
<1> USE DEF Inv
<1>1. PICK w \in Workers :
      /\ pc[c] = "starting" /\ proc[w] = "none" /\ proc' = [proc EXCEPT ![w] = "running"]
      /\ using' = [using EXCEPT ![c] = w] /\ pc' = [pc EXCEPT ![c] = "sending"]
      /\ UNCHANGED <<seq, asked, path, outcome, named, idle, kernelVars, readerVars, held, files, deaths>>
  BY DEF Spawn
<1>2. /\ pc'[c] = "sending" /\ using'[c] = w /\ path' = path /\ asked' = asked /\ OtherCallers(c)
      /\ pc' \in [Callers -> {"idle", "taking", "reusing", "starting", "sending", "waiting", "stopping", "returning"}]
      /\ using' \in [Callers -> Workers \cup {NoWorker}]
  <2>1. CallersTyped
    BY DEF TypeOK
  <2>2. pc'[c] = "sending" /\ using'[c] = w /\ path' = path /\ asked' = asked
    BY <1>1, <2>1 DEF CallersTyped
  <2>3. OtherCallers(c)
    BY <1>1, <2>1 DEF CallersTyped, OtherCallers, SameCaller
  <2> QED BY <1>1, <2>1, <2>2, <2>3 DEF CallersTyped
<1>3. /\ proc'[w] = "running" /\ proc' \in [Workers -> {"none", "running", "dead", "closed"}]
      /\ \A u \in Workers \ {w} : proc'[u] = proc[u]
      /\ \A u \in Workers : load'[u] = load[u] /\ stdin'[u] = stdin[u] /\ work'[u] = work[u] /\ held'[u] = held[u]
                            /\ stderr'[u] = stderr[u] /\ events'[u] = events[u] /\ latest'[u] = latest[u]
  BY <1>1 DEF TypeOK, ProcessesTyped, kernelVars, readerVars
<1>4. TypeOK'
  BY <1>1, <1>2, <1>3 DEF TypeOK, CallersTyped, ProcessesTyped, PoolTyped, kernelVars, readerVars
<1>5. OtherWorkers(w)
  BY <1>3 DEF OtherWorkers, SameWorker
<1>6. Idle' = Idle /\ idle' = idle /\ files' = files /\ seq' = seq
  BY <1>1 DEF Idle
<1>7. w # NoWorker /\ w \notin Idle /\ \A d \in Callers : using[d] # w
  BY <1>1, PoolAssumption DEF OneOwner
<1>8. ~ Holds(c) /\ Holds(c)' /\ ~ Busy(c) /\ ~ Busy(c)' /\ Before(c) /\ Before(c)' /\ Asking(c) /\ Asking(c)'
  BY <1>1, <1>2 DEF Asking, Holds, Before, Busy
<1>9. OneOwner'
  <2>1. \A d \in Callers \ {c} : (Holds(d)' <=> Holds(d)) /\ using'[d] = using[d]
    BY <1>2 DEF Holds, OtherCallers, SameCaller
  <2>2. \A d \in Callers : Holds(d)' <=> using'[d] # NoWorker
    BY <1>2, <1>7, <1>8, <2>1 DEF OneOwner
  <2>3. \A d, e \in Callers : (Holds(d)' /\ using'[d] = using'[e]) => d = e
    BY <1>2, <1>7, <1>8, <2>1 DEF OneOwner
  <2>4. \A d \in Callers : using'[d] \notin Idle
    BY <1>2, <1>7, <2>1 DEF OneOwner
  <2>5. using[c] = NoWorker
    BY <1>8 DEF OneOwner
  <2>6. ASSUME NEW v \in Workers PROVE proc'[v] # "none" <=> v \in Idle \/ \E d \in Callers : using'[d] = v
    <3>1. CASE v = w
      BY <1>2, <1>3, <3>1
    <3>2. CASE v # w
      <4>1. \A d \in Callers : using'[d] = v <=> using[d] = v
        BY <1>2, <2>1, <2>5, <3>2, PoolAssumption
      <4>2. proc[v] # "none" <=> v \in Idle \/ \E d \in Callers : using[d] = v
        BY DEF OneOwner
      <4>3. proc'[v] = proc[v]
        BY <1>3, <3>2
      <4> QED BY <4>1, <4>2, <4>3
    <3> QED BY <3>1, <3>2
  <2> QED BY <1>6, <2>2, <2>3, <2>4, <2>6 DEF OneOwner
<1>10. KeepsLight'
  <2>1. \A v \in Idle : v \in Workers
    BY IdleIsQuiet
  <2> QED BY <1>3, <1>6, <2>1 DEF KeepsLight
<1>11. \A d \in Callers : (Asking(d)' <=> Asking(d)) /\ (Before(d)' <=> Before(d))
  BY <1>2, <1>8 DEF Asking, Before, OtherCallers, SameCaller
<1>12. PathsInv'
  <2>1. \A u \in Workers : work'[u] = work[u]
    BY <1>3
  <2> QED BY <1>2, <1>6, <1>11, <2>1 DEF PathsInv
<1>13. FilesInv'
  BY <1>2, <1>6, <1>11 DEF FilesInv
<1>14. QuietInv' /\ BusyInv'
  <2>1. Quiet(w)
    BY <1>7 DEF QuietInv, Attends
  <2>2. events[w] = <<>>
    BY <1>1, <2>1 DEF Quiet
  <2>3. Quiet(w)'
    BY <1>3, <2>1, <2>2 DEF Quiet, OnlyEnd
  <2> QED BY <1>2, <1>5, <1>7, <1>8, <2>3, MoveOne
<1> QED BY <1>4, <1>9, <1>10, <1>12, <1>13, <1>14

LEMMA SendKeeps ==
  ASSUME Inv, NEW c \in Callers, Send(c)
  PROVE  Inv'
<1> USE DEF Inv
<1>1. PICK w \in Workers : w = using[c]
  BY HeldIs DEF Send, Holds
<1> DEFINE f == [path |-> path[c], request |-> asked[c]]
<1>2. /\ pc[c] \in {"reusing", "sending"} /\ proc[w] = "running"
      /\ latest' = [latest EXCEPT ![w] = StartingUp]
      /\ stdin' = [stdin EXCEPT ![w] = Append(stdin[w], f)]
      /\ pc' = [pc EXCEPT ![c] = "waiting"]
      /\ UNCHANGED <<seq, asked, path, using, outcome, named, idle, proc, work, load, stderr, events, held, files, deaths>>
  BY <1>1 DEF Send, Reset, Alive
<1>3. Asking(c) /\ Before(c) /\ ~ Busy(c) /\ Holds(c)
  BY <1>2 DEF Asking, Before, Busy, Holds
<1>4. f \in Frames /\ asked[c] \in Requests /\ path[c] \in Paths
  BY <1>3 DEF PathsInv, Frames, TypeOK, CallersTyped
<1> HIDE DEF f
<1>5. \A d \in Callers : using[d] = w => d = c
  BY <1>1, <1>3 DEF OneOwner
<1>6. Quiet(w)
  BY <1>3, <1>5 DEF QuietInv, Attends
<1>7. stdin[w] = <<>> /\ work[w].phase = "reading" /\ stderr[w] = <<>> /\ events[w] = <<>> /\ work[w].path # path[c]
  BY <1>2, <1>3, <1>6 DEF Quiet, PathsInv
<1>8. Append(stdin[w], f) = <<f>> /\ <<f>> \in Seq(Frames) /\ Len(<<f>>) = 1 /\ <<f>>[1] = f
  BY <1>4, <1>7
<1>9. /\ latest'[w] = StartingUp /\ latest' \in [Workers -> Stages]
      /\ stdin'[w] = <<f>> /\ stdin' \in [Workers -> Seq(Frames)]
      /\ \A u \in Workers \ {w} : latest'[u] = latest[u] /\ stdin'[u] = stdin[u]
      /\ \A u \in Workers : load'[u] = load[u] /\ proc'[u] = proc[u] /\ work'[u] = work[u] /\ held'[u] = held[u]
                            /\ stderr'[u] = stderr[u] /\ events'[u] = events[u]
  <2>1. latest \in [Workers -> Stages] /\ stdin \in [Workers -> Seq(Frames)]
    BY DEF TypeOK, ProcessesTyped
  <2>2. /\ latest'[w] = StartingUp /\ latest' \in [Workers -> Stages]
        /\ \A u \in Workers \ {w} : latest'[u] = latest[u]
    BY <1>2, <2>1, StagesAre, Put
  <2>3. /\ stdin'[w] = <<f>> /\ stdin' \in [Workers -> Seq(Frames)] /\ \A u \in Workers \ {w} : stdin'[u] = stdin[u]
    BY <1>2, <1>8, <2>1, Put
  <2> QED BY <1>2, <2>2, <2>3
<1>10. /\ pc'[c] = "waiting" /\ path' = path /\ asked' = asked /\ using' = using /\ OtherCallers(c)
       /\ pc' \in [Callers -> {"idle", "taking", "reusing", "starting", "sending", "waiting", "stopping", "returning"}]
  <2>1. CallersTyped
    BY DEF TypeOK
  <2> QED BY <1>2, <2>1 DEF CallersTyped, OtherCallers, SameCaller
<1>11. TypeOK'
  BY <1>2, <1>9, <1>10 DEF TypeOK, CallersTyped, ProcessesTyped, PoolTyped
<1>12. OtherWorkers(w)
  BY <1>9 DEF OtherWorkers, SameWorker
<1>13. Idle' = Idle /\ idle' = idle /\ files' = files /\ seq' = seq /\ proc' = proc
  BY <1>2 DEF Idle
<1>14. Holds(c)' /\ Busy(c)' /\ Asking(c)' /\ ~ Before(c)'
  BY <1>10 DEF Asking, Holds, Before, Busy
<1>15. \A d \in Callers : (Asking(d)' <=> Asking(d)) /\ (Before(d)' => Before(d)) /\ (Holds(d)' <=> Holds(d))
  BY <1>3, <1>10, <1>14 DEF Asking, Before, Holds, OtherCallers, SameCaller
<1>16. OneOwner'
  BY <1>10, <1>13, <1>15 DEF OneOwner
<1>17. KeepsLight'
  <2>1. \A v \in Idle : v \in Workers
    BY IdleIsQuiet
  <2> QED BY <1>9, <1>13, <2>1 DEF KeepsLight
<1>18. PathsInv'
  <2>1. \A u \in Workers : work'[u] = work[u]
    BY <1>9
  <2> QED BY <1>10, <1>13, <1>15, <2>1 DEF PathsInv
<1>19. FilesInv'
  BY <1>10, <1>13, <1>15 DEF FilesInv
<1>20. Pair(c, w)'
  <2>1. path'[c] = path[c] /\ asked'[c] = asked[c]
    BY <1>10
  <2>2. Serves(c, w)'
    <3>1. stdin'[w] # <<>> /\ Len(stdin'[w]) <= 1
      BY <1>8, <1>9
    <3>2. \A i \in 1 .. Len(stdin'[w]) : stdin'[w][i] = [path |-> path[c], request |-> asked[c]]
      BY <1>8, <1>9 DEF f
    <3> QED BY <1>7, <1>9, <2>1, <3>1, <3>2 DEF Serves
  <2>3. stderr'[w] = <<>> /\ Len(stderr'[w]) = 0 /\ events'[w] = <<>> /\ Len(events'[w]) = 0
    BY <1>7, <1>9
  <2>4. Speaks(c, w)'
    BY <2>3 DEF Speaks, NotYet, OnlyStages, OnlyEnd
  <2>5. Traces(c, w)'
    <3>1. StartingUp.path = 0
      BY DEF StartingUp
    <3>2. StepOf(c, w)' = StartingUp
      BY <1>7, <1>9, <2>1 DEF StepOf
    <3> QED BY <1>9, <2>3, <3>1, <3>2 DEF Traces
  <2> QED BY <2>2, <2>4, <2>5 DEF Pair
<1>21. QuietInv' /\ BusyInv'
  <2>1. using[c] = w /\ using'[c] = w /\ \A d \in Callers \ {c} : using[d] # w
    BY <1>1, <1>5, <1>10
  <2> QED BY <1>10, <1>12, <1>14, <1>20, <2>1, MoveOne
<1> QED BY <1>11, <1>16, <1>17, <1>18, <1>19, <1>21

LEMMA TimeoutKeeps ==
  ASSUME Inv, NEW c \in Callers, Timeout(c)
  PROVE  Inv'
<1> USE DEF Inv
<1>1. PICK w \in Workers : w = using[c]
  BY HeldIs DEF Timeout, Holds
<1> DEFINE p == IF proc[w] = "running" THEN "dead" ELSE proc[w]
<1>2. /\ pc[c] = "waiting" /\ events[w] = <<>> /\ proc' = [proc EXCEPT ![w] = p]
      /\ pc' = [pc EXCEPT ![c] = "stopping"]
      /\ UNCHANGED <<seq, asked, path, using, outcome, named, idle, kernelVars, readerVars, held, files, deaths>>
  BY <1>1 DEF Timeout, Late
<1>3. Asking(c) /\ Busy(c) /\ Holds(c) /\ Attends(c, w) /\ Pair(c, w)
  BY <1>1, <1>2 DEF Asking, Busy, Holds, Attends, BusyInv
<1>4. proc[w] \in {"none", "running", "dead", "closed"} /\ p \in {"none", "running", "dead", "closed"}
      /\ (p = "none" <=> proc[w] = "none")
  BY DEF TypeOK, ProcessesTyped
<1> HIDE DEF p
<1>5. \A d \in Callers : using[d] = w => d = c
  BY <1>1, <1>3 DEF OneOwner
<1>6. /\ proc'[w] = p /\ proc' \in [Workers -> {"none", "running", "dead", "closed"}]
      /\ \A u \in Workers \ {w} : proc'[u] = proc[u]
      /\ \A u \in Workers : load'[u] = load[u] /\ stdin'[u] = stdin[u] /\ work'[u] = work[u] /\ held'[u] = held[u]
                            /\ stderr'[u] = stderr[u] /\ events'[u] = events[u] /\ latest'[u] = latest[u]
  BY <1>2, <1>4 DEF TypeOK, ProcessesTyped, kernelVars, readerVars
<1>7. /\ pc'[c] = "stopping" /\ path' = path /\ asked' = asked /\ using' = using /\ OtherCallers(c)
      /\ pc' \in [Callers -> {"idle", "taking", "reusing", "starting", "sending", "waiting", "stopping", "returning"}]
  <2>1. CallersTyped
    BY DEF TypeOK
  <2> QED BY <1>2, <2>1 DEF CallersTyped, OtherCallers, SameCaller
<1>8. TypeOK'
  BY <1>2, <1>6, <1>7 DEF TypeOK, CallersTyped, ProcessesTyped, PoolTyped, kernelVars, readerVars
<1>9. OtherWorkers(w)
  BY <1>6 DEF OtherWorkers, SameWorker
<1>10. Idle' = Idle /\ idle' = idle /\ files' = files /\ seq' = seq
  BY <1>2 DEF Idle
<1>11. Holds(c)' /\ Busy(c)' /\ Asking(c)' /\ ~ Before(c)'
  BY <1>7 DEF Asking, Holds, Before, Busy
<1>12. \A d \in Callers : (Asking(d)' <=> Asking(d)) /\ (Before(d)' => Before(d)) /\ (Holds(d)' <=> Holds(d))
  BY <1>3, <1>7, <1>11 DEF Asking, Before, Holds, OtherCallers, SameCaller
<1>13. OneOwner'
  <2>1. \A u \in Workers : proc'[u] # "none" <=> proc[u] # "none"
    BY <1>4, <1>6
  <2> QED BY <1>7, <1>10, <1>12, <2>1 DEF OneOwner
<1>14. KeepsLight'
  <2>1. \A v \in Idle : v \in Workers
    BY IdleIsQuiet
  <2> QED BY <1>6, <1>10, <2>1 DEF KeepsLight
<1>15. PathsInv'
  <2>1. \A u \in Workers : work'[u] = work[u]
    BY <1>6
  <2> QED BY <1>7, <1>10, <1>12, <2>1 DEF PathsInv
<1>16. FilesInv'
  BY <1>7, <1>10, <1>12 DEF FilesInv
<1>17. Pair(c, w)'
  <2>1. path'[c] = path[c] /\ asked'[c] = asked[c]
    BY <1>7
  <2>2. Serves(c, w)'
    BY <1>3, <1>6, <2>1 DEF Pair, Serves
  <2>3. Weight(w)' = Weight(w) /\ Reply(c)' = Reply(c) /\ (Done(w)' <=> Done(w))
    BY <1>6, <2>1 DEF Weight, Reply, Done
  <2>4. Speaks(c, w)'
    <3>1. ~ AllRead(c, w) /\ events'[w] = <<>> /\ stderr'[w] = stderr[w] /\ held'[w] = held[w] /\ load'[w] = load[w]
      <4>1. Len(events[w]) = 0
        BY <1>2
      <4> QED BY <1>2, <1>6, <4>1 DEF AllRead
    <3>2. NotYet(w) => NotYet(w)'
      BY <1>2, <3>1 DEF NotYet, OnlyStages, OnlyEnd
    <3>3. Said(c, w) => Said(c, w)'
      BY <2>3, <3>1 DEF Said, OnlyStages
    <3>4. HalfRead(c, w) => HalfRead(c, w)'
      BY <1>2, <2>3, <3>1 DEF HalfRead
    <3> QED BY <1>3, <3>1, <3>2, <3>3, <3>4 DEF Pair, Speaks
  <2>5. Traces(c, w)'
    <3>1. latest'[w] = latest[w] /\ work'[w] = work[w] /\ stderr'[w] = stderr[w]
      BY <1>6
    <3> QED BY <1>3, <2>1, <3>1 DEF Pair, Traces, NoStage, StepOf
  <2> QED BY <2>2, <2>4, <2>5 DEF Pair
<1>18. QuietInv' /\ BusyInv'
  <2>1. using[c] = w /\ using'[c] = w /\ \A d \in Callers \ {c} : using[d] # w
    BY <1>1, <1>5, <1>7
  <2> QED BY <1>7, <1>9, <1>11, <1>17, <2>1, MoveOne
<1> QED BY <1>8, <1>13, <1>14, <1>15, <1>16, <1>18

(* What a waiting call hears of a reply is its own, at last. *)
LEMMA HeardReply ==
  ASSUME Inv, NEW c \in Callers, NEW w \in Workers, w = using[c], pc[c] = "waiting", events[w] # <<>>,
         events[w][1].kind = "reply"
  PROVE  /\ Attends(c, w) /\ Pair(c, w) /\ events[w][1] = Reply(c) /\ Done(w) /\ stderr[w] = <<>>
         /\ OnlyEnd(events[w], 2) /\ held[w] = load[w]
         /\ (\E i \in 1 .. Len(events[w]) : events[w][i] = Eof) => proc[w] = "closed"
<1>1. Attends(c, w) /\ Pair(c, w)
  BY DEF Inv, Attends, Busy, BusyInv
<1>2. events[w][1] # Eof /\ events[w][1] # Weight(w) /\ ~ OnlyEnd(events[w], 1)
  BY FrontIs, LinesSaid
<1>3. AllRead(c, w)
  BY <1>1, <1>2 DEF Pair, Speaks, NotYet, Said, HalfRead
<1> QED BY <1>1, <1>2, <1>3 DEF AllRead

LEMMA HearReplyKeeps ==
  ASSUME Inv, NEW c \in Callers, HearReply(c)
  PROVE  Inv'
<1> USE DEF Inv
<1>1. PICK w \in Workers : w = using[c]
  BY HeldIs DEF HearReply, Waits, Holds
<1>2. pc[c] = "waiting" /\ events[w] # <<>> /\ Event(c) = events[w][1] /\ events[w][1].kind = "reply"
  BY <1>1, FrontIs DEF HearReply, Waits, Event
<1>3. /\ Attends(c, w) /\ Pair(c, w) /\ events[w][1] = Reply(c) /\ Done(w) /\ stderr[w] = <<>>
      /\ OnlyEnd(events[w], 2) /\ held[w] = load[w]
      /\ (\E i \in 1 .. Len(events[w]) : events[w][i] = Eof) => proc[w] = "closed"
  BY <1>1, <1>2, HeardReply
<1>4. Event(c).path = path[c] /\ Asking(c) /\ Holds(c)
  BY <1>2, <1>3, LinesSaid DEF Asking, Holds
<1>5. CASE {f \in files : f.path = path[c]} = {}
  <2>1. "host" \in Calls!Failures /\ latest[using[c]] \in Stages
    BY <1>1, StagesAre DEF Calls!Failures
  <2> QED BY <1>4, <1>5, <2>1, FailStep DEF HearReply
<1>6. CASE {f \in files : f.path = path[c]} # {}
  <2>1. PICK f \in files :
        /\ outcome' = [outcome EXCEPT ![c] = Calls!Answer(f.request)]
        /\ events' = [events EXCEPT ![w] = Tail(events[w])]
        /\ pc' = [pc EXCEPT ![c] = "returning"]
        /\ UNCHANGED <<seq, asked, path, using, named, idle, proc, kernelVars, stderr, latest, held, files, deaths>>
    BY <1>1, <1>4, <1>6 DEF HearReply, Consume
  <2>2. /\ Tail(events[w]) \in Seq(Lines) /\ OnlyEnd(Tail(events[w]), 1)
        /\ (Tail(events[w]) # <<>> => proc[w] = "closed")
    <3> DEFINE n == Len(events[w])
    <3>1. /\ Tail(events[w]) \in Seq(Lines) /\ Len(Tail(events[w])) = n - 1 /\ n \in Nat \ {0}
          /\ \A i \in 1 .. n - 1 : Tail(events[w])[i] = events[w][i + 1]
      BY <1>2, FrontIs
    <3>2. OnlyEnd(Tail(events[w]), 1)
      <4>1. 1 \in 1 .. 3 /\ 1 + 1 = 2
        OBVIOUS
      <4> QED BY <1>2, <1>3, <4>1, FrontIs
    <3>3. ASSUME Tail(events[w]) # <<>> PROVE proc[w] = "closed"
      <4>1. Len(Tail(events[w])) # 0
        BY <3>1, <3>3, EmptyIs
      <4>2. 2 \in 1 .. n /\ 2 \in 2 .. n
        <5>1. n - 1 # 0 /\ n \in Nat \ {0}
          BY <3>1, <4>1
        <5> HIDE DEF n
        <5> QED BY ONLY <5>1
      <4>3. events[w][2] = Eof
        BY <1>3, <4>2 DEF OnlyEnd
      <4> QED BY <1>3, <4>2, <4>3
    <3> QED BY <3>1, <3>2, <3>3
  <2>3. /\ events'[w] = Tail(events[w]) /\ events' \in [Workers -> Seq(Lines)]
        /\ \A u \in Workers \ {w} : events'[u] = events[u]
        /\ \A u \in Workers : load'[u] = load[u] /\ stdin'[u] = stdin[u] /\ work'[u] = work[u] /\ held'[u] = held[u]
                              /\ stderr'[u] = stderr[u] /\ proc'[u] = proc[u] /\ latest'[u] = latest[u]
    <3>1. events \in [Workers -> Seq(Lines)]
      BY DEF TypeOK, ProcessesTyped
    <3>2. /\ events'[w] = Tail(events[w]) /\ events' \in [Workers -> Seq(Lines)]
          /\ \A u \in Workers \ {w} : events'[u] = events[u]
      BY <2>1, <2>2, <3>1, Put
    <3> QED BY <2>1, <3>2 DEF kernelVars
  <2>4. /\ pc'[c] = "returning" /\ path' = path /\ asked' = asked /\ using' = using /\ OtherCallers(c) /\ CallersTyped'
    <3>1. CallersTyped /\ f.request \in Requests
      BY DEF TypeOK, PoolTyped, Frames
    <3>2. Calls!Answer(f.request) \in [kind : Calls!Failures \cup {"answered", "none"}, of : Requests \cup {NoRequest}]
      BY <3>1 DEF Calls!Answer
    <3>3. outcome' \in [Callers -> [kind : Calls!Failures \cup {"answered", "none"}, of : Requests \cup {NoRequest}]]
      BY <2>1, <3>1, <3>2 DEF CallersTyped
    <3>4. /\ pc'[c] = "returning" /\ path' = path /\ asked' = asked /\ using' = using /\ OtherCallers(c)
          /\ pc' \in [Callers -> {"idle", "taking", "reusing", "starting", "sending", "waiting", "stopping", "returning"}]
      BY <2>1, <3>1 DEF CallersTyped, OtherCallers, SameCaller
    <3> QED BY <2>1, <3>1, <3>3, <3>4 DEF CallersTyped
  <2>5. TypeOK'
    BY <2>1, <2>3, <2>4 DEF TypeOK, ProcessesTyped, PoolTyped, kernelVars
  <2>6. OtherWorkers(w)
    BY <2>3 DEF OtherWorkers, SameWorker
  <2>7. Idle' = Idle /\ idle' = idle /\ files' = files /\ seq' = seq
    BY <2>1 DEF Idle
  <2>8. Holds(c)' /\ ~ Busy(c)' /\ Asking(c)' /\ ~ Before(c)'
    BY <2>4 DEF Asking, Holds, Before, Busy
  <2>9. \A d \in Callers : (Asking(d)' <=> Asking(d)) /\ (Before(d)' => Before(d)) /\ (Holds(d)' <=> Holds(d))
    BY <1>4, <2>4, <2>8 DEF Asking, Before, Holds, OtherCallers, SameCaller
  <2>10. OneOwner'
    BY <2>3, <2>4, <2>7, <2>9 DEF OneOwner
  <2>11. KeepsLight'
    <3>1. \A v \in Idle : v \in Workers
      BY IdleIsQuiet
    <3> QED BY <2>3, <2>7, <3>1 DEF KeepsLight
  <2>12. PathsInv'
    <3>1. \A u \in Workers : work'[u] = work[u]
      BY <2>3
    <3> QED BY <2>4, <2>7, <2>9, <3>1 DEF PathsInv
  <2>13. FilesInv'
    BY <2>4, <2>7, <2>9 DEF FilesInv
  <2>14. Quiet(w)'
    BY <1>3, <2>2, <2>3 DEF Quiet, Done, OnlyEnd
  <2>15. QuietInv' /\ BusyInv'
    <3>1. using[c] = w /\ using'[c] = w
      BY <1>1, <2>4
    <3>2. \A d \in Callers \ {c} : using[d] # w
      BY <1>3, OnePerWorker
    <3> QED BY <2>4, <2>6, <2>8, <2>14, <3>1, <3>2, MoveOne
  <2> QED BY <2>5, <2>10, <2>11, <2>12, <2>13, <2>15
<1> QED BY <1>5, <1>6

LEMMA ReuseBreaksKeeps ==
  ASSUME Inv, NEW c \in Callers, ReuseBreaks(c)
  PROVE  Inv'
<1> USE DEF Inv
<1>1. PICK w \in Workers : w = using[c]
  BY HeldIs DEF ReuseBreaks, Holds
<1>2. /\ pc[c] = "reusing" /\ Dropped({w}) /\ using' = [using EXCEPT ![c] = NoWorker]
      /\ pc' = [pc EXCEPT ![c] = "starting"]
      /\ UNCHANGED <<seq, asked, path, outcome, named, idle, files, deaths>>
  BY <1>1 DEF ReuseBreaks
<1>3. ProcessesTyped' /\ Drops({w})
  BY <1>2, DroppedDoes DEF TypeOK
<1>4. /\ pc'[c] = "starting" /\ path' = path /\ asked' = asked /\ using'[c] = NoWorker /\ OtherCallers(c) /\ CallersTyped'
  <2>1. CallersTyped
    BY DEF TypeOK
  <2>2. pc'[c] = "starting" /\ path' = path /\ asked' = asked /\ using'[c] = NoWorker /\ OtherCallers(c)
    BY <1>2, <2>1 DEF CallersTyped, OtherCallers, SameCaller
  <2> QED BY <1>2, <2>1, <2>2 DEF CallersTyped
<1>5. TypeOK'
  BY <1>2, <1>3, <1>4 DEF TypeOK, PoolTyped
<1>6. Idle' = Idle /\ idle' = idle /\ files' = files /\ seq' = seq
  BY <1>2 DEF Idle
<1>7. Holds(c) /\ ~ Holds(c)' /\ ~ Busy(c) /\ ~ Busy(c)' /\ Before(c) /\ Before(c)'
  BY <1>2, <1>4 DEF Holds, Before, Busy
<1>8. \A d \in Callers : using[d] = w => d = c
  BY <1>1, <1>7 DEF OneOwner
<1>9. w # NoWorker /\ NoWorker \notin Idle /\ w \notin Idle
  BY <1>1, PoolAssumption, IdleIsQuiet DEF OneOwner
<1>10. OneOwner'
  <2>1. \A d \in Callers \ {c} : (Holds(d)' <=> Holds(d)) /\ using'[d] = using[d]
    BY <1>4 DEF Holds, OtherCallers, SameCaller
  <2>2. \A d \in Callers : Holds(d)' <=> using'[d] # NoWorker
    BY <1>4, <1>7, <2>1 DEF OneOwner
  <2>3. \A d, e \in Callers : (Holds(d)' /\ using'[d] = using'[e]) => d = e
    BY <1>4, <1>7, <2>1, <2>2 DEF OneOwner
  <2>4. \A d \in Callers : using'[d] \notin Idle
    BY <1>4, <1>9, <2>1 DEF OneOwner
  <2>5. ASSUME NEW v \in Workers PROVE proc'[v] # "none" <=> v \in Idle \/ \E d \in Callers : using'[d] = v
    <3>1. v # NoWorker
      BY PoolAssumption
    <3>2. CASE v = w
      <4>1. proc'[v] = "none"
        BY <1>3, <3>2 DEF Drops, Gone
      <4>2. \A d \in Callers : using'[d] # v
        BY <1>4, <1>8, <2>1, <3>1, <3>2
      <4> QED BY <1>9, <3>2, <4>1, <4>2
    <3>3. CASE v # w
      <4>1. \A d \in Callers : using'[d] = v <=> using[d] = v
        BY <1>1, <1>4, <2>1, <3>1, <3>3
      <4>2. proc'[v] = proc[v]
        BY <1>3, <3>3 DEF Drops, SameWorker
      <4>3. proc[v] # "none" <=> v \in Idle \/ \E d \in Callers : using[d] = v
        BY DEF OneOwner
      <4> QED BY <4>1, <4>2, <4>3
    <3> QED BY <3>2, <3>3
  <2> QED BY <1>6, <2>2, <2>3, <2>4, <2>5 DEF OneOwner
<1> DEFINE S == {w}
<1>11. /\ Drops(S) /\ \A v \in Workers : Busy(c) /\ using[c] = v => v \in S
       /\ \A d \in Callers \ {c} : using[d] \notin S
  BY <1>3, <1>7, <1>8
<1> HIDE DEF S
<1>12. Idle' \subseteq Idle /\ files' \subseteq files /\ seq' = seq /\ path'[c] = path[c] /\ asked'[c] = asked[c]
  BY <1>4, <1>6
<1> QED BY <1>4, <1>5, <1>7, <1>10, <1>11, <1>12, DropStep

-----------------------------------------------------------------------------
(* The pool *)

LEMMA AfterIs ==
  ASSUME TypeOK, NEW i \in 1 .. Len(idle)
  PROVE  /\ After(i) \in Seq(Workers) /\ Len(idle) \in Nat /\ Len(After(i)) = Len(idle) - i
         /\ \A j \in 1 .. Len(idle) - i : After(i)[j] = idle[i + j]
<1>1. idle \in Seq(Workers) /\ Len(idle) \in Nat
  BY DEF TypeOK, PoolTyped
<1>2. i + 1 \in 1 .. Len(idle) + 1
  BY <1>1
<1> QED BY <1>1, <1>2 DEF After

LEMMA TakeWarmKeeps ==
  ASSUME Inv, NEW c \in Callers, TakeWarm(c)
  PROVE  Inv'
<1> USE DEF Inv
<1>1. PICK i \in 1 .. Len(idle) :
      /\ Alive(idle[i])
      /\ using' = [using EXCEPT ![c] = idle[i]]
      /\ Dropped({idle[j] : j \in 1 .. i - 1})
      /\ idle' = After(i)
  BY DEF TakeWarm
<1> DEFINE w == idle[i]
           S == {idle[j] : j \in 1 .. i - 1}
           n == Len(idle)
<1>2. /\ pc[c] = "taking" /\ pc' = [pc EXCEPT ![c] = "reusing"] /\ UNCHANGED <<seq, asked, path, outcome, named, files, deaths>>
  BY DEF TakeWarm
<1>3. n \in Nat /\ n <= MaxIdle /\ i \in 1 .. n /\ w \in Workers /\ w \in Idle
  BY DEF TypeOK, PoolTyped, Idle
<1>4. ProcessesTyped' /\ Drops(S)
  BY <1>1, DroppedDoes DEF TypeOK
<1>5. /\ idle' \in Seq(Workers) /\ Len(idle') = n - i /\ \A j \in 1 .. n - i : idle'[j] = idle[i + j]
  BY <1>1, AfterIs
<1>6. \A j, k \in 1 .. n : idle[j] = idle[k] => j = k
  BY DEF OneOwner
<1>7. /\ \A j \in 1 .. i - 1 : j \in 1 .. n /\ j # i /\ j < i
      /\ \A j \in 1 .. n - i : i + j \in 1 .. n /\ i + j # i /\ i + j > i
      /\ \A j \in 1 .. n : j \in 1 .. i - 1 \/ j = i \/ (j - i \in 1 .. n - i /\ i + (j - i) = j)
      /\ \A j, k \in 1 .. n - i : i + j = i + k => j = k
      /\ n - i <= n
  BY <1>3
<1> HIDE DEF w, n
<1>8. Idle' \subseteq Idle /\ w \notin Idle' /\ w \notin S /\ S \subseteq Idle /\ \A v \in S : v \notin Idle'
  <2>1. ASSUME NEW j \in 1 .. n - i PROVE idle'[j] \in Idle /\ idle'[j] # w /\ idle'[j] \notin S
    <3>1. idle'[j] = idle[i + j] /\ i + j \in 1 .. n /\ i + j # i /\ i + j > i
      BY <1>5, <1>7
    <3>2. idle[i + j] \in Idle /\ idle[i + j] # w
      BY <1>3, <1>6, <3>1 DEF Idle, w, n
    <3>3. ASSUME NEW k \in 1 .. i - 1 PROVE idle[i + j] # idle[k]
      BY <1>3, <1>6, <1>7, <3>1
    <3> QED BY <3>1, <3>2, <3>3
  <2>2. Idle' = {idle'[j] : j \in 1 .. n - i}
    BY <1>5 DEF Idle
  <2>3. ASSUME NEW k \in 1 .. i - 1 PROVE idle[k] \in Idle /\ idle[k] # w
    BY <1>3, <1>6, <1>7 DEF Idle, w, n
  <2> QED BY <2>1, <2>2, <2>3
<1>9. Idle \subseteq S \cup {w} \cup Idle'
  <2>1. ASSUME NEW j \in 1 .. n PROVE idle[j] \in S \cup {w} \cup Idle'
    <3>1. CASE j \in 1 .. i - 1
      BY <3>1
    <3>2. CASE j = i
      BY <3>2 DEF w
    <3>3. CASE j - i \in 1 .. n - i /\ i + (j - i) = j
      <4>1. idle'[j - i] = idle[j] /\ Len(idle') = n - i
        BY <1>5, <3>3
      <4> QED BY <3>3, <4>1 DEF Idle
    <3> QED BY <1>7, <3>1, <3>2, <3>3
  <2> QED BY <2>1 DEF Idle, n
<1>10. \A j, k \in 1 .. Len(idle') : idle'[j] = idle'[k] => j = k
  <2> SUFFICES ASSUME NEW j \in 1 .. n - i, NEW k \in 1 .. n - i, idle'[j] = idle'[k] PROVE j = k
    BY <1>5
  <2>1. idle[i + j] = idle[i + k] /\ i + j \in 1 .. n /\ i + k \in 1 .. n
    BY <1>5, <1>7
  <2>2. i + j = i + k
    BY <1>6, <2>1 DEF n
  <2> QED BY <1>7, <2>2
<1> HIDE DEF S
<1>11. /\ pc'[c] = "reusing" /\ path' = path /\ asked' = asked /\ using'[c] = w /\ OtherCallers(c) /\ CallersTyped'
  <2>1. CallersTyped
    BY DEF TypeOK
  <2>2. pc'[c] = "reusing" /\ path' = path /\ asked' = asked /\ using'[c] = w /\ OtherCallers(c)
    BY <1>1, <1>2, <2>1 DEF CallersTyped, OtherCallers, SameCaller, w
  <2> QED BY <1>1, <1>2, <1>3, <2>1, <2>2 DEF CallersTyped, w
<1>12. TypeOK'
  <2>1. n - i <= MaxIdle
    BY <1>3, PoolAssumption
  <2> QED BY <1>2, <1>4, <1>5, <1>11, <2>1 DEF TypeOK, PoolTyped
<1>13. Holds(c)' /\ ~ Holds(c) /\ ~ Busy(c) /\ ~ Busy(c)' /\ Before(c) /\ Before(c)'
  BY <1>2, <1>11 DEF Holds, Before, Busy
<1>14. /\ w # NoWorker /\ \A d \in Callers : using[d] # w /\ using[d] \notin S
       /\ using[c] = NoWorker
  BY <1>3, <1>8, <1>13, PoolAssumption DEF OneOwner
<1>15. OneOwner'
  <2>1. \A d \in Callers \ {c} : (Holds(d)' <=> Holds(d)) /\ using'[d] = using[d]
    BY <1>11 DEF Holds, OtherCallers, SameCaller
  <2>2. \A d \in Callers : Holds(d)' <=> using'[d] # NoWorker
    BY <1>11, <1>13, <1>14, <2>1 DEF OneOwner
  <2>3. \A d, e \in Callers : (Holds(d)' /\ using'[d] = using'[e]) => d = e
    BY <1>11, <1>13, <1>14, <2>1 DEF OneOwner
  <2>4. \A d \in Callers : using'[d] \notin Idle'
    BY <1>8, <1>11, <2>1 DEF OneOwner
  <2>5. ASSUME NEW v \in Workers PROVE proc'[v] # "none" <=> v \in Idle' \/ \E d \in Callers : using'[d] = v
    <3>1. v # NoWorker
      BY PoolAssumption
    <3>2. proc[v] # "none" <=> v \in Idle \/ \E d \in Callers : using[d] = v
      BY DEF OneOwner
    <3>3. CASE v \in S
      <4>1. proc'[v] = "none" /\ v \notin Idle'
        BY <1>4, <1>8, <3>3 DEF Drops, Gone
      <4>2. \A d \in Callers : using'[d] # v
        BY <1>8, <1>11, <1>14, <2>1, <3>3
      <4> QED BY <4>1, <4>2
    <3>4. CASE v = w
      <4>1. proc'[v] = proc[v]
        BY <1>4, <1>8, <3>4 DEF Drops, SameWorker
      <4> QED BY <1>3, <1>11, <3>2, <3>4, <4>1
    <3>5. CASE v \notin S /\ v # w
      <4>1. proc'[v] = proc[v]
        BY <1>4, <3>5 DEF Drops, SameWorker
      <4>2. \A d \in Callers : using'[d] = v <=> using[d] = v
        BY <1>11, <1>14, <2>1, <3>1, <3>5
      <4>3. v \in Idle <=> v \in Idle'
        BY <1>8, <1>9, <3>5
      <4> QED BY <3>2, <4>1, <4>2, <4>3
    <3> QED BY <3>3, <3>4, <3>5
  <2> QED BY <1>10, <2>2, <2>3, <2>4, <2>5 DEF OneOwner
<1>16. /\ \A v \in Workers : Busy(c) /\ using[c] = v => v \in S
       /\ \A d \in Callers \ {c} : using[d] \notin S
       /\ seq' = seq /\ files' \subseteq files /\ path'[c] = path[c] /\ asked'[c] = asked[c]
  BY <1>2, <1>11, <1>13, <1>14
<1> QED BY <1>4, <1>8, <1>11, <1>12, <1>13, <1>15, <1>16, DropStep

LEMMA TakeNoneKeeps ==
  ASSUME Inv, NEW c \in Callers, TakeNone(c)
  PROVE  Inv'
<1> USE DEF Inv
<1>1. /\ pc[c] = "taking" /\ Dropped(Idle) /\ idle' = <<>> /\ pc' = [pc EXCEPT ![c] = "starting"]
      /\ UNCHANGED <<seq, asked, path, using, outcome, named, files, deaths>>
  BY DEF TakeNone, Idle
<1>2. ProcessesTyped' /\ Drops(Idle)
  BY <1>1, DroppedDoes DEF TypeOK
<1>3. Idle' = {} /\ Len(idle') = 0
  BY <1>1 DEF Idle
<1>4. /\ pc'[c] = "starting" /\ path' = path /\ asked' = asked /\ using' = using /\ OtherCallers(c) /\ CallersTyped'
  <2>1. CallersTyped
    BY DEF TypeOK
  <2>2. pc'[c] = "starting" /\ path' = path /\ asked' = asked /\ using' = using /\ OtherCallers(c)
    BY <1>1, <2>1 DEF CallersTyped, OtherCallers, SameCaller
  <2> QED BY <1>1, <2>1, <2>2 DEF CallersTyped
<1>5. TypeOK'
  <2>1. 0 <= MaxIdle /\ idle' \in Seq(Workers)
    BY <1>1, PoolAssumption
  <2> QED BY <1>1, <1>2, <1>3, <1>4, <2>1 DEF TypeOK, PoolTyped
<1>6. ~ Holds(c)' /\ ~ Holds(c) /\ ~ Busy(c) /\ ~ Busy(c)' /\ Before(c) /\ Before(c)'
  BY <1>1, <1>4 DEF Holds, Before, Busy
<1>7. OneOwner'
  <2>1. \A d \in Callers : Holds(d)' <=> Holds(d)
    BY <1>4, <1>6 DEF Holds, OtherCallers, SameCaller
  <2>2. ASSUME NEW v \in Workers PROVE proc'[v] # "none" <=> \E d \in Callers : using[d] = v
    <3>1. proc[v] # "none" <=> v \in Idle \/ \E d \in Callers : using[d] = v
      BY DEF OneOwner
    <3>2. CASE v \in Idle
      <4>1. proc'[v] = "none"
        BY <1>2, <3>2 DEF Drops, Gone
      <4> QED BY <3>2, <4>1 DEF OneOwner
    <3>3. CASE v \notin Idle
      BY <1>2, <3>1, <3>3 DEF Drops, SameWorker
    <3> QED BY <3>2, <3>3
  <2>3. \A j, k \in 1 .. Len(idle') : idle'[j] = idle'[k] => j = k
    BY <1>3
  <2> QED BY <1>3, <1>4, <2>1, <2>2, <2>3 DEF OneOwner
<1> DEFINE S == Idle
<1>8. /\ Drops(S) /\ \A v \in Workers : Busy(c) /\ using[c] = v => v \in S
      /\ \A d \in Callers \ {c} : using[d] \notin S
      /\ Idle' \subseteq Idle /\ files' \subseteq files /\ seq' = seq /\ path'[c] = path[c] /\ asked'[c] = asked[c]
  BY <1>1, <1>2, <1>3, <1>4, <1>6 DEF OneOwner
<1> HIDE DEF S
<1> QED BY <1>4, <1>5, <1>6, <1>7, <1>8, DropStep

LEMMA ReleaseKeeps ==
  ASSUME Inv, NEW c \in Callers, Release(c)
  PROVE  Inv'
<1> USE DEF Inv
<1>1. PICK w \in Workers : w = using[c]
  BY HeldIs DEF Release, Holds
<1> DEFINE n == Len(idle)
<1>2. /\ pc[c] = "returning" /\ Ends(c) /\ files' = {f \in files : f.path # path[c]} /\ UNCHANGED <<seq, outcome, named, deaths>>
      /\ IF Kept(w) THEN idle' = Append(idle, w) /\ UNCHANGED workerVars ELSE Dropped({w}) /\ UNCHANGED idle
  BY <1>1 DEF Release
<1>3. Asking(c) /\ Holds(c) /\ ~ Busy(c)
  BY <1>2 DEF Asking, Holds, Busy
<1>4. pc'[c] = "idle" /\ using'[c] = NoWorker /\ OtherCallers(c) /\ CallersTyped' /\ files' \subseteq files
  BY <1>2, EndsDoes DEF TypeOK, CallersTyped
<1>5. CASE ~ Kept(w)
  <2>1. ProcessesTyped' /\ Drops({w}) /\ idle' = idle
    BY <1>2, <1>5, DroppedDoes DEF TypeOK
  <2>2. TypeOK'
    BY <1>2, <1>4, <2>1 DEF TypeOK, PoolTyped
  <2> QED BY <1>1, <1>2, <1>3, <1>4, <2>1, <2>2, LeaveStep
<1>6. CASE Kept(w)
  <2>1. held[w] = 0 /\ n < MaxIdle /\ idle' = Append(idle, w) /\ UNCHANGED workerVars
    BY <1>2, <1>6 DEF Kept
  <2>2. n \in Nat /\ idle' \in Seq(Workers) /\ Len(idle') = n + 1 /\ (\A i \in 1 .. n : idle'[i] = idle[i]) /\ idle'[n + 1] = w
    BY <2>1, AppendIs DEF TypeOK, PoolTyped
  <2>3. \A i \in 1 .. n + 1 : i \in 1 .. n \/ i = n + 1
    BY <2>2
  <2>4. n + 1 <= MaxIdle
    BY <2>1, <2>2, PoolAssumption
  <2>5. Idle' = Idle \cup {w}
    <3>1. n + 1 \in 1 .. n + 1 /\ \A i \in 1 .. n : i \in 1 .. n + 1
      BY <2>2
    <3>2. Idle' = {idle'[i] : i \in 1 .. n + 1}
      BY <2>2 DEF Idle
    <3> QED BY <2>2, <2>3, <3>1, <3>2 DEF Idle
  <2>6. \A d \in Callers : using[d] = w => d = c
    BY <1>1, <1>3 DEF OneOwner
  <2>7. w # NoWorker /\ w \notin Idle /\ NoWorker \notin Idle
    BY <1>1, PoolAssumption, IdleIsQuiet DEF OneOwner
  <2>8. \A i, j \in 1 .. Len(idle') : idle'[i] = idle'[j] => i = j
    <3>1. \A i \in 1 .. n : idle[i] \in Idle
      BY DEF Idle
    <3>2. \A i, j \in 1 .. n : idle[i] = idle[j] => i = j
      BY DEF OneOwner
    <3> QED BY <2>2, <2>3, <2>7, <3>1, <3>2
  <2>9. \A v \in Workers : SameWorker(v)
    BY <2>1 DEF SameWorker, workerVars, kernelVars, readerVars
  <2>10. TypeOK'
    BY <1>2, <1>4, <2>1, <2>2, <2>4 DEF TypeOK, ProcessesTyped, PoolTyped, workerVars, kernelVars, readerVars
  <2> HIDE DEF n
  <2>11. OneOwner'
    <3>1. \A d \in Callers \ {c} : (Holds(d)' <=> Holds(d)) /\ using'[d] = using[d]
      BY <1>4 DEF Holds, OtherCallers, SameCaller
    <3>2. ~ Holds(c)'
      BY <1>4 DEF Holds
    <3>3. \A d \in Callers : Holds(d)' <=> using'[d] # NoWorker
      BY <1>4, <3>1, <3>2 DEF OneOwner
    <3>4. \A d, e \in Callers : (Holds(d)' /\ using'[d] = using'[e]) => d = e
      BY <1>4, <3>1, <3>2, <3>3 DEF OneOwner
    <3>5. \A d \in Callers : using'[d] \notin Idle'
      BY <1>4, <2>5, <2>6, <2>7, <3>1 DEF OneOwner
    <3>6. ASSUME NEW v \in Workers PROVE proc'[v] # "none" <=> v \in Idle' \/ \E d \in Callers : using'[d] = v
      <4>1. proc'[v] = proc[v] /\ v # NoWorker
        BY <2>9, PoolAssumption DEF SameWorker
      <4>2. proc[v] # "none" <=> v \in Idle \/ \E d \in Callers : using[d] = v
        BY DEF OneOwner
      <4>3. CASE v = w
        BY <1>1, <2>5, <4>1, <4>2, <4>3
      <4>4. CASE v # w
        <5>1. \A d \in Callers : using'[d] = v <=> using[d] = v
          BY <1>1, <1>4, <3>1, <4>1, <4>4
        <5> QED BY <2>5, <4>1, <4>2, <4>4, <5>1
      <4> QED BY <4>3, <4>4
    <3> QED BY <2>8, <3>3, <3>4, <3>5, <3>6 DEF OneOwner
  <2>12. KeepsLight'
    <3>1. \A v \in Idle : v \in Workers
      BY IdleIsQuiet
    <3>2. Quiet(w)
      BY <1>3, <2>6 DEF QuietInv, Attends
    <3>3. load[w] = 0
      BY <2>1, <3>2 DEF Quiet
    <3> QED BY <2>5, <2>9, <3>1, <3>3 DEF KeepsLight, SameWorker
  <2>13. ~ Asking(c)' /\ ~ Before(c)' /\ ~ Busy(c)'
    BY <1>4 DEF Asking, Before, Busy
  <2>14. \A d \in Callers : /\ Asking(d)' => Asking(d) /\ path'[d] = path[d] /\ asked'[d] = asked[d]
                            /\ Before(d)' => Before(d) /\ path'[d] = path[d]
    BY <1>4, <2>13 DEF Asking, Before, OtherCallers, SameCaller
  <2>15. PathsInv'
    <3>1. \A u \in Workers : work'[u] = work[u]
      BY <2>9 DEF SameWorker
    <3> QED BY <1>2, <2>14, <3>1 DEF PathsInv
  <2>16. FilesInv'
    BY <1>2, <1>4, <2>14 DEF FilesInv
  <2>17. QuietInv' /\ BusyInv'
    BY <1>3, <1>4, <2>9, <2>13, MoveNone
  <2> QED BY <2>10, <2>11, <2>12, <2>15, <2>16, <2>17
<1> QED BY <1>5, <1>6

-----------------------------------------------------------------------------
(* The invariant holds *)

LEMMA InitInv == Init => Inv
<1> SUFFICES ASSUME Init PROVE Inv
  OBVIOUS
<1>1. TypeOK
  <2>1. CallersTyped
    <3>1. Calls!Nothing \in [kind : Calls!Failures \cup {"answered", "none"}, of : Requests \cup {NoRequest}] /\ 0 \in Paths
      BY DEF Calls!Nothing, Paths
    <3> QED BY <3>1, StagesAre DEF Init, CallersTyped
  <2>2. ProcessesTyped
    <3>1. NoWork \in Works
      BY DEF NoWork, Works, Paths
    <3> QED BY <3>1, StagesAre DEF Init, ProcessesTyped
  <2>3. PoolTyped
    <3>1. 0 <= MaxIdle /\ 0 \in 0 .. MaxCalls /\ 0 \in 0 .. MaxDeaths
      BY PoolAssumption
    <3> QED BY <3>1 DEF Init, PoolTyped
  <2> QED BY <2>1, <2>2, <2>3 DEF TypeOK
<1>2. Idle = {} /\ Len(idle) = 0
  BY DEF Init, Idle
<1>3. \A c \in Callers : ~ Holds(c) /\ ~ Asking(c) /\ ~ Before(c) /\ ~ Busy(c) /\ using[c] = NoWorker
  BY DEF Init, Holds, Asking, Before, Busy
<1>4. OneOwner
  <2>1. \A w \in Workers : proc[w] = "none" /\ w # NoWorker
    BY PoolAssumption DEF Init
  <2> QED BY <1>2, <1>3, <2>1 DEF OneOwner
<1>5. KeepsLight
  BY <1>2 DEF KeepsLight
<1>6. PathsInv
  <2>1. \A w \in Workers : work[w].path <= seq
    BY DEF Init, NoWork
  <2> QED BY <1>3, <2>1 DEF PathsInv
<1>7. FilesInv
  BY DEF Init, FilesInv
<1>8. QuietInv
  <2> SUFFICES ASSUME NEW w \in Workers PROVE Quiet(w)
    BY DEF QuietInv
  <2>1. /\ stdin[w] = <<>> /\ work[w].phase = "reading" /\ stderr[w] = <<>> /\ events[w] = <<>> /\ held[w] = load[w]
    BY DEF Init, NoWork
  <2>2. Len(events[w]) = 0
    BY <2>1
  <2> QED BY <2>1, <2>2 DEF Quiet, OnlyEnd
<1>9. BusyInv
  BY <1>3 DEF BusyInv, Attends
<1> QED BY <1>1, <1>4, <1>5, <1>6, <1>7, <1>8, <1>9 DEF Inv

LEMMA StutterInv == Inv /\ UNCHANGED vars => Inv'
<1> SUFFICES ASSUME Inv, UNCHANGED vars PROVE Inv'
  OBVIOUS
<1>1. UNCHANGED <<seq, pc, asked, path, using, outcome, named, idle>>
  BY DEF vars, callerVars
<1>2. UNCHANGED <<proc, stdin, work, load, stderr, events, latest, held, files, deaths>>
  BY DEF vars, workerVars, kernelVars, readerVars
<1>3. TypeOK'
  BY <1>1, <1>2 DEF Inv, TypeOK, CallersTyped, ProcessesTyped, PoolTyped
<1>4. Idle' = Idle /\ \A c \in Callers : (Holds(c)' <=> Holds(c)) /\ (Asking(c)' <=> Asking(c)) /\ (Before(c)' <=> Before(c))
  BY <1>1 DEF Idle, Holds, Asking, Before
<1>5. OneOwner' /\ KeepsLight'
  BY <1>1, <1>2, <1>4 DEF Inv, OneOwner, KeepsLight
<1>6. PathsInv' /\ FilesInv'
  BY <1>1, <1>2, <1>4 DEF Inv, PathsInv, FilesInv
<1>7. /\ \A c \in Callers : SameCaller(c)
      /\ \A w \in Workers : SameWorker(w)
  BY <1>1, <1>2 DEF SameCaller, SameWorker
<1>8. \A c \in Callers, w \in Workers : Attends(c, w)' <=> Attends(c, w)
  BY <1>1 DEF Attends, Busy
<1>9. QuietInv' /\ BusyInv'
  BY <1>7, <1>8, QuietFrame, PairFrame DEF Inv, QuietInv, BusyInv
<1> QED BY <1>3, <1>5, <1>6, <1>9 DEF Inv

LEMMA NextInv == Inv /\ [Next]_vars => Inv'
<1> SUFFICES ASSUME Inv, [Next]_vars PROVE Inv'
  OBVIOUS
<1>1. ASSUME NEW c \in Callers, CallerStep(c) PROVE Inv'
  BY <1>1, TakeWarmKeeps, TakeNoneKeeps, SpawnKeeps, SpawnFailsKeeps, SendKeeps, ReuseBreaksKeeps, SendBreaksKeeps,
     HearHeldKeeps, HearReplyKeeps, HearEndKeeps, TimeoutKeeps, StopKeeps, ReleaseKeeps DEF CallerStep
<1>2. ASSUME NEW c \in Callers, NEW q \in Requests, Call(c, q) PROVE Inv'
  BY <1>2, CallKeeps
<1>3. ASSUME NEW w \in Workers, KernelStep(w) PROVE Inv'
  BY <1>3, ReadFrameKeeps, BreadcrumbKeeps, WriteReplyKeeps, AnnounceKeeps, DieKeeps DEF KernelStep
<1>4. ASSUME NEW w \in Workers, ReaderStep(w) PROVE Inv'
  BY <1>4, ReadLineKeeps, ReadEndKeeps DEF ReaderStep
<1>5. CASE UNCHANGED vars
  BY <1>5, StutterInv
<1> QED BY <1>1, <1>2, <1>3, <1>4, <1>5 DEF Next

THEOREM Invariance == Spec => []Inv
BY InitInv, NextInv, PTL DEF Spec

(* Every process has one owner, no worker kept warm holds more than the pool keeps, and no call finds another's
   reply in front of it. *)
THEOREM PoolStaysSound == Spec => []PoolIsSound
<1>1. ASSUME Inv, NEW c \in Callers, pc[c] = "waiting", events[using[c]] # <<>>, Event(c).kind = "reply"
      PROVE  Event(c).path = path[c]
  <2>1. PICK w \in Workers : w = using[c]
    BY <1>1, HeldIs DEF Holds
  <2>2. Event(c) = events[w][1]
    BY <1>1, <2>1, FrontIs DEF Event
  <2>3. events[w][1] = Reply(c)
    BY <1>1, <2>1, <2>2, HeardReply
  <2> QED BY <2>2, <2>3, LinesSaid
<1>2. Inv => PoolIsSound
  BY <1>1 DEF Inv, PoolIsSound, NoStrayReply
<1> QED BY <1>2, Invariance, PTL

-----------------------------------------------------------------------------
(* How a call ends *)

(* A call that has its answer has an answer. *)
HasAnswer(c) == pc[c] = "returning" => outcome[c].kind = "answered"
AnswersInv == \A c \in Callers : HasAnswer(c)

SameOutcome(c) == pc'[c] = pc[c] /\ outcome'[c] = outcome[c]
Onward(c) == pc'[c] \notin {"idle", "returning"} /\ asked'[c] = asked[c]
OnlyOutcome(c) == \A d \in Callers \ {c} : SameOutcome(d) /\ asked'[d] = asked[d]

(* Where a step leaves the calls. *)
LEMMA CallDoes ==
  ASSUME TypeOK, NEW c \in Callers, NEW q \in Requests, Call(c, q)
  PROVE  /\ OnlyOutcome(c) /\ pc[c] = "idle" /\ pc'[c] = "taking" /\ asked'[c] = q
         /\ outcome' = [outcome EXCEPT ![c] = Calls!Nothing]
BY DEF TypeOK, CallersTyped, Call, OnlyOutcome, SameOutcome

LEMMA OnwardDoes ==
  ASSUME TypeOK, NEW c \in Callers,
         TakeWarm(c) \/ TakeNone(c) \/ Spawn(c) \/ Send(c) \/ ReuseBreaks(c) \/ Timeout(c)
  PROVE  OnlyOutcome(c) /\ Onward(c) /\ pc[c] \notin {"idle", "returning"} /\ outcome' = outcome
<1> USE DEF TypeOK, CallersTyped, OnlyOutcome, SameOutcome, Onward
<1>1. CASE TakeWarm(c)
  BY <1>1 DEF TakeWarm
<1>2. CASE TakeNone(c)
  BY <1>2 DEF TakeNone
<1>3. CASE Spawn(c)
  BY <1>3 DEF Spawn
<1>4. CASE Send(c)
  BY <1>4 DEF Send
<1>5. CASE ReuseBreaks(c)
  BY <1>5 DEF ReuseBreaks
<1>6. CASE Timeout(c)
  BY <1>6 DEF Timeout
<1> QED BY <1>1, <1>2, <1>3, <1>4, <1>5, <1>6

LEMMA FailDoes ==
  ASSUME TypeOK, NEW c \in Callers, NEW how, NEW stage, Fails(c, how, stage)
  PROVE  /\ OnlyOutcome(c) /\ pc'[c] = "idle" /\ outcome' = [outcome EXCEPT ![c] = Calls!Failed(how)]
         /\ outcome'[c] = Calls!Failed(how) /\ named'[c] = stage
BY DEF TypeOK, CallersTyped, Fails, Ends, OnlyOutcome, SameOutcome

LEMMA ReleaseDoes ==
  ASSUME TypeOK, NEW c \in Callers, Release(c)
  PROVE  OnlyOutcome(c) /\ pc[c] = "returning" /\ pc'[c] = "idle" /\ outcome' = outcome
BY DEF TypeOK, CallersTyped, Release, Ends, OnlyOutcome, SameOutcome

(* A call that waits hears its own answer, or that there is none. *)
LEMMA HearReplyDoes ==
  ASSUME Inv, NEW c \in Callers, HearReply(c)
  PROVE  /\ pc[c] = "waiting"
         /\ \/ /\ OnlyOutcome(c) /\ pc'[c] = "returning" /\ asked[c] \in Requests
               /\ outcome' = [outcome EXCEPT ![c] = Calls!Answer(asked[c])]
            \/ \E stage : Fails(c, "host", stage)
<1>1. PICK w \in Workers : w = using[c]
  BY HeldIs DEF HearReply, Waits, Holds
<1>2. pc[c] = "waiting" /\ events[w] # <<>> /\ Event(c) = events[w][1] /\ events[w][1].kind = "reply"
  BY <1>1, FrontIs DEF HearReply, Waits, Event
<1>3. Event(c).path = path[c]
  BY <1>1, <1>2, HeardReply, LinesSaid
<1>4. Asking(c) /\ asked[c] \in Requests
  BY <1>2 DEF Inv, PathsInv, Asking
<1>5. CASE {f \in files : f.path = path[c]} = {}
  BY <1>2, <1>3, <1>5 DEF HearReply
<1>6. CASE {f \in files : f.path = path[c]} # {}
  <2>1. PICK f \in {f \in files : f.path = path[c]} : outcome' = [outcome EXCEPT ![c] = Calls!Answer(f.request)]
    BY <1>3, <1>6 DEF HearReply
  <2>2. f.request = asked[c]
    BY <1>4, <2>1 DEF Inv, FilesInv
  <2>3. pc' = [pc EXCEPT ![c] = "returning"] /\ asked' = asked
    BY <1>3, <1>6 DEF HearReply
  <2>4. outcome' = [outcome EXCEPT ![c] = Calls!Answer(asked[c])]
    BY <2>1, <2>2
  <2>5. OnlyOutcome(c) /\ pc'[c] = "returning"
    BY <2>3, <2>4 DEF Inv, TypeOK, CallersTyped, OnlyOutcome, SameOutcome
  <2> QED BY <1>2, <1>4, <2>4, <2>5
<1> QED BY <1>5, <1>6

LEMMA AnswersStep == Inv /\ AnswersInv /\ [Next]_vars => AnswersInv'
<1> SUFFICES ASSUME Inv, AnswersInv, [Next]_vars PROVE AnswersInv'
  OBVIOUS
<1>1. TypeOK
  BY DEF Inv
<1>2. ASSUME NEW c \in Callers, OnlyOutcome(c), pc'[c] # "returning" \/ outcome'[c].kind = "answered" PROVE AnswersInv'
  BY <1>2 DEF AnswersInv, HasAnswer, OnlyOutcome, SameOutcome
<1>3. ASSUME pc' = pc, outcome' = outcome PROVE AnswersInv'
  BY <1>3 DEF AnswersInv, HasAnswer
<1>4. ASSUME NEW c \in Callers, NEW q \in Requests, Call(c, q) PROVE AnswersInv'
  BY <1>1, <1>2, <1>4, CallDoes
<1>5. ASSUME NEW c \in Callers, CallerStep(c) PROVE AnswersInv'
  <2>1. CASE TakeWarm(c) \/ TakeNone(c) \/ Spawn(c) \/ Send(c) \/ ReuseBreaks(c) \/ Timeout(c)
    BY <1>1, <1>2, <2>1, OnwardDoes DEF Onward
  <2>2. CASE SpawnFails(c) \/ SendBreaks(c) \/ HearEnd(c) \/ Stop(c)
    <3>1. PICK how, stage : Fails(c, how, stage)
      BY <2>2 DEF SpawnFails, SendBreaks, HearEnd, Stop
    <3> QED BY <1>1, <1>2, <3>1, FailDoes
  <2>3. CASE HearReply(c)
    <3>1. CASE /\ OnlyOutcome(c) /\ pc'[c] = "returning"
               /\ outcome' = [outcome EXCEPT ![c] = Calls!Answer(asked[c])]
      <4>1. outcome'[c] = Calls!Answer(asked[c])
        BY <1>1, <3>1 DEF TypeOK, CallersTyped
      <4>2. outcome'[c].kind = "answered"
        BY <4>1 DEF Calls!Answer
      <4> QED BY <1>2, <3>1, <4>2
    <3>2. CASE \E stage : Fails(c, "host", stage)
      BY <1>1, <1>2, <3>2, FailDoes
    <3> QED BY <2>3, <3>1, <3>2, HearReplyDoes
  <2>4. CASE Release(c)
    BY <1>1, <1>2, <2>4, ReleaseDoes
  <2>5. CASE HearHeld(c)
    <3>1. UNCHANGED callerVars
      BY <2>5 DEF HearHeld
    <3> QED BY <1>3, <3>1 DEF callerVars
  <2> QED BY <1>5, <2>1, <2>2, <2>3, <2>4, <2>5 DEF CallerStep
<1>6. ASSUME NEW w \in Workers, KernelStep(w) \/ ReaderStep(w) PROVE AnswersInv'
  <2>1. UNCHANGED callerVars
    BY <1>6 DEF KernelStep, ReaderStep, ReadFrame, Breadcrumb, WriteReply, Announce, Die, ReadLine, ReadEnd
  <2> QED BY <1>3, <2>1 DEF callerVars
<1>7. CASE UNCHANGED vars
  BY <1>3, <1>7 DEF vars, callerVars
<1> QED BY <1>4, <1>5, <1>6, <1>7 DEF Next

LEMMA Answers == Spec => []AnswersInv
<1>1. Init => AnswersInv
  BY DEF Init, AnswersInv, HasAnswer
<1> QED BY <1>1, AnswersStep, Invariance, PTL DEF Spec

(* A call fails by a crash where it hears the end of its process, and in time where it has stopped it. *)
LEMMA FailsHow ==
  ASSUME Inv, AnswersInv, [Next]_vars, NEW c \in Callers, NEW how \in {"crashed", "timed out"}, FailsNow(c, how)
  PROVE  IF how = "crashed" THEN HearEnd(c) ELSE Stop(c)
<1>1. TypeOK /\ pc[c] # "idle" /\ pc'[c] = "idle" /\ outcome'[c] = Calls!Failed(how)
  BY DEF Inv, FailsNow
<1>2. Calls!Failed(how).kind = how /\ Calls!Failed("host").kind = "host" /\ Calls!Failed("crashed").kind = "crashed"
      /\ Calls!Failed("timed out").kind = "timed out"
  BY DEF Calls!Failed
<1>3. ASSUME NEW d \in Callers, OnlyOutcome(d) PROVE d = c
  BY <1>1, <1>3 DEF OnlyOutcome, SameOutcome
<1>4. pc' # pc
  BY <1>1
<1>5. ASSUME NEW d \in Callers, NEW q \in Requests, Call(d, q) PROVE FALSE
  BY <1>1, <1>3, <1>5, CallDoes
<1>6. ASSUME NEW w \in Workers, KernelStep(w) \/ ReaderStep(w) PROVE FALSE
  <2>1. UNCHANGED callerVars
    BY <1>6 DEF KernelStep, ReaderStep, ReadFrame, Breadcrumb, WriteReply, Announce, Die, ReadLine, ReadEnd
  <2> QED BY <1>4, <2>1 DEF callerVars
<1>7. ~ UNCHANGED vars
  BY <1>4 DEF vars, callerVars
<1>8. PICK d \in Callers : CallerStep(d)
  BY <1>5, <1>6, <1>7 DEF Next
<1>9. ~ HearHeld(d)
  BY <1>4 DEF HearHeld, callerVars
<1>10. ~ (TakeWarm(d) \/ TakeNone(d) \/ Spawn(d) \/ Send(d) \/ ReuseBreaks(d) \/ Timeout(d))
  BY <1>1, <1>3, OnwardDoes DEF Onward
<1>11. ~ Release(d)
  <2> SUFFICES ASSUME Release(d) PROVE FALSE
    OBVIOUS
  <2>1. d = c /\ pc[c] = "returning" /\ outcome' = outcome
    BY <1>1, <1>3, ReleaseDoes
  <2>2. outcome'[c].kind = "answered"
    BY <2>1 DEF AnswersInv, HasAnswer
  <2> QED BY <1>1, <1>2, <2>2
<1>12. ASSUME NEW x, NEW stage, Fails(d, x, stage) PROVE d = c /\ Calls!Failed(x).kind = how
  <2>1. OnlyOutcome(d) /\ outcome'[d] = Calls!Failed(x)
    BY <1>1, <1>12, FailDoes
  <2>2. d = c
    BY <1>3, <2>1
  <2>3. Calls!Failed(x) = Calls!Failed(how)
    BY <1>1, <2>1, <2>2
  <2> QED BY <1>2, <2>2, <2>3
<1>13. ~ HearReply(d) /\ ~ SpawnFails(d) /\ ~ SendBreaks(d)
  <2>1. \A stage : ~ Fails(d, "host", stage)
    BY <1>2, <1>12
  <2>2. ~ SpawnFails(d) /\ ~ SendBreaks(d)
    BY <2>1 DEF SpawnFails, SendBreaks
  <2>3. ~ HearReply(d)
    BY <1>1, <1>3, <2>1, HearReplyDoes
  <2> QED BY <2>2, <2>3
<1>14. HearEnd(d) \/ Stop(d)
  BY <1>8, <1>9, <1>10, <1>11, <1>13 DEF CallerStep
<1>15. HearEnd(d) => d = c /\ how = "crashed"
  BY <1>2, <1>12 DEF HearEnd
<1>16. Stop(d) => d = c /\ how = "timed out"
  BY <1>2, <1>12 DEF Stop
<1> QED BY <1>14, <1>15, <1>16

(* Once there is anything to hear of a call, its slot has the last breadcrumb. *)
LEMMA SlotIsLast ==
  ASSUME Inv, NEW c \in Callers, Busy(c)
  PROVE  /\ latest[using[c]].path \in {0, path[c]}
         /\ events[using[c]] # <<>> => latest[using[c]] = Reached(c)
<1>1. PICK w \in Workers : w = using[c]
  BY HeldIs DEF Busy, Holds
<1>2. Pair(c, w)
  BY <1>1 DEF Inv, BusyInv, Attends
<1>3. events[w] # <<>> => NoStage(w)
  BY <1>2, LinesSaid DEF Pair, Speaks, NotYet, Said, HalfRead, AllRead, NoStage
<1>4. StepOf(c, w) = Reached(c)
  BY <1>1 DEF StepOf, Reached
<1> QED BY <1>1, <1>2, <1>3, <1>4 DEF Pair, Traces

(* A crash is told with the last breadcrumb the process printed for that call, a timeout with one of that call, and with
   the last one where its reader had anything to say. *)
THEOREM NamesItsStep == Spec => FailuresNameTheStep
<1>1. Inv /\ AnswersInv /\ [Next]_vars => [\A c \in Callers : FailsNow(c, "crashed") => named'[c] = Reached(c)]_vars
  <2> SUFFICES ASSUME Inv, AnswersInv, [Next]_vars, NEW c \in Callers, FailsNow(c, "crashed")
               PROVE  named'[c] = Reached(c)
    OBVIOUS
  <2>1. HearEnd(c)
    BY FailsHow
  <2>2. pc[c] = "waiting" /\ events[using[c]] # <<>> /\ Fails(c, "crashed", latest[using[c]])
    BY <2>1 DEF HearEnd, Waits
  <2>3. named'[c] = latest[using[c]]
    BY <2>2, FailDoes DEF Inv
  <2> QED BY <2>2, <2>3, SlotIsLast DEF Busy
<1>2. Inv /\ AnswersInv /\ [Next]_vars =>
        [\A c \in Callers : FailsNow(c, "timed out") =>
           /\ named'[c].path \in {0, path[c]}
           /\ events[using[c]] # <<>> => named'[c] = Reached(c)]_vars
  <2> SUFFICES ASSUME Inv, AnswersInv, [Next]_vars, NEW c \in Callers, FailsNow(c, "timed out")
               PROVE  /\ named'[c].path \in {0, path[c]}
                      /\ events[using[c]] # <<>> => named'[c] = Reached(c)
    OBVIOUS
  <2>1. Stop(c)
    BY FailsHow
  <2>2. pc[c] = "stopping" /\ Fails(c, "timed out", latest[using[c]])
    BY <2>1 DEF Stop
  <2>3. named'[c] = latest[using[c]]
    BY <2>2, FailDoes DEF Inv
  <2> QED BY <2>2, <2>3, SlotIsLast DEF Busy
<1>3. Spec => CrashNamesTheStep
  BY <1>1, Invariance, Answers, PTL DEF Spec, CrashNamesTheStep
<1>4. Spec => TimeoutNamesAStep
  BY <1>2, Invariance, Answers, PTL DEF Spec, TimeoutNamesAStep
<1> QED BY <1>3, <1>4 DEF FailuresNameTheStep

-----------------------------------------------------------------------------
(* What a caller is promised *)

Asks == [c \in Callers |-> IF pc[c] \in {"idle", "returning"} THEN NoRequest ELSE asked[c]]

LEMMA AskIs ==
  ASSUME NEW c \in Callers, NEW q \in Requests, Asks[c] = NoRequest, Asks' = [Asks EXCEPT ![c] = q],
         outcome' = [outcome EXCEPT ![c] = Calls!Nothing]
  PROVE  Calls!Next
<1>1. Calls!Ask(c, q)
  BY DEF Calls!Ask, Asks
<1> QED BY <1>1 DEF Calls!Next

LEMMA FinishIs ==
  ASSUME NEW c \in Callers, Asks[c] # NoRequest, Asks' = [Asks EXCEPT ![c] = NoRequest],
         NEW o \in {Calls!Answer(Asks[c])} \cup {Calls!Failed(how) : how \in Calls!Failures},
         outcome' = [outcome EXCEPT ![c] = o]
  PROVE  Calls!Next
<1>1. Calls!Finish(c)
  BY DEF Calls!Finish, Asks
<1> QED BY <1>1 DEF Calls!Next

LEMMA StutterIs ==
  ASSUME Asks' = Asks, outcome' = outcome
  PROVE  UNCHANGED Calls!callVars
BY DEF Calls!callVars, Asks

(* The request of one call changes. *)
LEMMA AsksDoes ==
  ASSUME NEW c \in Callers, NEW q, OnlyOutcome(c),
         q = IF pc'[c] \in {"idle", "returning"} THEN NoRequest ELSE asked'[c]
  PROVE  Asks' = [Asks EXCEPT ![c] = q]
BY DEF Asks, OnlyOutcome, SameOutcome

LEMMA CallsStep == Inv /\ [Next]_vars => [Calls!Next]_(Calls!callVars)
<1> SUFFICES ASSUME Inv, [Next]_vars PROVE Calls!Next \/ UNCHANGED Calls!callVars
  BY DEF Calls!callVars
<1>1. TypeOK
  BY DEF Inv
<1>2. \A c \in Callers : Asks[c] = IF pc[c] \in {"idle", "returning"} THEN NoRequest ELSE asked[c]
  BY DEF Asks
<1>3. ASSUME NEW c \in Callers, NEW q \in Requests, Call(c, q) PROVE Calls!Next
  <2>1. Asks[c] = NoRequest /\ Asks' = [Asks EXCEPT ![c] = q] /\ outcome' = [outcome EXCEPT ![c] = Calls!Nothing]
    BY <1>1, <1>2, <1>3, CallDoes, AsksDoes
  <2> QED BY <2>1, AskIs
<1>4. ASSUME NEW c \in Callers, OnlyOutcome(c), Asks'[c] = Asks[c], outcome' = outcome PROVE UNCHANGED Calls!callVars
  <2>1. \A d \in Callers : Asks'[d] = Asks[d]
    BY <1>4 DEF Asks, OnlyOutcome, SameOutcome
  <2>2. Asks' = Asks
    BY <2>1 DEF Asks
  <2> QED BY <1>4, <2>2, StutterIs
<1>5. ASSUME NEW c \in Callers, NEW how \in Calls!Failures, NEW stage, Fails(c, how, stage), pc[c] \notin {"idle", "returning"}
      PROVE  Calls!Next
  <2>1. asked[c] \in Requests
    BY <1>5 DEF Inv, PathsInv, Asking
  <2>2. Asks[c] # NoRequest
    BY <1>2, <1>5, <2>1, PoolAssumption
  <2>3. Asks' = [Asks EXCEPT ![c] = NoRequest] /\ outcome' = [outcome EXCEPT ![c] = Calls!Failed(how)]
    BY <1>1, <1>5, FailDoes, AsksDoes
  <2> QED BY <2>2, <2>3, FinishIs
<1>6. ASSUME NEW c \in Callers, CallerStep(c) PROVE Calls!Next \/ UNCHANGED Calls!callVars
  <2>1. CASE TakeWarm(c) \/ TakeNone(c) \/ Spawn(c) \/ Send(c) \/ ReuseBreaks(c) \/ Timeout(c)
    <3>1. OnlyOutcome(c) /\ Onward(c) /\ pc[c] \notin {"idle", "returning"} /\ outcome' = outcome
      BY <1>1, <2>1, OnwardDoes
    <3>2. Asks'[c] = Asks[c]
      BY <3>1 DEF Asks, Onward
    <3> QED BY <1>4, <3>1, <3>2
  <2>2. CASE SpawnFails(c) \/ SendBreaks(c) \/ HearEnd(c) \/ Stop(c)
    <3>1. PICK how \in Calls!Failures, stage \in {StartingUp, latest[using[c]]} : Fails(c, how, stage)
      <4>1. "host" \in Calls!Failures /\ "crashed" \in Calls!Failures /\ "timed out" \in Calls!Failures
        BY DEF Calls!Failures
      <4> QED BY <2>2, <4>1 DEF SpawnFails, SendBreaks, HearEnd, Stop
    <3>2. pc[c] \notin {"idle", "returning"}
      BY <2>2 DEF SpawnFails, SendBreaks, HearEnd, Stop, Waits
    <3> QED BY <1>5, <3>1, <3>2
  <2>3. CASE HearReply(c)
    <3>1. pc[c] = "waiting"
      BY <2>3, HearReplyDoes
    <3>2. CASE /\ OnlyOutcome(c) /\ pc'[c] = "returning" /\ asked[c] \in Requests
               /\ outcome' = [outcome EXCEPT ![c] = Calls!Answer(asked[c])]
      <4>1. Asks[c] = asked[c] /\ Asks[c] # NoRequest
        BY <1>2, <3>1, <3>2, PoolAssumption
      <4>2. Asks' = [Asks EXCEPT ![c] = NoRequest]
        BY <3>2, AsksDoes
      <4> QED BY <3>2, <4>1, <4>2, FinishIs
    <3>3. CASE \E stage : Fails(c, "host", stage)
      <4>1. "host" \in Calls!Failures
        BY DEF Calls!Failures
      <4> QED BY <1>5, <3>1, <3>3, <4>1
    <3> QED BY <2>3, <3>2, <3>3, HearReplyDoes
  <2>4. CASE Release(c)
    <3>1. OnlyOutcome(c) /\ pc[c] = "returning" /\ pc'[c] = "idle" /\ outcome' = outcome
      BY <1>1, <2>4, ReleaseDoes
    <3>2. Asks'[c] = Asks[c]
      BY <3>1 DEF Asks
    <3> QED BY <1>4, <3>1, <3>2
  <2>5. CASE HearHeld(c)
    <3>1. UNCHANGED callerVars
      BY <2>5 DEF HearHeld
    <3> QED BY <3>1, StutterIs DEF callerVars, Asks
  <2> QED BY <1>6, <2>1, <2>2, <2>3, <2>4, <2>5 DEF CallerStep
<1>7. ASSUME NEW w \in Workers, KernelStep(w) \/ ReaderStep(w) PROVE UNCHANGED Calls!callVars
  <2>1. UNCHANGED callerVars
    BY <1>7 DEF KernelStep, ReaderStep, ReadFrame, Breadcrumb, WriteReply, Announce, Die, ReadLine, ReadEnd
  <2> QED BY <2>1, StutterIs DEF callerVars, Asks
<1>8. CASE UNCHANGED vars
  BY <1>8, StutterIs DEF vars, callerVars, Asks
<1> QED BY <1>3, <1>6, <1>7, <1>8 DEF Next

(* Every call returns the answer to its own request or a failure, whatever process served it. *)
THEOREM KeepsItsPromise == Spec => Implements
<1>1. Init => Calls!Init
  BY DEF Init, Calls!Init
<1> QED BY <1>1, CallsStep, Invariance, PTL DEF Spec, Implements, Calls!Spec

=============================================================================
