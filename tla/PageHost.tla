------------------------------ MODULE PageHost -------------------------------
(***************************************************************************)
(* The host inside a browser tab: the Rust host in a worker                *)
(* (crates/parcad-host/src/page.rs), the worker that drives it             *)
(* (app/src/page/host-worker.ts), the page that starts it (host.ts) and    *)
(* the page's kernel, which runs one request at a time (kernel.ts).        *)
(*                                                                         *)
(* The host cannot wait for the kernel.  A call that needs an answer it    *)
(* does not have unwinds with a ticket; when the ticket is answered the    *)
(* call runs AGAIN FROM THE TOP, finding the answer under the request's    *)
(* key and taking it.  A call is therefore its plan: the keys it asks for, *)
(* in order.  What the host caches (a build, a judged print check: Cached) *)
(* is asked for once; every other measure is asked for on every pass.      *)
(***************************************************************************)
EXTENDS Naturals, Sequences, FiniteSets, SequencesExt

CONSTANTS
    Calls,         \* routes the page asks of its host
    Plan,          \* per call: the kernel requests it makes, by their key
    Saves,         \* calls that write a part before they reply
    Cached,        \* keys whose answer the host keeps
    KernelRounds,  \* KERNEL_ROUNDS
    AnswersKept,   \* answers kept for calls that have not come back
    MaxTrouble     \* bound: kernel failures, panics and traps in all

VARIABLES
    phase,    \* per call: unsent, asked, again, done, refused, lost
    ticket,   \* per call: the ticket it waits for (0: none)
    rounds,   \* per call: kernel rounds so far
    why,      \* per refused call: kernel, loop, panic, trap
    host,     \* the worker that is the tab's host: WANTED, ANSWERS, NEXT_TICKET, caches, files
    again,    \* calls whose ticket was just answered, in the order they waited
    kernelQ,  \* the page's queue: tickets to run, with the worker that asked
    hears,    \* the reply of a host that failed is on its way to the page
    disk,     \* the folder as IndexedDB has it
    trouble   \* failures so far

vars == <<phase, ticket, rounds, why, host, again, kernelQ, hears, disk, trouble>>

Keys == UNION {Range(Plan[c]) : c \in Calls}

Fresh(gen, folder) ==
    [gen |-> gen, wanted |-> <<>>, answers |-> <<>>, kept |-> {}, failed |-> {}, folder |-> folder,
     timer |-> FALSE, due |-> 0, flushing |-> {}, writing |-> FALSE]

Waiting == {c \in Calls : phase[c] \in {"asked", "again"}}
Ended == {"done", "refused", "lost"}

------------------------------------------------------------------------------
(* The kernel, as the host sees it *)

(* WANTED is written as a sequence of keys, one per ticket, with the answered ones cleared. *)
TicketOf(h, key) == SelectInSeq(h.wanted, LAMBDA k : k = key)

Ask(h, key) ==
    LET open == TicketOf(h, key)
    IN  IF open # 0 THEN [host |-> h, at |-> open, end |-> "kernel"]
        ELSE [host |-> [h EXCEPT !.wanted = Append(@, key)], at |-> Len(h.wanted) + 1, end |-> "kernel"]

Taken(answers, i) == RemoveAt(answers, i)

(* One request of a pass: the host's caches, then an answer under its key, then a ticket. *)
Want(pass, key) ==
    LET h == pass.host
        i == SelectInSeq(h.answers, LAMBDA a : a.key = key)
    IN  CASE pass.end # "done" -> pass
          [] pass.end = "done" /\ key \in h.kept -> pass
          [] pass.end = "done" /\ key \notin h.kept /\ i = 0 -> Ask(h, key)
          [] OTHER -> LET found == [h EXCEPT !.answers = Taken(@, i)]
                          ok == h.answers[i].ok
                      IN  [host |-> [found EXCEPT !.kept = IF ok /\ key \in Cached THEN @ \union {key} ELSE @],
                           at |-> i, end |-> IF ok THEN "done" ELSE "failed"]

(* The pass that call c makes from the top, as a set of one. *)
Passes(c, h) ==
    LET upTo[i \in 0..Len(Plan[c])] ==
            IF i = 0 THEN {[host |-> h, at |-> 0, end |-> "done"]}
            ELSE {Want(pass, Plan[c][i]) : pass \in upTo[i - 1]}
    IN  upTo[Len(Plan[c])]

Excess(s) == Len(s) - AnswersKept

(* answer(): the key is no longer wanted, and only the newest answers are kept. *)
Newest(s) == IF Excess(s) > 0 THEN SubSeq(s, Excess(s) + 1, Len(s)) ELSE s

Answered(h, t, ok) ==
    [h EXCEPT !.wanted[t] = "-",
              !.answers = Newest(Append(@, [key |-> h.wanted[t], ok |-> ok]))]

------------------------------------------------------------------------------
(* A call *)

Running(t) == \E i \in DOMAIN kernelQ : kernelQ[i] = [gen |-> host.gen, of |-> t]

(* Mutant of PostOnce: only a ticket that is new is posted. *)
PostNew(t) == IF t <= Len(host.wanted) THEN kernelQ ELSE Append(kernelQ, [gen |-> host.gen, of |-> t])

(* kernel(): a ticket's request is posted once, however many calls wait on it. *)
PostOnce(t) == IF Running(t) THEN kernelQ ELSE Append(kernelQ, [gen |-> host.gen, of |-> t])

(* Mutant of Persist: the timer is cleared and not set again. *)
OnlyClear(h) == [h EXCEPT !.timer = ~@]

(* settle() sets the timer of the flush anew. *)
Persist(h) == [h EXCEPT !.timer = TRUE]

Reply(c, h, phaseNow, reason) ==
    /\ phase' = [phase EXCEPT ![c] = phaseNow]
    /\ why' = [why EXCEPT ![c] = reason]
    /\ host' = Persist(IF phaseNow = "done" /\ c \in Saves THEN [h EXCEPT !.folder = @ \union {c}] ELSE h)
    /\ ticket' = [ticket EXCEPT ![c] = 0]
    /\ UNCHANGED <<rounds, kernelQ>>

OutOfRounds(n) == n >= KernelRounds

(* One turn of drive(): a pass, and its reply or one more kernel round. *)
Turn(c) ==
    \E pass \in Passes(c, host) :
        CASE pass.end = "done" -> Reply(c, pass.host, "done", "-")
          [] pass.end = "failed" -> Reply(c, pass.host, "refused", "kernel")
          [] pass.end = "kernel" /\ OutOfRounds(rounds[c]) -> Reply(c, pass.host, "refused", "loop")
          [] OTHER -> /\ rounds' = [rounds EXCEPT ![c] = @ + 1]
                      /\ phase' = [phase EXCEPT ![c] = "asked"]
                      /\ ticket' = [ticket EXCEPT ![c] = pass.at]
                      /\ host' = pass.host
                      /\ kernelQ' = PostOnce(pass.at)
                      /\ UNCHANGED why

(* A panic is caught by inline() and answered as a refusal; the host goes on. *)
Panic(c) ==
    /\ trouble < MaxTrouble /\ trouble' = trouble + 1
    /\ Reply(c, [host EXCEPT !.failed = @ \union {c}], "refused", "panic")
    /\ UNCHANGED hears

(* A trap of the module is an exception in the worker: run() is rejected, and nothing settles. *)
Trap(c) ==
    /\ trouble < MaxTrouble /\ trouble' = trouble + 1
    /\ phase' = [phase EXCEPT ![c] = "refused"]
    /\ why' = [why EXCEPT ![c] = "trap"]
    /\ ticket' = [ticket EXCEPT ![c] = 0]
    /\ hears' = TRUE
    /\ host' = [host EXCEPT !.failed = @ \union {c}]
    /\ UNCHANGED <<rounds, kernelQ>>

Step(c) == \/ Turn(c) /\ UNCHANGED <<trouble, hears>>
           \/ Panic(c)
           \/ Trap(c)

Begin(c) ==
    /\ phase[c] = "unsent" /\ again = <<>>
    /\ Step(c)
    /\ UNCHANGED <<again, disk>>

(* The calls an answer wakes go on before the worker takes another message. *)
Retry ==
    /\ again # <<>>
    /\ again' = Tail(again)
    /\ Step(Head(again))
    /\ UNCHANGED disk

------------------------------------------------------------------------------
(* The page *)

(* Mutant of Woken: each call resolves the ticket anew, and only the last is heard. *)
WokenOne(t) == {<<c>> : c \in {d \in Calls : phase[d] = "asked" /\ ticket[d] = t}}

(* The calls that wait on a ticket, in any order they may have come to it. *)
Woken(t) == SetToSeqs({c \in Calls : phase[c] = "asked" /\ ticket[c] = t})

(* The kernel ends the request it runs; what a worker that is gone asked for ends unheard. *)
KernelEnd(ok) ==
    LET run == Head(kernelQ)
    IN  /\ kernelQ # <<>> /\ again = <<>>
        /\ kernelQ' = Tail(kernelQ)
        /\ IF ok THEN UNCHANGED trouble ELSE trouble < MaxTrouble /\ trouble' = trouble + 1
        /\ IF run.gen # host.gen THEN UNCHANGED <<host, again, phase>>
           ELSE /\ host' = Answered(host, run.of, ok)
                /\ again' \in Woken(run.of)
                /\ phase' = [c \in Calls |-> IF c \in Range(again') THEN "again" ELSE phase[c]]
        /\ UNCHANGED <<ticket, rounds, why, hears, disk>>

(* The page hears of a trap: it ends the worker, and the next call starts another on the folder as
   it was last flushed.  Nothing answers the calls the worker had in progress. *)
Terminate ==
    /\ hears
    /\ hears' = FALSE
    /\ host' = Fresh(host.gen + 1, disk)
    /\ again' = <<>>
    /\ phase' = [c \in Calls |-> IF c \in Waiting THEN "lost" ELSE phase[c]]
    /\ ticket' = [c \in Calls |-> 0]
    /\ UNCHANGED <<rounds, why, kernelQ, disk, trouble>>

------------------------------------------------------------------------------
(* The folder *)

TimerFires ==
    /\ host.timer
    /\ host' = [host EXCEPT !.timer = FALSE, !.due = @ + 1]
    /\ UNCHANGED <<phase, ticket, rounds, why, again, kernelQ, hears, disk, trouble>>

(* One flush at a time: it reads the folder when it starts. *)
MayFlush == ~host.writing

StartFlush ==
    /\ host.due > 0 /\ MayFlush
    /\ host' = [host EXCEPT !.due = @ - 1, !.writing = TRUE, !.flushing = host.folder]
    /\ UNCHANGED <<phase, ticket, rounds, why, again, kernelQ, hears, disk, trouble>>

EndFlush ==
    /\ host.writing
    /\ disk' = host.flushing
    /\ host' = [host EXCEPT !.writing = FALSE, !.flushing = {}]
    /\ UNCHANGED <<phase, ticket, rounds, why, again, kernelQ, hears, trouble>>

------------------------------------------------------------------------------
Init ==
    /\ phase = [c \in Calls |-> "unsent"]
    /\ ticket = [c \in Calls |-> 0]
    /\ rounds = [c \in Calls |-> 0]
    /\ why = [c \in Calls |-> "-"]
    /\ host = Fresh(1, {})
    /\ again = <<>> /\ kernelQ = <<>> /\ hears = FALSE /\ disk = {} /\ trouble = 0

Next ==
    \/ \E c \in Calls : Begin(c)
    \/ Retry
    \/ \E ok \in BOOLEAN : KernelEnd(ok)
    \/ Terminate
    \/ TimerFires \/ StartFlush \/ EndFlush

(* The kernel ends what it runs (its deadline stops it), messages arrive, timers fire. *)
Goes == Retry \/ KernelEnd(TRUE) \/ Terminate \/ TimerFires \/ StartFlush \/ EndFlush

Spec == Init /\ [][Next]_vars
Fairness == WF_vars(Goes)
FairSpec == Spec /\ Fairness

------------------------------------------------------------------------------
(* Properties *)

(* Every variable has its type; the host keeps at most AnswersKept answers, and no call makes more
   rounds than drive() allows. *)
TypeOK ==
    /\ phase \in [Calls -> {"unsent", "asked", "again"} \union Ended]
    /\ ticket \in [Calls -> 0..Len(host.wanted)]
    /\ rounds \in [Calls -> 0..KernelRounds]
    /\ why \in [Calls -> {"-", "kernel", "loop", "panic", "trap"}]
    /\ Range(host.wanted) \subseteq Keys \union {"-"}
    /\ Len(host.answers) <= AnswersKept
    /\ host.kept \subseteq Cached /\ host.folder \subseteq Saves /\ disk \subseteq Saves
    /\ Range(again) \subseteq {c \in Calls : phase[c] = "again"}
    /\ hears \in BOOLEAN /\ trouble \in 0..MaxTrouble

Posted == {i \in DOMAIN kernelQ : kernelQ[i].gen = host.gen}

(* The kernel is asked for a thing once at a time: no two requests in the page's queue, made by the
   host the tab has now, are for the same key, whichever calls want it (page.rs kernel(), and
   kernelWaits in the worker). *)
OneRunPerKey ==
    \A i, j \in Posted : i # j => host.wanted[kernelQ[i].of] # host.wanted[kernelQ[j].of]

(* No call waits on a ticket that nothing will answer: the request of every ticket a call waits on
   is in the page's queue, and is one the call makes.  A ticket whose only caller gave up after its
   rounds stays wanted without being posted, and the next call to reuse it must post it. *)
NobodyWaitsInVain ==
    \A c \in Calls : phase[c] = "asked" =>
        Running(ticket[c]) /\ host.wanted[ticket[c]] \in Range(Plan[c])

(* The host of a tab and its page at any time. *)
TicketsStand == TypeOK /\ OneRunPerKey /\ NobodyWaitsInVain

(* Every call the page makes of its host ends: it is answered, or refused, or the host it was made
   of was ended (host.ts terminates the worker and answers no other call of it). *)
CallsEnd == \A c \in Calls : (phase[c] \in {"asked", "again"}) ~> (phase[c] \in Ended)

(* A part that a call saved reaches the browser's store, unless the host that saved it is ended
   first: every flush that a later call puts off is still made (host-worker.ts persist). *)
SavesReachDisk == \A c \in Saves : (c \in host.folder) ~> (c \in disk \/ c \notin host.folder)

(* What the browser's store has is never lost by a flush, whichever host makes it: a new host reads
   the folder before it writes it. *)
DiskKeeps == [][disk \subseteq disk']_vars

(* A saved part is on the disk in the end, and stays there. *)
SavesLast == SavesReachDisk /\ DiskKeeps

(* No call is refused for having asked the kernel too often: host-worker.ts says of KERNEL_ROUNDS
   that it is more requests than any one call makes. *)
RoundsSuffice == \A c \in Calls : why[c] # "loop"
=============================================================================
