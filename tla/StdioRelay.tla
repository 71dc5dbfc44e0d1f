------------------------------ MODULE StdioRelay ------------------------------
(***************************************************************************)
(* `parcad mcp` (crates/parcad-cli/src/stdio.rs): a process per client     *)
(* that passes each of its messages to the one host on the port, with a    *)
(* thread for each, opens the client's session again when the host has     *)
(* forgotten it, and hosts the port itself when nobody does.  The clients  *)
(* speak a protocol that keeps a session; a message's text, the protocol   *)
(* version and notifications are left out.                                 *)
(*                                                                         *)
(* The host is what holds the port: the desktop app or one of these        *)
(* processes.  Its sessions are numbered as they are opened, over all      *)
(* hosts; "kept" are those its MCP library knows (a library: it is         *)
(* modelled from the replies stdio.rs reads), "counted" those the window   *)
(* shows as connected (mcp.rs, ACTIVITY).                                  *)
(***************************************************************************)
EXTENDS Naturals, Sequences, FiniteSets

CONSTANTS
    Relays,     \* the processes, one per client
    CallsOf,    \* per relay: the calls its client makes after its handshake
    MaxTroubles \* bound: sessions the host forgets for their silence, and times the desktop app ends or starts

ASSUME RelaysAssumption ==
    /\ "app" \notin Relays /\ "nobody" \notin Relays
    /\ CallsOf \in [Relays -> Nat] /\ MaxTroubles \in Nat

VARIABLES
    port,     \* who holds the port: "app", a relay or "nobody"
    kept,     \* sessions the host's MCP library knows
    counted,  \* sessions the window counts
    opened,   \* every session ever opened, in order: the relay it was opened for
    patient,  \* per relay: its client waits for each answer before the next message, as all do with one call
    hosting,  \* per relay: HOSTING
    server,   \* per relay: its thread that hosts: "none", "starting", "up" or "failed"
    session,  \* per relay: the session its messages carry (0: none)
    gone,     \* relays whose process has ended
    msg,      \* per message: its thread
    troubles  \* sessions forgotten and times the app has ended or started, so far

vars == <<port, kept, counted, opened, patient, hosting, server, session, gone, msg, troubles>>
hostVars == <<port, kept, counted, opened>>
boundVars == <<patient, troubles>>

(* A message is its relay and its place in what the client writes; the first is `initialize`. *)
Messages == UNION {{r} \X (0..CallsOf[r]) : r \in Relays}
Of(m) == m[1]
Handshake(m) == m[2] = 0
Handshaken(r) == msg[<<r, 0>>].answer = "reply"

Fresh == [at |-> "unsent", had |-> FALSE, carried |-> 0, again |-> FALSE, given |-> 0, ran |-> 0, answer |-> "none"]

Under(m, states) == msg[m].at \in states
InProgress(m) == ~ Under(m, {"launch", "starting", "unsent", "answered"})
OnTheWire(m) == Under(m, {"posted", "served"})

At(m, state) == [msg EXCEPT ![m].at = state]
Answered(m, what) == [msg EXCEPT ![m].at = "answered", ![m].answer = what]

------------------------------------------------------------------------------
(* ensure_host *)

(* take_over looks whether somebody listens; `run` does so as the process starts, `send` when nobody
   accepted its connection.  HOSTING is tested and set under its lock. *)
EnsureHost(m) ==
    LET r == Of(m) IN
    /\ Under(m, {"launch", "down"})
    /\ IF port # "nobody"
       THEN msg' = At(m, IF Under(m, {"launch"}) THEN "unsent" ELSE "rehosted") /\ UNCHANGED <<hosting, server>>
       ELSE /\ msg' = At(m, IF Under(m, {"launch"}) THEN "starting" ELSE "waiting")
            /\ hosting' = [hosting EXCEPT ![r] = TRUE]
            /\ server' = IF hosting[r] THEN server ELSE [server EXCEPT ![r] = "starting"]
    /\ UNCHANGED <<hostVars, session, gone, boundVars>>

(* Whoever listens by now, this process or another, ends the wait. *)
HostAnswers(m) ==
    /\ Under(m, {"starting", "waiting"})
    /\ port # "nobody"
    /\ msg' = At(m, IF Under(m, {"starting"}) THEN "unsent" ELSE "rehosted")
    /\ UNCHANGED <<hostVars, hosting, server, session, gone, boundVars>>

(* The thread that hosts binds the port, or ends: HOSTING is not taken back. *)
ServerBinds(r) ==
    /\ server[r] = "starting" /\ r \notin gone
    /\ IF port = "nobody"
       THEN port' = r /\ kept' = {} /\ counted' = {} /\ server' = [server EXCEPT ![r] = "up"]
       ELSE server' = [server EXCEPT ![r] = "failed"] /\ UNCHANGED <<port, kept, counted>>
    /\ UNCHANGED <<opened, hosting, session, gone, msg, boundVars>>

------------------------------------------------------------------------------
(* The host *)

(* note_request counts whatever session a request names, known or not. *)
Noted(s) == IF s = 0 THEN counted ELSE counted \cup {s}

(* A session is opened for a relay; note_session counts it. *)
Open(r) ==
    /\ opened' = Append(opened, r)
    /\ kept' = kept \cup {Len(opened) + 1}
    /\ counted' = counted \cup {Len(opened) + 1}

(* The library: a handshake is given a session, a request without one is refused, one with a session it
   does not know is answered 404, and another is run. *)
Handle(m) ==
    LET s == msg[m].carried
        lost == ~ msg[m].again /\ msg[m].had /\ ~ Handshake(m) IN
    /\ Under(m, {"posted"})
    /\ UNCHANGED <<port, hosting, server, session, gone, boundVars>>
    /\ \/ /\ Handshake(m)
          /\ Open(Of(m))
          /\ msg' = [msg EXCEPT ![m].at = "served", ![m].given = Len(opened) + 1, ![m].ran = @ + 1]
       \/ /\ ~ Handshake(m) /\ s \in kept
          /\ counted' = Noted(s) /\ UNCHANGED <<kept, opened>>
          /\ msg' = [msg EXCEPT ![m].at = "served", ![m].ran = @ + 1]
       \/ /\ ~ Handshake(m) /\ s \notin kept
          /\ counted' = Noted(s) /\ UNCHANGED <<kept, opened>>
          /\ msg' = IF s # 0 /\ lost THEN At(m, "lost") ELSE Answered(m, "error")

(* A session with nothing in flight is forgotten after five minutes.  It is no longer counted after fifteen,
   which this model does not wait for. *)
Lapse(s) ==
    /\ troubles < MaxTroubles /\ troubles' = troubles + 1
    /\ \A m \in Messages : OnTheWire(m) => msg[m].carried # s
    /\ s \in kept
    /\ kept' = kept \ {s}
    /\ UNCHANGED <<port, counted, opened, patient, hosting, server, session, gone, msg>>

(* Mutant of Unplugged: a message the host went away with is sent again, as one it never got. *)
SentAgain == [m \in Messages |-> IF OnTheWire(m) THEN [msg[m] EXCEPT !.at = "down"] ELSE msg[m]]

(* The process that holds the port ends: what is on the wire fails, which is told from never being sent. *)
Unplugged == [m \in Messages |-> IF OnTheWire(m) THEN [msg[m] EXCEPT !.at = "answered", !.answer = "error"] ELSE msg[m]]
HostEnds == port' = "nobody" /\ kept' = {} /\ counted' = {}

AppEnds ==
    /\ port = "app" /\ troubles < MaxTroubles /\ troubles' = troubles + 1
    /\ HostEnds /\ msg' = Unplugged
    /\ UNCHANGED <<opened, patient, hosting, server, session, gone>>

AppStarts ==
    /\ port = "nobody" /\ troubles < MaxTroubles /\ troubles' = troubles + 1
    /\ port' = "app"
    /\ UNCHANGED <<kept, counted, opened, patient, hosting, server, session, gone, msg>>
------------------------------------------------------------------------------
(* A message's thread *)

(* The client writes a line.  Its `initialize` is passed on before the next line is read. *)
Send(m) ==
    LET r == Of(m) IN
    /\ Under(m, {"unsent"}) /\ r \notin gone
    /\ Handshake(m) \/ (Handshaken(r) /\ ~ Under(<<r, m[2] - 1>>, {"unsent"}))
    /\ patient[r] => \A o \in Messages : Of(o) = r => ~ InProgress(o)
    /\ msg' = [msg EXCEPT ![m].at = "attempt", ![m].had = session[r] # 0]
    /\ UNCHANGED <<hostVars, hosting, server, session, gone, boundVars>>

(* An attempt reads the session as it is now and connects. *)
Attempt(m) ==
    /\ Under(m, {"attempt"})
    /\ msg' = IF port # "nobody" THEN [msg EXCEPT ![m].at = "posted", ![m].carried = session[Of(m)]]
              ELSE IF msg[m].again THEN Answered(m, "error") ELSE At(m, "down")
    /\ UNCHANGED <<hostVars, hosting, server, session, gone, boundVars>>

(* reinitialize takes the session away, whichever it is by now; if another thread has, there is nothing to do. *)
Reinitialize(m) ==
    LET r == Of(m) IN
    /\ Under(m, {"lost", "rehosted"})
    /\ IF Handshake(m) \/ session[r] = 0
       THEN msg' = [msg EXCEPT ![m].at = "attempt", ![m].again = TRUE] /\ UNCHANGED session
       ELSE msg' = At(m, "rejoin") /\ session' = [session EXCEPT ![r] = 0]
    /\ UNCHANGED <<hostVars, hosting, server, gone, boundVars>>

(* The client's handshake is repeated, and then its notification; only then is the session put back. *)
Rejoin(m) ==
    /\ Under(m, {"rejoin"})
    /\ IF port # "nobody"
       THEN Open(Of(m)) /\ msg' = [msg EXCEPT ![m].at = "announce", ![m].given = Len(opened) + 1]
       ELSE msg' = Answered(m, "error") /\ UNCHANGED <<kept, counted, opened>>
    /\ UNCHANGED <<port, hosting, server, session, gone, boundVars>>

Announce(m) ==
    /\ Under(m, {"announce"})
    /\ IF port # "nobody"
       THEN /\ session' = [session EXCEPT ![Of(m)] = msg[m].given]
            /\ msg' = [msg EXCEPT ![m].at = "attempt", ![m].again = TRUE]
            /\ counted' = Noted(msg[m].given)
       ELSE msg' = Answered(m, "error") /\ UNCHANGED <<session, counted>>
    /\ UNCHANGED <<port, kept, opened, hosting, server, gone, boundVars>>

(* forward: the session a reply names is the one to use, and the reply is written to the client. *)
Hear(m) ==
    /\ Under(m, {"served"})
    /\ session' = IF Handshake(m) THEN [session EXCEPT ![Of(m)] = msg[m].given] ELSE session
    /\ msg' = Answered(m, "reply")
    /\ UNCHANGED <<hostVars, hosting, server, gone, boundVars>>

------------------------------------------------------------------------------
(* The process ends; if it hosts, the host ends with it. *)
Exit(r) ==
    /\ gone' = gone \cup {r}
    /\ server' = [server EXCEPT ![r] = "none"]

(* Mutant of GiveUp: only a process that starts stops waiting. *)
GiveUpAtStart(m) ==
    /\ Under(m, {"starting"}) /\ port = "nobody"
    /\ msg' = Answered(m, "error")
    /\ Exit(Of(m))
    /\ UNCHANGED <<hostVars, hosting, session, boundVars>>

(* Ten seconds have passed and nobody listens.  The message is answered with that; a process that was
   starting ends. *)
GiveUp(m) ==
    LET r == Of(m) IN
    /\ Under(m, {"starting", "waiting"}) /\ port = "nobody"
    /\ msg' = Answered(m, "error")
    /\ IF Under(m, {"starting"}) THEN Exit(r) ELSE UNCHANGED <<gone, server>>
    /\ UNCHANGED <<hostVars, hosting, session, boundVars>>

(* The client closes stdin: the threads are waited for, and hang_up closes the session. *)
Quit(r) ==
    /\ r \notin gone
    /\ \A m \in Messages : Of(m) = r => ~ InProgress(m) /\ ~ Under(m, {"launch", "starting"})
    /\ Exit(r)
    /\ IF port = r THEN HostEnds /\ msg' = Unplugged
       ELSE /\ kept' = kept \ {session[r]} /\ counted' = counted \ {session[r]}
            /\ UNCHANGED <<port, msg>>
    /\ UNCHANGED <<opened, hosting, session, boundVars>>

------------------------------------------------------------------------------
Init ==
    /\ port \in {"app", "nobody"}
    /\ kept = {} /\ counted = {} /\ opened = <<>>
    /\ patient \in {p \in [Relays -> BOOLEAN] : \A r \in Relays : CallsOf[r] < 2 => p[r]}
    /\ hosting = [r \in Relays |-> FALSE] /\ server = [r \in Relays |-> "none"]
    /\ session = [r \in Relays |-> 0] /\ gone = {}
    /\ msg = [m \in Messages |-> IF Handshake(m) THEN [Fresh EXCEPT !.at = "launch"] ELSE Fresh]
    /\ troubles = 0

ThreadStep(m) ==
    \/ EnsureHost(m) \/ HostAnswers(m) \/ GiveUp(m)
    \/ Attempt(m) \/ Handle(m) \/ Reinitialize(m) \/ Rejoin(m) \/ Announce(m) \/ Hear(m)

Next ==
    \/ \E m \in Messages : ThreadStep(m) \/ Send(m)
    \/ \E r \in Relays : ServerBinds(r) \/ Quit(r)
    \/ \E s \in kept : Lapse(s)
    \/ AppEnds \/ AppStarts

(* Threads run, the host answers (every evaluation has a timeout) and a wait has its deadline; nobody has
   to write, to quit or to start an app.  Each of these steps can be taken a bounded number of times, so
   that some are taken while any can be is all that has to be assumed. *)
Moves == (\E m \in Messages : ThreadStep(m)) \/ \E r \in Relays : ServerBinds(r)
Fairness == WF_vars(Moves)

Spec == Init /\ [][Next]_vars
FairSpec == Spec /\ Fairness
------------------------------------------------------------------------------
Places == {"launch", "starting", "unsent", "attempt", "posted", "served", "lost", "down", "waiting", "rehosted",
           "rejoin", "announce", "answered"}
Threads(n) == [at : Places, had : BOOLEAN, carried : 0..n, again : BOOLEAN, given : 0..n, ran : Nat,
               answer : {"none", "reply", "error"}]

TypeOK ==
    /\ port \in Relays \cup {"app", "nobody"}
    /\ opened \in Seq(Relays)
    /\ kept \subseteq DOMAIN opened /\ counted \subseteq DOMAIN opened
    /\ patient \in [Relays -> BOOLEAN]
    /\ hosting \in [Relays -> BOOLEAN] /\ server \in [Relays -> {"none", "starting", "up", "failed"}]
    /\ session \in [Relays -> 0..Len(opened)]
    /\ gone \subseteq Relays
    /\ msg \in [Messages -> Threads(Len(opened))]
    /\ troubles \in Nat

(* A message is sent again after a refusal, a host that went away and a session that was lost, and is not
   run twice: what may have run is answered with its failure (send, Exchange). *)
RunsOnce == \A m \in Messages : msg[m].ran <= 1 /\ (msg[m].answer = "reply" => msg[m].ran = 1)

(* The sessions a host has for a relay whose client waits for each answer are the one the relay uses and
   one it is opening, through every repeated handshake; once it has quit there is none. *)
Opening(r) == {msg[m].given : m \in {n \in Messages : Of(n) = r /\ Under(n, {"served", "announce"})}}
LeavesNoSession ==
    \A r \in Relays : patient[r] =>
        {s \in kept : opened[s] = r} \subseteq (IF r \in gone THEN {} ELSE {session[r]} \cup Opening(r))

(* A session is never used by another relay, and the window counts every session the host knows. *)
SessionsAreTheirs ==
    /\ \A r \in Relays : session[r] # 0 => opened[session[r]] = r
    /\ kept \subseteq counted

(* A thread that waits for a host is not left waiting for nobody: somebody is starting one, unless this
   process tried to and found the port taken. *)
Waits(m) == Under(m, {"starting", "waiting"}) /\ port = "nobody"
SomebodyStarts == \E r \in Relays : server[r] = "starting"
WaitsForAHost ==
    /\ \A m \in Messages : Waits(m) => SomebodyStarts \/ server[Of(m)] = "failed"
    /\ \A r \in Relays : server[r] = "up" <=> port = r

RelayIsSound == TypeOK /\ RunsOnce /\ LeavesNoSession /\ SessionsAreTheirs /\ WaitsForAHost

(* stdio.rs:12-14: a relay whose host goes away takes the port over, so that two clients that share a host
   survive the first one quitting.  The relay that lost the race for the port once does not: HOSTING stays
   set, and it waits for a host that nobody starts. *)
TakesOver == \A m \in Messages : Under(m, {"waiting"}) /\ port = "nobody" => SomebodyStarts

(* Not so either: hang_up closes the session "so the window stops showing an agent that has gone", but a
   request that names a session the host has forgotten has it counted again. *)
StopsShowing == \A s \in counted : opened[s] \notin gone

(* No thread is left working or waiting, whatever becomes of the host and of the session. *)
AllAnswered == \A m \in Messages : Under(m, {"unsent", "answered"})
EveryMessageAnswered == <>[] AllAnswered
===============================================================================
