-------------------------- MODULE ConnectionsProofs --------------------------
(* The connections that MCConnections composes. Any number of relays, clients' calls and troubles: a message
   runs once, no session is left behind, and no relay waits for nobody by its own doing. Any tabs, requests,
   losses and evictions: the relay has one socket open, a client gets the reply to its own request, and no
   request waits where no socket is open. *)
EXTENDS StdioRelay, RelayLink, SequenceTheorems, FiniteSetTheorems, TLAPS

------------------------------------------------------------------------------
(* The processes of a client: the invariant *)

(* Only a message that was handed to the host has run. *)
RunsInv ==
    \A m \in Messages :
        /\ msg[m].ran <= 1
        /\ msg[m].answer = "reply" => msg[m].ran = 1
        /\ Under(m, {"served"}) => msg[m].ran = 1
        /\ ~ Under(m, {"served", "answered"}) => msg[m].ran = 0
        /\ ~ Under(m, {"answered"}) => msg[m].answer = "none"

(* What a thread was given is its relay's. *)
TheirsInv ==
    /\ SessionsAreTheirs
    /\ \A m \in Messages : msg[m].given # 0 => opened[msg[m].given] = Of(m)

(* A host that is not there knows no session and has nothing on the wire. *)
PortInv ==
    /\ port = "nobody" => kept = {}
    /\ \A m \in Messages : OnTheWire(m) => port # "nobody"

(* Who has the port, who tries to, and that a relay whose threads wait is one of these. *)
HostInv ==
    /\ \A r \in Relays : /\ server[r] = "up" <=> port = r
                         /\ hosting[r] /\ r \notin gone => server[r] # "none"
                         /\ server[r] # "none" => hosting[r]
                         /\ r \in gone => server[r] = "none"
    /\ \A m \in Messages : Under(m, {"starting", "waiting"}) => hosting[Of(m)]

(* The handshake is first, and a session comes of it. *)
OrderInv ==
    \A m \in Messages :
        /\ Under(m, {"launch", "starting"}) => Handshake(m)
        /\ Under(m, {"lost", "rejoin", "announce"}) => ~ Handshake(m)
        /\ ~ Handshake(m) /\ ~ Under(m, {"unsent"}) => Handshaken(Of(m))
        /\ session[Of(m)] # 0 => Handshaken(Of(m))
        /\ Under(m, {"launch", "starting", "unsent"}) => msg[m].given = 0

(* A process that has ended has no thread. *)
GoneInv == \A m \in Messages : Of(m) \in gone => Under(m, {"unsent", "answered"})

(* The thread of a patient client is alone: it carries its relay's session, and repeats the handshake once,
   when that session is forgotten. *)
Carries(m) ==
    /\ Under(m, {"posted", "served"}) => msg[m].carried = session[Of(m)]
    /\ Under(m, {"lost", "down", "waiting", "rehosted"}) => session[Of(m)] \notin kept
    /\ Under(m, {"lost", "down", "waiting", "rehosted", "rejoin"}) => ~ msg[m].again
    /\ Under(m, {"rejoin", "announce"}) => session[Of(m)] = 0
    /\ ~ Handshake(m) /\ ~ Under(m, {"announce"}) => msg[m].given = 0 \/ (msg[m].again /\ msg[m].given = session[Of(m)])
    /\ Handshake(m) /\ ~ Under(m, {"served"}) => msg[m].given = 0
Alone(m) == \A o \in Messages : Of(o) = Of(m) /\ InProgress(o) => o = m
AloneInv == \A m \in Messages : patient[Of(m)] /\ InProgress(m) => Alone(m) /\ Carries(m)

(* LeavesNoSession, session by session. *)
LeftInv ==
    \A r \in Relays, s \in kept : patient[r] /\ opened[s] = r =>
        /\ r \notin gone
        /\ s = session[r] \/ \E m \in Messages : Of(m) = r /\ Under(m, {"served", "announce"}) /\ msg[m].given = s

RelayInv == TypeOK /\ RunsInv /\ TheirsInv /\ PortInv /\ HostInv /\ OrderInv /\ GoneInv /\ AloneInv /\ LeftInv

------------------------------------------------------------------------------
(* Messages and their relays *)

LEMMA MessagesAre ==
    \A m \in Messages :
        /\ Of(m) \in Relays /\ <<Of(m), 0>> \in Messages /\ Of(<<Of(m), 0>>) = Of(m) /\ Handshake(<<Of(m), 0>>)
        /\ Handshake(m) => m = <<Of(m), 0>>
<1> SUFFICES ASSUME NEW r \in Relays, NEW n \in 0..CallsOf[r]
             PROVE  /\ Of(<<r, n>>) = r /\ <<r, 0>> \in Messages /\ Handshake(<<r, 0>>)
                    /\ Handshake(<<r, n>>) => n = 0
  BY DEF Messages, Of, Handshake
<1>1. CallsOf[r] \in Nat
  BY RelaysAssumption
<1> QED BY <1>1 DEF Messages, Of, Handshake

------------------------------------------------------------------------------
(* What a step does to the threads *)

Others(m) == \A o \in Messages \ {m} : msg'[o] = msg[o]
Alike(m) ==
    /\ msg'[m].carried = msg[m].carried /\ msg'[m].again = msg[m].again /\ msg'[m].given = msg[m].given
    /\ msg'[m].ran = msg[m].ran
Typed == msg' \in [Messages -> Threads(Len(opened'))]

(* A function changed at one point. *)
LEMMA Put ==
    ASSUME NEW D, NEW S, NEW f \in [D -> S], NEW d \in D, NEW v \in S
    PROVE  /\ [f EXCEPT ![d] = v] \in [D -> S]
           /\ [f EXCEPT ![d] = v][d] = v
           /\ \A e \in D \ {d} : [f EXCEPT ![d] = v][e] = f[e]
OBVIOUS

(* A thread is typed, and its relay is one. *)
LEMMA ThreadTyped ==
    ASSUME TypeOK, NEW m \in Messages
    PROVE  msg[m] \in Threads(Len(opened)) /\ Len(opened) \in Nat /\ Of(m) \in Relays
<1>1. Of(m) \in Relays
  BY MessagesAre
<1>2. Len(opened) \in Nat
  BY DEF TypeOK
<1> QED BY <1>1, <1>2 DEF TypeOK

(* One field, or two, of one thread change: it stays typed, and so are the others. *)
LEMMA AtDoes ==
    ASSUME TypeOK, NEW m \in Messages, NEW x \in Places, msg' = At(m, x), UNCHANGED opened
    PROVE  Typed /\ Others(m) /\ Alike(m) /\ msg'[m].at = x /\ msg'[m].answer = msg[m].answer
<1> DEFINE v == [msg[m] EXCEPT !.at = x]
<1>1. msg[m] \in Threads(Len(opened))
  BY ThreadTyped
<1>2. /\ v \in Threads(Len(opened)) /\ v.at = x /\ v.carried = msg[m].carried /\ v.again = msg[m].again
      /\ v.given = msg[m].given /\ v.ran = msg[m].ran /\ v.answer = msg[m].answer
  BY <1>1 DEF Threads
<1>3. msg' = [msg EXCEPT ![m] = v]
  BY DEF At
<1> HIDE DEF v
<1> QED BY <1>2, <1>3, Put DEF TypeOK, Typed, Others, Alike

LEMMA AnsweredDoes ==
    ASSUME TypeOK, NEW m \in Messages, NEW x \in {"reply", "error"}, msg' = Answered(m, x), UNCHANGED opened
    PROVE  Typed /\ Others(m) /\ Alike(m) /\ msg'[m].at = "answered" /\ msg'[m].answer = x
<1> DEFINE v == [msg[m] EXCEPT !.at = "answered", !.answer = x]
<1>1. msg[m] \in Threads(Len(opened))
  BY ThreadTyped
<1>2. /\ v \in Threads(Len(opened)) /\ v.at = "answered" /\ v.carried = msg[m].carried /\ v.again = msg[m].again
      /\ v.given = msg[m].given /\ v.ran = msg[m].ran /\ v.answer = x
  BY <1>1 DEF Threads, Places
<1>3. msg' = [msg EXCEPT ![m] = v]
  BY DEF Answered
<1> HIDE DEF v
<1> QED BY <1>2, <1>3, Put DEF TypeOK, Typed, Others, Alike

(* A thread that names one of n sessions names one of n + 1. *)
LEMMA Wider ==
    ASSUME NEW n \in Nat, NEW t \in Threads(n)
    PROVE  t \in Threads(n + 1)
<1>1. 0..n \subseteq 0..(n + 1)
  OBVIOUS
<1> DEFINE k == n + 1
<1> HIDE DEF k
<1>2. 0..n \subseteq 0..k
  BY <1>1 DEF k
<1>3. t \in Threads(k)
  BY <1>2 DEF Threads
<1> QED BY <1>3 DEF k

LEMMA Replaced ==
    ASSUME NEW n \in Nat, msg \in [Messages -> Threads(n)], NEW m \in Messages, NEW v \in Threads(n),
           Len(opened') = n, msg' = [msg EXCEPT ![m] = v]
    PROVE  Typed /\ Others(m) /\ msg'[m] = v
BY Put DEF Typed, Others

LEMMA AttemptedDoes ==
    ASSUME TypeOK, NEW m \in Messages, UNCHANGED opened,
           msg' = [msg EXCEPT ![m].at = "attempt", ![m].again = TRUE]
    PROVE  Typed /\ Others(m) /\ msg'[m].at = "attempt" /\ msg'[m].again = TRUE /\ msg'[m].carried = msg[m].carried /\ msg'[m].given =
           msg[m].given /\ msg'[m].ran = msg[m].ran /\ msg'[m].answer = msg[m].answer
<1> DEFINE n == Len(opened)
           v == [msg[m] EXCEPT !.at = "attempt", !.again = TRUE]
<1>1. msg[m] \in Threads(Len(opened)) /\ Len(opened) \in Nat /\ Of(m) \in Relays
  BY ThreadTyped
<1>2. n \in Nat /\ Len(opened') = n
  BY <1>1 DEF TypeOK
<1>3. msg \in [Messages -> Threads(n)]
  BY <1>1 DEF TypeOK
<1>4. msg[m] \in Threads(n)
  BY <1>3
<1>5. msg' = [msg EXCEPT ![m] = v]
  OBVIOUS
<1> HIDE DEF n
<1>6. v \in Threads(n) /\ v.at = "attempt" /\ v.again = TRUE /\ v.carried = msg[m].carried /\ v.given = msg[m].given /\ v.ran =
      msg[m].ran /\ v.answer = msg[m].answer
  BY <1>2, <1>4 DEF Threads, Places
<1> HIDE DEF v
<1>7. Typed /\ Others(m) /\ msg'[m] = v
  BY <1>2, <1>3, <1>5, <1>6, Replaced
<1> QED BY <1>6, <1>7 DEF n

LEMMA SentDoes ==
    ASSUME TypeOK, NEW m \in Messages, UNCHANGED opened,
           msg' = [msg EXCEPT ![m].at = "attempt", ![m].had = session[Of(m)] # 0]
    PROVE  Typed /\ Others(m) /\ msg'[m].at = "attempt" /\ msg'[m].carried = msg[m].carried /\ msg'[m].again = msg[m].again /\
           msg'[m].given = msg[m].given /\ msg'[m].ran = msg[m].ran /\ msg'[m].answer = msg[m].answer
<1> DEFINE n == Len(opened)
           s == session[Of(m)]
           b == session[Of(m)] # 0
           v == [msg[m] EXCEPT !.at = "attempt", !.had = b]
<1>1. msg[m] \in Threads(Len(opened)) /\ Len(opened) \in Nat /\ Of(m) \in Relays
  BY ThreadTyped
<1>2. n \in Nat /\ s \in 0..n /\ b \in BOOLEAN /\ Len(opened') = n
  BY <1>1 DEF TypeOK
<1>3. msg \in [Messages -> Threads(n)]
  BY <1>1 DEF TypeOK
<1>4. msg[m] \in Threads(n)
  BY <1>3
<1>5. msg' = [msg EXCEPT ![m] = v]
  OBVIOUS
<1> HIDE DEF n, s, b
<1>6. v \in Threads(n) /\ v.at = "attempt" /\ v.carried = msg[m].carried /\ v.again = msg[m].again /\ v.given = msg[m].given /\
      v.ran = msg[m].ran /\ v.answer = msg[m].answer
  BY <1>2, <1>4 DEF Threads, Places
<1> HIDE DEF v
<1>7. Typed /\ Others(m) /\ msg'[m] = v
  BY <1>2, <1>3, <1>5, <1>6, Replaced
<1> QED BY <1>6, <1>7 DEF n, s, b

LEMMA PostedDoes ==
    ASSUME TypeOK, NEW m \in Messages, UNCHANGED opened,
           msg' = [msg EXCEPT ![m].at = "posted", ![m].carried = session[Of(m)]]
    PROVE  Typed /\ Others(m) /\ msg'[m].at = "posted" /\ msg'[m].carried = session[Of(m)] /\ msg'[m].again = msg[m].again /\
           msg'[m].given = msg[m].given /\ msg'[m].ran = msg[m].ran /\ msg'[m].answer = msg[m].answer
<1> DEFINE n == Len(opened)
           s == session[Of(m)]
           v == [msg[m] EXCEPT !.at = "posted", !.carried = s]
<1>1. msg[m] \in Threads(Len(opened)) /\ Len(opened) \in Nat /\ Of(m) \in Relays
  BY ThreadTyped
<1>2. n \in Nat /\ s \in 0..n /\ Len(opened') = n
  BY <1>1 DEF TypeOK
<1>3. msg \in [Messages -> Threads(n)]
  BY <1>1 DEF TypeOK
<1>4. msg[m] \in Threads(n)
  BY <1>3
<1>5. msg' = [msg EXCEPT ![m] = v]
  OBVIOUS
<1> HIDE DEF n, s
<1>6. v \in Threads(n) /\ v.at = "posted" /\ v.carried = s /\ v.again = msg[m].again /\ v.given = msg[m].given /\ v.ran = msg[m].ran
      /\ v.answer = msg[m].answer
  BY <1>2, <1>4 DEF Threads, Places
<1> HIDE DEF v
<1>7. Typed /\ Others(m) /\ msg'[m] = v
  BY <1>2, <1>3, <1>5, <1>6, Replaced
<1> QED BY <1>6, <1>7 DEF n, s

LEMMA ServedDoes ==
    ASSUME TypeOK, NEW m \in Messages, UNCHANGED opened,
           msg' = [msg EXCEPT ![m].at = "served", ![m].ran = @ + 1]
    PROVE  Typed /\ Others(m) /\ msg'[m].at = "served" /\ msg'[m].ran = msg[m].ran + 1 /\ msg'[m].carried = msg[m].carried /\
           msg'[m].again = msg[m].again /\ msg'[m].given = msg[m].given /\ msg'[m].answer = msg[m].answer
<1> DEFINE n == Len(opened)
           k == msg[m].ran + 1
           v == [msg[m] EXCEPT !.at = "served", !.ran = k]
<1>1. msg[m] \in Threads(Len(opened)) /\ Len(opened) \in Nat /\ Of(m) \in Relays
  BY ThreadTyped
<1>2. k \in Nat
  BY <1>1 DEF Threads
<1>3. n \in Nat /\ Len(opened') = n
  BY <1>1 DEF TypeOK
<1>4. msg \in [Messages -> Threads(n)]
  BY <1>1 DEF TypeOK
<1>5. msg[m] \in Threads(n)
  BY <1>4
<1>6. msg' = [msg EXCEPT ![m] = v]
  OBVIOUS
<1> HIDE DEF n, k
<1>7. v \in Threads(n) /\ v.at = "served" /\ v.ran = k /\ v.carried = msg[m].carried /\ v.again = msg[m].again /\ v.given =
      msg[m].given /\ v.answer = msg[m].answer
  BY <1>2, <1>3, <1>5 DEF Threads, Places
<1> HIDE DEF v
<1>8. Typed /\ Others(m) /\ msg'[m] = v
  BY <1>3, <1>4, <1>6, <1>7, Replaced
<1> QED BY <1>7, <1>8 DEF n, k

LEMMA OpenedDoes ==
    ASSUME TypeOK, NEW m \in Messages, Len(opened') = Len(opened) + 1,
           msg' = [msg EXCEPT ![m].at = "served", ![m].given = Len(opened) + 1, ![m].ran = @ + 1]
    PROVE  Typed /\ Others(m) /\ msg'[m].at = "served" /\ msg'[m].given = Len(opened) + 1 /\ msg'[m].ran = msg[m].ran + 1 /\
           msg'[m].carried = msg[m].carried /\ msg'[m].again = msg[m].again /\ msg'[m].answer = msg[m].answer
<1> DEFINE n == Len(opened) + 1
           k == msg[m].ran + 1
           v == [msg[m] EXCEPT !.at = "served", !.given = n, !.ran = k]
<1>1. msg[m] \in Threads(Len(opened)) /\ Len(opened) \in Nat /\ Of(m) \in Relays
  BY ThreadTyped
<1>2. k \in Nat
  BY <1>1 DEF Threads
<1>3. n \in Nat /\ n \in 0..n /\ Len(opened') = n
  BY <1>1 DEF TypeOK
<1>4. msg \in [Messages -> Threads(n)]
  BY <1>1, Wider DEF TypeOK
<1>5. msg[m] \in Threads(n)
  BY <1>4
<1>6. msg' = [msg EXCEPT ![m] = v]
  OBVIOUS
<1> HIDE DEF n, k
<1>7. v \in Threads(n) /\ v.at = "served" /\ v.given = n /\ v.ran = k /\ v.carried = msg[m].carried /\ v.again = msg[m].again /\
      v.answer = msg[m].answer
  BY <1>2, <1>3, <1>5 DEF Threads, Places
<1> HIDE DEF v
<1>8. Typed /\ Others(m) /\ msg'[m] = v
  BY <1>3, <1>4, <1>6, <1>7, Replaced
<1> QED BY <1>7, <1>8 DEF n, k

LEMMA RejoinedDoes ==
    ASSUME TypeOK, NEW m \in Messages, Len(opened') = Len(opened) + 1,
           msg' = [msg EXCEPT ![m].at = "announce", ![m].given = Len(opened) + 1]
    PROVE  Typed /\ Others(m) /\ msg'[m].at = "announce" /\ msg'[m].given = Len(opened) + 1 /\ msg'[m].carried = msg[m].carried /\
           msg'[m].again = msg[m].again /\ msg'[m].ran = msg[m].ran /\ msg'[m].answer = msg[m].answer
<1> DEFINE n == Len(opened) + 1
           v == [msg[m] EXCEPT !.at = "announce", !.given = n]
<1>1. msg[m] \in Threads(Len(opened)) /\ Len(opened) \in Nat /\ Of(m) \in Relays
  BY ThreadTyped
<1>2. n \in Nat /\ n \in 0..n /\ Len(opened') = n
  BY <1>1 DEF TypeOK
<1>3. msg \in [Messages -> Threads(n)]
  BY <1>1, Wider DEF TypeOK
<1>4. msg[m] \in Threads(n)
  BY <1>3
<1>5. msg' = [msg EXCEPT ![m] = v]
  OBVIOUS
<1> HIDE DEF n
<1>6. v \in Threads(n) /\ v.at = "announce" /\ v.given = n /\ v.carried = msg[m].carried /\ v.again = msg[m].again /\ v.ran =
      msg[m].ran /\ v.answer = msg[m].answer
  BY <1>2, <1>4 DEF Threads, Places
<1> HIDE DEF v
<1>7. Typed /\ Others(m) /\ msg'[m] = v
  BY <1>2, <1>3, <1>5, <1>6, Replaced
<1> QED BY <1>6, <1>7 DEF n

(* What was on the wire is answered with an error, and nothing else changes. *)
LEMMA UnpluggedDoes ==
    ASSUME TypeOK, msg' = Unplugged, UNCHANGED opened
    PROVE  /\ Typed
           /\ \A m \in Messages :
                IF OnTheWire(m) THEN Alike(m) /\ msg'[m].at = "answered" /\ msg'[m].answer = "error"
                ELSE msg'[m] = msg[m]
<1> SUFFICES ASSUME NEW m \in Messages
             PROVE  /\ msg'[m] \in Threads(Len(opened))
                    /\ IF OnTheWire(m) THEN Alike(m) /\ msg'[m].at = "answered" /\ msg'[m].answer = "error"
                       ELSE msg'[m] = msg[m]
  BY DEF Typed, Unplugged
<1>1. msg[m] \in Threads(Len(opened))
  BY ThreadTyped
<1>2. msg'[m] = IF OnTheWire(m) THEN [msg[m] EXCEPT !.at = "answered", !.answer = "error"] ELSE msg[m]
  BY DEF Unplugged
<1> QED BY <1>1, <1>2 DEF Threads, Places, Alike


------------------------------------------------------------------------------
(* Types *)

(* The state is typed as it starts, and after every step. *)
LEMMA TypeInit == Init => TypeOK
<1> SUFFICES ASSUME Init PROVE TypeOK
  OBVIOUS
<1>0. Fresh \in Threads(0)
  BY DEF Fresh, Places, Threads
<1>1. Fresh \in Threads(0) /\ [Fresh EXCEPT !.at = "launch"] \in Threads(0)
  BY <1>0 DEF Places, Threads
<1> DEFINE first == [Fresh EXCEPT !.at = "launch"]
<1>2. msg = [m \in Messages |-> IF Handshake(m) THEN first ELSE Fresh]
  BY DEF Init
<1> HIDE DEF first
<1>3. msg \in [Messages -> Threads(0)]
  BY <1>1, <1>2 DEF first
<1> QED BY <1>3 DEF Init, TypeOK

(* A session is opened: there is one more, and the others are what they were. *)
LEMMA OpenAdds ==
    ASSUME TypeOK, NEW r \in Relays, Open(r)
    PROVE  /\ opened' \in Seq(Relays) /\ Len(opened') = Len(opened) + 1 /\ opened'[Len(opened) + 1] = r
           /\ \A s \in 1..Len(opened) : opened'[s] = opened[s]
           /\ kept' \subseteq DOMAIN opened' /\ counted' \subseteq DOMAIN opened'
           /\ Len(opened) \in Nat /\ kept \subseteq 1..Len(opened)
           /\ \A s \in Relays : session[s] \in 0..Len(opened')
BY DEF Open, TypeOK

LEMMA TypeStep == TypeOK /\ Next => TypeOK'
<1> SUFFICES ASSUME TypeOK, Next PROVE TypeOK'
  OBVIOUS
<1>1. ASSUME NEW m \in Messages, EnsureHost(m) PROVE TypeOK'
  <2>1. PICK x \in Places : msg' = At(m, x)
    BY <1>1 DEF EnsureHost, Places
  <2>2. Typed
    BY <1>1, <2>1, AtDoes DEF EnsureHost, hostVars
  <2> QED BY <1>1, <2>2, ThreadTyped DEF EnsureHost, TypeOK, Typed, hostVars, boundVars
<1>2. ASSUME NEW m \in Messages, HostAnswers(m) PROVE TypeOK'
  <2>1. PICK x \in Places : msg' = At(m, x)
    BY <1>2 DEF HostAnswers, Places
  <2>2. Typed
    BY <1>2, <2>1, AtDoes DEF HostAnswers, hostVars
  <2> QED BY <1>2, <2>2 DEF HostAnswers, TypeOK, Typed, hostVars, boundVars
<1>3. ASSUME NEW m \in Messages, GiveUp(m) PROVE TypeOK'
  <2>1. Typed
    BY <1>3, AnsweredDoes DEF GiveUp, hostVars
  <2> QED BY <1>3, <2>1, ThreadTyped DEF GiveUp, Exit, TypeOK, Typed, hostVars, boundVars
<1>4. ASSUME NEW m \in Messages, Attempt(m) PROVE TypeOK'
  <2>1. Typed
    BY <1>4, AnsweredDoes, AtDoes, PostedDoes DEF Attempt, hostVars, Places
  <2> QED BY <1>4, <2>1 DEF Attempt, TypeOK, Typed, hostVars, boundVars
<1>5. ASSUME NEW m \in Messages, Handle(m) PROVE TypeOK'
  <2>0. Of(m) \in Relays /\ msg[m].carried \in 0..Len(opened)
    BY ThreadTyped DEF Threads
  <2>1. CASE Handshake(m) /\ Open(Of(m)) /\ msg' = [msg EXCEPT ![m].at = "served", ![m].given = Len(opened) + 1, ![m].ran = @ + 1]
    <3>1. Typed
      BY <2>0, <2>1, OpenAdds, OpenedDoes
    <3> QED BY <1>5, <2>0, <2>1, <3>1, OpenAdds DEF Handle, TypeOK, Typed, boundVars
  <2>2. CASE counted' = Noted(msg[m].carried) /\ UNCHANGED <<kept, opened>> /\ Typed
    BY <1>5, <2>0, <2>2 DEF Handle, TypeOK, Typed, Noted, boundVars
  <2>3. Typed \/ Handshake(m)
    BY <1>5, ServedDoes, AtDoes, AnsweredDoes DEF Handle, Places
  <2> QED BY <1>5, <2>1, <2>2, <2>3 DEF Handle
<1>6. ASSUME NEW m \in Messages, Reinitialize(m) PROVE TypeOK'
  <2>1. Typed
    BY <1>6, AttemptedDoes, AtDoes DEF Reinitialize, hostVars, Places
  <2> QED BY <1>6, <2>1, ThreadTyped DEF Reinitialize, TypeOK, Typed, hostVars, boundVars
<1>7. ASSUME NEW m \in Messages, Rejoin(m) PROVE TypeOK'
  <2>0. Of(m) \in Relays
    BY ThreadTyped
  <2>1. CASE port # "nobody"
    <3>1. Typed
      BY <1>7, <2>0, <2>1, OpenAdds, RejoinedDoes DEF Rejoin
    <3> QED BY <1>7, <2>0, <2>1, <3>1, OpenAdds DEF Rejoin, TypeOK, Typed, boundVars
  <2>2. CASE port = "nobody"
    <3>1. Typed
      BY <1>7, <2>2, AnsweredDoes DEF Rejoin
    <3> QED BY <1>7, <2>2, <3>1 DEF Rejoin, TypeOK, Typed, boundVars
  <2> QED BY <2>1, <2>2
<1>8. ASSUME NEW m \in Messages, Announce(m) PROVE TypeOK'
  <2>0. Of(m) \in Relays /\ msg[m].given \in 0..Len(opened)
    BY ThreadTyped DEF Threads
  <2>1. Typed
    BY <1>8, AttemptedDoes, AnsweredDoes DEF Announce
  <2>2. counted' \subseteq DOMAIN opened
    BY <1>8, <2>0 DEF Announce, Noted, TypeOK
  <2>3. session' \in [Relays -> 0..Len(opened)]
    BY <1>8, <2>0 DEF Announce, TypeOK
  <2> QED BY <1>8, <2>1, <2>2, <2>3 DEF Announce, TypeOK, Typed, boundVars
<1>9. ASSUME NEW m \in Messages, Hear(m) PROVE TypeOK'
  <2>0. Of(m) \in Relays /\ msg[m].given \in 0..Len(opened)
    BY ThreadTyped DEF Threads
  <2>1. Typed
    BY <1>9, AnsweredDoes DEF Hear, hostVars
  <2> QED BY <1>9, <2>0, <2>1 DEF Hear, TypeOK, Typed, hostVars, boundVars
<1>10. ASSUME NEW m \in Messages, Send(m) PROVE TypeOK'
  <2>1. Typed
    BY <1>10, SentDoes DEF Send, hostVars
  <2> QED BY <1>10, <2>1 DEF Send, TypeOK, Typed, hostVars, boundVars
<1>11. ASSUME NEW r \in Relays, ServerBinds(r) PROVE TypeOK'
  BY <1>11 DEF ServerBinds, TypeOK, boundVars
<1>12. ASSUME NEW r \in Relays, Quit(r) PROVE TypeOK'
  <2>1. Typed
    BY <1>12, UnpluggedDoes DEF Quit, TypeOK, Typed
  <2> QED BY <1>12, <2>1 DEF Quit, Exit, HostEnds, TypeOK, Typed, boundVars
<1>13. ASSUME NEW s \in kept, Lapse(s) PROVE TypeOK'
  BY <1>13, RelaysAssumption DEF Lapse, TypeOK
<1>14. ASSUME AppEnds PROVE TypeOK'
  <2>1. Typed
    BY <1>14, UnpluggedDoes DEF AppEnds
  <2> QED BY <1>14, <2>1, RelaysAssumption DEF AppEnds, HostEnds, TypeOK, Typed
<1>15. ASSUME AppStarts PROVE TypeOK'
  BY <1>15, RelaysAssumption DEF AppStarts, TypeOK
<1> QED BY <1>1, <1>2, <1>3, <1>4, <1>5, <1>6, <1>7, <1>8, <1>9, <1>10, <1>11, <1>12, <1>13, <1>14, <1>15 DEF Next,
    ThreadStep


------------------------------------------------------------------------------
(* What each step does, as the lemmas below use it *)

LEMMA EnsureHostDoes ==
    ASSUME TypeOK, NEW m \in Messages, EnsureHost(m)
    PROVE  /\ Others(m) /\ Alike(m) /\ msg'[m].answer = msg[m].answer
           /\ \/ msg[m].at = "launch" /\ msg'[m].at = (IF port = "nobody" THEN "starting" ELSE "unsent")
              \/ msg[m].at = "down" /\ msg'[m].at = (IF port = "nobody" THEN "waiting" ELSE "rehosted")
<1>1. PICK x \in Places : /\ msg' = At(m, x)
                          /\ \/ msg[m].at = "launch" /\ x = (IF port = "nobody" THEN "starting" ELSE "unsent")
                             \/ msg[m].at = "down" /\ x = (IF port = "nobody" THEN "waiting" ELSE "rehosted")
  BY DEF EnsureHost, Places, Under
<1> QED BY <1>1, AtDoes DEF EnsureHost, hostVars

LEMMA HostAnswersDoes ==
    ASSUME TypeOK, NEW m \in Messages, HostAnswers(m)
    PROVE  /\ Others(m) /\ Alike(m) /\ msg'[m].answer = msg[m].answer
           /\ \/ msg[m].at = "starting" /\ msg'[m].at = "unsent"
              \/ msg[m].at = "waiting" /\ msg'[m].at = "rehosted"
<1>1. PICK x \in Places : /\ msg' = At(m, x)
                          /\ \/ msg[m].at = "starting" /\ x = "unsent"
                             \/ msg[m].at = "waiting" /\ x = "rehosted"
  BY DEF HostAnswers, Places, Under
<1> QED BY <1>1, AtDoes DEF HostAnswers, hostVars

LEMMA GiveUpDoes ==
    ASSUME TypeOK, NEW m \in Messages, GiveUp(m)
    PROVE  /\ Others(m) /\ Alike(m) /\ msg'[m].at = "answered" /\ msg'[m].answer = "error"
           /\ msg[m].at \in {"starting", "waiting"}
BY AnsweredDoes DEF GiveUp, hostVars, Under

LEMMA AttemptDoes ==
    ASSUME TypeOK, NEW m \in Messages, Attempt(m)
    PROVE  /\ Others(m) /\ msg[m].at = "attempt"
           /\ msg'[m].again = msg[m].again /\ msg'[m].given = msg[m].given /\ msg'[m].ran = msg[m].ran
           /\ \/ /\ port # "nobody" /\ msg'[m].at = "posted" /\ msg'[m].carried = session[Of(m)]
                 /\ msg'[m].answer = msg[m].answer
              \/ /\ port = "nobody" /\ msg[m].again /\ Alike(m) /\ msg'[m].at = "answered" /\ msg'[m].answer = "error"
              \/ /\ port = "nobody" /\ ~ msg[m].again /\ Alike(m) /\ msg'[m].at = "down"
                 /\ msg'[m].answer = msg[m].answer
<1>1. "down" \in Places /\ UNCHANGED opened /\ msg[m].at = "attempt"
  BY DEF Places, Attempt, hostVars, Under
<1>2. CASE port # "nobody"
  <2>1. msg' = [msg EXCEPT ![m].at = "posted", ![m].carried = session[Of(m)]]
    BY <1>2 DEF Attempt
  <2> QED BY <1>1, <1>2, <2>1, PostedDoes
<1>3. CASE port = "nobody" /\ msg[m].again
  <2>1. msg' = Answered(m, "error")
    BY <1>3 DEF Attempt
  <2>2. Others(m) /\ Alike(m) /\ msg'[m].at = "answered" /\ msg'[m].answer = "error"
    BY <1>1, <2>1, AnsweredDoes
  <2> QED BY <1>1, <1>3, <2>2 DEF Alike
<1>4. CASE port = "nobody" /\ ~ msg[m].again
  <2>1. msg' = At(m, "down")
    BY <1>4 DEF Attempt
  <2>2. Others(m) /\ Alike(m) /\ msg'[m].at = "down" /\ msg'[m].answer = msg[m].answer
    BY <1>1, <2>1, AtDoes
  <2> QED BY <1>1, <1>4, <2>2 DEF Alike
<1> QED BY <1>2, <1>3, <1>4

LEMMA HandleDoes ==
    ASSUME TypeOK, NEW m \in Messages, Handle(m)
    PROVE  /\ Others(m) /\ msg[m].at = "posted"
           /\ msg'[m].carried = msg[m].carried /\ msg'[m].again = msg[m].again
           /\ \/ /\ Handshake(m) /\ Open(Of(m)) /\ msg'[m].at = "served" /\ msg'[m].given = Len(opened) + 1
                 /\ msg'[m].ran = msg[m].ran + 1 /\ msg'[m].answer = msg[m].answer
              \/ /\ ~ Handshake(m) /\ msg[m].carried \in kept /\ msg'[m].at = "served"
                 /\ counted' = Noted(msg[m].carried) /\ UNCHANGED <<kept, opened>>
                 /\ msg'[m].given = msg[m].given /\ msg'[m].ran = msg[m].ran + 1 /\ msg'[m].answer = msg[m].answer
              \/ /\ ~ Handshake(m) /\ msg[m].carried \notin kept
                 /\ counted' = Noted(msg[m].carried) /\ UNCHANGED <<kept, opened>>
                 /\ msg'[m].given = msg[m].given /\ msg'[m].ran = msg[m].ran
                 /\ \/ msg'[m].at = "lost" /\ ~ msg[m].again /\ msg[m].carried # 0 /\ msg'[m].answer = msg[m].answer
                    \/ msg'[m].at = "answered" /\ msg'[m].answer = "error"
<1>0. "lost" \in Places /\ msg[m].at = "posted" /\ Of(m) \in Relays
  BY ThreadTyped DEF Places, Handle, Under
<1>1. CASE Handshake(m) /\ Open(Of(m)) /\ msg' = [msg EXCEPT ![m].at = "served", ![m].given = Len(opened) + 1, ![m].ran = @ + 1]
  <2>1. Len(opened') = Len(opened) + 1
    BY <1>0, <1>1, OpenAdds
  <2> QED BY <1>0, <1>1, <2>1, OpenedDoes
<1>2. CASE /\ ~ Handshake(m) /\ msg[m].carried \in kept /\ counted' = Noted(msg[m].carried) /\ UNCHANGED <<kept, opened>>
           /\ msg' = [msg EXCEPT ![m].at = "served", ![m].ran = @ + 1]
  BY <1>0, <1>2, ServedDoes
<1>3. CASE /\ ~ Handshake(m) /\ msg[m].carried \notin kept /\ counted' = Noted(msg[m].carried) /\ UNCHANGED <<kept, opened>>
           /\ \/ msg' = At(m, "lost") /\ msg[m].carried # 0 /\ ~ msg[m].again
              \/ msg' = Answered(m, "error")
  BY <1>0, <1>3, AtDoes, AnsweredDoes DEF Alike
<1> QED BY <1>1, <1>2, <1>3 DEF Handle

LEMMA ReinitializeDoes ==
    ASSUME TypeOK, NEW m \in Messages, Reinitialize(m)
    PROVE  /\ Others(m) /\ msg[m].at \in {"lost", "rehosted"}
           /\ msg'[m].carried = msg[m].carried /\ msg'[m].given = msg[m].given /\ msg'[m].ran = msg[m].ran
           /\ msg'[m].answer = msg[m].answer
           /\ \/ /\ Handshake(m) \/ session[Of(m)] = 0
                 /\ msg'[m].at = "attempt" /\ msg'[m].again /\ UNCHANGED session
              \/ /\ ~ Handshake(m) /\ session[Of(m)] # 0 /\ session' = [session EXCEPT ![Of(m)] = 0]
                 /\ msg'[m].at = "rejoin" /\ msg'[m].again = msg[m].again
<1>1. "rejoin" \in Places
  BY DEF Places
<1> QED BY <1>1, AttemptedDoes, AtDoes DEF Reinitialize, hostVars, Under, Alike

LEMMA RejoinDoes ==
    ASSUME TypeOK, NEW m \in Messages, Rejoin(m)
    PROVE  /\ Others(m) /\ msg[m].at = "rejoin"
           /\ msg'[m].carried = msg[m].carried /\ msg'[m].again = msg[m].again /\ msg'[m].ran = msg[m].ran
           /\ \/ /\ port # "nobody" /\ Open(Of(m)) /\ msg'[m].at = "announce" /\ msg'[m].given = Len(opened) + 1
                 /\ msg'[m].answer = msg[m].answer
              \/ /\ port = "nobody" /\ UNCHANGED <<kept, counted, opened>>
                 /\ msg'[m].at = "answered" /\ msg'[m].answer = "error" /\ msg'[m].given = msg[m].given
<1>1. Of(m) \in Relays /\ msg[m].at = "rejoin"
  BY ThreadTyped DEF Rejoin, Under
<1>2. CASE port # "nobody"
  BY <1>1, <1>2, OpenAdds, RejoinedDoes DEF Rejoin
<1>3. CASE port = "nobody"
  BY <1>1, <1>3, AnsweredDoes DEF Rejoin, Alike
<1> QED BY <1>2, <1>3

LEMMA AnnounceDoes ==
    ASSUME TypeOK, NEW m \in Messages, Announce(m)
    PROVE  /\ Others(m) /\ msg[m].at = "announce"
           /\ msg'[m].carried = msg[m].carried /\ msg'[m].given = msg[m].given /\ msg'[m].ran = msg[m].ran
           /\ \/ /\ port # "nobody" /\ session' = [session EXCEPT ![Of(m)] = msg[m].given]
                 /\ counted' = Noted(msg[m].given)
                 /\ msg'[m].at = "attempt" /\ msg'[m].again /\ msg'[m].answer = msg[m].answer
              \/ /\ port = "nobody" /\ UNCHANGED <<session, counted>>
                 /\ msg'[m].at = "answered" /\ msg'[m].answer = "error"
BY AttemptedDoes, AnsweredDoes DEF Announce, Under, Alike

LEMMA HearDoes ==
    ASSUME TypeOK, NEW m \in Messages, Hear(m)
    PROVE  /\ Others(m) /\ Alike(m) /\ msg[m].at = "served" /\ msg'[m].at = "answered" /\ msg'[m].answer = "reply"
BY AnsweredDoes DEF Hear, hostVars, Under

LEMMA SendDoes ==
    ASSUME TypeOK, NEW m \in Messages, Send(m)
    PROVE  /\ Others(m) /\ Alike(m) /\ msg[m].at = "unsent" /\ msg'[m].at = "attempt" /\ msg'[m].answer = msg[m].answer
BY SentDoes DEF Send, hostVars, Under, Alike


(* A handshake that is answered stays so. *)
LEMMA HandshakenStays ==
    ASSUME RunsInv, NEW m \in Messages, Others(m), ~ Under(m, {"answered"})
    PROVE  \A o \in Messages : Handshaken(Of(o)) => Handshaken(Of(o))'
<1> SUFFICES ASSUME NEW o \in Messages, Handshaken(Of(o)) PROVE Handshaken(Of(o))'
  OBVIOUS
<1>1. <<Of(o), 0>> \in Messages
  BY MessagesAre
<1> QED BY <1>1 DEF RunsInv, Handshaken, Others, Under

(* One thread goes on: the other relays' threads keep what they carry. *)
LEMMA AloneKept ==
    ASSUME AloneInv, NEW m \in Messages, Others(m), UNCHANGED patient,
           \A r \in Relays : r # Of(m) \/ ~ InProgress(m) => session'[r] = session[r],
           \A r \in Relays : session'[r] = session[r] /\ session[r] \notin kept => session[r] \notin kept',
           patient[Of(m)] /\ InProgress(m)' =>
               Carries(m)' /\ (InProgress(m) \/ \A o \in Messages : Of(o) = Of(m) => ~ InProgress(o))
    PROVE  AloneInv'
<1> SUFFICES ASSUME NEW n \in Messages, patient[Of(n)], InProgress(n)' PROVE Alone(n)' /\ Carries(n)'
  BY DEF AloneInv
<1>1. CASE n = m
  <2>1. ASSUME NEW o \in Messages, Of(o) = Of(m), InProgress(o)', o # m PROVE FALSE
    <3>1. InProgress(o)
      BY <2>1 DEF Others, InProgress, Under
    <3> QED BY <1>1, <2>1, <3>1 DEF AloneInv, Alone
  <2> QED BY <1>1, <2>1 DEF Alone
<1>2. CASE n # m
  <2>1. InProgress(n) /\ msg'[n] = msg[n]
    BY <1>2 DEF Others, InProgress, Under
  <2>2. Alone(n) /\ Carries(n)
    BY <2>1 DEF AloneInv
  <2>3. Of(n) = Of(m) => ~ InProgress(m)
    BY <1>2, <2>2 DEF Alone
  <2>4. Of(n) \in Relays
    BY MessagesAre
  <2>5. session'[Of(n)] = session[Of(n)] /\ (session[Of(n)] \notin kept => session[Of(n)] \notin kept')
    BY <2>3, <2>4
  <2>6. Carries(n)'
    BY <2>1, <2>2, <2>5 DEF Carries, Under
  <2>7. ASSUME NEW o \in Messages, Of(o) = Of(n), InProgress(o)' PROVE o = n
    <3>1. CASE o = m
      BY <2>1, <2>3, <2>7, <3>1
    <3>2. CASE o # m
      <4>1. InProgress(o)
        BY <2>7, <3>2 DEF Others, InProgress, Under
      <4> QED BY <2>2, <2>7, <4>1 DEF Alone
    <3> QED BY <3>1, <3>2
  <2> QED BY <2>6, <2>7 DEF Alone
<1> QED BY <1>1, <1>2

(* One thread goes on: a session that is kept stays its relay's, or its thread's, and a new one is its thread's. *)
LEMMA LeftKept ==
    ASSUME LeftInv, NEW m \in Messages, Others(m), UNCHANGED <<patient, gone>>,
           \A s \in kept' : \/ s \in kept /\ opened'[s] = opened[s]
                            \/ /\ opened'[s] = Of(m) /\ Of(m) \notin gone
                               /\ Under(m, {"served", "announce"})' /\ msg'[m].given = s,
           \A r \in Relays, s \in kept \cap kept' :
               patient[r] /\ opened[s] = r /\ s = session[r] => s = session'[r],
           \A s \in kept \cap kept' :
               patient[Of(m)] /\ opened[s] = Of(m) /\ Under(m, {"served", "announce"}) /\ msg[m].given = s => s = session'[Of(m)]
    PROVE  LeftInv'
<1> SUFFICES ASSUME NEW r \in Relays, NEW s \in kept', patient[r], opened'[s] = r
             PROVE  /\ r \notin gone
                    /\ \/ s = session'[r]
                       \/ \E n \in Messages : Of(n) = r /\ Under(n, {"served", "announce"})' /\ msg'[n].given = s
  BY DEF LeftInv
<1>1. CASE s \in kept /\ opened'[s] = opened[s]
  <2>1. r \notin gone
    BY <1>1 DEF LeftInv
  <2>2. CASE s = session[r]
    BY <1>1, <2>1, <2>2
  <2>3. CASE \E n \in Messages : Of(n) = r /\ Under(n, {"served", "announce"}) /\ msg[n].given = s
    <3>1. PICK n \in Messages : Of(n) = r /\ Under(n, {"served", "announce"}) /\ msg[n].given = s
      BY <2>3
    <3>2. CASE n = m
      BY <1>1, <2>1, <3>1, <3>2
    <3>3. CASE n # m
      <4>1. Under(n, {"served", "announce"})' /\ msg'[n].given = s
        BY <3>1, <3>3 DEF Others, Under
      <4> QED BY <2>1, <3>1, <4>1
    <3> QED BY <3>2, <3>3
  <2> QED BY <1>1, <2>2, <2>3 DEF LeftInv
<1>2. CASE /\ opened'[s] = Of(m) /\ Of(m) \notin gone
           /\ Under(m, {"served", "announce"})' /\ msg'[m].given = s
  BY <1>2
<1> QED BY <1>1, <1>2

------------------------------------------------------------------------------
(* Every step keeps the invariant, part by part *)

(* A message is run only on its way from the wire to its answer. *)
LEMMA RunsStep == TypeOK /\ RunsInv /\ Next => RunsInv'
<1> SUFFICES ASSUME TypeOK, RunsInv, Next PROVE RunsInv'
  OBVIOUS
<1>1. ASSUME NEW m \in Messages, EnsureHost(m) PROVE RunsInv'
  BY <1>1, EnsureHostDoes DEF RunsInv, Under, Others, Alike
<1>2. ASSUME NEW m \in Messages, HostAnswers(m) PROVE RunsInv'
  BY <1>2, HostAnswersDoes DEF RunsInv, Under, Others, Alike
<1>3. ASSUME NEW m \in Messages, GiveUp(m) PROVE RunsInv'
  BY <1>3, GiveUpDoes DEF RunsInv, Under, Others, Alike
<1>4. ASSUME NEW m \in Messages, Attempt(m) PROVE RunsInv'
  BY <1>4, AttemptDoes DEF RunsInv, Under, Others, Alike
<1>5. ASSUME NEW m \in Messages, Handle(m) PROVE RunsInv'
  BY <1>5, HandleDoes DEF RunsInv, Under, Others, Alike
<1>6. ASSUME NEW m \in Messages, Reinitialize(m) PROVE RunsInv'
  BY <1>6, ReinitializeDoes DEF RunsInv, Under, Others, Alike
<1>7. ASSUME NEW m \in Messages, Rejoin(m) PROVE RunsInv'
  BY <1>7, RejoinDoes DEF RunsInv, Under, Others, Alike
<1>8. ASSUME NEW m \in Messages, Announce(m) PROVE RunsInv'
  BY <1>8, AnnounceDoes DEF RunsInv, Under, Others, Alike
<1>9. ASSUME NEW m \in Messages, Hear(m) PROVE RunsInv'
  BY <1>9, HearDoes DEF RunsInv, Under, Others, Alike
<1>10. ASSUME NEW m \in Messages, Send(m) PROVE RunsInv'
  BY <1>10, SendDoes DEF RunsInv, Under, Others, Alike
<1>11. ASSUME NEW r \in Relays, ServerBinds(r) PROVE RunsInv'
  BY <1>11 DEF ServerBinds, RunsInv, Under
<1>12. ASSUME NEW r \in Relays, Quit(r) PROVE RunsInv'
  <2>1. CASE msg' = Unplugged
    BY <1>12, <2>1, UnpluggedDoes DEF Quit, RunsInv, OnTheWire, Under, Alike
  <2>2. CASE UNCHANGED msg
    BY <2>2 DEF RunsInv, Under
  <2> QED BY <1>12, <2>1, <2>2 DEF Quit
<1>13. ASSUME NEW s \in kept, Lapse(s) PROVE RunsInv'
  BY <1>13 DEF Lapse, RunsInv, Under
<1>14. ASSUME AppEnds PROVE RunsInv'
  BY <1>14, UnpluggedDoes DEF AppEnds, RunsInv, OnTheWire, Under, Alike
<1>15. ASSUME AppStarts PROVE RunsInv'
  BY <1>15 DEF AppStarts, RunsInv, Under
<1> QED BY <1>1, <1>2, <1>3, <1>4, <1>5, <1>6, <1>7, <1>8, <1>9, <1>10, <1>11, <1>12, <1>13, <1>14, <1>15 DEF Next,
    ThreadStep

(* A session is its relay's, and counted while it is kept. *)
LEMMA TheirsStep == TypeOK /\ TheirsInv /\ Next => TheirsInv'
<1> SUFFICES ASSUME TypeOK, TheirsInv, Next PROVE TheirsInv'
  OBVIOUS
<1>1. ASSUME NEW m \in Messages, EnsureHost(m) PROVE TheirsInv'
  <2>1. \A o \in Messages : msg'[o].given = msg[o].given
    BY <1>1, EnsureHostDoes DEF Others, Alike
  <2>2. UNCHANGED <<kept, counted, opened, session>>
    BY <1>1 DEF EnsureHost, hostVars
  <2> QED BY <2>1, <2>2 DEF TheirsInv, SessionsAreTheirs
<1>2. ASSUME NEW m \in Messages, HostAnswers(m) PROVE TheirsInv'
  <2>1. \A o \in Messages : msg'[o].given = msg[o].given
    BY <1>2, HostAnswersDoes DEF Others, Alike
  <2>2. UNCHANGED <<kept, counted, opened, session>>
    BY <1>2 DEF HostAnswers, hostVars
  <2> QED BY <2>1, <2>2 DEF TheirsInv, SessionsAreTheirs
<1>3. ASSUME NEW m \in Messages, GiveUp(m) PROVE TheirsInv'
  <2>1. \A o \in Messages : msg'[o].given = msg[o].given
    BY <1>3, GiveUpDoes DEF Others, Alike
  <2>2. UNCHANGED <<kept, counted, opened, session>>
    BY <1>3 DEF GiveUp, hostVars
  <2> QED BY <2>1, <2>2 DEF TheirsInv, SessionsAreTheirs
<1>4. ASSUME NEW m \in Messages, Attempt(m) PROVE TheirsInv'
  <2>1. \A o \in Messages : msg'[o].given = msg[o].given
    BY <1>4, AttemptDoes DEF Others, Alike
  <2>2. UNCHANGED <<kept, counted, opened, session>>
    BY <1>4 DEF Attempt, hostVars
  <2> QED BY <2>1, <2>2 DEF TheirsInv, SessionsAreTheirs
<1>5. ASSUME NEW m \in Messages, Handle(m) PROVE TheirsInv'
  <2>0. Of(m) \in Relays /\ kept \subseteq 1..Len(opened) /\ Len(opened) \in Nat
    BY ThreadTyped DEF TypeOK
  <2>1. CASE UNCHANGED <<opened, kept>>
    <3>1. (\A o \in Messages : msg'[o].given = msg[o].given) /\ counted \subseteq counted'
      BY <1>5, <2>1, HandleDoes, <2>0 DEF Others, Noted, Open
    <3>2. UNCHANGED session
      BY <1>5 DEF Handle
    <3> QED BY <2>1, <3>1, <3>2 DEF TheirsInv, SessionsAreTheirs
  <2>2. CASE Open(Of(m)) /\ msg'[m].given = Len(opened) + 1
    <3>1. \A s \in 0..Len(opened) : s # 0 => opened'[s] = opened[s]
      BY <2>0, <2>2, OpenAdds
    <3>2. \A o \in Messages : msg[o].given \in 0..Len(opened)
      BY ThreadTyped DEF Threads
    <3>3. \A r \in Relays : session'[r] \in 0..Len(opened) /\ session'[r] = session[r]
      BY <1>5 DEF TypeOK, Handle
    <3>4. opened'[Len(opened) + 1] = Of(m)
      BY <2>0, <2>2, OpenAdds
    <3>5. kept' \subseteq counted'
      BY <2>2 DEF Open, TheirsInv, SessionsAreTheirs
    <3>6. ASSUME NEW o \in Messages, msg'[o].given # 0 PROVE opened'[msg'[o].given] = Of(o)
      BY <1>5, <2>2, <3>1, <3>2, <3>4, <3>6, HandleDoes DEF TheirsInv, Others
    <3> QED BY <3>1, <3>3, <3>5, <3>6 DEF TheirsInv, SessionsAreTheirs
  <2> QED BY <1>5, <2>1, <2>2, HandleDoes
<1>6. ASSUME NEW m \in Messages, Reinitialize(m) PROVE TheirsInv'
  <2>1. \A o \in Messages : msg'[o].given = msg[o].given
    BY <1>6, ReinitializeDoes DEF Others, Alike
  <2>2. UNCHANGED <<kept, counted, opened>> /\ \A r \in Relays : session'[r] \in {0, session[r]}
    BY <1>6, ThreadTyped DEF Reinitialize, hostVars, TypeOK
  <2> QED BY <2>1, <2>2 DEF TheirsInv, SessionsAreTheirs
<1>7. ASSUME NEW m \in Messages, Rejoin(m) PROVE TheirsInv'
  <2>0. Of(m) \in Relays /\ kept \subseteq 1..Len(opened) /\ Len(opened) \in Nat
    BY ThreadTyped DEF TypeOK
  <2>1. CASE UNCHANGED <<opened, kept>>
    <3>1. (\A o \in Messages : msg'[o].given = msg[o].given) /\ counted \subseteq counted'
      BY <1>7, <2>1, RejoinDoes, <2>0 DEF Others, Noted, Open
    <3>2. UNCHANGED session
      BY <1>7 DEF Rejoin
    <3> QED BY <2>1, <3>1, <3>2 DEF TheirsInv, SessionsAreTheirs
  <2>2. CASE Open(Of(m)) /\ msg'[m].given = Len(opened) + 1
    <3>1. \A s \in 0..Len(opened) : s # 0 => opened'[s] = opened[s]
      BY <2>0, <2>2, OpenAdds
    <3>2. \A o \in Messages : msg[o].given \in 0..Len(opened)
      BY ThreadTyped DEF Threads
    <3>3. \A r \in Relays : session'[r] \in 0..Len(opened) /\ session'[r] = session[r]
      BY <1>7 DEF TypeOK, Rejoin
    <3>4. opened'[Len(opened) + 1] = Of(m)
      BY <2>0, <2>2, OpenAdds
    <3>5. kept' \subseteq counted'
      BY <2>2 DEF Open, TheirsInv, SessionsAreTheirs
    <3>6. ASSUME NEW o \in Messages, msg'[o].given # 0 PROVE opened'[msg'[o].given] = Of(o)
      BY <1>7, <2>2, <3>1, <3>2, <3>4, <3>6, RejoinDoes DEF TheirsInv, Others
    <3> QED BY <3>1, <3>3, <3>5, <3>6 DEF TheirsInv, SessionsAreTheirs
  <2> QED BY <1>7, <2>1, <2>2, RejoinDoes
<1>8. ASSUME NEW m \in Messages, Announce(m) PROVE TheirsInv'
  <2>1. \A o \in Messages : msg'[o].given = msg[o].given
    BY <1>8, AnnounceDoes DEF Others, Alike
  <2>2. /\ UNCHANGED <<kept, opened>> /\ counted \subseteq counted'
        /\ \A r \in Relays : session'[r] = session[r] \/ (r = Of(m) /\ session'[r] = msg[m].given)
    BY <1>8, ThreadTyped DEF Announce, Noted, TypeOK
  <2> QED BY <2>1, <2>2, ThreadTyped DEF TheirsInv, SessionsAreTheirs
<1>9. ASSUME NEW m \in Messages, Hear(m) PROVE TheirsInv'
  <2>1. \A o \in Messages : msg'[o].given = msg[o].given
    BY <1>9, HearDoes DEF Others, Alike
  <2>2. /\ UNCHANGED <<kept, opened>> /\ counted \subseteq counted'
        /\ \A r \in Relays : session'[r] = session[r] \/ (r = Of(m) /\ session'[r] = msg[m].given)
    BY <1>9, ThreadTyped DEF Hear, hostVars, TypeOK
  <2> QED BY <2>1, <2>2, ThreadTyped DEF TheirsInv, SessionsAreTheirs
<1>10. ASSUME NEW m \in Messages, Send(m) PROVE TheirsInv'
  <2>1. \A o \in Messages : msg'[o].given = msg[o].given
    BY <1>10, SendDoes DEF Others, Alike
  <2>2. UNCHANGED <<kept, counted, opened, session>>
    BY <1>10 DEF Send, hostVars
  <2> QED BY <2>1, <2>2 DEF TheirsInv, SessionsAreTheirs
<1>11. ASSUME NEW r \in Relays, ServerBinds(r) PROVE TheirsInv'
  BY <1>11 DEF ServerBinds, TheirsInv, SessionsAreTheirs
<1>12. ASSUME NEW r \in Relays, Quit(r) PROVE TheirsInv'
  <2>1. CASE msg' = Unplugged /\ HostEnds
    BY <1>12, <2>1, UnpluggedDoes DEF Quit, HostEnds, TheirsInv, SessionsAreTheirs, Alike
  <2>2. CASE UNCHANGED msg /\ kept' = kept \ {session[r]} /\ counted' = counted \ {session[r]}
    BY <1>12, <2>2 DEF Quit, TheirsInv, SessionsAreTheirs
  <2> QED BY <1>12, <2>1, <2>2 DEF Quit
<1>13. ASSUME NEW s \in kept, Lapse(s) PROVE TheirsInv'
  BY <1>13 DEF Lapse, TheirsInv, SessionsAreTheirs
<1>14. ASSUME AppEnds PROVE TheirsInv'
  BY <1>14, UnpluggedDoes DEF AppEnds, HostEnds, TheirsInv, SessionsAreTheirs, Alike
<1>15. ASSUME AppStarts PROVE TheirsInv'
  BY <1>15 DEF AppStarts, TheirsInv, SessionsAreTheirs
<1> QED BY <1>1, <1>2, <1>3, <1>4, <1>5, <1>6, <1>7, <1>8, <1>9, <1>10, <1>11, <1>12, <1>13, <1>14, <1>15 DEF Next,
    ThreadStep

(* Nobody holds the port: no session, and nothing on the wire. *)
LEMMA PortStep == TypeOK /\ PortInv /\ Next => PortInv'
<1> SUFFICES ASSUME TypeOK, PortInv, Next PROVE PortInv'
  OBVIOUS
<1>1. ASSUME NEW m \in Messages, EnsureHost(m) PROVE PortInv'
  BY <1>1, EnsureHostDoes DEF EnsureHost, hostVars, boundVars, PortInv, OnTheWire, Under, Others
<1>2. ASSUME NEW m \in Messages, HostAnswers(m) PROVE PortInv'
  BY <1>2, HostAnswersDoes DEF HostAnswers, hostVars, boundVars, PortInv, OnTheWire, Under, Others
<1>3. ASSUME NEW m \in Messages, GiveUp(m) PROVE PortInv'
  BY <1>3, GiveUpDoes DEF GiveUp, hostVars, boundVars, PortInv, OnTheWire, Under, Others
<1>4. ASSUME NEW m \in Messages, Attempt(m) PROVE PortInv'
  BY <1>4, AttemptDoes DEF Attempt, hostVars, boundVars, PortInv, OnTheWire, Under, Others
<1>5. ASSUME NEW m \in Messages, Handle(m) PROVE PortInv'
  BY <1>5, HandleDoes DEF Handle, PortInv, OnTheWire, Under, Others
<1>6. ASSUME NEW m \in Messages, Reinitialize(m) PROVE PortInv'
  BY <1>6, ReinitializeDoes DEF Reinitialize, hostVars, boundVars, PortInv, OnTheWire, Under, Others
<1>7. ASSUME NEW m \in Messages, Rejoin(m) PROVE PortInv'
  BY <1>7, RejoinDoes DEF Rejoin, hostVars, boundVars, PortInv, OnTheWire, Under, Others
<1>8. ASSUME NEW m \in Messages, Announce(m) PROVE PortInv'
  BY <1>8, AnnounceDoes DEF Announce, hostVars, boundVars, PortInv, OnTheWire, Under, Others
<1>9. ASSUME NEW m \in Messages, Hear(m) PROVE PortInv'
  BY <1>9, HearDoes DEF Hear, hostVars, boundVars, PortInv, OnTheWire, Under, Others
<1>10. ASSUME NEW m \in Messages, Send(m) PROVE PortInv'
  BY <1>10, SendDoes DEF Send, hostVars, boundVars, PortInv, OnTheWire, Under, Others
<1>11. ASSUME NEW r \in Relays, ServerBinds(r) PROVE PortInv'
  BY <1>11, RelaysAssumption DEF ServerBinds, PortInv, OnTheWire, Under
<1>12. ASSUME NEW r \in Relays, Quit(r) PROVE PortInv'
  <2>1. CASE msg' = Unplugged /\ HostEnds
    BY <1>12, <2>1, UnpluggedDoes DEF Quit, HostEnds, PortInv, OnTheWire, Under
  <2>2. CASE UNCHANGED <<port, msg>> /\ kept' = kept \ {session[r]}
    BY <2>2 DEF PortInv, OnTheWire, Under
  <2> QED BY <1>12, <2>1, <2>2 DEF Quit
<1>13. ASSUME NEW s \in kept, Lapse(s) PROVE PortInv'
  BY <1>13 DEF Lapse, PortInv, OnTheWire, Under
<1>14. ASSUME AppEnds PROVE PortInv'
  BY <1>14, UnpluggedDoes DEF AppEnds, HostEnds, PortInv, OnTheWire, Under
<1>15. ASSUME AppStarts PROVE PortInv'
  BY <1>15 DEF AppStarts, PortInv, OnTheWire, Under
<1> QED BY <1>1, <1>2, <1>3, <1>4, <1>5, <1>6, <1>7, <1>8, <1>9, <1>10, <1>11, <1>12, <1>13, <1>14, <1>15 DEF Next,
    ThreadStep

(* Who holds the port is who hosts, and a relay that waits has tried to. *)
LEMMA HostStays ==
    ASSUME HostInv, NEW m \in Messages, UNCHANGED <<port, hosting, server, gone>>, Others(m),
           ~ Under(m, {"starting", "waiting"})'
    PROVE  HostInv'
<1>1. \A o \in Messages : Under(o, {"starting", "waiting"})' => Under(o, {"starting", "waiting"})
  BY DEF Under, Others
<1> QED BY <1>1 DEF HostInv

LEMMA HostStep == TypeOK /\ HostInv /\ GoneInv /\ Next => HostInv'
<1> SUFFICES ASSUME TypeOK, HostInv, GoneInv, Next PROVE HostInv'
  OBVIOUS
<1>1. ASSUME NEW m \in Messages, EnsureHost(m) PROVE HostInv'
  <2>1. Of(m) \in Relays /\ Of(m) \notin gone
    BY <1>1, EnsureHostDoes, ThreadTyped DEF GoneInv, Under
  <2>2. server' \in [Relays -> {"none", "starting", "up", "failed"}] /\ hosting' \in [Relays -> BOOLEAN]
    BY <1>1, <2>1 DEF EnsureHost, TypeOK
  <2>3. \A r \in Relays : /\ hosting[r] => hosting'[r]
                          /\ r # Of(m) => server'[r] = server[r] /\ (hosting'[r] <=> hosting[r])
    BY <1>1, <2>1 DEF EnsureHost, TypeOK
  <2>4. \/ server'[Of(m)] = server[Of(m)] /\ (hosting'[Of(m)] <=> hosting[Of(m)])
        \/ ~ hosting[Of(m)] /\ server'[Of(m)] = "starting" /\ hosting'[Of(m)]
    BY <1>1, <2>1 DEF EnsureHost, TypeOK
  <2>5. msg'[m].at \in {"starting", "waiting"} => hosting'[Of(m)]
    BY <1>1, <2>1, EnsureHostDoes DEF EnsureHost, TypeOK
  <2>6. \A o \in Messages : Of(o) \in Relays
    BY MessagesAre
  <2>7. \A o \in Messages : msg'[o].at \in {"starting", "waiting"} => hosting'[Of(o)]
    <3> SUFFICES ASSUME NEW o \in Messages, msg'[o].at \in {"starting", "waiting"} PROVE hosting'[Of(o)]
      OBVIOUS
    <3>1. CASE o = m
      BY <2>5, <3>1
    <3>2. CASE o # m
      <4>1. msg[o].at \in {"starting", "waiting"}
        BY <1>1, <3>2, EnsureHostDoes DEF Others
      <4>2. hosting[Of(o)]
        BY <4>1 DEF HostInv, Under
      <4> QED BY <2>2, <2>3, <2>6, <4>2 DEF TypeOK
    <3> QED BY <3>1, <3>2
  <2>8. UNCHANGED <<port, gone>>
    BY <1>1 DEF EnsureHost, hostVars
  <2>9. ASSUME NEW r \in Relays
        PROVE  /\ server'[r] = "up" <=> port' = r
               /\ hosting'[r] /\ r \notin gone' => server'[r] # "none"
               /\ server'[r] # "none" => hosting'[r]
               /\ r \in gone' => server'[r] = "none"
    <3>1. CASE r # Of(m)
      BY <2>2, <2>3, <2>8, <3>1 DEF HostInv, TypeOK
    <3>2. CASE r = Of(m)
      BY <2>1, <2>2, <2>4, <2>8, <3>2 DEF HostInv, TypeOK
    <3> QED BY <3>1, <3>2
  <2> QED BY <2>7, <2>9 DEF HostInv, Under
<1>2. ASSUME NEW m \in Messages, HostAnswers(m) PROVE HostInv'
  BY <1>2, HostAnswersDoes DEF HostAnswers, hostVars, HostInv, Under, Others
<1>3. ASSUME NEW m \in Messages, GiveUp(m) PROVE HostInv'
  <2>1. Of(m) \in Relays /\ UNCHANGED <<port, hosting>>
    BY <1>3, ThreadTyped DEF GiveUp, hostVars
  <2>2. \/ UNCHANGED <<gone, server>>
        \/ gone' = gone \cup {Of(m)} /\ server' = [server EXCEPT ![Of(m)] = "none"] /\ port = "nobody"
    BY <1>3 DEF GiveUp, Exit
  <2>3. \A o \in Messages : Under(o, {"starting", "waiting"})' => Under(o, {"starting", "waiting"})
    BY <1>3, GiveUpDoes DEF Under, Others
  <2> QED BY <2>1, <2>2, <2>3, RelaysAssumption DEF HostInv, TypeOK
<1>4. ASSUME NEW m \in Messages, Attempt(m) PROVE HostInv'
  <2>1. UNCHANGED <<port, hosting, server, gone>>
    BY <1>4 DEF Attempt, hostVars
  <2>2. Others(m) /\ ~ Under(m, {"starting", "waiting"})'
    BY <1>4, AttemptDoes DEF Under
  <2> QED BY <2>1, <2>2, HostStays
<1>5. ASSUME NEW m \in Messages, Handle(m) PROVE HostInv'
  <2>1. UNCHANGED <<port, hosting, server, gone>>
    BY <1>5 DEF Handle, hostVars
  <2>2. Others(m) /\ ~ Under(m, {"starting", "waiting"})'
    BY <1>5, HandleDoes DEF Under
  <2> QED BY <2>1, <2>2, HostStays
<1>6. ASSUME NEW m \in Messages, Reinitialize(m) PROVE HostInv'
  <2>1. UNCHANGED <<port, hosting, server, gone>>
    BY <1>6 DEF Reinitialize, hostVars
  <2>2. Others(m) /\ ~ Under(m, {"starting", "waiting"})'
    BY <1>6, ReinitializeDoes DEF Under
  <2> QED BY <2>1, <2>2, HostStays
<1>7. ASSUME NEW m \in Messages, Rejoin(m) PROVE HostInv'
  <2>1. UNCHANGED <<port, hosting, server, gone>>
    BY <1>7 DEF Rejoin, hostVars
  <2>2. Others(m) /\ ~ Under(m, {"starting", "waiting"})'
    BY <1>7, RejoinDoes DEF Under
  <2> QED BY <2>1, <2>2, HostStays
<1>8. ASSUME NEW m \in Messages, Announce(m) PROVE HostInv'
  <2>1. UNCHANGED <<port, hosting, server, gone>>
    BY <1>8 DEF Announce, hostVars
  <2>2. Others(m) /\ ~ Under(m, {"starting", "waiting"})'
    BY <1>8, AnnounceDoes DEF Under
  <2> QED BY <2>1, <2>2, HostStays
<1>9. ASSUME NEW m \in Messages, Hear(m) PROVE HostInv'
  <2>1. UNCHANGED <<port, hosting, server, gone>>
    BY <1>9 DEF Hear, hostVars
  <2>2. Others(m) /\ ~ Under(m, {"starting", "waiting"})'
    BY <1>9, HearDoes DEF Under
  <2> QED BY <2>1, <2>2, HostStays
<1>10. ASSUME NEW m \in Messages, Send(m) PROVE HostInv'
  <2>1. UNCHANGED <<port, hosting, server, gone>>
    BY <1>10 DEF Send, hostVars
  <2>2. Others(m) /\ ~ Under(m, {"starting", "waiting"})'
    BY <1>10, SendDoes DEF Under
  <2> QED BY <2>1, <2>2, HostStays
<1>11. ASSUME NEW r \in Relays, ServerBinds(r) PROVE HostInv'
  <2>1. UNCHANGED <<hosting, gone, msg>>
    BY <1>11 DEF ServerBinds
  <2>2. server[r] = "starting" /\ server[r] # "none" /\ server'[r] # "none" /\ \A q \in Relays \ {r} : server'[q] = server[q]
    BY <1>11 DEF ServerBinds, TypeOK
  <2>3. \A q \in Relays : server'[q] = "up" <=> port' = q
    BY <1>11, RelaysAssumption DEF ServerBinds, TypeOK, HostInv
  <2> QED BY <2>1, <2>2, <2>3 DEF HostInv, Under
<1>12. ASSUME NEW r \in Relays, Quit(r) PROVE HostInv'
  <2>1. \A o \in Messages : Under(o, {"starting", "waiting"})' => Under(o, {"starting", "waiting"})
    <3>1. CASE msg' = Unplugged /\ UNCHANGED opened
      BY <3>1, UnpluggedDoes DEF Under, OnTheWire
    <3>2. CASE UNCHANGED msg
      BY <3>2 DEF Under
    <3> QED BY <1>12, <3>1, <3>2 DEF Quit
  <2>2. /\ gone' = gone \cup {r} /\ server' = [server EXCEPT ![r] = "none"] /\ UNCHANGED hosting
        /\ port' = IF port = r THEN "nobody" ELSE port
    BY <1>12 DEF Quit, Exit, HostEnds
  <2> QED BY <2>1, <2>2, RelaysAssumption DEF HostInv, TypeOK
<1>13. ASSUME NEW s \in kept, Lapse(s) PROVE HostInv'
  BY <1>13 DEF Lapse, HostInv, Under
<1>14. ASSUME AppEnds PROVE HostInv'
  <2>1. \A o \in Messages : Under(o, {"starting", "waiting"})' => Under(o, {"starting", "waiting"})
    BY <1>14, UnpluggedDoes DEF AppEnds, Under, OnTheWire
  <2> QED BY <1>14, <2>1, RelaysAssumption DEF AppEnds, HostEnds, HostInv
<1>15. ASSUME AppStarts PROVE HostInv'
  BY <1>15, RelaysAssumption DEF AppStarts, HostInv, Under
<1> QED BY <1>1, <1>2, <1>3, <1>4, <1>5, <1>6, <1>7, <1>8, <1>9, <1>10, <1>11, <1>12, <1>13, <1>14, <1>15 DEF Next,
    ThreadStep

(* Nothing is sent before the handshake is answered. *)
LEMMA OrderStep == TypeOK /\ RunsInv /\ OrderInv /\ Next => OrderInv'
<1> SUFFICES ASSUME TypeOK, RunsInv, OrderInv, Next PROVE OrderInv'
  OBVIOUS
<1>1. ASSUME NEW m \in Messages, EnsureHost(m) PROVE OrderInv'
  <2>1. \A o \in Messages : msg[<<Of(o), 0>>].answer = "reply" => msg'[<<Of(o), 0>>].answer = "reply"
    BY <1>1, EnsureHostDoes, HandshakenStays DEF Under, Handshaken
  <2>2. \A o \in Messages \ {m} : msg'[o] = msg[o]
    BY <1>1, EnsureHostDoes DEF Others
  <2>3. /\ msg'[m].at \in {"launch", "starting"} => Handshake(m)
        /\ msg'[m].at \in {"lost", "rejoin", "announce"} => ~ Handshake(m)
        /\ msg'[m].at \in {"launch", "starting", "unsent"} => msg'[m].given = 0
        /\ ~ Handshake(m) /\ msg'[m].at # "unsent" => msg'[<<Of(m), 0>>].answer = "reply"
    BY <1>1, <2>1, EnsureHostDoes DEF OrderInv, Under, Handshaken, Alike
  <2>4. \A o \in Messages : session'[Of(o)] # 0 => msg'[<<Of(o), 0>>].answer = "reply"
    <3>1. \A o \in Messages : session'[Of(o)] # 0 => msg[<<Of(o), 0>>].answer = "reply" \/ msg'[<<Of(o), 0>>].answer = "reply"
      BY <1>1 DEF EnsureHost, hostVars, boundVars, OrderInv, Handshaken
    <3> QED BY <2>1, <3>1
  <2> QED BY <2>1, <2>2, <2>3, <2>4 DEF OrderInv, Under, Handshaken
<1>2. ASSUME NEW m \in Messages, HostAnswers(m) PROVE OrderInv'
  <2>1. \A o \in Messages : msg[<<Of(o), 0>>].answer = "reply" => msg'[<<Of(o), 0>>].answer = "reply"
    BY <1>2, HostAnswersDoes, HandshakenStays DEF Under, Handshaken
  <2>2. \A o \in Messages \ {m} : msg'[o] = msg[o]
    BY <1>2, HostAnswersDoes DEF Others
  <2>3. /\ msg'[m].at \in {"launch", "starting"} => Handshake(m)
        /\ msg'[m].at \in {"lost", "rejoin", "announce"} => ~ Handshake(m)
        /\ msg'[m].at \in {"launch", "starting", "unsent"} => msg'[m].given = 0
        /\ ~ Handshake(m) /\ msg'[m].at # "unsent" => msg'[<<Of(m), 0>>].answer = "reply"
    BY <1>2, <2>1, HostAnswersDoes DEF OrderInv, Under, Handshaken, Alike
  <2>4. \A o \in Messages : session'[Of(o)] # 0 => msg'[<<Of(o), 0>>].answer = "reply"
    <3>1. \A o \in Messages : session'[Of(o)] # 0 => msg[<<Of(o), 0>>].answer = "reply" \/ msg'[<<Of(o), 0>>].answer = "reply"
      BY <1>2 DEF HostAnswers, hostVars, boundVars, OrderInv, Handshaken
    <3> QED BY <2>1, <3>1
  <2> QED BY <2>1, <2>2, <2>3, <2>4 DEF OrderInv, Under, Handshaken
<1>3. ASSUME NEW m \in Messages, GiveUp(m) PROVE OrderInv'
  <2>1. \A o \in Messages : msg[<<Of(o), 0>>].answer = "reply" => msg'[<<Of(o), 0>>].answer = "reply"
    BY <1>3, GiveUpDoes, HandshakenStays DEF Under, Handshaken
  <2>2. \A o \in Messages \ {m} : msg'[o] = msg[o]
    BY <1>3, GiveUpDoes DEF Others
  <2>3. /\ msg'[m].at \in {"launch", "starting"} => Handshake(m)
        /\ msg'[m].at \in {"lost", "rejoin", "announce"} => ~ Handshake(m)
        /\ msg'[m].at \in {"launch", "starting", "unsent"} => msg'[m].given = 0
        /\ ~ Handshake(m) /\ msg'[m].at # "unsent" => msg'[<<Of(m), 0>>].answer = "reply"
    BY <1>3, <2>1, GiveUpDoes DEF OrderInv, Under, Handshaken, Alike
  <2>4. \A o \in Messages : session'[Of(o)] # 0 => msg'[<<Of(o), 0>>].answer = "reply"
    <3>1. \A o \in Messages : session'[Of(o)] # 0 => msg[<<Of(o), 0>>].answer = "reply" \/ msg'[<<Of(o), 0>>].answer = "reply"
      BY <1>3 DEF GiveUp, hostVars, boundVars, OrderInv, Handshaken
    <3> QED BY <2>1, <3>1
  <2> QED BY <2>1, <2>2, <2>3, <2>4 DEF OrderInv, Under, Handshaken
<1>4. ASSUME NEW m \in Messages, Attempt(m) PROVE OrderInv'
  <2>1. \A o \in Messages : msg[<<Of(o), 0>>].answer = "reply" => msg'[<<Of(o), 0>>].answer = "reply"
    BY <1>4, AttemptDoes, HandshakenStays DEF Under, Handshaken
  <2>2. \A o \in Messages \ {m} : msg'[o] = msg[o]
    BY <1>4, AttemptDoes DEF Others
  <2>3. /\ msg'[m].at \in {"launch", "starting"} => Handshake(m)
        /\ msg'[m].at \in {"lost", "rejoin", "announce"} => ~ Handshake(m)
        /\ msg'[m].at \in {"launch", "starting", "unsent"} => msg'[m].given = 0
        /\ ~ Handshake(m) /\ msg'[m].at # "unsent" => msg'[<<Of(m), 0>>].answer = "reply"
    BY <1>4, <2>1, AttemptDoes DEF OrderInv, Under, Handshaken, Alike
  <2>4. \A o \in Messages : session'[Of(o)] # 0 => msg'[<<Of(o), 0>>].answer = "reply"
    <3>1. \A o \in Messages : session'[Of(o)] # 0 => msg[<<Of(o), 0>>].answer = "reply" \/ msg'[<<Of(o), 0>>].answer = "reply"
      BY <1>4 DEF Attempt, hostVars, boundVars, OrderInv, Handshaken
    <3> QED BY <2>1, <3>1
  <2> QED BY <2>1, <2>2, <2>3, <2>4 DEF OrderInv, Under, Handshaken
<1>5. ASSUME NEW m \in Messages, Handle(m) PROVE OrderInv'
  <2>1. \A o \in Messages : msg[<<Of(o), 0>>].answer = "reply" => msg'[<<Of(o), 0>>].answer = "reply"
    BY <1>5, HandleDoes, HandshakenStays DEF Under, Handshaken
  <2>2. \A o \in Messages \ {m} : msg'[o] = msg[o]
    BY <1>5, HandleDoes DEF Others
  <2>3. /\ msg'[m].at \in {"launch", "starting"} => Handshake(m)
        /\ msg'[m].at \in {"lost", "rejoin", "announce"} => ~ Handshake(m)
        /\ msg'[m].at \in {"launch", "starting", "unsent"} => msg'[m].given = 0
        /\ ~ Handshake(m) /\ msg'[m].at # "unsent" => msg'[<<Of(m), 0>>].answer = "reply"
    BY <1>5, <2>1, HandleDoes DEF OrderInv, Under, Handshaken, Alike
  <2>4. \A o \in Messages : session'[Of(o)] # 0 => msg'[<<Of(o), 0>>].answer = "reply"
    <3>1. \A o \in Messages : session'[Of(o)] # 0 => msg[<<Of(o), 0>>].answer = "reply" \/ msg'[<<Of(o), 0>>].answer = "reply"
      BY <1>5 DEF Handle, hostVars, boundVars, OrderInv, Handshaken
    <3> QED BY <2>1, <3>1
  <2> QED BY <2>1, <2>2, <2>3, <2>4 DEF OrderInv, Under, Handshaken
<1>6. ASSUME NEW m \in Messages, Reinitialize(m) PROVE OrderInv'
  <2>1. \A o \in Messages : msg[<<Of(o), 0>>].answer = "reply" => msg'[<<Of(o), 0>>].answer = "reply"
    BY <1>6, ReinitializeDoes, HandshakenStays DEF Under, Handshaken
  <2>2. \A o \in Messages \ {m} : msg'[o] = msg[o]
    BY <1>6, ReinitializeDoes DEF Others
  <2>3. /\ msg'[m].at \in {"launch", "starting"} => Handshake(m)
        /\ msg'[m].at \in {"lost", "rejoin", "announce"} => ~ Handshake(m)
        /\ msg'[m].at \in {"launch", "starting", "unsent"} => msg'[m].given = 0
        /\ ~ Handshake(m) /\ msg'[m].at # "unsent" => msg'[<<Of(m), 0>>].answer = "reply"
    BY <1>6, <2>1, ReinitializeDoes DEF OrderInv, Under, Handshaken, Alike
  <2>4. \A o \in Messages : session'[Of(o)] # 0 => msg'[<<Of(o), 0>>].answer = "reply"
    <3>1. \A o \in Messages : session'[Of(o)] # 0 => msg[<<Of(o), 0>>].answer = "reply" \/ msg'[<<Of(o), 0>>].answer = "reply"
      BY <1>6, ReinitializeDoes, MessagesAre DEF OrderInv, Handshaken, TypeOK
    <3> QED BY <2>1, <3>1
  <2> QED BY <2>1, <2>2, <2>3, <2>4 DEF OrderInv, Under, Handshaken
<1>7. ASSUME NEW m \in Messages, Rejoin(m) PROVE OrderInv'
  <2>1. \A o \in Messages : msg[<<Of(o), 0>>].answer = "reply" => msg'[<<Of(o), 0>>].answer = "reply"
    BY <1>7, RejoinDoes, HandshakenStays DEF Under, Handshaken
  <2>2. \A o \in Messages \ {m} : msg'[o] = msg[o]
    BY <1>7, RejoinDoes DEF Others
  <2>3. /\ msg'[m].at \in {"launch", "starting"} => Handshake(m)
        /\ msg'[m].at \in {"lost", "rejoin", "announce"} => ~ Handshake(m)
        /\ msg'[m].at \in {"launch", "starting", "unsent"} => msg'[m].given = 0
        /\ ~ Handshake(m) /\ msg'[m].at # "unsent" => msg'[<<Of(m), 0>>].answer = "reply"
    BY <1>7, <2>1, RejoinDoes DEF OrderInv, Under, Handshaken, Alike
  <2>4. \A o \in Messages : session'[Of(o)] # 0 => msg'[<<Of(o), 0>>].answer = "reply"
    <3>1. \A o \in Messages : session'[Of(o)] # 0 => msg[<<Of(o), 0>>].answer = "reply" \/ msg'[<<Of(o), 0>>].answer = "reply"
      BY <1>7 DEF Rejoin, hostVars, boundVars, OrderInv, Handshaken
    <3> QED BY <2>1, <3>1
  <2> QED BY <2>1, <2>2, <2>3, <2>4 DEF OrderInv, Under, Handshaken
<1>8. ASSUME NEW m \in Messages, Announce(m) PROVE OrderInv'
  <2>1. \A o \in Messages : msg[<<Of(o), 0>>].answer = "reply" => msg'[<<Of(o), 0>>].answer = "reply"
    BY <1>8, AnnounceDoes, HandshakenStays DEF Under, Handshaken
  <2>2. \A o \in Messages \ {m} : msg'[o] = msg[o]
    BY <1>8, AnnounceDoes DEF Others
  <2>3. /\ msg'[m].at \in {"launch", "starting"} => Handshake(m)
        /\ msg'[m].at \in {"lost", "rejoin", "announce"} => ~ Handshake(m)
        /\ msg'[m].at \in {"launch", "starting", "unsent"} => msg'[m].given = 0
        /\ ~ Handshake(m) /\ msg'[m].at # "unsent" => msg'[<<Of(m), 0>>].answer = "reply"
    BY <1>8, <2>1, AnnounceDoes DEF OrderInv, Under, Handshaken, Alike
  <2>4. \A o \in Messages : session'[Of(o)] # 0 => msg'[<<Of(o), 0>>].answer = "reply"
    <3>1. \A o \in Messages : session'[Of(o)] # 0 => msg[<<Of(o), 0>>].answer = "reply" \/ msg'[<<Of(o), 0>>].answer = "reply"
      <4>1. msg[<<Of(m), 0>>].answer = "reply"
        BY <1>8, AnnounceDoes DEF OrderInv, Handshaken, Under
      <4>2. \A r \in Relays : r # Of(m) => session'[r] = session[r]
        BY <1>8 DEF Announce, TypeOK
      <4>3. \A o \in Messages : Of(o) \in Relays
        BY MessagesAre
      <4> QED BY <4>1, <4>2, <4>3 DEF OrderInv, Handshaken
    <3> QED BY <2>1, <3>1
  <2> QED BY <2>1, <2>2, <2>3, <2>4 DEF OrderInv, Under, Handshaken
<1>9. ASSUME NEW m \in Messages, Hear(m) PROVE OrderInv'
  <2>1. \A o \in Messages : msg[<<Of(o), 0>>].answer = "reply" => msg'[<<Of(o), 0>>].answer = "reply"
    BY <1>9, HearDoes, HandshakenStays DEF Under, Handshaken
  <2>2. \A o \in Messages \ {m} : msg'[o] = msg[o]
    BY <1>9, HearDoes DEF Others
  <2>3. /\ msg'[m].at \in {"launch", "starting"} => Handshake(m)
        /\ msg'[m].at \in {"lost", "rejoin", "announce"} => ~ Handshake(m)
        /\ msg'[m].at \in {"launch", "starting", "unsent"} => msg'[m].given = 0
        /\ ~ Handshake(m) /\ msg'[m].at # "unsent" => msg'[<<Of(m), 0>>].answer = "reply"
    BY <1>9, <2>1, HearDoes DEF OrderInv, Under, Handshaken, Alike
  <2>4. \A o \in Messages : session'[Of(o)] # 0 => msg'[<<Of(o), 0>>].answer = "reply"
    <3>1. \A o \in Messages : session'[Of(o)] # 0 => msg[<<Of(o), 0>>].answer = "reply" \/ msg'[<<Of(o), 0>>].answer = "reply"
      <4>1. Handshake(m) => msg'[<<Of(m), 0>>].answer = "reply"
        BY <1>9, HearDoes, MessagesAre
      <4>2. \A r \in Relays : r # Of(m) \/ ~ Handshake(m) => session'[r] = session[r]
        BY <1>9 DEF Hear, TypeOK
      <4>3. \A o \in Messages : Of(o) \in Relays
        BY MessagesAre
      <4> QED BY <4>1, <4>2, <4>3 DEF OrderInv, Handshaken
    <3> QED BY <2>1, <3>1
  <2> QED BY <2>1, <2>2, <2>3, <2>4 DEF OrderInv, Under, Handshaken
<1>10. ASSUME NEW m \in Messages, Send(m) PROVE OrderInv'
  <2>1. \A o \in Messages : msg[<<Of(o), 0>>].answer = "reply" => msg'[<<Of(o), 0>>].answer = "reply"
    BY <1>10, SendDoes, HandshakenStays DEF Under, Handshaken
  <2>2. \A o \in Messages \ {m} : msg'[o] = msg[o]
    BY <1>10, SendDoes DEF Others
  <2>3. /\ msg'[m].at \in {"launch", "starting"} => Handshake(m)
        /\ msg'[m].at \in {"lost", "rejoin", "announce"} => ~ Handshake(m)
        /\ msg'[m].at \in {"launch", "starting", "unsent"} => msg'[m].given = 0
        /\ ~ Handshake(m) /\ msg'[m].at # "unsent" => msg'[<<Of(m), 0>>].answer = "reply"
    BY <1>10, <2>1, SendDoes, MessagesAre DEF Send, OrderInv, Under, Handshaken, Alike
  <2>4. \A o \in Messages : session'[Of(o)] # 0 => msg'[<<Of(o), 0>>].answer = "reply"
    <3>1. \A o \in Messages : session'[Of(o)] # 0 => msg[<<Of(o), 0>>].answer = "reply" \/ msg'[<<Of(o), 0>>].answer = "reply"
      BY <1>10 DEF Send, hostVars, boundVars, OrderInv, Handshaken
    <3> QED BY <2>1, <3>1
  <2> QED BY <2>1, <2>2, <2>3, <2>4 DEF OrderInv, Under, Handshaken
<1>11. ASSUME NEW r \in Relays, ServerBinds(r) PROVE OrderInv'
  BY <1>11 DEF ServerBinds, OrderInv, Under, Handshaken
<1>12. ASSUME NEW r \in Relays, Quit(r) PROVE OrderInv'
  <2>1. CASE msg' = Unplugged /\ UNCHANGED <<opened, session>>
    <3>1. \A o \in Messages : msg[o].answer = "reply" => msg'[o].answer = "reply"
      BY <2>1, UnpluggedDoes DEF RunsInv, OnTheWire, Under
    <3>2. \A o \in Messages : /\ msg'[o].at \in {"answered", msg[o].at}
                              /\ msg'[o].at # msg[o].at => msg[o].at \in {"posted", "served"}
                              /\ msg'[o].given = msg[o].given
      BY <2>1, UnpluggedDoes DEF OnTheWire, Under, Alike
    <3> QED BY <2>1, <3>1, <3>2, MessagesAre DEF OrderInv, Under, Handshaken
  <2>2. CASE UNCHANGED <<msg, session>>
    BY <2>2 DEF OrderInv, Under, Handshaken
  <2> QED BY <1>12, <2>1, <2>2 DEF Quit
<1>13. ASSUME NEW s \in kept, Lapse(s) PROVE OrderInv'
  BY <1>13 DEF Lapse, OrderInv, Under, Handshaken
<1>14. ASSUME AppEnds PROVE OrderInv'
  <2>1. CASE msg' = Unplugged /\ UNCHANGED <<opened, session>>
    <3>1. \A o \in Messages : msg[o].answer = "reply" => msg'[o].answer = "reply"
      BY <2>1, UnpluggedDoes DEF RunsInv, OnTheWire, Under
    <3>2. \A o \in Messages : /\ msg'[o].at \in {"answered", msg[o].at}
                              /\ msg'[o].at # msg[o].at => msg[o].at \in {"posted", "served"}
                              /\ msg'[o].given = msg[o].given
      BY <2>1, UnpluggedDoes DEF OnTheWire, Under, Alike
    <3> QED BY <2>1, <3>1, <3>2, MessagesAre DEF OrderInv, Under, Handshaken
  <2> QED BY <1>14, <2>1 DEF AppEnds
<1>15. ASSUME AppStarts PROVE OrderInv'
  BY <1>15 DEF AppStarts, OrderInv, Under, Handshaken
<1> QED BY <1>1, <1>2, <1>3, <1>4, <1>5, <1>6, <1>7, <1>8, <1>9, <1>10, <1>11, <1>12, <1>13, <1>14, <1>15 DEF Next,
    ThreadStep

(* A process ends after its threads. *)
LEMMA GoneStep == TypeOK /\ RunsInv /\ OrderInv /\ GoneInv /\ Next => GoneInv'
<1> SUFFICES ASSUME TypeOK, RunsInv, OrderInv, GoneInv, Next PROVE GoneInv'
  OBVIOUS
<1>1. ASSUME NEW m \in Messages, EnsureHost(m) PROVE GoneInv'
  <2>1. Of(m) \notin gone /\ UNCHANGED gone
    BY <1>1, EnsureHostDoes DEF GoneInv, Under, EnsureHost
  <2>2. \A o \in Messages \ {m} : msg'[o] = msg[o]
    BY <1>1, EnsureHostDoes DEF Others
  <2> QED BY <2>1, <2>2 DEF GoneInv, Under
<1>2. ASSUME NEW m \in Messages, HostAnswers(m) PROVE GoneInv'
  <2>1. Of(m) \notin gone /\ UNCHANGED gone
    BY <1>2, HostAnswersDoes DEF GoneInv, Under, HostAnswers
  <2>2. \A o \in Messages \ {m} : msg'[o] = msg[o]
    BY <1>2, HostAnswersDoes DEF Others
  <2> QED BY <2>1, <2>2 DEF GoneInv, Under
<1>3. ASSUME NEW m \in Messages, GiveUp(m) PROVE GoneInv'
  <2>1. msg'[m].at = "answered" /\ \A o \in Messages \ {m} : msg'[o] = msg[o]
    BY <1>3, GiveUpDoes DEF Others
  <2>2. CASE UNCHANGED gone
    BY <2>1, <2>2 DEF GoneInv, Under
  <2>3. CASE msg[m].at = "starting" /\ gone' = gone \cup {Of(m)}
    <3>1. Handshake(m) /\ m = <<Of(m), 0>>
      BY <2>3, MessagesAre DEF OrderInv, Under
    <3>2. ~ Handshaken(Of(m))
      BY <2>3, <3>1 DEF RunsInv, Under, Handshaken
    <3>3. \A o \in Messages \ {m} : Of(o) = Of(m) => msg[o].at = "unsent"
      BY <3>1, <3>2, MessagesAre DEF OrderInv, Under
    <3> QED BY <2>1, <2>3, <3>3 DEF GoneInv, Under
  <2> QED BY <1>3, <2>2, <2>3, GiveUpDoes DEF GiveUp, Exit, Under
<1>4. ASSUME NEW m \in Messages, Attempt(m) PROVE GoneInv'
  <2>1. Of(m) \notin gone /\ UNCHANGED gone
    BY <1>4, AttemptDoes DEF GoneInv, Under, Attempt
  <2>2. \A o \in Messages \ {m} : msg'[o] = msg[o]
    BY <1>4, AttemptDoes DEF Others
  <2> QED BY <2>1, <2>2 DEF GoneInv, Under
<1>5. ASSUME NEW m \in Messages, Handle(m) PROVE GoneInv'
  <2>1. Of(m) \notin gone /\ UNCHANGED gone
    BY <1>5, HandleDoes DEF GoneInv, Under, Handle
  <2>2. \A o \in Messages \ {m} : msg'[o] = msg[o]
    BY <1>5, HandleDoes DEF Others
  <2> QED BY <2>1, <2>2 DEF GoneInv, Under
<1>6. ASSUME NEW m \in Messages, Reinitialize(m) PROVE GoneInv'
  <2>1. Of(m) \notin gone /\ UNCHANGED gone
    BY <1>6, ReinitializeDoes DEF GoneInv, Under, Reinitialize
  <2>2. \A o \in Messages \ {m} : msg'[o] = msg[o]
    BY <1>6, ReinitializeDoes DEF Others
  <2> QED BY <2>1, <2>2 DEF GoneInv, Under
<1>7. ASSUME NEW m \in Messages, Rejoin(m) PROVE GoneInv'
  <2>1. Of(m) \notin gone /\ UNCHANGED gone
    BY <1>7, RejoinDoes DEF GoneInv, Under, Rejoin
  <2>2. \A o \in Messages \ {m} : msg'[o] = msg[o]
    BY <1>7, RejoinDoes DEF Others
  <2> QED BY <2>1, <2>2 DEF GoneInv, Under
<1>8. ASSUME NEW m \in Messages, Announce(m) PROVE GoneInv'
  <2>1. Of(m) \notin gone /\ UNCHANGED gone
    BY <1>8, AnnounceDoes DEF GoneInv, Under, Announce
  <2>2. \A o \in Messages \ {m} : msg'[o] = msg[o]
    BY <1>8, AnnounceDoes DEF Others
  <2> QED BY <2>1, <2>2 DEF GoneInv, Under
<1>9. ASSUME NEW m \in Messages, Hear(m) PROVE GoneInv'
  <2>1. Of(m) \notin gone /\ UNCHANGED gone
    BY <1>9, HearDoes DEF GoneInv, Under, Hear
  <2>2. \A o \in Messages \ {m} : msg'[o] = msg[o]
    BY <1>9, HearDoes DEF Others
  <2> QED BY <2>1, <2>2 DEF GoneInv, Under
<1>10. ASSUME NEW m \in Messages, Send(m) PROVE GoneInv'
  <2>1. Of(m) \notin gone /\ UNCHANGED gone
    BY <1>10, SendDoes DEF GoneInv, Under, Send
  <2>2. \A o \in Messages \ {m} : msg'[o] = msg[o]
    BY <1>10, SendDoes DEF Others
  <2> QED BY <2>1, <2>2 DEF GoneInv, Under
<1>11. ASSUME NEW r \in Relays, ServerBinds(r) PROVE GoneInv'
  BY <1>11 DEF ServerBinds, GoneInv, Under
<1>12. ASSUME NEW r \in Relays, Quit(r) PROVE GoneInv'
  <2>1. \A o \in Messages : msg[o].at \in {"unsent", "answered"} => msg'[o].at \in {"unsent", "answered"}
    BY <1>12, UnpluggedDoes DEF Quit, OnTheWire, Under
  <2>2. \A o \in Messages : Of(o) = r => msg[o].at \in {"unsent", "answered"}
    BY <1>12 DEF Quit, InProgress, Under
  <2> QED BY <1>12, <2>1, <2>2 DEF Quit, Exit, GoneInv, Under
<1>13. ASSUME NEW s \in kept, Lapse(s) PROVE GoneInv'
  BY <1>13 DEF Lapse, GoneInv, Under
<1>14. ASSUME AppEnds PROVE GoneInv'
  <2>1. \A o \in Messages : msg[o].at \in {"unsent", "answered"} => msg'[o].at \in {"unsent", "answered"}
    BY <1>14, UnpluggedDoes DEF AppEnds, OnTheWire, Under
  <2> QED BY <1>14, <2>1 DEF AppEnds, GoneInv, Under
<1>15. ASSUME AppStarts PROVE GoneInv'
  BY <1>15 DEF AppStarts, GoneInv, Under
<1> QED BY <1>1, <1>2, <1>3, <1>4, <1>5, <1>6, <1>7, <1>8, <1>9, <1>10, <1>11, <1>12, <1>13, <1>14, <1>15 DEF Next,
    ThreadStep

(* A patient client has one thread, which knows the session. *)
LEMMA AloneStep == TypeOK /\ PortInv /\ OrderInv /\ AloneInv /\ Next => AloneInv'
<1> SUFFICES ASSUME TypeOK, PortInv, OrderInv, AloneInv, Next PROVE AloneInv'
  OBVIOUS
<1>1. ASSUME NEW m \in Messages, EnsureHost(m) PROVE AloneInv'
  <2>1. Of(m) \in Relays /\ Others(m) /\ UNCHANGED patient
    BY <1>1, EnsureHostDoes, ThreadTyped DEF EnsureHost, boundVars
  <2>2. \A r \in Relays : r # Of(m) \/ ~ InProgress(m) => session'[r] = session[r]
    BY <1>1 DEF EnsureHost, hostVars
  <2>3. \A r \in Relays : session[r] \notin kept => session[r] \notin kept'
    BY <1>1 DEF EnsureHost, hostVars
  <2>4. ASSUME patient[Of(m)], InProgress(m)'
        PROVE  Carries(m)' /\ (InProgress(m) \/ \A o \in Messages : Of(o) = Of(m) => ~ InProgress(o))
    <3>1. InProgress(m) /\ msg[m].at # msg'[m].at
      BY <1>1, <2>4, EnsureHostDoes DEF InProgress, Under
    <3>2. Carries(m)
      BY <2>4, <3>1 DEF AloneInv
    <3> QED BY <1>1, <2>1, <2>2, <2>3, <3>1, <3>2, EnsureHostDoes DEF EnsureHost, Carries, Under, Alike, hostVars
  <2> QED BY <2>1, <2>2, <2>3, <2>4, AloneKept
<1>2. ASSUME NEW m \in Messages, HostAnswers(m) PROVE AloneInv'
  <2>1. Of(m) \in Relays /\ Others(m) /\ UNCHANGED patient
    BY <1>2, HostAnswersDoes, ThreadTyped DEF HostAnswers, boundVars
  <2>2. \A r \in Relays : r # Of(m) \/ ~ InProgress(m) => session'[r] = session[r]
    BY <1>2 DEF HostAnswers, hostVars
  <2>3. \A r \in Relays : session[r] \notin kept => session[r] \notin kept'
    BY <1>2 DEF HostAnswers, hostVars
  <2>4. ASSUME patient[Of(m)], InProgress(m)'
        PROVE  Carries(m)' /\ (InProgress(m) \/ \A o \in Messages : Of(o) = Of(m) => ~ InProgress(o))
    <3>1. InProgress(m) /\ msg[m].at # msg'[m].at
      BY <1>2, <2>4, HostAnswersDoes DEF InProgress, Under
    <3>2. Carries(m)
      BY <2>4, <3>1 DEF AloneInv
    <3> QED BY <1>2, <2>1, <2>2, <2>3, <3>1, <3>2, HostAnswersDoes DEF HostAnswers, Carries, Under, Alike, hostVars
  <2> QED BY <2>1, <2>2, <2>3, <2>4, AloneKept
<1>3. ASSUME NEW m \in Messages, GiveUp(m) PROVE AloneInv'
  <2>1. Of(m) \in Relays /\ Others(m) /\ UNCHANGED patient
    BY <1>3, GiveUpDoes, ThreadTyped DEF GiveUp, boundVars
  <2>2. \A r \in Relays : r # Of(m) \/ ~ InProgress(m) => session'[r] = session[r]
    BY <1>3 DEF GiveUp, hostVars
  <2>3. \A r \in Relays : session[r] \notin kept => session[r] \notin kept'
    BY <1>3 DEF GiveUp, hostVars
  <2>4. ASSUME patient[Of(m)], InProgress(m)'
        PROVE  Carries(m)' /\ (InProgress(m) \/ \A o \in Messages : Of(o) = Of(m) => ~ InProgress(o))
    BY <1>3, <2>4, GiveUpDoes DEF InProgress, Under
  <2> QED BY <2>1, <2>2, <2>3, <2>4, AloneKept
<1>4. ASSUME NEW m \in Messages, Attempt(m) PROVE AloneInv'
  <2>1. Of(m) \in Relays /\ Others(m) /\ UNCHANGED patient
    BY <1>4, AttemptDoes, ThreadTyped DEF Attempt, boundVars
  <2>2. \A r \in Relays : r # Of(m) \/ ~ InProgress(m) => session'[r] = session[r]
    BY <1>4 DEF Attempt, hostVars
  <2>3. \A r \in Relays : session[r] \notin kept => session[r] \notin kept'
    BY <1>4 DEF Attempt, hostVars
  <2>4. ASSUME patient[Of(m)], InProgress(m)'
        PROVE  Carries(m)' /\ (InProgress(m) \/ \A o \in Messages : Of(o) = Of(m) => ~ InProgress(o))
    <3>1. InProgress(m) /\ msg[m].at # msg'[m].at
      BY <1>4, <2>4, AttemptDoes DEF InProgress, Under
    <3>2. Carries(m)
      BY <2>4, <3>1 DEF AloneInv
    <3>3. UNCHANGED <<session, kept>>
      BY <1>4 DEF Attempt, hostVars
    <3> QED BY <1>4, <2>4, <3>1, <3>2, <3>3, AttemptDoes DEF Carries, Under, InProgress, Alike, PortInv
  <2> QED BY <2>1, <2>2, <2>3, <2>4, AloneKept
<1>5. ASSUME NEW m \in Messages, Handle(m) PROVE AloneInv'
  <2>1. Of(m) \in Relays /\ Others(m) /\ UNCHANGED patient
    BY <1>5, HandleDoes, ThreadTyped DEF Handle, boundVars
  <2>2. \A r \in Relays : r # Of(m) \/ ~ InProgress(m) => session'[r] = session[r]
    BY <1>5 DEF Handle
  <2>3. \A r \in Relays : session[r] \notin kept => session[r] \notin kept'
    <3>1. \A r \in Relays : session[r] \in 0..Len(opened)
      BY DEF TypeOK
    <3>2. Len(opened) \in Nat
      BY ThreadTyped
    <3> QED BY <1>5, <3>1, <3>2, HandleDoes DEF Open
  <2>4. ASSUME patient[Of(m)], InProgress(m)'
        PROVE  Carries(m)' /\ (InProgress(m) \/ \A o \in Messages : Of(o) = Of(m) => ~ InProgress(o))
    <3>1. InProgress(m) /\ msg[m].at # msg'[m].at
      BY <1>5, <2>4, HandleDoes DEF InProgress, Under
    <3>2. Carries(m)
      BY <2>4, <3>1 DEF AloneInv
    <3>3. UNCHANGED session
      BY <1>5 DEF Handle
    <3> QED BY <1>5, <2>4, <3>1, <3>2, <3>3, HandleDoes DEF Carries, Under, InProgress, Alike
  <2> QED BY <2>1, <2>2, <2>3, <2>4, AloneKept
<1>6. ASSUME NEW m \in Messages, Reinitialize(m) PROVE AloneInv'
  <2>1. Of(m) \in Relays /\ Others(m) /\ UNCHANGED patient
    BY <1>6, ReinitializeDoes, ThreadTyped DEF Reinitialize, boundVars
  <2>2. \A r \in Relays : r # Of(m) \/ ~ InProgress(m) => session'[r] = session[r]
    BY <1>6, ReinitializeDoes DEF InProgress, Under, TypeOK
  <2>3. \A r \in Relays : session[r] \notin kept => session[r] \notin kept'
    BY <1>6 DEF Reinitialize, hostVars
  <2>4. ASSUME patient[Of(m)], InProgress(m)'
        PROVE  Carries(m)' /\ (InProgress(m) \/ \A o \in Messages : Of(o) = Of(m) => ~ InProgress(o))
    <3>1. InProgress(m) /\ msg[m].at # msg'[m].at
      BY <1>6, <2>4, ReinitializeDoes DEF InProgress, Under
    <3>2. Carries(m)
      BY <2>4, <3>1 DEF AloneInv
    <3> QED BY <1>6, <2>1, <2>2, <2>3, <3>1, <3>2, ReinitializeDoes DEF Reinitialize, Carries, Under, Alike,
        hostVars, TypeOK
  <2> QED BY <2>1, <2>2, <2>3, <2>4, AloneKept
<1>7. ASSUME NEW m \in Messages, Rejoin(m) PROVE AloneInv'
  <2>1. Of(m) \in Relays /\ Others(m) /\ UNCHANGED patient
    BY <1>7, RejoinDoes, ThreadTyped DEF Rejoin, boundVars
  <2>2. \A r \in Relays : r # Of(m) \/ ~ InProgress(m) => session'[r] = session[r]
    BY <1>7 DEF Rejoin
  <2>3. \A r \in Relays : session[r] \notin kept => session[r] \notin kept'
    <3>1. \A r \in Relays : session[r] \in 0..Len(opened)
      BY DEF TypeOK
    <3>2. Len(opened) \in Nat
      BY ThreadTyped
    <3> QED BY <1>7, <3>1, <3>2, RejoinDoes DEF Open
  <2>4. ASSUME patient[Of(m)], InProgress(m)'
        PROVE  Carries(m)' /\ (InProgress(m) \/ \A o \in Messages : Of(o) = Of(m) => ~ InProgress(o))
    <3>1. InProgress(m) /\ msg[m].at # msg'[m].at
      BY <1>7, <2>4, RejoinDoes DEF InProgress, Under
    <3>2. Carries(m)
      BY <2>4, <3>1 DEF AloneInv
    <3>3. UNCHANGED session /\ ~ Handshake(m)
      BY <1>7, RejoinDoes DEF Rejoin, OrderInv, Under
    <3> QED BY <1>7, <2>4, <3>1, <3>2, <3>3, RejoinDoes DEF Carries, Under, InProgress, Alike
  <2> QED BY <2>1, <2>2, <2>3, <2>4, AloneKept
<1>8. ASSUME NEW m \in Messages, Announce(m) PROVE AloneInv'
  <2>1. Of(m) \in Relays /\ Others(m) /\ UNCHANGED patient
    BY <1>8, AnnounceDoes, ThreadTyped DEF Announce, boundVars
  <2>2. \A r \in Relays : r # Of(m) \/ ~ InProgress(m) => session'[r] = session[r]
    BY <1>8, AnnounceDoes DEF InProgress, Under, TypeOK
  <2>3. \A r \in Relays : session[r] \notin kept => session[r] \notin kept'
    BY <1>8 DEF Announce, hostVars
  <2>4. ASSUME patient[Of(m)], InProgress(m)'
        PROVE  Carries(m)' /\ (InProgress(m) \/ \A o \in Messages : Of(o) = Of(m) => ~ InProgress(o))
    <3>1. InProgress(m) /\ msg[m].at # msg'[m].at
      BY <1>8, <2>4, AnnounceDoes DEF InProgress, Under
    <3>2. Carries(m)
      BY <2>4, <3>1 DEF AloneInv
    <3>3. ~ Handshake(m) /\ (port # "nobody" => session'[Of(m)] = msg[m].given)
      BY <1>8, <2>1, AnnounceDoes DEF Announce, OrderInv, Under, TypeOK
    <3> QED BY <1>8, <2>4, <3>1, <3>2, <3>3, AnnounceDoes DEF Carries, Under, InProgress, Alike
  <2> QED BY <2>1, <2>2, <2>3, <2>4, AloneKept
<1>9. ASSUME NEW m \in Messages, Hear(m) PROVE AloneInv'
  <2>1. Of(m) \in Relays /\ Others(m) /\ UNCHANGED patient
    BY <1>9, HearDoes, ThreadTyped DEF Hear, boundVars
  <2>2. \A r \in Relays : r # Of(m) \/ ~ InProgress(m) => session'[r] = session[r]
    BY <1>9, HearDoes DEF Hear, InProgress, Under, TypeOK
  <2>3. \A r \in Relays : session[r] \notin kept => session[r] \notin kept'
    BY <1>9 DEF Hear, hostVars
  <2>4. ASSUME patient[Of(m)], InProgress(m)'
        PROVE  Carries(m)' /\ (InProgress(m) \/ \A o \in Messages : Of(o) = Of(m) => ~ InProgress(o))
    BY <1>9, <2>4, HearDoes DEF InProgress, Under
  <2> QED BY <2>1, <2>2, <2>3, <2>4, AloneKept
<1>10. ASSUME NEW m \in Messages, Send(m) PROVE AloneInv'
  <2>1. Of(m) \in Relays /\ Others(m) /\ UNCHANGED patient
    BY <1>10, SendDoes, ThreadTyped DEF Send, boundVars
  <2>2. \A r \in Relays : r # Of(m) \/ ~ InProgress(m) => session'[r] = session[r]
    BY <1>10 DEF Send, hostVars
  <2>3. \A r \in Relays : session[r] \notin kept => session[r] \notin kept'
    BY <1>10 DEF Send, hostVars
  <2>4. ASSUME patient[Of(m)], InProgress(m)'
        PROVE  Carries(m)' /\ (InProgress(m) \/ \A o \in Messages : Of(o) = Of(m) => ~ InProgress(o))
    <3>1. \A o \in Messages : Of(o) = Of(m) => ~ InProgress(o)
      BY <1>10, <2>4 DEF Send
    <3>2. msg'[m].at = "attempt" /\ msg'[m].given = 0
      BY <1>10, SendDoes DEF OrderInv, Under, Alike
    <3> QED BY <3>1, <3>2 DEF Carries, Under
  <2> QED BY <2>1, <2>2, <2>3, <2>4, AloneKept
<1>11. ASSUME NEW r \in Relays, ServerBinds(r) PROVE AloneInv'
  <2>1. UNCHANGED <<patient, session, msg>> /\ kept' \subseteq kept
    BY <1>11 DEF ServerBinds, boundVars
  <2> QED BY <2>1 DEF AloneInv, Alone, Carries, InProgress, Under
<1>12. ASSUME NEW r \in Relays, Quit(r) PROVE AloneInv'
  <2>1. CASE msg' = Unplugged /\ UNCHANGED <<opened, patient, session>> /\ kept' = {}
    <3>1. \A o \in Messages : InProgress(o)' => InProgress(o) /\ msg'[o] = msg[o]
      BY <2>1, UnpluggedDoes DEF OnTheWire, InProgress, Under
    <3> QED BY <2>1, <3>1 DEF AloneInv, Alone, Carries, Under
  <2>2. CASE UNCHANGED <<patient, session, msg>> /\ kept' \subseteq kept
    BY <2>2 DEF AloneInv, Alone, Carries, InProgress, Under
  <2> QED BY <1>12, <2>1, <2>2 DEF Quit, HostEnds, boundVars
<1>13. ASSUME NEW s \in kept, Lapse(s) PROVE AloneInv'
  <2>1. UNCHANGED <<patient, session, msg>> /\ kept' \subseteq kept
    BY <1>13 DEF Lapse, boundVars
  <2> QED BY <2>1 DEF AloneInv, Alone, Carries, InProgress, Under
<1>14. ASSUME AppEnds PROVE AloneInv'
  <2>1. CASE msg' = Unplugged /\ UNCHANGED <<opened, patient, session>> /\ kept' = {}
    <3>1. \A o \in Messages : InProgress(o)' => InProgress(o) /\ msg'[o] = msg[o]
      BY <2>1, UnpluggedDoes DEF OnTheWire, InProgress, Under
    <3> QED BY <2>1, <3>1 DEF AloneInv, Alone, Carries, Under
  <2> QED BY <1>14, <2>1 DEF AppEnds, HostEnds
<1>15. ASSUME AppStarts PROVE AloneInv'
  <2>1. UNCHANGED <<patient, session, msg>> /\ kept' \subseteq kept
    BY <1>15 DEF AppStarts, boundVars
  <2> QED BY <2>1 DEF AloneInv, Alone, Carries, InProgress, Under
<1> QED BY <1>1, <1>2, <1>3, <1>4, <1>5, <1>6, <1>7, <1>8, <1>9, <1>10, <1>11, <1>12, <1>13, <1>14, <1>15 DEF Next,
    ThreadStep

(* No session is left behind by a patient client. *)
LEMMA LeftStep == TypeOK /\ RunsInv /\ PortInv /\ OrderInv /\ GoneInv /\ AloneInv /\ LeftInv /\ Next => LeftInv'
<1> SUFFICES ASSUME TypeOK, RunsInv, PortInv, OrderInv, GoneInv, AloneInv, LeftInv, Next PROVE LeftInv'
  OBVIOUS
<1>1. ASSUME NEW m \in Messages, EnsureHost(m) PROVE LeftInv'
  <2>1. Of(m) \in Relays /\ Others(m) /\ UNCHANGED <<patient, gone>>
    BY <1>1, EnsureHostDoes, ThreadTyped DEF EnsureHost, boundVars
  <2>2. ASSUME NEW s \in kept'
        PROVE  \/ s \in kept /\ opened'[s] = opened[s]
               \/ /\ opened'[s] = Of(m) /\ Of(m) \notin gone
                  /\ Under(m, {"served", "announce"})' /\ msg'[m].given = s
    BY <1>1 DEF EnsureHost, hostVars
  <2>3. ASSUME NEW r \in Relays, NEW s \in kept \cap kept', patient[r], opened[s] = r, s = session[r]
        PROVE  s = session'[r]
    BY <1>1, <2>3 DEF EnsureHost, hostVars
  <2>4. ASSUME NEW s \in kept \cap kept', patient[Of(m)], opened[s] = Of(m), Under(m, {"served", "announce"}), msg[m].given = s
        PROVE  s = session'[Of(m)]
    BY <1>1, <2>4, EnsureHostDoes DEF Under
  <2> QED BY <2>1, <2>2, <2>3, <2>4, LeftKept
<1>2. ASSUME NEW m \in Messages, HostAnswers(m) PROVE LeftInv'
  <2>1. Of(m) \in Relays /\ Others(m) /\ UNCHANGED <<patient, gone>>
    BY <1>2, HostAnswersDoes, ThreadTyped DEF HostAnswers, boundVars
  <2>2. ASSUME NEW s \in kept'
        PROVE  \/ s \in kept /\ opened'[s] = opened[s]
               \/ /\ opened'[s] = Of(m) /\ Of(m) \notin gone
                  /\ Under(m, {"served", "announce"})' /\ msg'[m].given = s
    BY <1>2 DEF HostAnswers, hostVars
  <2>3. ASSUME NEW r \in Relays, NEW s \in kept \cap kept', patient[r], opened[s] = r, s = session[r]
        PROVE  s = session'[r]
    BY <1>2, <2>3 DEF HostAnswers, hostVars
  <2>4. ASSUME NEW s \in kept \cap kept', patient[Of(m)], opened[s] = Of(m), Under(m, {"served", "announce"}), msg[m].given = s
        PROVE  s = session'[Of(m)]
    BY <1>2, <2>4, HostAnswersDoes DEF Under
  <2> QED BY <2>1, <2>2, <2>3, <2>4, LeftKept
<1>3. ASSUME NEW m \in Messages, GiveUp(m) PROVE LeftInv'
  <2>1. kept' = {}
    BY <1>3 DEF GiveUp, hostVars, PortInv
  <2> QED BY <2>1 DEF LeftInv
<1>4. ASSUME NEW m \in Messages, Attempt(m) PROVE LeftInv'
  <2>1. Of(m) \in Relays /\ Others(m) /\ UNCHANGED <<patient, gone>>
    BY <1>4, AttemptDoes, ThreadTyped DEF Attempt, boundVars
  <2>2. ASSUME NEW s \in kept'
        PROVE  \/ s \in kept /\ opened'[s] = opened[s]
               \/ /\ opened'[s] = Of(m) /\ Of(m) \notin gone
                  /\ Under(m, {"served", "announce"})' /\ msg'[m].given = s
    BY <1>4 DEF Attempt, hostVars
  <2>3. ASSUME NEW r \in Relays, NEW s \in kept \cap kept', patient[r], opened[s] = r, s = session[r]
        PROVE  s = session'[r]
    BY <1>4, <2>3 DEF Attempt, hostVars
  <2>4. ASSUME NEW s \in kept \cap kept', patient[Of(m)], opened[s] = Of(m), Under(m, {"served", "announce"}), msg[m].given = s
        PROVE  s = session'[Of(m)]
    BY <1>4, <2>4, AttemptDoes DEF Under
  <2> QED BY <2>1, <2>2, <2>3, <2>4, LeftKept
<1>5. ASSUME NEW m \in Messages, Handle(m) PROVE LeftInv'
  <2>1. Of(m) \in Relays /\ Others(m) /\ UNCHANGED <<patient, gone>>
    BY <1>5, HandleDoes, ThreadTyped DEF Handle, boundVars
  <2>2. ASSUME NEW s \in kept'
        PROVE  \/ s \in kept /\ opened'[s] = opened[s]
               \/ /\ opened'[s] = Of(m) /\ Of(m) \notin gone
                  /\ Under(m, {"served", "announce"})' /\ msg'[m].given = s
    <3>1. CASE UNCHANGED <<kept, opened>>
      BY <3>1
    <3>2. CASE Open(Of(m)) /\ Under(m, {"served", "announce"})' /\ msg'[m].given = Len(opened) + 1
      <4>1. /\ opened'[Len(opened) + 1] = Of(m) /\ kept \subseteq 1..Len(opened)
            /\ \A q \in 1..Len(opened) : opened'[q] = opened[q]
        BY <2>1, <3>2, OpenAdds
      <4>2. kept' = kept \cup {Len(opened) + 1}
        BY <3>2 DEF Open
      <4>3. Of(m) \notin gone
        BY <1>5, HandleDoes DEF GoneInv, Under
      <4> QED BY <3>2, <4>1, <4>2, <4>3
    <3> QED BY <1>5, <3>1, <3>2, HandleDoes DEF Under
  <2>3. ASSUME NEW r \in Relays, NEW s \in kept \cap kept', patient[r], opened[s] = r, s = session[r]
        PROVE  s = session'[r]
    BY <1>5, <2>3 DEF Handle, hostVars
  <2>4. ASSUME NEW s \in kept \cap kept', patient[Of(m)], opened[s] = Of(m), Under(m, {"served", "announce"}), msg[m].given = s
        PROVE  s = session'[Of(m)]
    BY <1>5, <2>4, HandleDoes DEF Under
  <2> QED BY <2>1, <2>2, <2>3, <2>4, LeftKept
<1>6. ASSUME NEW m \in Messages, Reinitialize(m) PROVE LeftInv'
  <2>1. Of(m) \in Relays /\ Others(m) /\ UNCHANGED <<patient, gone>>
    BY <1>6, ReinitializeDoes, ThreadTyped DEF Reinitialize, boundVars
  <2>2. ASSUME NEW s \in kept'
        PROVE  \/ s \in kept /\ opened'[s] = opened[s]
               \/ /\ opened'[s] = Of(m) /\ Of(m) \notin gone
                  /\ Under(m, {"served", "announce"})' /\ msg'[m].given = s
    BY <1>6 DEF Reinitialize, hostVars
  <2>3. ASSUME NEW r \in Relays, NEW s \in kept \cap kept', patient[r], opened[s] = r, s = session[r]
        PROVE  s = session'[r]
    <3>1. CASE r # Of(m)
      BY <1>6, <2>3, <3>1 DEF Reinitialize, TypeOK
    <3>2. CASE r = Of(m)
      <4>1. session[r] \notin kept
        BY <1>6, <2>3, <3>2, ReinitializeDoes DEF AloneInv, Carries, InProgress, Under
      <4> QED BY <2>3, <4>1
    <3> QED BY <3>1, <3>2
  <2>4. ASSUME NEW s \in kept \cap kept', patient[Of(m)], opened[s] = Of(m), Under(m, {"served", "announce"}), msg[m].given = s
        PROVE  s = session'[Of(m)]
    BY <1>6, <2>4, ReinitializeDoes DEF Under
  <2> QED BY <2>1, <2>2, <2>3, <2>4, LeftKept
<1>7. ASSUME NEW m \in Messages, Rejoin(m) PROVE LeftInv'
  <2>1. Of(m) \in Relays /\ Others(m) /\ UNCHANGED <<patient, gone>>
    BY <1>7, RejoinDoes, ThreadTyped DEF Rejoin, boundVars
  <2>2. ASSUME NEW s \in kept'
        PROVE  \/ s \in kept /\ opened'[s] = opened[s]
               \/ /\ opened'[s] = Of(m) /\ Of(m) \notin gone
                  /\ Under(m, {"served", "announce"})' /\ msg'[m].given = s
    <3>1. CASE UNCHANGED <<kept, opened>>
      BY <3>1
    <3>2. CASE Open(Of(m)) /\ Under(m, {"served", "announce"})' /\ msg'[m].given = Len(opened) + 1
      <4>1. /\ opened'[Len(opened) + 1] = Of(m) /\ kept \subseteq 1..Len(opened)
            /\ \A q \in 1..Len(opened) : opened'[q] = opened[q]
        BY <2>1, <3>2, OpenAdds
      <4>2. kept' = kept \cup {Len(opened) + 1}
        BY <3>2 DEF Open
      <4>3. Of(m) \notin gone
        BY <1>7, RejoinDoes DEF GoneInv, Under
      <4> QED BY <3>2, <4>1, <4>2, <4>3
    <3> QED BY <1>7, <3>1, <3>2, RejoinDoes DEF Under
  <2>3. ASSUME NEW r \in Relays, NEW s \in kept \cap kept', patient[r], opened[s] = r, s = session[r]
        PROVE  s = session'[r]
    BY <1>7, <2>3 DEF Rejoin, hostVars
  <2>4. ASSUME NEW s \in kept \cap kept', patient[Of(m)], opened[s] = Of(m), Under(m, {"served", "announce"}), msg[m].given = s
        PROVE  s = session'[Of(m)]
    BY <1>7, <2>4, RejoinDoes DEF Under
  <2> QED BY <2>1, <2>2, <2>3, <2>4, LeftKept
<1>8. ASSUME NEW m \in Messages, Announce(m) PROVE LeftInv'
  <2>1. Of(m) \in Relays /\ Others(m) /\ UNCHANGED <<patient, gone>>
    BY <1>8, AnnounceDoes, ThreadTyped DEF Announce, boundVars
  <2>2. ASSUME NEW s \in kept'
        PROVE  \/ s \in kept /\ opened'[s] = opened[s]
               \/ /\ opened'[s] = Of(m) /\ Of(m) \notin gone
                  /\ Under(m, {"served", "announce"})' /\ msg'[m].given = s
    BY <1>8 DEF Announce, hostVars
  <2>3. ASSUME NEW r \in Relays, NEW s \in kept \cap kept', patient[r], opened[s] = r, s = session[r]
        PROVE  s = session'[r]
    <3>1. CASE r # Of(m)
      BY <1>8, <2>3, <3>1 DEF Announce, TypeOK
    <3>2. CASE r = Of(m)
      <4>1. session[r] = 0
        BY <1>8, <2>3, <3>2, AnnounceDoes DEF AloneInv, Carries, InProgress, Under
      <4>2. 0 \notin kept
        BY DEF TypeOK
      <4> QED BY <2>3, <4>1, <4>2
    <3> QED BY <3>1, <3>2
  <2>4. ASSUME NEW s \in kept \cap kept', patient[Of(m)], opened[s] = Of(m), Under(m, {"served", "announce"}), msg[m].given = s
        PROVE  s = session'[Of(m)]
    <3>1. port # "nobody"
      BY <2>4 DEF PortInv
    <3> QED BY <1>8, <2>1, <2>4, <3>1, AnnounceDoes DEF TypeOK
  <2> QED BY <2>1, <2>2, <2>3, <2>4, LeftKept
<1>9. ASSUME NEW m \in Messages, Hear(m) PROVE LeftInv'
  <2>1. Of(m) \in Relays /\ Others(m) /\ UNCHANGED <<patient, gone>>
    BY <1>9, HearDoes, ThreadTyped DEF Hear, boundVars
  <2>2. ASSUME NEW s \in kept'
        PROVE  \/ s \in kept /\ opened'[s] = opened[s]
               \/ /\ opened'[s] = Of(m) /\ Of(m) \notin gone
                  /\ Under(m, {"served", "announce"})' /\ msg'[m].given = s
    BY <1>9 DEF Hear, hostVars
  <2>3. ASSUME NEW r \in Relays, NEW s \in kept \cap kept', patient[r], opened[s] = r, s = session[r]
        PROVE  s = session'[r]
    <3>1. CASE r # Of(m) \/ ~ Handshake(m)
      BY <1>9, <2>3, <3>1 DEF Hear, TypeOK
    <3>2. CASE r = Of(m) /\ Handshake(m)
      <4>1. ~ Handshaken(r)
        BY <1>9, <3>2, HearDoes, MessagesAre DEF RunsInv, Under, Handshaken
      <4>2. session[r] = 0
        BY <3>2, <4>1 DEF OrderInv
      <4>3. 0 \notin kept
        BY DEF TypeOK
      <4> QED BY <2>3, <4>2, <4>3
    <3> QED BY <3>1, <3>2
  <2>4. ASSUME NEW s \in kept \cap kept', patient[Of(m)], opened[s] = Of(m), Under(m, {"served", "announce"}), msg[m].given = s
        PROVE  s = session'[Of(m)]
    <3>1. CASE Handshake(m)
      BY <1>9, <2>1, <2>4, <3>1 DEF Hear, TypeOK
    <3>2. CASE ~ Handshake(m)
      <4>1. msg[m].given = 0 \/ msg[m].given = session[Of(m)]
        BY <1>9, <2>4, <3>2, HearDoes DEF AloneInv, Carries, InProgress, Under
      <4>2. 0 \notin kept
        BY DEF TypeOK
      <4>3. UNCHANGED session
        BY <1>9, <3>2 DEF Hear
      <4> QED BY <2>4, <4>1, <4>2, <4>3
    <3> QED BY <3>1, <3>2
  <2> QED BY <2>1, <2>2, <2>3, <2>4, LeftKept
<1>10. ASSUME NEW m \in Messages, Send(m) PROVE LeftInv'
  <2>1. Of(m) \in Relays /\ Others(m) /\ UNCHANGED <<patient, gone>>
    BY <1>10, SendDoes, ThreadTyped DEF Send, boundVars
  <2>2. ASSUME NEW s \in kept'
        PROVE  \/ s \in kept /\ opened'[s] = opened[s]
               \/ /\ opened'[s] = Of(m) /\ Of(m) \notin gone
                  /\ Under(m, {"served", "announce"})' /\ msg'[m].given = s
    BY <1>10 DEF Send, hostVars
  <2>3. ASSUME NEW r \in Relays, NEW s \in kept \cap kept', patient[r], opened[s] = r, s = session[r]
        PROVE  s = session'[r]
    BY <1>10, <2>3 DEF Send, hostVars
  <2>4. ASSUME NEW s \in kept \cap kept', patient[Of(m)], opened[s] = Of(m), Under(m, {"served", "announce"}), msg[m].given = s
        PROVE  s = session'[Of(m)]
    BY <1>10, <2>4, SendDoes DEF Under
  <2> QED BY <2>1, <2>2, <2>3, <2>4, LeftKept
<1>11. ASSUME NEW r \in Relays, ServerBinds(r) PROVE LeftInv'
  <2>1. UNCHANGED <<patient, opened, session, gone, msg>> /\ kept' \subseteq kept
    BY <1>11 DEF ServerBinds, boundVars
  <2> QED BY <2>1 DEF LeftInv, Under
<1>12. ASSUME NEW r \in Relays, Quit(r) PROVE LeftInv'
  <2>1. CASE kept' = {}
    BY <2>1 DEF LeftInv
  <2>2. CASE /\ UNCHANGED <<patient, opened, session, msg>> /\ kept' = kept \ {session[r]} /\ gone' = gone \cup {r}
    <3>1. \A o \in Messages : Of(o) = r => ~ Under(o, {"served", "announce"})
      BY <1>12 DEF Quit, InProgress, Under
    <3> QED BY <2>2, <3>1 DEF LeftInv, Under
  <2> QED BY <1>12, <2>1, <2>2 DEF Quit, HostEnds, Exit, boundVars
<1>13. ASSUME NEW s \in kept, Lapse(s) PROVE LeftInv'
  <2>1. UNCHANGED <<patient, opened, session, gone, msg>> /\ kept' \subseteq kept
    BY <1>13 DEF Lapse, boundVars
  <2> QED BY <2>1 DEF LeftInv, Under
<1>14. ASSUME AppEnds PROVE LeftInv'
  BY <1>14 DEF AppEnds, HostEnds, LeftInv
<1>15. ASSUME AppStarts PROVE LeftInv'
  <2>1. UNCHANGED <<patient, opened, session, gone, msg>> /\ kept' \subseteq kept
    BY <1>15 DEF AppStarts, boundVars
  <2> QED BY <2>1 DEF LeftInv, Under
<1> QED BY <1>1, <1>2, <1>3, <1>4, <1>5, <1>6, <1>7, <1>8, <1>9, <1>10, <1>11, <1>12, <1>13, <1>14, <1>15 DEF Next,
    ThreadStep

------------------------------------------------------------------------------
(* The theorem *)

(* The invariant holds first, is kept, and is enough. *)
LEMMA InvInit == Init => RelayInv
<1> SUFFICES ASSUME Init PROVE RelayInv
  OBVIOUS
<1>1. TypeOK
  BY TypeInit
<1>2. \A m \in Messages : /\ msg[m].at = IF Handshake(m) THEN "launch" ELSE "unsent"
                          /\ msg[m].given = 0 /\ msg[m].ran = 0 /\ msg[m].answer = "none"
  BY DEF Init, Fresh
<1>3. RunsInv /\ PortInv /\ GoneInv /\ AloneInv
  BY <1>2 DEF Init, RunsInv, PortInv, GoneInv, AloneInv, OnTheWire, InProgress, Under
<1>4. TheirsInv /\ LeftInv
  BY <1>2 DEF Init, TheirsInv, SessionsAreTheirs, LeftInv
<1>5. HostInv
  BY <1>2, RelaysAssumption DEF Init, HostInv, Under
<1>6. \A m \in Messages : session[Of(m)] = 0
  BY MessagesAre DEF Init
<1>7. OrderInv
  BY <1>2, <1>6 DEF OrderInv, Under
<1> QED BY <1>1, <1>3, <1>4, <1>5, <1>7 DEF RelayInv

LEMMA InvStep == RelayInv /\ [Next]_vars => RelayInv'
<1> SUFFICES ASSUME RelayInv, [Next]_vars PROVE RelayInv'
  OBVIOUS
<1>1. CASE Next
  BY <1>1, TypeStep, RunsStep, TheirsStep, PortStep, HostStep, OrderStep, GoneStep, AloneStep, LeftStep DEF RelayInv
<1>2. CASE UNCHANGED vars
  <2>1. TypeOK' /\ RunsInv' /\ TheirsInv' /\ PortInv' /\ HostInv'
    BY <1>2 DEF vars, RelayInv, TypeOK, RunsInv, TheirsInv, SessionsAreTheirs, PortInv, HostInv, OnTheWire, Under
  <2>2. OrderInv' /\ GoneInv' /\ AloneInv' /\ LeftInv'
    BY <1>2 DEF vars, RelayInv, OrderInv, GoneInv, AloneInv, LeftInv, Alone, Carries, Handshaken, InProgress, Under
  <2> QED BY <2>1, <2>2 DEF RelayInv
<1> QED BY <1>1, <1>2

LEMMA InvMeans == RelayInv => RelayIsSound
<1> SUFFICES ASSUME RelayInv PROVE RelayIsSound
  OBVIOUS
<1>1. RunsOnce
  BY DEF RelayInv, RunsInv, RunsOnce
<1>2. LeavesNoSession
  BY DEF RelayInv, LeftInv, LeavesNoSession, Opening
<1>3. WaitsForAHost
  <2>1. ASSUME NEW m \in Messages, Waits(m) PROVE SomebodyStarts \/ server[Of(m)] = "failed"
    <3>1. Of(m) \in Relays /\ Of(m) \notin gone /\ hosting[Of(m)]
      BY <2>1, MessagesAre DEF RelayInv, Waits, GoneInv, HostInv, Under
    <3>2. server[Of(m)] \in {"none", "starting", "up", "failed"} /\ server[Of(m)] # "none"
      BY <3>1 DEF RelayInv, TypeOK, HostInv
    <3>3. server[Of(m)] # "up"
      BY <2>1, <3>1, RelaysAssumption DEF RelayInv, HostInv, Waits
    <3> QED BY <3>1, <3>2, <3>3 DEF SomebodyStarts
  <2> QED BY <2>1 DEF WaitsForAHost, RelayInv, HostInv
<1> QED BY <1>1, <1>2, <1>3 DEF RelayInv, TheirsInv, RelayIsSound

(* Whatever the clients, the troubles and the threads' interleaving: a message runs once and is answered as
   run only if it ran, a patient client's process leaves no session behind, and a thread waits for nobody
   only where its own process found the port taken. *)
THEOREM RelayStaysSound == Spec => []RelayIsSound
<1> QED BY InvInit, InvStep, InvMeans, PTL DEF Spec

------------------------------------------------------------------------------
(* The link of a tab: the invariant *)

Frames == {Ready, Superseded, Close} \cup [t : {"req"}, id : Nat, of : Requests]
Socket == [tab : Tabs, client : {"connecting", "open", "closing", "closed"},
           server : {"none", "open", "closing", "closed"}, down : Seq(Frames), bye : BOOLEAN, cut : BOOLEAN]
Works == [sock : Nat, id : Nat, of : Requests]
Ends == {Told("timeout"), Told("closed")}
Answers == {Replied(r) : r \in Requests}

(* The types, with what a frame and a piece of work carry. *)
TabsTyped ==
    /\ wanted \in [Tabs -> BOOLEAN] /\ opening \in [Tabs -> Nat] /\ retries \in [Tabs -> Nat]
    /\ current \in [Tabs -> 0..Len(socks)]
    /\ screen \in [Tabs -> {"off", "connecting", "ready", "elsewhere"}]
    /\ asks \in Nat /\ echo \in [Tabs -> {"none", "first", "due"}]
SocksTyped == socks \in Seq(Socket) /\ work \subseteq Works
RelayTyped ==
    /\ next \in Nat \ {0} /\ DOMAIN waiting \subseteq 1..(next - 1)
    /\ waiting = [id \in DOMAIN waiting |-> waiting[id]]
    /\ outcome = [r \in Requests |-> outcome[r]]
    /\ \A r \in Requests : outcome[r] \in {Unsent, Pending, NoTab} \cup Ends \cup Answers

(* A request waits under one id, and is pending while it does. *)
WaitInv ==
    /\ \A id \in DOMAIN waiting : waiting[id].of \in Requests /\ outcome[waiting[id].of] = Pending
    /\ \A r \in Requests : outcome[r] = Pending => \E id \in DOMAIN waiting : waiting[id].of = r
    /\ \A id, jd \in DOMAIN waiting : waiting[id].of = waiting[jd].of => id = jd

(* The requests on their way down a socket. *)
ReqsOf(s) == {k \in 1..Len(s.down) : s.down[k].t = "req"}

(* What a tab was sent and has not answered: its client has not had its own reply, and while it has had
   nothing it waits under that very id. *)
InHand(id, q) ==
    /\ outcome[q] \notin {Unsent, NoTab, Replied(q)}
    /\ outcome[q] = Pending => id \in DOMAIN waiting /\ waiting[id].of = q
HandInv ==
    /\ \A i \in DOMAIN socks : \A k \in ReqsOf(socks[i]) : InHand(socks[i].down[k].id, socks[i].down[k].of)
    /\ \A w \in work : InHand(w.id, w.of)

(* A request reaches one tab, once. *)
OnceInv ==
    /\ \A i, j \in DOMAIN socks : \A k \in ReqsOf(socks[i]), l \in ReqsOf(socks[j]) :
           socks[i].down[k].of = socks[j].down[l].of => i = j /\ k = l
    /\ \A w, v \in work : w.of = v.of => w = v
    /\ \A w \in work, i \in DOMAIN socks : \A k \in ReqsOf(socks[i]) : socks[i].down[k].of # w.of

OneInv == \A i, j \in OpenSockets : i = j

Inv ==
    /\ TabsTyped /\ SocksTyped /\ RelayTyped
    /\ WaitInv /\ HandInv /\ OnceInv /\ OneInv /\ OwnReply /\ NobodyWaitsOnNobody

------------------------------------------------------------------------------
(* Sockets *)

Plain == Seq({Ready, Superseded, Close})
Fewer(s, z) == /\ z \in Socket /\ z.server = s.server
               /\ \A k \in ReqsOf(z) : k \in ReqsOf(s) /\ z.down[k] = s.down[k]

LEMMA FrameKinds ==
    /\ \A m \in {Ready, Superseded, Close} : m \in Frames /\ m.t # "req"
    /\ \A m \in Frames : m.t = "req" => m.id \in Nat /\ m.of \in Requests
    /\ Close.t = "close" /\ Ready.t = "ready" /\ Superseded.t = "superseded"
BY DEF Frames, Ready, Superseded, Close

(* What a socket that is not open hears carries no request. *)
LEMMA HeardSays ==
    ASSUME NEW client, NEW msgs \in Seq(Frames)
    PROVE  /\ Heard(client, msgs) \in Seq(Frames)
           /\ client # "open" => \A k \in 1..Len(Heard(client, msgs)) : Heard(client, msgs)[k].t # "req"
           /\ client = "open" => Heard(client, msgs) = msgs
<1>1. <<Close>> \in Seq(Frames) /\ Len(<<Close>>) = 1 /\ <<Close>>[1].t # "req"
  BY FrameKinds
<1>2. <<>> \in Seq(Frames) /\ Len(<<>>) = 0
  OBVIOUS
<1> QED BY <1>1, <1>2 DEF Heard

LEMMA PlainMessages ==
    /\ <<Close>> \in Plain /\ <<Ready>> \in Plain /\ <<Superseded, Close>> \in Plain
    /\ \A msgs \in Plain : msgs \in Seq(Frames) /\ \A k \in 1..Len(msgs) : msgs[k].t # "req"
<1>1. \A msgs \in Plain : msgs \in Seq(Frames)
  BY FrameKinds DEF Plain
<1>2. ASSUME NEW msgs \in Plain, NEW k \in 1..Len(msgs) PROVE msgs[k].t # "req"
  <2>1. msgs[k] \in {Ready, Superseded, Close}
    BY DEF Plain
  <2> QED BY <2>1, FrameKinds
<1> QED BY <1>1, <1>2 DEF Plain

(* A frame that is no request leaves the requests on a socket as they are. *)
LEMMA DownSays ==
    ASSUME NEW s \in Socket, NEW msgs \in Seq(Frames)
    PROVE  /\ Down(s, msgs) \in Socket /\ Down(s, msgs).server = s.server
           /\ \A k \in ReqsOf(Down(s, msgs)) :
                 \/ k \in ReqsOf(s) /\ Down(s, msgs).down[k] = s.down[k]
                 \/ /\ s.client = "open" /\ k > Len(s.down) /\ k - Len(s.down) \in ReqsOf([down |-> msgs])
                    /\ Down(s, msgs).down[k] = msgs[k - Len(s.down)]
<1>1. CASE s.cut
  BY <1>1 DEF Down
<1>2. CASE ~ s.cut
  <2> DEFINE h == Heard(s.client, msgs)  d == s.down \o h
  <2>1. h \in Seq(Frames) /\ s.down \in Seq(Frames)
    BY HeardSays DEF Socket
  <2>2. /\ d \in Seq(Frames) /\ Len(d) = Len(s.down) + Len(h)
        /\ \A k \in 1..Len(s.down) + Len(h) : d[k] = IF k <= Len(s.down) THEN s.down[k] ELSE h[k - Len(s.down)]
    BY <2>1, ConcatProperties
  <2>3. Down(s, msgs) = [s EXCEPT !.down = d]
    BY <1>2 DEF Down
  <2>4. s.client # "open" => \A k \in 1..Len(h) : h[k].t # "req"
    BY HeardSays
  <2>5. s.client = "open" => h = msgs
    BY HeardSays
  <2>6. Len(s.down) \in Nat /\ Len(h) \in Nat
    BY <2>1
  <2> HIDE DEF h, d
  <2>7. Down(s, msgs) \in Socket /\ Down(s, msgs).server = s.server /\ Down(s, msgs).down = d
    BY <2>2, <2>3 DEF Socket
  <2>8. ASSUME NEW k \in 1..Len(d), d[k].t = "req"
        PROVE  \/ k \in ReqsOf(s) /\ d[k] = s.down[k]
               \/ /\ s.client = "open" /\ k > Len(s.down) /\ k - Len(s.down) \in ReqsOf([down |-> msgs])
                  /\ d[k] = msgs[k - Len(s.down)]
    <3>1. CASE k <= Len(s.down)
      BY <2>2, <2>6, <2>8, <3>1 DEF ReqsOf
    <3>2. CASE k > Len(s.down)
      <4>1. k - Len(s.down) \in 1..Len(h) /\ d[k] = h[k - Len(s.down)]
        BY <2>2, <2>6, <3>2
      <4>2. s.client = "open" /\ h = msgs
        BY <2>4, <2>5, <2>8, <4>1
      <4> QED BY <2>8, <3>2, <4>1, <4>2 DEF ReqsOf
    <3> QED BY <2>6, <3>1, <3>2
  <2> QED BY <2>7, <2>8 DEF ReqsOf
<1> QED BY <1>1, <1>2

LEMMA PlainKeeps ==
    ASSUME NEW s \in Socket, NEW msgs \in Plain
    PROVE  Fewer(s, Down(s, msgs))
<1>1. msgs \in Seq(Frames) /\ \A k \in 1..Len(msgs) : msgs[k].t # "req"
  BY PlainMessages
<1>2. ReqsOf([down |-> msgs]) = {}
  BY <1>1 DEF ReqsOf
<1> QED BY <1>1, <1>2, DownSays DEF Fewer

LEMMA ByeKeeps ==
    ASSUME NEW s \in Socket
    PROVE  Fewer(s, Bye(s)) /\ Bye(s).client = s.client /\ Bye(s).down = s.down
BY DEF Bye, Fewer, Socket, ReqsOf

LEMMA ClosedKeeps ==
    ASSUME NEW s \in Socket
    PROVE  Fewer(s, ClosedByTab(s))
<1>1. CASE s.client = "open"
  <2> DEFINE h == Heard("closing", s.down)
  <2>1. h \in Seq(Frames) /\ \A k \in 1..Len(h) : h[k].t # "req"
    BY HeardSays DEF Socket
  <2>2. Bye(s) \in Socket /\ Bye(s).server = s.server /\ Bye(s).down = s.down
    BY ByeKeeps DEF Fewer
  <2>3. ClosedByTab(s) = [Bye(s) EXCEPT !.client = "closing", !.down = h]
    BY <1>1, <2>2 DEF ClosedByTab, Socket
  <2> HIDE DEF h
  <2>4. ClosedByTab(s) \in Socket /\ ClosedByTab(s).server = s.server /\ ClosedByTab(s).down = h
    BY <2>1, <2>2, <2>3 DEF Socket
  <2>5. ReqsOf(ClosedByTab(s)) = {}
    BY <2>1, <2>4 DEF ReqsOf
  <2> QED BY <2>4, <2>5 DEF Fewer
<1>2. CASE s.client = "connecting"
  BY <1>2 DEF ClosedByTab, Fewer, Socket, ReqsOf
<1>3. CASE s.client \notin {"open", "connecting"}
  BY <1>3 DEF ClosedByTab, Fewer, Socket, ReqsOf
<1> QED BY <1>1, <1>2, <1>3

LEMMA FewerAgain ==
    ASSUME NEW s, NEW y, NEW z, Fewer(s, y), Fewer(y, z)
    PROVE  Fewer(s, z)
BY DEF Fewer

------------------------------------------------------------------------------
(* The relay's side: what waits, and what was told *)

LEMMA Outcomes ==
    /\ \A r, q \in Requests : Replied(r) = Replied(q) => r = q
    /\ \A e \in Ends \cup Answers : e # Pending /\ e # Unsent /\ e # NoTab
    /\ \A e \in Ends, r \in Requests : e # Replied(r)
    /\ Pending # Unsent /\ Pending # NoTab /\ Unsent # NoTab /\ Told("closed") \in Ends /\ Told("timeout") \in Ends
    /\ Unsent.kind # "reply" /\ Pending.kind # "reply" /\ NoTab.kind # "reply"
    /\ \A e \in Ends : e.kind # "reply"
    /\ \A r \in Requests : Replied(r).kind = "reply" /\ Replied(r).of = r /\ Replied(r) # Unsent /\ Replied(r) # Pending
    /\ \A r \in Requests : Replied(r) # NoTab /\ Replied(r) \in Answers
<1>1. \A k : Told(k).kind = k
  BY DEF Told
<1>2. \A r : Replied(r).kind = "reply" /\ Replied(r).of = r
  BY DEF Replied
<1>3. \A e \in Ends : e.kind \in {"timeout", "closed"}
  BY <1>1 DEF Ends
<1>4. \A e \in Answers : e.kind = "reply"
  BY <1>2 DEF Answers
<1>5. Pending.kind = "pending" /\ Unsent.kind = "unsent" /\ NoTab.kind = "nobody"
  BY <1>1 DEF Pending, Unsent, NoTab
<1>6. Told("closed") \in Ends /\ Told("timeout") \in Ends /\ \A r \in Requests : Replied(r) \in Answers
  BY DEF Ends, Answers
<1>7. \A r, q \in Requests : Replied(r) = Replied(q) => r = q
  BY <1>2
<1>8. \A e \in Ends \cup Answers : e # Pending /\ e # Unsent /\ e # NoTab
  BY <1>1, <1>3, <1>4, <1>5
<1>9. \A e \in Ends, r \in Requests : e # Replied(r)
  BY <1>2, <1>3
<1>10. \A r \in Requests : Replied(r) # Unsent /\ Replied(r) # Pending /\ Replied(r) # NoTab
  BY <1>1, <1>2, <1>5
<1>11. Pending # Unsent /\ Pending # NoTab /\ Unsent # NoTab
  BY <1>1, <1>5
<1>12. Unsent.kind # "reply" /\ Pending.kind # "reply" /\ NoTab.kind # "reply" /\ \A e \in Ends : e.kind # "reply"
  BY <1>1, <1>3, <1>5
<1> QED BY <1>2, <1>6, <1>7, <1>8, <1>9, <1>10, <1>11, <1>12

(* Requests that end are told one thing, and wait no longer; the others are as they were. *)
LEMMA SettleDoes ==
    ASSUME RelayTyped, WaitInv, NEW ids, NEW told \in Ends \cup Answers, Settle(ids, told), next' = next
    PROVE  /\ RelayTyped' /\ WaitInv'
           /\ DOMAIN waiting' = DOMAIN waiting \ ids
           /\ \A r \in Requests :
                 \/ outcome'[r] = outcome[r]
                 \/ /\ outcome[r] = Pending /\ outcome'[r] = told
                    /\ \E id \in ids \cap DOMAIN waiting : waiting[id].of = r
           /\ \A id : \A q \in Requests : InHand(id, q) /\ told # Replied(q) => InHand(id, q)'
<1>1. /\ waiting' = [id \in DOMAIN waiting \ ids |-> waiting[id]]
      /\ outcome' = [r \in Requests |-> IF \E id \in ids \cap DOMAIN waiting : waiting[id].of = r THEN told ELSE outcome[r]]
  BY DEF Settle, Without
<1>2. told # Pending /\ told # Unsent /\ told # NoTab
  BY Outcomes
<1>3. DOMAIN waiting' = DOMAIN waiting \ ids /\ \A id \in DOMAIN waiting' : waiting'[id] = waiting[id]
  BY <1>1
<1>4. ASSUME NEW r \in Requests
      PROVE  \/ outcome'[r] = outcome[r] /\ \A id \in ids \cap DOMAIN waiting : waiting[id].of # r
             \/ /\ outcome[r] = Pending /\ outcome'[r] = told
                /\ \E id \in ids \cap DOMAIN waiting : waiting[id].of = r
  BY <1>1 DEF WaitInv
<1>5. RelayTyped'
  <2>1. waiting' = [id \in DOMAIN waiting' |-> waiting'[id]]
    BY <1>1
  <2>2. outcome' = [r \in Requests |-> outcome'[r]]
    BY <1>1
  <2>3. \A r \in Requests : outcome'[r] \in {Unsent, Pending, NoTab} \cup Ends \cup Answers
    BY <1>4 DEF RelayTyped
  <2> QED BY <1>3, <2>1, <2>2, <2>3 DEF RelayTyped
<1>6. WaitInv'
  <2>1. ASSUME NEW id \in DOMAIN waiting' PROVE waiting'[id].of \in Requests /\ outcome'[waiting'[id].of] = Pending
    <3>1. id \in DOMAIN waiting /\ id \notin ids /\ waiting'[id] = waiting[id] /\ waiting[id].of \in Requests
      BY <1>3, <2>1 DEF WaitInv
    <3>2. \A jd \in ids \cap DOMAIN waiting : waiting[jd].of # waiting[id].of
      BY <3>1 DEF WaitInv
    <3> QED BY <1>4, <3>1, <3>2 DEF WaitInv
  <2>2. ASSUME NEW r \in Requests, outcome'[r] = Pending PROVE \E id \in DOMAIN waiting' : waiting'[id].of = r
    <3>1. outcome[r] = Pending /\ \A id \in ids \cap DOMAIN waiting : waiting[id].of # r
      BY <1>2, <1>4, <2>2
    <3>2. PICK id \in DOMAIN waiting : waiting[id].of = r
      BY <3>1 DEF WaitInv
    <3> QED BY <1>3, <3>1, <3>2
  <2>3. \A id, jd \in DOMAIN waiting' : waiting'[id].of = waiting'[jd].of => id = jd
    BY <1>3 DEF WaitInv
  <2> QED BY <2>1, <2>2, <2>3 DEF WaitInv
<1>7. ASSUME NEW id, NEW q \in Requests, InHand(id, q), told # Replied(q) PROVE InHand(id, q)'
  <2>1. outcome'[q] \notin {Unsent, NoTab, Replied(q)}
    BY <1>2, <1>4, <1>7 DEF InHand
  <2>2. ASSUME outcome'[q] = Pending PROVE id \in DOMAIN waiting' /\ waiting'[id].of = q
    <3>1. outcome[q] = Pending /\ \A jd \in ids \cap DOMAIN waiting : waiting[jd].of # q
      BY <1>2, <1>4, <2>2
    <3> QED BY <1>3, <1>7, <3>1 DEF InHand
  <2> QED BY <2>1, <2>2 DEF InHand
<1> QED BY <1>3, <1>4, <1>5, <1>6, <1>7

(* What a client was told it is not told again. *)
LEMMA OwnReplyKept ==
    ASSUME RelayTyped, OwnReply, NEW told \in Ends \cup Answers,
           \A r \in Requests : outcome'[r] = outcome[r] \/ (outcome[r] = Pending /\ outcome'[r] = told),
           \A q \in Requests : told = Replied(q) =>
               \A r \in Requests : outcome'[r] # outcome[r] => r = q \/ ToldElse(q)
    PROVE  OwnReply'
<1>1. ASSUME NEW q \in Requests, ToldElse(q) PROVE ToldElse(q)'
  <2>1. outcome[q] # Pending
    BY <1>1, Outcomes DEF ToldElse, Ends
  <2> QED BY <1>1, <2>1 DEF ToldElse
<1>2. ASSUME NEW r \in Requests, outcome'[r].kind = "reply" PROVE \E q : outcome'[r].of = q /\ (q = r \/ ToldElse(q)')
  <2>1. CASE outcome'[r] = outcome[r]
    <3>1. outcome[r] \in Answers
      BY <1>2, <2>1, Outcomes DEF RelayTyped
    <3>2. PICK q \in Requests : outcome[r] = Replied(q)
      BY <3>1 DEF Answers
    <3>3. outcome[r].of = q /\ outcome[r].kind = "reply"
      BY <3>2, Outcomes
    <3>4. q = r \/ ToldElse(q)
      BY <3>3 DEF OwnReply
    <3> QED BY <1>1, <2>1, <3>3, <3>4
  <2>2. CASE outcome'[r] = told /\ outcome'[r] # outcome[r]
    <3>1. told \in Answers
      BY <1>2, <2>2, Outcomes
    <3>2. PICK q \in Requests : told = Replied(q)
      BY <3>1 DEF Answers
    <3>3. outcome'[r].of = q
      BY <2>2, <3>2, Outcomes
    <3> QED BY <1>1, <2>2, <3>2, <3>3
  <2> QED BY <2>1, <2>2
<1> QED BY <1>2 DEF OwnReply, ToldElse

------------------------------------------------------------------------------
(* Requests on their way and in a tab's hands *)

LEMMA ReqFrames ==
    ASSUME SocksTyped, NEW i \in DOMAIN socks, NEW k \in ReqsOf(socks[i])
    PROVE  socks[i] \in Socket /\ socks[i].down[k].id \in Nat /\ socks[i].down[k].of \in Requests /\ k \in Nat
<1>1. socks[i] \in Socket
  BY DEF SocksTyped
<1>2. socks[i].down[k] \in Frames /\ socks[i].down[k].t = "req" /\ k \in Nat
  BY <1>1 DEF Socket, ReqsOf
<1> QED BY <1>1, <1>2, FrameKinds

(* Nothing new is sent: what is on a socket was there, on one of them a frame further back perhaps, and
   what a tab works on it worked on, or it is the frame that is no longer there. *)
FrameTaken(at, d, w) ==
    /\ d = 1 /\ at \in DOMAIN socks /\ 1 \in ReqsOf(socks[at])
    /\ w = [sock |-> at, id |-> socks[at].down[1].id, of |-> socks[at].down[1].of]
Carried(at, d, without) ==
    /\ \A i \in DOMAIN socks' : \A k \in ReqsOf(socks'[i]) :
           /\ i \in DOMAIN socks
           /\ IF i = at THEN k + d \in ReqsOf(socks[i]) /\ socks'[i].down[k] = socks[i].down[k + d]
                        ELSE k \in ReqsOf(socks[i]) /\ socks'[i].down[k] = socks[i].down[k]
           /\ socks'[i].down[k].of \notin without
    /\ \A w \in work' : w.of \notin without /\ (w \in work \/ FrameTaken(at, d, w))
LEMMA FlightKept ==
    ASSUME SocksTyped, SocksTyped', HandInv, OnceInv, NEW at, NEW d \in {0, 1}, NEW without, Carried(at, d, without),
           \A id : \A q \in Requests : InHand(id, q) /\ q \notin without => InHand(id, q)'
    PROVE  HandInv' /\ OnceInv'
<1> DEFINE Back(i, k) == IF i = at THEN k + d ELSE k
<1>1. ASSUME NEW i \in DOMAIN socks', NEW k \in ReqsOf(socks'[i])
      PROVE  /\ i \in DOMAIN socks /\ Back(i, k) \in ReqsOf(socks[i]) /\ k \in Nat
             /\ socks'[i].down[k] = socks[i].down[Back(i, k)]
             /\ socks'[i].down[k].of \in Requests /\ socks'[i].down[k].of \notin without
  <2>1. i \in DOMAIN socks /\ Back(i, k) \in ReqsOf(socks[i]) /\ socks'[i].down[k] = socks[i].down[Back(i, k)]
    BY <1>1 DEF Carried
  <2>2. socks[i].down[Back(i, k)].of \in Requests
    BY <2>1, ReqFrames
  <2>3. k \in Nat
    BY <1>1 DEF ReqsOf, SocksTyped, Socket
  <2>4. socks'[i].down[k].of \notin without
    BY DEF Carried
  <2> QED BY <2>1, <2>2, <2>3, <2>4
<1>2. ASSUME NEW i \in DOMAIN socks', NEW j \in DOMAIN socks', NEW k \in ReqsOf(socks'[i]), NEW l \in ReqsOf(socks'[j]),
             socks'[i].down[k].of = socks'[j].down[l].of
      PROVE  i = j /\ k = l
  <2>1. i = j /\ Back(i, k) = Back(j, l)
    BY <1>1, <1>2 DEF OnceInv
  <2>2. k \in Nat /\ l \in Nat
    BY <1>1
  <2> QED BY <2>1, <2>2
<1>3. ASSUME NEW w \in work', NEW i \in DOMAIN socks', NEW k \in ReqsOf(socks'[i])
      PROVE  socks'[i].down[k].of # w.of
  <2>1. CASE w \in work
    BY <1>1, <2>1 DEF OnceInv
  <2>2. CASE FrameTaken(at, d, w)
    <3>1. w.of = socks[at].down[1].of /\ at \in DOMAIN socks /\ 1 \in ReqsOf(socks[at]) /\ d = 1
      BY <2>2 DEF FrameTaken
    <3>2. k \in Nat /\ k # 0
      BY <1>1 DEF ReqsOf
    <3>3. i = at => Back(i, k) # 1
      BY <3>1, <3>2
    <3> QED BY <1>1, <3>1, <3>3 DEF OnceInv
  <2> QED BY <2>1, <2>2 DEF Carried
<1>4. ASSUME NEW w \in work', NEW v \in work', w.of = v.of PROVE w = v
  <2>1. w \in work \/ FrameTaken(at, d, w)
    BY DEF Carried
  <2>2. v \in work \/ FrameTaken(at, d, v)
    BY DEF Carried
  <2> QED BY <1>4, <2>1, <2>2 DEF OnceInv, FrameTaken
<1>5. OnceInv'
  BY ONLY <1>2, <1>3, <1>4 DEF OnceInv
<1>6. ASSUME NEW id, NEW q \in Requests, InHand(id, q), q \notin without
      PROVE  /\ outcome'[q] \notin {Unsent, NoTab, Replied(q)}
             /\ outcome'[q] = Pending => id \in DOMAIN waiting' /\ waiting'[id].of = q
  <2>1. InHand(id, q)'
    BY <1>6
  <2> QED BY ONLY <2>1 DEF InHand
<1>7. ASSUME NEW i \in DOMAIN socks', NEW k \in ReqsOf(socks'[i])
      PROVE  \E id, q : /\ id = socks'[i].down[k].id /\ q = socks'[i].down[k].of /\ q \in Requests /\ q \notin without
                        /\ InHand(id, q)
  BY <1>1 DEF HandInv
<1>8. ASSUME NEW w \in work' PROVE w.of \in Requests /\ InHand(w.id, w.of) /\ w.of \notin without
  <2>1. CASE w \in work
    BY <2>1 DEF HandInv, SocksTyped, Works, Carried
  <2>2. CASE FrameTaken(at, d, w)
    BY <2>2, ReqFrames DEF HandInv, Carried, FrameTaken
  <2> QED BY <2>1, <2>2 DEF Carried
<1>9. ASSUME NEW i \in DOMAIN socks', NEW k \in ReqsOf(socks'[i])
      PROVE  /\ outcome'[socks'[i].down[k].of] \notin {Unsent, NoTab, Replied(socks'[i].down[k].of)}
             /\ outcome'[socks'[i].down[k].of] = Pending =>
                   socks'[i].down[k].id \in DOMAIN waiting' /\ waiting'[socks'[i].down[k].id].of = socks'[i].down[k].of
  <2>1. PICK id, q : /\ id = socks'[i].down[k].id /\ q = socks'[i].down[k].of /\ q \in Requests /\ q \notin without
                     /\ InHand(id, q)
    BY <1>7
  <2>2. /\ outcome'[q] \notin {Unsent, NoTab, Replied(q)}
        /\ outcome'[q] = Pending => id \in DOMAIN waiting' /\ waiting'[id].of = q
    BY <1>6, <2>1
  <2> QED BY ONLY <2>1, <2>2
<1>10. ASSUME NEW w \in work'
       PROVE  /\ outcome'[w.of] \notin {Unsent, NoTab, Replied(w.of)}
              /\ outcome'[w.of] = Pending => w.id \in DOMAIN waiting' /\ waiting'[w.id].of = w.of
  BY <1>6, <1>8
<1>11. HandInv'
  <2>1. (\A i \in DOMAIN socks : \A k \in ReqsOf(socks[i]) : InHand(socks[i].down[k].id, socks[i].down[k].of))'
    BY ONLY <1>9 DEF InHand
  <2>2. (\A w \in work : InHand(w.id, w.of))'
    BY ONLY <1>10 DEF InHand
  <2> QED BY ONLY <2>1, <2>2 DEF HandInv
<1> QED BY <1>5, <1>11

------------------------------------------------------------------------------
(* The steps of the tabs and the network *)

LEMMA OnSockets ==
    ASSUME SocksTyped
    PROVE  /\ DOMAIN socks = 1..Len(socks) /\ Len(socks) \in Nat
           /\ \A i \in DOMAIN socks : socks[i] \in Socket
           /\ \A i \in DOMAIN socks : \A s : [socks EXCEPT ![i] = s] = [j \in DOMAIN socks |-> IF j = i THEN s ELSE socks[j]]
BY DEF SocksTyped

(* One socket is replaced by another of its kind. *)
LEMMA OneReplaced ==
    ASSUME SocksTyped, NEW i \in DOMAIN socks, NEW s \in Socket, socks' = [socks EXCEPT ![i] = s]
    PROVE  /\ socks' \in Seq(Socket) /\ DOMAIN socks' = DOMAIN socks /\ Len(socks') = Len(socks)
           /\ socks'[i] = s /\ \A j \in DOMAIN socks : j # i => socks'[j] = socks[j]
<1>1. socks \in Seq(Socket) /\ i \in 1..Len(socks)
  BY OnSockets DEF SocksTyped
<1>2. socks' \in Seq(Socket) /\ Len(socks') = Len(socks)
  BY <1>1, ExceptSeq
<1> QED BY <1>1, <1>2, ExceptSeq, OnSockets

LEMMA SameServers ==
    ASSUME SocksTyped, DOMAIN socks' = DOMAIN socks, \A i \in DOMAIN socks : socks'[i].server = socks[i].server
    PROVE  OpenSockets' = OpenSockets
BY DEF OpenSockets

(* A step that the relay does not see and that sends nothing. *)
LEMMA UnseenKeeps ==
    ASSUME Inv, UNCHANGED relayVars, TabsTyped', SocksTyped', HandInv', OnceInv', OpenSockets' = OpenSockets
    PROVE  Inv'
<1>0. waiting' = waiting /\ next' = next /\ outcome' = outcome
  BY DEF relayVars
<1>1. RelayTyped' /\ WaitInv'
  <2>1. RelayTyped'
    BY <1>0 DEF Inv, RelayTyped
  <2>2. WaitInv'
    BY <1>0 DEF Inv, WaitInv
  <2> QED BY <2>1, <2>2
<1>2. OwnReply' /\ NobodyWaitsOnNobody' /\ OneInv'
  BY DEF Inv, relayVars, OwnReply, ToldElse, NobodyWaitsOnNobody, OneInv
<1> QED BY <1>1, <1>2 DEF Inv

LEMMA NothingSent ==
    ASSUME Inv, UNCHANGED <<relayVars, work>>, socks' \in Seq(Socket), DOMAIN socks' = DOMAIN socks,
           \A i \in DOMAIN socks : Fewer(socks[i], socks'[i])
    PROVE  SocksTyped' /\ HandInv' /\ OnceInv' /\ OpenSockets' = OpenSockets
<1>1. SocksTyped'
  BY DEF Inv, SocksTyped
<1>2. \A id : \A q \in Requests : InHand(id, q) => InHand(id, q)'
  BY DEF InHand, relayVars
<1>3. ASSUME NEW i \in DOMAIN socks', NEW k \in ReqsOf(socks'[i])
      PROVE  i \in DOMAIN socks /\ k \in ReqsOf(socks[i]) /\ socks'[i].down[k] = socks[i].down[k] /\ k + 0 = k
  <2>1. i \in DOMAIN socks /\ k \in ReqsOf(socks[i]) /\ socks'[i].down[k] = socks[i].down[k]
    BY DEF Fewer
  <2>2. k \in Nat
    BY <2>1, ReqFrames DEF Inv
  <2> QED BY <2>1, <2>2
<1>4. Carried(0, 0, {})
  BY <1>3 DEF Carried
<1>6. HandInv' /\ OnceInv'
  BY <1>1, <1>2, <1>4, FlightKept DEF Inv
<1>5. OpenSockets' = OpenSockets
  BY SameServers DEF Inv, Fewer
<1> QED BY <1>1, <1>5, <1>6

LEMMA SameFewer == ASSUME NEW s \in Socket PROVE Fewer(s, s)
BY DEF Fewer

LEMMA LetGoKeeps ==
    ASSUME Inv, NEW t \in Tabs, socks' = LetGo(t)
    PROVE  /\ socks' \in Seq(Socket) /\ DOMAIN socks' = DOMAIN socks /\ Len(socks') = Len(socks)
           /\ \A i \in DOMAIN socks : Fewer(socks[i], socks'[i])
<1>0. SocksTyped /\ current[t] \in 0..Len(socks)
  BY DEF Inv, TabsTyped
<1>1. CASE current[t] = 0
  BY <1>0, <1>1, OnSockets, SameFewer DEF LetGo, SocksTyped
<1>2. CASE current[t] # 0
  <2> DEFINE c == current[t]  s == ClosedByTab(socks[c])
  <2>1. c \in DOMAIN socks /\ socks[c] \in Socket
    BY <1>0, <1>2, OnSockets
  <2>2. socks' = [socks EXCEPT ![c] = s]
    BY <1>2 DEF LetGo
  <2>3. Fewer(socks[c], s) /\ s \in Socket
    BY <2>1, ClosedKeeps DEF Fewer
  <2> HIDE DEF s, c
  <2> QED BY <1>0, <2>1, <2>2, <2>3, OneReplaced, OnSockets, SameFewer
<1> QED BY <1>1, <1>2

LEMMA RelayKeeps ==
    ASSUME Inv, NEW t \in Tabs, NEW on \in BOOLEAN, Relay(t, on), asks' \in Nat,
           echo' \in [Tabs -> {"none", "first", "due"}]
    PROVE  Inv'
<1>1. /\ socks' \in Seq(Socket) /\ DOMAIN socks' = DOMAIN socks /\ Len(socks') = Len(socks)
      /\ \A i \in DOMAIN socks : Fewer(socks[i], socks'[i])
  BY LetGoKeeps DEF Relay
<1>2. SocksTyped' /\ HandInv' /\ OnceInv' /\ OpenSockets' = OpenSockets
  BY <1>1, NothingSent DEF Relay
<1>3. TabsTyped'
  <2>1. Len(socks) \in Nat /\ Len(socks') = Len(socks)
    BY <1>1, OnSockets DEF Inv
  <2>2. current' \in [Tabs -> 0..Len(socks')]
    BY <2>1 DEF Inv, TabsTyped, Relay
  <2>3. opening' \in [Tabs -> Nat] /\ wanted' \in [Tabs -> BOOLEAN] /\ retries' \in [Tabs -> Nat]
    BY DEF Inv, TabsTyped, Relay
  <2> QED BY <2>2, <2>3 DEF Inv, TabsTyped, Relay
<1> QED BY <1>2, <1>3, UnseenKeeps DEF Relay

LEMMA UseRelayKeeps == ASSUME Inv, NEW t \in Tabs, UseRelay(t) PROVE Inv'
<1>1. asks' \in Nat
  BY DEF UseRelay, Inv, TabsTyped
<1>2. echo' \in [Tabs -> {"none", "first", "due"}]
  BY DEF UseRelay, Inv, TabsTyped
<1> QED BY <1>1, <1>2, RelayKeeps DEF UseRelay

LEMMA RelayAgainKeeps == ASSUME Inv, NEW t \in Tabs, RelayAgain(t) PROVE Inv'
<1>1. asks' \in Nat
  BY DEF RelayAgain, Inv, TabsTyped
<1>2. echo' \in [Tabs -> {"none", "first", "due"}]
  BY DEF RelayAgain, Inv, TabsTyped
<1> QED BY <1>1, <1>2, RelayKeeps DEF RelayAgain

(* A new socket carries nothing and is not open yet. *)
LEMMA ConnectKeeps == ASSUME Inv, NEW t \in Tabs, Connect(t) PROVE Inv'
<1> DEFINE s == NewSocket(t)
<1>0. SocksTyped /\ socks \in Seq(Socket) /\ DOMAIN socks = 1..Len(socks) /\ Len(socks) \in Nat
  BY OnSockets DEF Inv, SocksTyped
<1>1. s \in Socket /\ s.server = "none" /\ ReqsOf(s) = {}
  BY DEF NewSocket, Socket, ReqsOf
<1>2. socks' = Append(socks, s) /\ UNCHANGED <<relayVars, work>>
  BY DEF Connect
<1> HIDE DEF s
<1>3. /\ socks' \in Seq(Socket) /\ Len(socks') = Len(socks) + 1
      /\ \A i \in 1..Len(socks) : socks'[i] = socks[i]
      /\ socks'[Len(socks) + 1] = s
  BY <1>0, <1>1, <1>2, AppendProperties
<1>4. DOMAIN socks' = 1..(Len(socks) + 1)
  BY <1>3
<1>5. SocksTyped'
  BY <1>2, <1>3 DEF Inv, SocksTyped
<1>6. ASSUME NEW i \in DOMAIN socks'
      PROVE  \/ i \in DOMAIN socks /\ socks'[i] = socks[i]
             \/ i \notin DOMAIN socks /\ ReqsOf(socks'[i]) = {} /\ socks'[i].server = "none"
  BY <1>0, <1>1, <1>3, <1>4
<1>7. OpenSockets' = OpenSockets
  BY <1>0, <1>3, <1>4, <1>6 DEF OpenSockets
<1>8. Carried(0, 0, {})
  <2>1. ASSUME NEW i \in DOMAIN socks', NEW k \in ReqsOf(socks'[i])
        PROVE  i \in DOMAIN socks /\ k \in ReqsOf(socks[i]) /\ socks'[i].down[k] = socks[i].down[k] /\ k + 0 = k
    <3>1. i \in DOMAIN socks /\ socks'[i] = socks[i]
      BY <1>6, <2>1
    <3>2. k \in Nat
      BY <1>0, <3>1, ReqFrames
    <3> QED BY <3>1, <3>2
  <2> QED BY <1>2, <2>1 DEF Carried
<1>9. \A id : \A q \in Requests : InHand(id, q) => InHand(id, q)'
  BY <1>2 DEF InHand, relayVars
<1>10. HandInv' /\ OnceInv'
  BY <1>5, <1>8, <1>9, FlightKept DEF Inv
<1>11. TabsTyped'
  <2>1. current' \in [Tabs -> 0..Len(socks')]
    BY <1>0, <1>3 DEF Inv, TabsTyped, Connect
  <2>2. opening' \in [Tabs -> Nat]
    BY DEF Inv, TabsTyped, Connect
  <2> QED BY <2>1, <2>2 DEF Inv, TabsTyped, Connect
<1> QED BY <1>2, <1>5, <1>7, <1>10, <1>11, UnseenKeeps

LEMMA RetryKeeps == ASSUME Inv, NEW t \in Tabs, Retry(t) PROVE Inv'
<1>1. UNCHANGED <<relayVars, work, socks>>
  BY DEF Retry
<1>2. socks' \in Seq(Socket) /\ DOMAIN socks' = DOMAIN socks /\ \A i \in DOMAIN socks : Fewer(socks[i], socks'[i])
  BY <1>1, OnSockets, SameFewer DEF Inv, SocksTyped
<1>3. SocksTyped' /\ HandInv' /\ OnceInv' /\ OpenSockets' = OpenSockets
  BY <1>1, <1>2, NothingSent
<1>4. TabsTyped'
  <2>0. opening \in [Tabs -> Nat] /\ retries \in [Tabs -> Nat] /\ retries[t] > 0
    BY DEF Inv, TabsTyped, Retry
  <2>1. opening' \in [Tabs -> Nat] /\ retries' \in [Tabs -> Nat]
    <3>1. retries' \in [Tabs -> Nat]
      BY <2>0 DEF Retry
    <3>2. opening' = [opening EXCEPT ![t] = @ + 1] \/ opening' = opening
      BY DEF Retry
    <3> QED BY <2>0, <3>1, <3>2
  <2>2. screen' \in [Tabs -> {"off", "connecting", "ready", "elsewhere"}]
    BY DEF Inv, TabsTyped, Retry
  <2> QED BY <1>1, <2>1, <2>2 DEF Inv, TabsTyped, Retry
<1> QED BY <1>1, <1>3, <1>4, UnseenKeeps

LEMMA DropKeeps == ASSUME Inv, NEW i \in Sockets, Drop(i) PROVE Inv'
<1> DEFINE b == socks[i].server \in {"open", "closing"}
           s == [socks[i] EXCEPT !.cut = TRUE, !.down = <<Close>>, !.bye = b]
<1>0. SocksTyped /\ i \in DOMAIN socks /\ socks[i] \in Socket
  BY OnSockets DEF Inv, Sockets
<1>1. s \in Socket /\ Fewer(socks[i], s)
  <2>1. <<Close>> \in Seq(Frames) /\ Len(<<Close>>) = 1 /\ <<Close>>[1].t # "req"
    BY FrameKinds
  <2>3. b \in BOOLEAN
    OBVIOUS
  <2> HIDE DEF b
  <2>2. s \in Socket /\ s.server = socks[i].server /\ s.down = <<Close>>
    BY <1>0, <2>1, <2>3 DEF Socket
  <2> HIDE DEF s
  <2> QED BY <2>1, <2>2 DEF Fewer, ReqsOf
<1>2. socks' = [socks EXCEPT ![i] = s] /\ UNCHANGED <<relayVars, work, tabVars>>
  BY <1>0 DEF Drop, Socket
<1> HIDE DEF s
<1>3. /\ socks' \in Seq(Socket) /\ DOMAIN socks' = DOMAIN socks /\ Len(socks') = Len(socks)
      /\ \A j \in DOMAIN socks : Fewer(socks[j], socks'[j])
  BY <1>0, <1>1, <1>2, OneReplaced, OnSockets, SameFewer
<1>4. SocksTyped' /\ HandInv' /\ OnceInv' /\ OpenSockets' = OpenSockets
  BY <1>2, <1>3, NothingSent
<1>5. TabsTyped'
  BY <1>2, <1>3 DEF Inv, TabsTyped, tabVars
<1> QED BY <1>2, <1>4, <1>5, UnseenKeeps

(* A frame leaves its queue at the head. *)
LEMMA RestOf ==
    ASSUME NEW s \in Socket, s.down # <<>>
    PROVE  LET rest == [s EXCEPT !.down = Tail(@)] IN
           /\ rest \in Socket /\ rest.server = s.server /\ rest.client = s.client /\ rest.tab = s.tab
           /\ \A k \in ReqsOf(rest) : k + 1 \in ReqsOf(s) /\ rest.down[k] = s.down[k + 1]
           /\ Head(s.down) \in Frames /\ Head(s.down) = s.down[1]
           /\ Head(s.down).t = "req" => 1 \in ReqsOf(s)
<1> DEFINE d == s.down  l == Tail(d)
<1>1. d \in Seq(Frames)
  BY DEF Socket
<1>2. /\ Head(d) \in Frames /\ l \in Seq(Frames) /\ Len(l) = Len(d) - 1
      /\ \A k \in 1..Len(l) : l[k] = d[k + 1]
  BY <1>1, HeadTailProperties
<1>3. Head(d) = d[1] /\ Len(d) \in Nat /\ Len(d) # 0
  BY <1>1
<1>4. [s EXCEPT !.down = Tail(@)] = [s EXCEPT !.down = l]
  OBVIOUS
<1> HIDE DEF l
<1>5. \A k \in 1..Len(l) : k + 1 \in 1..Len(d)
  BY <1>2, <1>3
<1> QED BY <1>2, <1>3, <1>4, <1>5 DEF Socket, ReqsOf

LEMMA TabHearsKeeps == ASSUME Inv, NEW i \in Sockets, TabHears(i) PROVE Inv'
<1> DEFINE s == socks[i]  m == Head(s.down)  rest == [s EXCEPT !.down = Tail(@)]
           closed == [(IF s.client = "open" THEN Bye(rest) ELSE rest) EXCEPT !.client = "closed"]
           v == [sock |-> i, id |-> m.id, of |-> m.of]
<1>0. SocksTyped /\ TabsTyped /\ i \in DOMAIN socks /\ s \in Socket /\ s.down # <<>> /\ i \in Nat
  BY OnSockets DEF Inv, Sockets, TabHears
<1>1. /\ rest \in Socket /\ rest.server = s.server /\ rest.client = s.client
      /\ \A k \in ReqsOf(rest) : k + 1 \in ReqsOf(s) /\ rest.down[k] = s.down[k + 1]
      /\ m \in Frames /\ m = s.down[1] /\ (m.t = "req" => 1 \in ReqsOf(s))
  BY <1>0, RestOf
<1>2. s.tab \in Tabs
  BY <1>0 DEF Socket
<1>3. UNCHANGED <<relayVars, drops>>
  BY DEF TabHears
<1>4. Fewer(rest, closed)
  <2>1. Fewer(rest, Bye(rest)) /\ Fewer(rest, rest)
    BY <1>1, ByeKeeps, SameFewer
  <2> DEFINE y == IF s.client = "open" THEN Bye(rest) ELSE rest
  <2>2. Fewer(rest, y)
    BY <2>1
  <2>3. closed = [y EXCEPT !.client = "closed"]
    OBVIOUS
  <2> HIDE DEF y, rest, closed
  <2>4. closed \in Socket /\ closed.server = y.server /\ closed.down = y.down
    BY <2>2, <2>3 DEF Fewer, Socket
  <2> QED BY <2>2, <2>4 DEF Fewer, ReqsOf
<1>5. Fewer(rest, rest) /\ Fewer(rest, ClosedByTab(rest))
  BY <1>1, SameFewer, ClosedKeeps
<1>6. \/ socks' = [socks EXCEPT ![i] = closed] /\ work' = work /\ OnClose(i)
      \/ /\ socks' = [socks EXCEPT ![i] = rest] /\ work' = work
         /\ screen' = [screen EXCEPT ![s.tab] = "ready"]
         /\ UNCHANGED <<wanted, opening, retries, current, echo, asks>>
      \/ /\ socks' = [socks EXCEPT ![i] = ClosedByTab(rest)] /\ work' = work
         /\ wanted' = [wanted EXCEPT ![s.tab] = FALSE] /\ screen' = [screen EXCEPT ![s.tab] = "elsewhere"]
         /\ UNCHANGED <<opening, retries, current, echo, asks>>
      \/ /\ m.t = "req" /\ socks' = [socks EXCEPT ![i] = rest] /\ work' = work \cup {v} /\ UNCHANGED tabVars
  BY DEF TabHears
<1> HIDE DEF closed, rest, m
<1>7. PICK z : Fewer(rest, z) /\ socks' = [socks EXCEPT ![i] = z]
  BY <1>4, <1>5, <1>6
<1>8. /\ socks' \in Seq(Socket) /\ DOMAIN socks' = DOMAIN socks /\ Len(socks') = Len(socks)
      /\ socks'[i] = z /\ z.server = s.server /\ \A j \in DOMAIN socks : j # i => socks'[j] = socks[j]
  BY <1>0, <1>1, <1>7, OneReplaced DEF Fewer
<1>9. OpenSockets' = OpenSockets
  BY <1>0, <1>8, SameServers
<1>10. \A w \in work' : w \in work \/ FrameTaken(i, 1, w)
  BY <1>0, <1>1, <1>6 DEF FrameTaken
<1>11. SocksTyped'
  <2>1. m.t = "req" => v \in Works
    BY <1>0, <1>1, FrameKinds DEF Works
  <2>2. work' \subseteq Works
    BY <1>0, <1>6, <2>1 DEF SocksTyped
  <2> QED BY <1>8, <2>2 DEF SocksTyped
<1>12. Carried(i, 1, {})
  <2>1. ASSUME NEW j \in DOMAIN socks', NEW k \in ReqsOf(socks'[j])
        PROVE  /\ j \in DOMAIN socks
               /\ IF j = i THEN k + 1 \in ReqsOf(socks[j]) /\ socks'[j].down[k] = socks[j].down[k + 1]
                           ELSE k \in ReqsOf(socks[j]) /\ socks'[j].down[k] = socks[j].down[k]
    <3>1. CASE j = i
      BY <1>1, <1>7, <1>8, <2>1, <3>1 DEF Fewer
    <3>2. CASE j # i
      BY <1>8, <2>1, <3>2
    <3> QED BY <3>1, <3>2
  <2> QED BY <1>10, <2>1 DEF Carried
<1>13. \A id : \A q \in Requests : InHand(id, q) => InHand(id, q)'
  BY <1>3 DEF InHand, relayVars
<1>14. HandInv' /\ OnceInv'
  BY <1>0, <1>11, <1>12, <1>13, FlightKept DEF Inv
<1>15. TabsTyped'
  <2>0. Len(socks') = Len(socks) /\ Len(socks) \in Nat
    BY <1>0, <1>8, OnSockets
  <2>1. CASE OnClose(i)
    <3>1. UNCHANGED tabVars \/ current' = [current EXCEPT ![s.tab] = 0]
      BY <2>1 DEF OnClose
    <3>2. \/ UNCHANGED <<retries, screen>>
          \/ retries' = [retries EXCEPT ![s.tab] = @ + 1] /\ screen' = [screen EXCEPT ![s.tab] = "connecting"]
      BY <2>1 DEF OnClose, tabVars
    <3>3. UNCHANGED <<wanted, opening, echo, asks>>
      BY <2>1 DEF OnClose, tabVars
    <3>4. current' \in [Tabs -> 0..Len(socks')]
      <4>1. current' = current \/ current' = [current EXCEPT ![s.tab] = 0]
        BY <3>1 DEF tabVars
      <4>2. current \in [Tabs -> 0..Len(socks)] /\ 0 \in 0..Len(socks)
        BY <1>0, <2>0 DEF TabsTyped
      <4> QED BY <2>0, <4>1, <4>2
    <3>5. retries' \in [Tabs -> Nat]
      <4>1. retries \in [Tabs -> Nat]
        BY <1>0 DEF TabsTyped
      <4> QED BY <1>2, <3>2, <4>1
    <3>6. screen' \in [Tabs -> {"off", "connecting", "ready", "elsewhere"}]
      <4>1. screen \in [Tabs -> {"off", "connecting", "ready", "elsewhere"}]
        BY <1>0 DEF TabsTyped
      <4> QED BY <1>2, <3>2, <4>1
    <3> QED BY <1>0, <3>3, <3>4, <3>5, <3>6 DEF TabsTyped
  <2>2. CASE ~ OnClose(i)
    <3>1. UNCHANGED <<opening, retries, current, echo, asks>>
      BY <1>6, <2>2 DEF tabVars
    <3>2. wanted' \in [Tabs -> BOOLEAN] /\ screen' \in [Tabs -> {"off", "connecting", "ready", "elsewhere"}]
      BY <1>0, <1>6, <2>2 DEF tabVars, TabsTyped
    <3> QED BY <1>0, <2>0, <3>1, <3>2 DEF TabsTyped
  <2> QED BY <2>1, <2>2
<1> QED BY <1>3, <1>9, <1>11, <1>14, <1>15, UnseenKeeps

------------------------------------------------------------------------------
(* The steps of the relay *)

Less(s, z) == z \in Socket /\ \A k \in ReqsOf(z) : k \in ReqsOf(s) /\ z.down[k] = s.down[k]

LEMMA NothingNew ==
    ASSUME Inv, socks' \in Seq(Socket), DOMAIN socks' = DOMAIN socks,
           \A i \in DOMAIN socks : Less(socks[i], socks'[i]), work' = work,
           \A id : \A q \in Requests : InHand(id, q) => InHand(id, q)'
    PROVE  SocksTyped' /\ HandInv' /\ OnceInv'
<1>1. SocksTyped'
  BY DEF Inv, SocksTyped
<1>2. ASSUME NEW i \in DOMAIN socks', NEW k \in ReqsOf(socks'[i])
      PROVE  i \in DOMAIN socks /\ k \in ReqsOf(socks[i]) /\ socks'[i].down[k] = socks[i].down[k] /\ k + 0 = k
  <2>1. i \in DOMAIN socks /\ k \in ReqsOf(socks[i]) /\ socks'[i].down[k] = socks[i].down[k]
    BY DEF Less
  <2>2. k \in Nat
    BY <2>1, ReqFrames DEF Inv
  <2> QED BY <2>1, <2>2
<1>3. Carried(0, 0, {})
  BY <1>2 DEF Carried
<1> QED BY <1>1, <1>3, FlightKept DEF Inv

LEMMA ToldNothing ==
    ASSUME Inv, UNCHANGED <<waiting, outcome>>
    PROVE  OwnReply' /\ WaitInv' /\ \A id : \A q \in Requests : InHand(id, q) => InHand(id, q)'
BY DEF Inv, OwnReply, ToldElse, WaitInv, InHand

(* Who is older is superseded: the new socket is the one that is open. *)
LEMMA AcceptKeeps == ASSUME Inv, NEW i \in Sockets, Accept(i) PROVE Inv'
<1> DEFINE y == [socks[i] EXCEPT !.server = "open", !.client = "open", !.down = <<Ready>>]
           z == [socks[i] EXCEPT !.server = "open", !.bye = TRUE]
           f(j) == IF j # i THEN Supersede(socks[j]) ELSE IF socks[i].client = "connecting" THEN y ELSE z
<1>0. SocksTyped /\ DOMAIN socks = 1..Len(socks) /\ Len(socks) \in Nat /\ i \in DOMAIN socks /\ socks[i] \in Socket
  BY OnSockets DEF Inv, Sockets
<1>1. socks' = [j \in DOMAIN socks |-> f(j)] /\ UNCHANGED <<tabVars, work, relayVars, drops>>
  BY DEF Accept
<1>2. y \in Socket /\ y.server = "open" /\ ReqsOf(y) = {}
  <2>1. <<Ready>> \in Seq(Frames) /\ Len(<<Ready>>) = 1 /\ <<Ready>>[1].t # "req"
    BY FrameKinds
  <2>2. y \in Socket /\ y.server = "open" /\ y.down = <<Ready>>
    BY <1>0, <2>1 DEF Socket
  <2> HIDE DEF y
  <2> QED BY <2>1, <2>2 DEF ReqsOf
<1>3. z \in Socket /\ z.server = "open" /\ ReqsOf(z) = ReqsOf(socks[i]) /\ z.down = socks[i].down
  BY <1>0 DEF Socket, ReqsOf
<1>4. Less(socks[i], f(i)) /\ f(i).server = "open"
  BY <1>2, <1>3 DEF Less
<1>5. ASSUME NEW j \in DOMAIN socks, j # i PROVE Less(socks[j], f(j)) /\ f(j).server # "open"
  <2> DEFINE x == Down(socks[j], <<Superseded, Close>>)
  <2>1. socks[j] \in Socket
    BY <1>0, OnSockets
  <2>2. Fewer(socks[j], x)
    BY <2>1, PlainKeeps, PlainMessages
  <2>3. CASE socks[j].server = "open"
    <3>1. f(j) = [x EXCEPT !.server = "closing"]
      BY <1>5, <2>3 DEF Supersede
    <3> HIDE DEF x, f
    <3>2. f(j) \in Socket /\ f(j).server = "closing" /\ f(j).down = x.down
      BY <2>2, <3>1 DEF Fewer, Socket
    <3> QED BY <2>2, <3>2 DEF Fewer, Less, ReqsOf
  <2>4. CASE socks[j].server # "open"
    BY <1>5, <2>1, <2>4 DEF Supersede, Less
  <2> QED BY <2>3, <2>4
<1> HIDE DEF f, y, z
<1>6. \A j \in DOMAIN socks : Less(socks[j], f(j)) /\ f(j) \in Socket /\ (f(j).server = "open" <=> j = i)
  BY <1>4, <1>5 DEF Less
<1>7. DOMAIN socks' = DOMAIN socks /\ Len(socks') = Len(socks) /\ socks' \in Seq(Socket)
  <2>1. socks' \in [1..Len(socks) -> Socket]
    BY <1>0, <1>1, <1>6
  <2> QED BY <1>0, <1>1, <2>1
<1>8. \A j \in DOMAIN socks : Less(socks[j], socks'[j]) /\ (socks'[j].server = "open" <=> j = i)
  BY <1>1, <1>6
<1>9. UNCHANGED <<waiting, outcome, next>>
  BY <1>1 DEF relayVars
<1>10. OwnReply' /\ WaitInv' /\ \A id : \A q \in Requests : InHand(id, q) => InHand(id, q)'
  BY <1>9, ToldNothing
<1>11. SocksTyped' /\ HandInv' /\ OnceInv'
  BY <1>1, <1>7, <1>8, <1>10, NothingNew
<1>12. OpenSockets' = {i}
  BY <1>0, <1>7, <1>8 DEF OpenSockets
<1>13. OneInv' /\ NobodyWaitsOnNobody'
  BY <1>12 DEF OneInv, NobodyWaitsOnNobody
<1>14. TabsTyped'
  BY <1>1, <1>7 DEF Inv, TabsTyped, tabVars
<1>15. RelayTyped'
  BY <1>9 DEF Inv, RelayTyped
<1> QED BY <1>10, <1>11, <1>13, <1>14, <1>15 DEF Inv

LEMMA EmptyIsEmpty == \A f : f = [x \in {} |-> f[x]] => f = <<>>
<1>1. ASSUME NEW f, f = [x \in {} |-> f[x]] PROVE f = <<>>
  <2>1. <<>> = [x \in 1..0 |-> <<>>[x]]
    OBVIOUS
  <2>2. 1..0 = {}
    OBVIOUS
  <2> QED BY <1>1, <2>1, <2>2
<1> QED BY <1>1

(* When the last socket closes everything that waits is settled. *)
LEMMA RelayHearsCloseKeeps == ASSUME Inv, NEW i \in Sockets, RelayHearsClose(i) PROVE Inv'
<1> DEFINE s == [socks[i] EXCEPT !.bye = FALSE]
           y == IF s.server = "open" THEN Down(s, <<Close>>) ELSE s
           z == [y EXCEPT !.server = "closed"]
           ids == SettleAll(i)
<1>0. /\ SocksTyped /\ RelayTyped /\ WaitInv /\ OwnReply
      /\ DOMAIN socks = 1..Len(socks) /\ Len(socks) \in Nat /\ i \in DOMAIN socks /\ socks[i] \in Socket
  BY OnSockets DEF Inv, Sockets
<1>1. /\ socks' = [socks EXCEPT ![i] = z] /\ Settle(ids, Told("closed"))
      /\ UNCHANGED <<tabVars, work, next, drops>>
  BY DEF RelayHearsClose
<1>2. s \in Socket /\ Less(socks[i], s)
  BY <1>0 DEF Socket, Less, ReqsOf
<1>3. Less(socks[i], z) /\ z.server = "closed" /\ z \in Socket
  <2>1. Fewer(s, y)
    BY <1>2, PlainKeeps, PlainMessages, SameFewer
  <2> HIDE DEF y, s
  <2>2. z \in Socket /\ z.server = "closed" /\ z.down = y.down
    BY <2>1 DEF Fewer, Socket
  <2> HIDE DEF z
  <2> QED BY <1>2, <2>1, <2>2 DEF Fewer, Less, ReqsOf
<1> HIDE DEF y, s, z, ids
<1>4. /\ socks' \in Seq(Socket) /\ DOMAIN socks' = DOMAIN socks /\ Len(socks') = Len(socks)
      /\ socks'[i] = z /\ \A j \in DOMAIN socks : j # i => socks'[j] = socks[j]
  BY <1>0, <1>1, <1>3, OneReplaced
<1>5. \A j \in DOMAIN socks : Less(socks[j], socks'[j])
  BY <1>0, <1>3, <1>4, OnSockets DEF Less
<1>6. OpenSockets' = OpenSockets \ {i}
  BY <1>3, <1>4 DEF OpenSockets
<1>7. Told("closed") \in Ends \cup Answers /\ \A q \in Requests : Told("closed") # Replied(q)
  BY Outcomes
<1>8. /\ RelayTyped' /\ WaitInv' /\ DOMAIN waiting' = DOMAIN waiting \ ids
      /\ \A r \in Requests : outcome'[r] = outcome[r] \/ (outcome[r] = Pending /\ outcome'[r] = Told("closed"))
      /\ \A id : \A q \in Requests : InHand(id, q) => InHand(id, q)'
  <2> DEFINE told == Told("closed")
  <2>1. Settle(ids, told) /\ next' = next /\ told \in Ends \cup Answers /\ \A q \in Requests : told # Replied(q)
    BY <1>1, <1>7
  <2> HIDE DEF told
  <2>2. /\ RelayTyped' /\ WaitInv' /\ DOMAIN waiting' = DOMAIN waiting \ ids
        /\ \A r \in Requests :
              \/ outcome'[r] = outcome[r]
              \/ /\ outcome[r] = Pending /\ outcome'[r] = told
                 /\ \E x \in ids \cap DOMAIN waiting : waiting[x].of = r
        /\ \A id : \A q \in Requests : InHand(id, q) /\ told # Replied(q) => InHand(id, q)'
    BY <1>0, <2>1, SettleDoes
  <2> QED BY <2>1, <2>2 DEF told
<1>9. OwnReply'
  BY <1>0, <1>7, <1>8, OwnReplyKept
<1>10. SocksTyped' /\ HandInv' /\ OnceInv'
  BY <1>1, <1>4, <1>5, <1>8, NothingNew
<1>11. OneInv'
  BY <1>6 DEF Inv, OneInv
<1>12. NobodyWaitsOnNobody'
  <2>1. CASE OpenSockets \ {i} # {}
    BY <1>6, <2>1 DEF NobodyWaitsOnNobody
  <2>2. CASE OpenSockets \ {i} = {}
    <3>1. ids = DOMAIN waiting
      BY <2>2 DEF ids, SettleAll
    <3>2. waiting' = [id \in {} |-> waiting'[id]]
      BY <1>8, <3>1 DEF RelayTyped
    <3> QED BY <3>2, EmptyIsEmpty DEF NobodyWaitsOnNobody
  <2> QED BY <2>1, <2>2
<1>13. TabsTyped'
  BY <1>1, <1>4 DEF Inv, TabsTyped, tabVars
<1> QED BY <1>8, <1>9, <1>10, <1>11, <1>12, <1>13 DEF Inv

LEMMA FewerWait ==
    ASSUME RelayTyped, RelayTyped', NobodyWaitsOnNobody, DOMAIN waiting' \subseteq DOMAIN waiting, OpenSockets' = OpenSockets
    PROVE  NobodyWaitsOnNobody'
<1>1. ASSUME waiting' # <<>> PROVE waiting # <<>>
  <2>1. DOMAIN waiting' # {}
    BY <1>1, EmptyIsEmpty DEF RelayTyped
  <2> QED BY <2>1
<1> QED BY <1>1 DEF NobodyWaitsOnNobody

LEMMA SocksStay ==
    ASSUME Inv, UNCHANGED <<socks, tabVars>>
    PROVE  TabsTyped' /\ OpenSockets' = OpenSockets /\ OneInv'
BY DEF Inv, TabsTyped, tabVars, OpenSockets, OneInv

LEMMA TimeoutKeeps == ASSUME Inv, NEW id \in DOMAIN waiting, Timeout(id) PROVE Inv'
<1>0. RelayTyped /\ WaitInv /\ OwnReply /\ NobodyWaitsOnNobody /\ SocksTyped
  BY DEF Inv
<1>1. Settle({id}, Told("timeout")) /\ UNCHANGED <<tabVars, socks, work, next, drops>>
  BY DEF Timeout
<1>2. Told("timeout") \in Ends \cup Answers /\ \A q \in Requests : Told("timeout") # Replied(q)
  BY Outcomes
<1>3. /\ RelayTyped' /\ WaitInv' /\ DOMAIN waiting' = DOMAIN waiting \ {id}
      /\ \A r \in Requests : outcome'[r] = outcome[r] \/ (outcome[r] = Pending /\ outcome'[r] = Told("timeout"))
      /\ \A jd : \A q \in Requests : InHand(jd, q) => InHand(jd, q)'
  <2> DEFINE ids == {id}  told == Told("timeout")
  <2>1. Settle(ids, told) /\ next' = next /\ told \in Ends \cup Answers /\ \A q \in Requests : told # Replied(q)
    BY <1>1, <1>2
  <2> HIDE DEF ids, told
  <2>2. /\ RelayTyped' /\ WaitInv' /\ DOMAIN waiting' = DOMAIN waiting \ ids
        /\ \A r \in Requests :
              \/ outcome'[r] = outcome[r]
              \/ /\ outcome[r] = Pending /\ outcome'[r] = told
                 /\ \E x \in ids \cap DOMAIN waiting : waiting[x].of = r
        /\ \A jd : \A q \in Requests : InHand(jd, q) /\ told # Replied(q) => InHand(jd, q)'
    BY <1>0, <2>1, SettleDoes
  <2> QED BY <2>1, <2>2 DEF ids, told
<1>4. OwnReply'
  BY <1>0, <1>2, <1>3, OwnReplyKept
<1>5. TabsTyped' /\ OpenSockets' = OpenSockets /\ OneInv'
  BY <1>1, SocksStay
<1>6. NobodyWaitsOnNobody'
  BY <1>0, <1>3, <1>5, FewerWait
<1>7. socks' \in Seq(Socket) /\ DOMAIN socks' = DOMAIN socks /\ \A i \in DOMAIN socks : Less(socks[i], socks'[i])
  BY <1>0, <1>1, OnSockets DEF SocksTyped, Less
<1>8. SocksTyped' /\ HandInv' /\ OnceInv'
  BY <1>1, <1>3, <1>7, NothingNew
<1> QED BY <1>3, <1>4, <1>5, <1>6, <1>8 DEF Inv

LEMMA HibernateKeeps == ASSUME Inv, Hibernate PROVE Inv'
<1>0. SocksTyped /\ RelayTyped
  BY DEF Inv
<1>1. UNCHANGED <<tabVars, socks, work, waiting, outcome>> /\ waiting = <<>> /\ next' = 1
  BY DEF Hibernate
<1>2. OwnReply' /\ WaitInv' /\ \A id : \A q \in Requests : InHand(id, q) => InHand(id, q)'
  BY <1>1, ToldNothing
<1>3. RelayTyped'
  BY <1>0, <1>1 DEF RelayTyped
<1>4. TabsTyped' /\ OpenSockets' = OpenSockets /\ OneInv'
  BY <1>1, SocksStay
<1>5. NobodyWaitsOnNobody'
  BY <1>1 DEF NobodyWaitsOnNobody
<1>6. socks' \in Seq(Socket) /\ DOMAIN socks' = DOMAIN socks /\ \A i \in DOMAIN socks : Less(socks[i], socks'[i])
  BY <1>0, <1>1, OnSockets DEF SocksTyped, Less
<1>7. SocksTyped' /\ HandInv' /\ OnceInv'
  BY <1>1, <1>2, <1>6, NothingNew
<1> QED BY <1>2, <1>3, <1>4, <1>5, <1>7 DEF Inv

(* A reply that settles another's request answers one whose client was told something else before. *)
LEMMA ReplyKeeps == ASSUME Inv, NEW w \in work, Reply(w) PROVE Inv'
<1>0. RelayTyped /\ WaitInv /\ OwnReply /\ NobodyWaitsOnNobody /\ SocksTyped /\ HandInv /\ OnceInv
  BY DEF Inv
<1>1. /\ work' = work \ {w} /\ UNCHANGED <<tabVars, socks, next, drops>>
      /\ Settle({w.id}, Replied(w.of)) \/ UNCHANGED <<waiting, outcome>>
  BY DEF Reply
<1>2. w.of \in Requests /\ InHand(w.id, w.of) /\ Replied(w.of) \in Ends \cup Answers
  BY <1>0, Outcomes DEF SocksTyped, Works, HandInv
<1>3. TabsTyped' /\ OpenSockets' = OpenSockets /\ OneInv' /\ SocksTyped'
  BY <1>0, <1>1, SocksStay DEF SocksTyped
<1>4. Carried(0, 0, {w.of})
  <2>1. ASSUME NEW i \in DOMAIN socks', NEW k \in ReqsOf(socks'[i])
        PROVE  /\ i \in DOMAIN socks /\ k \in ReqsOf(socks[i]) /\ socks'[i].down[k] = socks[i].down[k] /\ k + 0 = k
               /\ socks'[i].down[k].of # w.of
    <3>1. socks' = socks
      BY <1>1
    <3>2. k \in Nat
      BY <1>0, <3>1, ReqFrames
    <3> QED BY <1>0, <3>1, <3>2 DEF OnceInv
  <2>2. \A v \in work' : v \in work /\ v.of # w.of
    BY <1>0, <1>1 DEF OnceInv
  <2> QED BY <2>1, <2>2 DEF Carried
<1>5. CASE Settle({w.id}, Replied(w.of))
  <2>1. \A q \in Requests : q # w.of => Replied(w.of) # Replied(q)
    BY <1>2, Outcomes
  <2>2. /\ RelayTyped' /\ WaitInv' /\ DOMAIN waiting' = DOMAIN waiting \ {w.id}
        /\ \A r \in Requests :
              \/ outcome'[r] = outcome[r]
              \/ /\ outcome[r] = Pending /\ outcome'[r] = Replied(w.of)
                 /\ \E id \in {w.id} \cap DOMAIN waiting : waiting[id].of = r
        /\ \A id : \A q \in Requests : InHand(id, q) /\ Replied(w.of) # Replied(q) => InHand(id, q)'
    <3> DEFINE told == Replied(w.of)  ids == {w.id}
    <3>1. Settle(ids, told) /\ next' = next /\ told \in Ends \cup Answers
      BY <1>1, <1>2, <1>5
    <3> HIDE DEF told, ids
    <3>2. /\ RelayTyped' /\ WaitInv' /\ DOMAIN waiting' = DOMAIN waiting \ ids
          /\ \A r \in Requests :
                \/ outcome'[r] = outcome[r]
                \/ /\ outcome[r] = Pending /\ outcome'[r] = told
                   /\ \E id \in ids \cap DOMAIN waiting : waiting[id].of = r
          /\ \A id : \A q \in Requests : InHand(id, q) /\ told # Replied(q) => InHand(id, q)'
      BY <1>0, <3>1, SettleDoes
    <3> QED BY <3>2 DEF told, ids
  <2>3. ASSUME outcome[w.of] # Pending PROVE ToldElse(w.of)
    <3>1. outcome[w.of] \in Ends \cup Answers /\ outcome[w.of] # Replied(w.of)
      BY <1>0, <1>2, <2>3 DEF RelayTyped, InHand
    <3>2. CASE outcome[w.of] \in Ends
      BY <3>2 DEF ToldElse, Ends
    <3>3. CASE outcome[w.of] \in Answers
      <4>1. PICK q \in Requests : outcome[w.of] = Replied(q)
        BY <3>3 DEF Answers
      <4>2. outcome[w.of].kind = "reply" /\ outcome[w.of].of = q /\ q # w.of
        BY <3>1, <4>1, Outcomes
      <4> QED BY <4>2 DEF ToldElse
    <3> QED BY <3>1, <3>2, <3>3
  <2>4. \A r \in Requests : outcome'[r] # outcome[r] => r = w.of \/ ToldElse(w.of)
    BY <1>2, <2>2, <2>3 DEF InHand
  <2>5. \A q \in Requests : Replied(w.of) = Replied(q) => q = w.of
    BY <1>2, Outcomes
  <2>6. OwnReply'
    <3>1. \A r \in Requests : outcome'[r] = outcome[r] \/ (outcome[r] = Pending /\ outcome'[r] = Replied(w.of))
      BY <2>2
    <3>2. \A q \in Requests : Replied(w.of) = Replied(q) => \A r \in Requests : outcome'[r] # outcome[r] => r = q \/ ToldElse(q)
      BY <2>4, <2>5
    <3> QED BY <1>0, <1>2, <3>1, <3>2, OwnReplyKept
  <2>7. \A id : \A q \in Requests : InHand(id, q) /\ q \notin {w.of} => InHand(id, q)'
    BY <2>1, <2>2
  <2>8. HandInv' /\ OnceInv'
    BY <1>0, <1>3, <1>4, <2>7, FlightKept
  <2>9. NobodyWaitsOnNobody'
    BY <1>0, <1>3, <2>2, FewerWait
  <2> QED BY <1>3, <2>2, <2>6, <2>8, <2>9 DEF Inv
<1>6. CASE UNCHANGED <<waiting, outcome>>
  <2>1. OwnReply' /\ WaitInv' /\ \A id : \A q \in Requests : InHand(id, q) => InHand(id, q)'
    BY <1>6, ToldNothing
  <2>2. RelayTyped' /\ NobodyWaitsOnNobody'
    BY <1>0, <1>1, <1>3, <1>6 DEF RelayTyped, NobodyWaitsOnNobody
  <2>3. HandInv' /\ OnceInv'
    BY <1>0, <1>3, <1>4, <2>1, FlightKept
  <2> QED BY <1>3, <2>1, <2>2, <2>3 DEF Inv
<1> QED BY <1>1, <1>5, <1>6

(* A request that comes was unknown before. *)
LEMMA UnsentIsNew ==
    ASSUME Inv, NEW r \in Requests, outcome[r] = Unsent
    PROVE  /\ \A id \in DOMAIN waiting : waiting[id].of # r
           /\ \A i \in DOMAIN socks : \A k \in ReqsOf(socks[i]) : socks[i].down[k].of # r
           /\ \A w \in work : w.of # r
           /\ \A id : ~ InHand(id, r)
<1>1. Unsent # Pending
  BY Outcomes
<1> QED BY <1>1 DEF Inv, WaitInv, HandInv, InHand

LEMMA ToldFirst ==
    ASSUME Inv, NEW r \in Requests, outcome[r] = Unsent, NEW o, o.kind # "reply", outcome' = [outcome EXCEPT ![r] = o]
    PROVE  OwnReply'
<1>1. \A q \in Requests : outcome'[q] = IF q = r THEN o ELSE outcome[q]
  BY DEF Inv, RelayTyped
<1>2. ASSUME NEW q \in Requests, ToldElse(q) PROVE ToldElse(q)'
  <2>1. q # r
    BY <1>2, Outcomes DEF ToldElse, Ends
  <2> QED BY <1>1, <1>2, <2>1 DEF ToldElse
<1>3. ASSUME NEW q \in Requests, outcome'[q].kind = "reply"
      PROVE  \E x : outcome'[q].of = x /\ (x = q \/ ToldElse(x)')
  <2>1. outcome'[q] = outcome[q]
    BY <1>1, <1>3
  <2>2. outcome[q] \in Answers
    BY <1>3, <2>1, Outcomes DEF Inv, RelayTyped
  <2>3. PICK x \in Requests : outcome[q] = Replied(x)
    BY <2>2 DEF Answers
  <2>4. outcome[q].of = x /\ (x = q \/ ToldElse(x))
    BY <1>3, <2>1, <2>3, Outcomes DEF Inv, OwnReply
  <2> QED BY <1>2, <2>1, <2>3, <2>4
<1> QED BY <1>3 DEF OwnReply, ToldElse

(* A request that goes nowhere. *)
LEMMA PostRefused ==
    ASSUME Inv, NEW r \in Requests, outcome[r] = Unsent, NEW o \in {NoTab, Told("closed")},
           outcome' = [outcome EXCEPT ![r] = o], UNCHANGED <<socks, waiting, work, tabVars>>,
           next' = next \/ next' = next + 1
    PROVE  Inv'
<1>0. RelayTyped /\ SocksTyped
  BY DEF Inv
<1>1. \A q \in Requests : outcome'[q] = IF q = r THEN o ELSE outcome[q]
  BY <1>0 DEF RelayTyped
<1>2. o # Pending /\ o # Unsent /\ o.kind # "reply" /\ o \in {NoTab} \cup Ends
  <2>1. CASE o = NoTab
    BY <2>1, Outcomes
  <2>2. CASE o \in Ends
    BY <2>2, Outcomes
  <2> QED BY <2>1, <2>2, Outcomes
<1>3. OwnReply'
  BY <1>2, ToldFirst
<1>4. RelayTyped'
  <2>1. outcome' = [q \in Requests |-> outcome'[q]]
    BY <1>0 DEF RelayTyped
  <2>2. \A q \in Requests : outcome'[q] \in {Unsent, Pending, NoTab} \cup Ends \cup Answers
    BY <1>0, <1>1, <1>2 DEF RelayTyped
  <2>3. next' \in Nat \ {0} /\ DOMAIN waiting \subseteq 1..(next' - 1)
    BY <1>0 DEF RelayTyped
  <2> QED BY <1>0, <2>1, <2>2, <2>3 DEF RelayTyped
<1>5. WaitInv'
  <2>1. \A id \in DOMAIN waiting : waiting[id].of \in Requests /\ outcome'[waiting[id].of] = Pending
    BY <1>1, UnsentIsNew DEF Inv, WaitInv
  <2>2. \A q \in Requests : outcome'[q] = Pending => \E id \in DOMAIN waiting : waiting[id].of = q
    BY <1>1, <1>2 DEF Inv, WaitInv
  <2> QED BY <2>1, <2>2 DEF Inv, WaitInv
<1>6. \A id : \A q \in Requests : InHand(id, q) => InHand(id, q)'
  <2>1. ASSUME NEW id, NEW q \in Requests, InHand(id, q) PROVE InHand(id, q)'
    <3>1. q # r
      BY <2>1, UnsentIsNew
    <3> QED BY <1>1, <2>1, <3>1 DEF InHand
  <2> QED BY <2>1
<1>7. TabsTyped' /\ OpenSockets' = OpenSockets /\ OneInv'
  BY SocksStay
<1>8. NobodyWaitsOnNobody'
  BY <1>7 DEF Inv, NobodyWaitsOnNobody
<1>9. socks' \in Seq(Socket) /\ DOMAIN socks' = DOMAIN socks /\ \A i \in DOMAIN socks : Less(socks[i], socks'[i])
  BY <1>0, OnSockets DEF SocksTyped, Less
<1>10. SocksTyped' /\ HandInv' /\ OnceInv'
  BY <1>6, <1>9, NothingNew
<1> QED BY <1>3, <1>4, <1>5, <1>7, <1>8, <1>10 DEF Inv

(* A request that is sent to the open socket: its frame is the one new thing there. *)
LEMMA PostSent ==
    ASSUME Inv, NEW r \in Requests, outcome[r] = Unsent, NEW i \in OpenSockets, next' = next + 1,
           waiting' = [id \in DOMAIN waiting \cup {next} |-> IF id = next THEN [of |-> r, sock |-> i] ELSE waiting[id]],
           outcome' = [outcome EXCEPT ![r] = Pending],
           socks' = [socks EXCEPT ![i] = Down(@, <<Req(next, r)>>)],
           UNCHANGED <<work, tabVars>>
    PROVE  Inv'
<1> DEFINE s == socks[i]  msgs == <<Req(next, r)>>  z == Down(s, msgs)
<1>0. RelayTyped /\ WaitInv /\ HandInv /\ OnceInv /\ SocksTyped /\ TabsTyped /\ i \in DOMAIN socks /\ s \in Socket /\ s.server = "open"
  BY OnSockets DEF Inv, OpenSockets
<1>1. next \in Nat /\ next # 0 /\ next \notin DOMAIN waiting /\ DOMAIN waiting \subseteq 1..(next - 1)
  BY <1>0 DEF RelayTyped
<1>2. \A q \in Requests : outcome'[q] = IF q = r THEN Pending ELSE outcome[q]
  BY <1>0 DEF RelayTyped
<1>3. /\ DOMAIN waiting' = DOMAIN waiting \cup {next} /\ waiting'[next].of = r
      /\ \A id \in DOMAIN waiting : waiting'[id] = waiting[id]
  BY <1>1
<1>4. OwnReply'
  BY ToldFirst, Outcomes
<1>5. RelayTyped'
  <2>1. outcome' = [q \in Requests |-> outcome'[q]]
    BY <1>0 DEF RelayTyped
  <2>2. \A q \in Requests : outcome'[q] \in {Unsent, Pending, NoTab} \cup Ends \cup Answers
    BY <1>0, <1>2 DEF RelayTyped
  <2>3. next' \in Nat \ {0} /\ DOMAIN waiting' \subseteq 1..(next' - 1)
    BY <1>1, <1>3
  <2>4. waiting' = [id \in DOMAIN waiting' |-> waiting'[id]]
    OBVIOUS
  <2> QED BY <2>1, <2>2, <2>3, <2>4 DEF RelayTyped
<1>6. WaitInv'
  <2>1. \A id \in DOMAIN waiting' : waiting'[id].of \in Requests /\ outcome'[waiting'[id].of] = Pending
    BY <1>0, <1>2, <1>3 DEF WaitInv
  <2>2. \A q \in Requests : outcome'[q] = Pending => \E id \in DOMAIN waiting' : waiting'[id].of = q
    BY <1>0, <1>2, <1>3 DEF WaitInv
  <2>3. \A id, jd \in DOMAIN waiting' : waiting'[id].of = waiting'[jd].of => id = jd
    BY <1>0, <1>3, UnsentIsNew DEF WaitInv
  <2> QED BY <2>1, <2>2, <2>3 DEF WaitInv
<1>7. \A id : \A q \in Requests : InHand(id, q) => InHand(id, q)'
  <2>1. ASSUME NEW id, NEW q \in Requests, InHand(id, q) PROVE InHand(id, q)'
    <3>1. q # r
      BY <2>1, UnsentIsNew
    <3> QED BY <1>2, <1>3, <2>1, <3>1 DEF InHand
  <2> QED BY <2>1
<1>8. outcome'[r] \notin {Unsent, NoTab, Replied(r)} /\ next \in DOMAIN waiting' /\ waiting'[next].of = r
  BY <1>2, <1>3, Outcomes
<1>9. msgs \in Seq(Frames) /\ Len(msgs) = 1 /\ msgs[1] = Req(next, r)
  BY <1>1 DEF Frames, Req
<1>10. /\ z \in Socket /\ z.server = s.server
       /\ \A k \in ReqsOf(z) : \/ k \in ReqsOf(s) /\ z.down[k] = s.down[k]
                               \/ k = Len(s.down) + 1 /\ z.down[k] = Req(next, r)
  <2> HIDE DEF msgs
  <2>1. /\ z \in Socket /\ z.server = s.server
        /\ \A k \in ReqsOf(z) : \/ k \in ReqsOf(s) /\ z.down[k] = s.down[k]
                                \/ k - Len(s.down) \in ReqsOf([down |-> msgs]) /\ z.down[k] = msgs[k - Len(s.down)]
    BY <1>0, <1>9, DownSays
  <2>2. ASSUME NEW k \in ReqsOf(z), k - Len(s.down) \in ReqsOf([down |-> msgs]), z.down[k] = msgs[k - Len(s.down)]
        PROVE  k = Len(s.down) + 1 /\ z.down[k] = Req(next, r)
    <3>0. ReqsOf([down |-> msgs]) \subseteq 1..1
      BY <1>9 DEF ReqsOf
    <3>1. k - Len(s.down) = 1
      BY <2>2, <3>0
    <3>2. k \in Nat /\ Len(s.down) \in Nat
      BY <1>0, <2>1 DEF ReqsOf, Socket
    <3> QED BY <1>9, <2>2, <3>1, <3>2
  <2> QED BY <2>1, <2>2
<1>11. Req(next, r).of = r /\ Req(next, r).id = next
  BY DEF Req
<1>12. socks' = [socks EXCEPT ![i] = z]
  OBVIOUS
<1> HIDE DEF z, s, msgs
<1>13. /\ socks' \in Seq(Socket) /\ DOMAIN socks' = DOMAIN socks /\ Len(socks') = Len(socks)
       /\ socks'[i] = z /\ \A j \in DOMAIN socks : j # i => socks'[j] = socks[j]
  BY <1>0, <1>10, <1>12, OneReplaced
<1> DEFINE Old(j, k) == k \in ReqsOf(socks[j]) /\ socks'[j].down[k] = socks[j].down[k]
           Sent(j, k) == j = i /\ k = Len(s.down) + 1 /\ socks'[j].down[k] = Req(next, r)
<1>14. \A j \in DOMAIN socks' : \A k \in ReqsOf(socks'[j]) : j \in DOMAIN socks /\ (Old(j, k) \/ Sent(j, k))
  BY <1>10, <1>13 DEF s
<1>15. \A j \in DOMAIN socks : \A k \in ReqsOf(socks[j]) : socks[j].down[k].of # r /\ socks[j].down[k].of \in Requests
  BY <1>0, UnsentIsNew, ReqFrames
<1>16. \A w \in work' : w \in work /\ w.of # r /\ w.of \in Requests
  BY <1>0, UnsentIsNew DEF SocksTyped, Works
<1>17. OnceInv'
  <2>1. ASSUME NEW j \in DOMAIN socks', NEW h \in DOMAIN socks', NEW k \in ReqsOf(socks'[j]), NEW l \in ReqsOf(socks'[h]),
               socks'[j].down[k].of = socks'[h].down[l].of
        PROVE  j = h /\ k = l
    BY <1>0, <1>11, <1>14, <1>15, <2>1 DEF OnceInv
  <2>2. \A w, v \in work' : w.of = v.of => w = v
    BY <1>0, <1>16 DEF OnceInv
  <2>3. \A w \in work', j \in DOMAIN socks' : \A k \in ReqsOf(socks'[j]) : socks'[j].down[k].of # w.of
    BY <1>0, <1>11, <1>14, <1>16 DEF OnceInv
  <2> QED BY ONLY <2>1, <2>2, <2>3 DEF OnceInv
<1>18. HandInv'
  <2> DEFINE Good(id, q) == /\ outcome'[q] \notin {Unsent, NoTab, Replied(q)}
                            /\ outcome'[q] = Pending => id \in DOMAIN waiting' /\ waiting'[id].of = q
  <2>0. \A id : \A q \in Requests : InHand(id, q) => Good(id, q)
    BY <1>7 DEF InHand
  <2>5. Good(next, r)
    BY <1>8
  <2> HIDE DEF Good
  <2>1. ASSUME NEW j \in DOMAIN socks', NEW k \in ReqsOf(socks'[j]) PROVE Good(socks'[j].down[k].id, socks'[j].down[k].of)
    <3>1. CASE Old(j, k)
      <4>1. j \in DOMAIN socks /\ k \in ReqsOf(socks[j]) /\ socks'[j].down[k] = socks[j].down[k]
        BY <1>13, <3>1
      <4>2. InHand(socks[j].down[k].id, socks[j].down[k].of) /\ socks[j].down[k].of \in Requests
        BY <1>0, <1>15, <4>1 DEF HandInv
      <4> QED BY <2>0, <4>1, <4>2
    <3>2. CASE Sent(j, k)
      BY <1>11, <2>5, <3>2
    <3> QED BY <1>14, <3>1, <3>2
  <2>2. ASSUME NEW w \in work' PROVE Good(w.id, w.of)
    BY <1>0, <1>16, <2>0 DEF HandInv
  <2>3. (\A j \in DOMAIN socks : \A k \in ReqsOf(socks[j]) : InHand(socks[j].down[k].id, socks[j].down[k].of))'
    BY ONLY <2>1 DEF InHand, Good
  <2>4. (\A w \in work : InHand(w.id, w.of))'
    BY ONLY <2>2 DEF InHand, Good
  <2> QED BY ONLY <2>3, <2>4 DEF HandInv
<1>19. OpenSockets' = OpenSockets
  BY <1>0, <1>10, <1>13, SameServers DEF s
<1>20. OneInv' /\ NobodyWaitsOnNobody'
  BY <1>19 DEF Inv, OneInv, NobodyWaitsOnNobody
<1>21. TabsTyped'
  BY <1>0, <1>13 DEF TabsTyped, tabVars
<1>22. SocksTyped'
  BY <1>0, <1>13 DEF SocksTyped
<1> QED BY <1>4, <1>5, <1>6, <1>17, <1>18, <1>20, <1>21, <1>22 DEF Inv

LEMMA PostKeeps == ASSUME Inv, NEW r \in Requests, Post(r) PROVE Inv'
<1>1. CASE OpenSockets = {}
  BY <1>1, PostRefused DEF Post
<1>2. CASE OpenSockets # {}
  <2>1. PICK i \in OpenSockets :
          /\ next' = NextId
          /\ \/ /\ waiting' = [id \in DOMAIN waiting \cup {next} |-> IF id = next THEN [of |-> r, sock |-> i] ELSE waiting[id]]
                /\ outcome' = [outcome EXCEPT ![r] = Pending]
                /\ socks' = [socks EXCEPT ![i] = Down(@, <<Req(next, r)>>)]
             \/ outcome' = [outcome EXCEPT ![r] = Told("closed")] /\ UNCHANGED <<socks, waiting>>
    BY <1>2 DEF Post
  <2>2. outcome[r] = Unsent /\ UNCHANGED <<work, tabVars>>
    BY DEF Post
  <2>3. next' = next + 1
    BY <2>1 DEF NextId
  <2>4. CASE outcome' = [outcome EXCEPT ![r] = Told("closed")] /\ UNCHANGED <<socks, waiting>>
    BY <2>2, <2>3, <2>4, PostRefused
  <2>5. CASE /\ waiting' = [id \in DOMAIN waiting \cup {next} |-> IF id = next THEN [of |-> r, sock |-> i] ELSE waiting[id]]
             /\ outcome' = [outcome EXCEPT ![r] = Pending]
             /\ socks' = [socks EXCEPT ![i] = Down(@, <<Req(next, r)>>)]
    BY <2>2, <2>3, <2>5, PostSent
  <2> QED BY <2>1, <2>4, <2>5
<1> QED BY <1>1, <1>2

------------------------------------------------------------------------------
(* The theorem *)

LEMMA InitInv == LinkInit => Inv
<1> SUFFICES ASSUME LinkInit PROVE Inv
  OBVIOUS
<1>1. TabsTyped
  BY DEF LinkInit, TabsTyped
<1>2. SocksTyped /\ OpenSockets = {} /\ DOMAIN socks = {} /\ work = {}
  BY DEF LinkInit, SocksTyped, OpenSockets
<1>3. RelayTyped
  BY DEF LinkInit, RelayTyped
<1>4. WaitInv
  BY Outcomes DEF LinkInit, WaitInv
<1>5. HandInv /\ OnceInv /\ OneInv
  BY <1>2 DEF HandInv, OnceInv, OneInv
<1>6. OwnReply /\ NobodyWaitsOnNobody
  BY Outcomes DEF LinkInit, OwnReply, NobodyWaitsOnNobody
<1> QED BY <1>1, <1>2, <1>3, <1>4, <1>5, <1>6 DEF Inv

LEMMA StepKeeps == Inv /\ [LinkNext]_linkVars => Inv'
<1> SUFFICES ASSUME Inv, [LinkNext]_linkVars PROVE Inv'
  OBVIOUS
<1>1. ASSUME NEW t \in Tabs, UseRelay(t) \/ RelayAgain(t) \/ Connect(t) \/ Retry(t) PROVE Inv'
  BY <1>1, UseRelayKeeps, RelayAgainKeeps, ConnectKeeps, RetryKeeps
<1>2. ASSUME NEW i \in Sockets, TabHears(i) \/ Drop(i) \/ Accept(i) \/ RelayHearsClose(i) PROVE Inv'
  BY <1>2, TabHearsKeeps, DropKeeps, AcceptKeeps, RelayHearsCloseKeeps
<1>3. ASSUME NEW r \in Requests, Post(r) PROVE Inv'
  BY <1>3, PostKeeps
<1>4. ASSUME NEW w \in work, Reply(w) PROVE Inv'
  BY <1>4, ReplyKeeps
<1>5. ASSUME NEW id \in DOMAIN waiting, Timeout(id) PROVE Inv'
  BY <1>5, TimeoutKeeps
<1>6. CASE Hibernate
  BY <1>6, HibernateKeeps
<1>7. CASE UNCHANGED linkVars
  <2>1. UNCHANGED <<socks, tabVars, work, waiting, outcome, next, relayVars>>
    BY <1>7 DEF linkVars, tabVars, relayVars
  <2>2. TabsTyped' /\ OpenSockets' = OpenSockets /\ OneInv'
    BY <2>1, SocksStay
  <2>3. socks' \in Seq(Socket) /\ DOMAIN socks' = DOMAIN socks /\ \A i \in DOMAIN socks : Less(socks[i], socks'[i])
    BY <2>1, OnSockets DEF Inv, SocksTyped, Less
  <2>4. SocksTyped' /\ HandInv' /\ OnceInv'
    BY <2>1, <2>3, ToldNothing, NothingNew
  <2> QED BY <2>1, <2>2, <2>4, UnseenKeeps
<1> QED BY <1>1, <1>2, <1>3, <1>4, <1>5, <1>6, <1>7 DEF LinkNext, TabStep, Carry

THEOREM Invariance == LinkSpec => []Inv
BY InitInv, StepKeeps, PTL DEF LinkSpec

LEMMA InvIsEnough == Inv => LinkIsSound /\ OwnReply /\ NobodyWaitsOnNobody
<1> SUFFICES ASSUME Inv PROVE LinkIsSound
  BY DEF Inv
<1>1. \A i \in Sockets : socks[i] \in Socket
  BY OnSockets DEF Inv, Sockets
<1>2. {waiting[id].of : id \in DOMAIN waiting} = {r \in Requests : outcome[r] = Pending}
  BY DEF Inv, WaitInv
<1>3. LinkTypeOK
  BY <1>1, <1>2 DEF Inv, TabsTyped, RelayTyped, LinkTypeOK, Socket
<1>4. OneOpen
  <2>1. CASE OpenSockets = {}
    <3>1. Cardinality(OpenSockets) = 0
      BY <2>1, FS_EmptySet
    <3> QED BY <3>1 DEF OneOpen
  <2>2. CASE OpenSockets # {}
    <3>1. PICK i : i \in OpenSockets
      BY <2>2
    <3>2. OpenSockets = {i}
      BY <3>1 DEF Inv, OneInv
    <3>3. Cardinality({i}) = 1
      BY FS_Singleton
    <3> QED BY <3>2, <3>3 DEF OneOpen
  <2> QED BY <2>1, <2>2
<1> QED BY <1>3, <1>4 DEF LinkIsSound

(* LinkIsSound: whatever order the tabs connect, drop and reconnect in, the relay has at most one socket
   open; every request that waits is pending, and no other is (relay/src/index.ts, fetch). *)
THEOREM LinkStaysSound == LinkSpec => []LinkIsSound
BY Invariance, InvIsEnough, PTL

(* OwnReply: a client gets the reply to its own request, or a late one whose own client had been told
   something else, through evictions and restarts of the ids (index.ts, webSocketMessage and settle). *)
THEOREM RepliesAreOwn == LinkSpec => []OwnReply
BY Invariance, InvIsEnough, PTL

(* NobodyWaitsOnNobody: no request waits on a link on which no socket is open (index.ts, webSocketClose). *)
THEOREM NobodyWaits == LinkSpec => []NobodyWaitsOnNobody
BY Invariance, InvIsEnough, PTL
=============================================================================
