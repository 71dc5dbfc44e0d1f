------------------------------ MODULE RelayLink ------------------------------
(***************************************************************************)
(* One link of the relay: the Durable Object that passes an AI client's    *)
(* requests to the web tab that made the link (relay/src/index.ts, class   *)
(* Link), and the tab's end of the socket (app/src/page/host-worker.ts,    *)
(* "the relay").  A request, its headers and its body are one value; the   *)
(* rate window, CORS and the refusals of a wrong key change no state       *)
(* another actor sees and are left out.                                    *)
(*                                                                         *)
(* A socket is a record of both ends: what the browser and the relay each  *)
(* believe of it, the frames on their way down to the tab, and whether a   *)
(* close is on its way up (bye).  On a socket whose network is gone (cut)  *)
(* nothing more arrives but the news of it.                                *)
(***************************************************************************)
EXTENDS Naturals, Sequences, FiniteSets, FiniteSetsExt

CONSTANTS
    Tabs,         \* browser tabs that hold the link's key
    Launching,    \* those whose host worker is not ready when they first open the link
    MaxRequests,  \* bound: requests of AI clients, numbered in the order they arrive
    MaxSockets,   \* bound: sockets opened in all
    MaxAsks,      \* bound: times the tabs are asked to open or close the link
    MaxDrops      \* bound: sockets lost to the network

VARIABLES
    wanted,    \* per tab: relayWanted is set
    opening,   \* per tab: connect() calls that wait for linkId
    retries,   \* per tab: retry timers that are set
    current,   \* per tab: socket, the one the tab counts as its own (0: none)
    screen,    \* per tab: what the panel shows
    asks,      \* times a tab was asked so far
    echo,      \* per tab: the second post of its first request is still to come
    socks,     \* every socket opened so far, oldest first
    work,      \* requests a tab is working on
    waiting,   \* Link.waiting: id -> request and the socket it was sent on
    next,      \* Link.next
    outcome,   \* per request: what its client was told
    drops      \* sockets lost so far

tabVars == <<wanted, opening, retries, current, screen, echo, asks>>
relayVars == <<waiting, next, outcome>>
linkVars == <<wanted, opening, retries, current, screen, echo, asks, socks, work, waiting, next, outcome, drops>>

Requests == 1..MaxRequests

Ready == [t |-> "ready"]
Superseded == [t |-> "superseded"]
Close == [t |-> "close"]
Req(id, r) == [t |-> "req", id |-> id, of |-> r]

Told(kind) == [kind |-> kind]
Replied(r) == [kind |-> "reply", of |-> r]
Unsent == Told("unsent")
Pending == Told("pending")
NoTab == Told("nobody")

NewSocket(tab) == [tab |-> tab, client |-> "connecting", server |-> "none", down |-> <<>>, bye |-> FALSE, cut |-> FALSE]

(* A browser socket that is no longer open hears nothing but its close: other frames are dropped. *)
Heard(client, msgs) ==
    IF client = "open" THEN msgs ELSE IF \E k \in DOMAIN msgs : msgs[k] = Close THEN <<Close>> ELSE <<>>

Down(s, msgs) == IF s.cut THEN s ELSE [s EXCEPT !.down = @ \o Heard(s.client, msgs)]
Bye(s) == IF s.cut THEN s ELSE [s EXCEPT !.bye = TRUE]

(* WebSocket.close() in the browser; a socket that is still connecting is closed once it connects. *)
ClosedByTab(s) == CASE s.client = "open" -> [Bye(s) EXCEPT !.client = "closing", !.down = Heard("closing", @)]
                    [] s.client = "connecting" -> [s EXCEPT !.client = "closing"]
                    [] OTHER -> s

OpenSockets == {i \in DOMAIN socks : socks[i].server = "open"}

------------------------------------------------------------------------------
(* The tab *)

(* The bound: nothing starts that could open more sockets than MaxSockets. *)
Owed(t) == opening[t] + retries[t] + (IF echo[t] = "due" THEN 1 ELSE 0)
Room(n) == Len(socks) + MapThenSumSet(Owed, Tabs) + n <= MaxSockets

(* relay(message) in the worker: the tab lets go of its socket and opens another, or none. *)
LetGo(t) == IF current[t] = 0 THEN socks ELSE [socks EXCEPT ![current[t]] = ClosedByTab(@)]

Relay(t, on) ==
    /\ socks' = LetGo(t)
    /\ current' = [current EXCEPT ![t] = 0]
    /\ wanted' = [wanted EXCEPT ![t] = on]
    /\ opening' = IF on THEN [opening EXCEPT ![t] = @ + 1] ELSE opening
    /\ screen' = [screen EXCEPT ![t] = IF on THEN "connecting" ELSE "off"]
    /\ UNCHANGED <<retries, work, relayVars, drops>>

(* The panel offers to open a link that is off or in another tab, and to close one that is ready. *)
UseRelay(t) ==
    /\ asks < MaxAsks /\ asks' = asks + 1
    /\ \/ /\ screen[t] \in {"off", "elsewhere"}
          /\ Room(IF echo[t] = "first" THEN 2 ELSE 1)
          /\ Relay(t, TRUE)
          /\ echo' = [echo EXCEPT ![t] = IF @ = "first" THEN "due" ELSE @]
       \/ /\ screen[t] = "ready"
          /\ Relay(t, FALSE)
          /\ UNCHANGED echo

(* A host that was not ready when the link was opened is sent the request as it becomes ready, and
   again by useRelay, which waited for the same moment. *)
RelayAgain(t) ==
    /\ echo[t] = "due"
    /\ echo' = [echo EXCEPT ![t] = "none"]
    /\ Relay(t, TRUE)
    /\ UNCHANGED asks

(* connect(), from its await on: relayWanted is not read again. *)
Connect(t) ==
    /\ opening[t] > 0
    /\ opening' = [opening EXCEPT ![t] = @ - 1]
    /\ socks' = Append(socks, NewSocket(t))
    /\ current' = [current EXCEPT ![t] = Len(socks) + 1]
    /\ UNCHANGED <<wanted, retries, screen, echo, asks, work, relayVars, drops>>

Retry(t) ==
    /\ retries[t] > 0
    /\ retries' = [retries EXCEPT ![t] = @ - 1]
    /\ IF wanted[t]
       THEN /\ opening' = [opening EXCEPT ![t] = @ + 1]
            /\ screen' = [screen EXCEPT ![t] = "connecting"]
       ELSE UNCHANGED <<opening, screen>>
    /\ UNCHANGED <<wanted, current, echo, asks, socks, work, relayVars, drops>>

(* Mutant of OnClose: the socket is forgotten and no retry is set. *)
Forget(i) ==
    /\ current' = [current EXCEPT ![socks[i].tab] = IF @ = i THEN 0 ELSE @]
    /\ screen' = [screen EXCEPT ![socks[i].tab] = IF current[socks[i].tab] = i THEN "connecting" ELSE @]
    /\ UNCHANGED <<wanted, opening, retries, echo, asks>>

(* onclose: only the tab's own socket brings a retry, and only while the link is wanted. *)
OnClose(i) ==
    LET t == socks[i].tab IN
    IF current[t] # i THEN UNCHANGED tabVars
    ELSE /\ current' = [current EXCEPT ![t] = 0]
         /\ IF wanted[t]
            THEN /\ retries' = [retries EXCEPT ![t] = @ + 1]
                 /\ screen' = [screen EXCEPT ![t] = "connecting"]
            ELSE UNCHANGED <<retries, screen>>
         /\ UNCHANGED <<wanted, opening, echo, asks>>

(* The next frame on a socket reaches its tab. *)
TabHears(i) ==
    LET s == socks[i]  m == Head(s.down)  t == s.tab
        rest == [s EXCEPT !.down = Tail(@)] IN
    /\ s.down # <<>>
    /\ \/ /\ m.t = "close"
          /\ socks' = [socks EXCEPT ![i] = [(IF s.client = "open" THEN Bye(rest) ELSE rest) EXCEPT !.client = "closed"]]
          /\ OnClose(i)
          /\ UNCHANGED work
       \/ /\ m.t = "ready"
          /\ socks' = [socks EXCEPT ![i] = rest]
          /\ screen' = [screen EXCEPT ![t] = "ready"]
          /\ UNCHANGED <<wanted, opening, retries, current, echo, asks, work>>
       \/ /\ m.t = "superseded"
          /\ socks' = [socks EXCEPT ![i] = ClosedByTab(rest)]
          /\ wanted' = [wanted EXCEPT ![t] = FALSE]
          /\ screen' = [screen EXCEPT ![t] = "elsewhere"]
          /\ UNCHANGED <<opening, retries, current, echo, asks, work>>
       \/ /\ m.t = "req"
          /\ socks' = [socks EXCEPT ![i] = rest]
          /\ work' = work \cup {[sock |-> i, id |-> m.id, of |-> m.of]}
          /\ UNCHANGED tabVars
    /\ UNCHANGED <<relayVars, drops>>

------------------------------------------------------------------------------
(* The network *)

Drop(i) ==
    /\ drops < MaxDrops /\ Room(1) /\ ~socks[i].cut /\ socks[i].client # "closed"
    /\ drops' = drops + 1
    /\ socks' = [socks EXCEPT ![i].cut = TRUE, ![i].down = <<Close>>,
                              ![i].bye = socks[i].server \in {"open", "closing"}]
    /\ UNCHANGED <<tabVars, work, relayVars>>

------------------------------------------------------------------------------
(* The relay *)

(* Mutant of Supersede: the older tab keeps its socket. *)
KeepOlder(s) == s

(* Every socket the object holds is told it is superseded and closed; then the new one is accepted. *)
Supersede(s) == IF s.server = "open" THEN [Down(s, <<Superseded, Close>>) EXCEPT !.server = "closing"] ELSE s

Accept(i) ==
    /\ socks[i].server = "none" /\ ~socks[i].cut /\ socks[i].client \in {"connecting", "closing"}
    /\ socks' = [j \in DOMAIN socks |->
                   IF j # i THEN Supersede(socks[j])
                   ELSE IF socks[i].client = "connecting"
                        THEN [socks[i] EXCEPT !.server = "open", !.client = "open", !.down = <<Ready>>]
                        ELSE [socks[i] EXCEPT !.server = "open", !.bye = TRUE]]
    /\ UNCHANGED <<tabVars, work, relayVars, drops>>

(* Mutant of NextId: the counter stays. *)
SameId == next
NextId == next + 1

(* A client's POST; a send that throws settles the request at once. *)
Post(r) ==
    /\ outcome[r] = Unsent /\ \A q \in 1..(r - 1) : outcome[q] # Unsent
    /\ IF OpenSockets = {}
       THEN /\ outcome' = [outcome EXCEPT ![r] = NoTab]
            /\ UNCHANGED <<socks, waiting, next>>
       ELSE \E i \in OpenSockets :
            /\ next' = NextId
            /\ \/ /\ waiting' = [id \in DOMAIN waiting \cup {next} |-> IF id = next THEN [of |-> r, sock |-> i] ELSE waiting[id]]
                  /\ outcome' = [outcome EXCEPT ![r] = Pending]
                  /\ socks' = [socks EXCEPT ![i] = Down(@, <<Req(next, r)>>)]
               \/ /\ socks[i].cut
                  /\ outcome' = [outcome EXCEPT ![r] = Told("closed")]
                  /\ UNCHANGED <<socks, waiting>>
    /\ UNCHANGED <<tabVars, work, drops>>

Without(ids) == [id \in DOMAIN waiting \ ids |-> waiting[id]]

(* settle: a reply to an id that no longer waits is dropped; which socket it came on is not looked at. *)
Settle(ids, told) ==
    /\ waiting' = Without(ids)
    /\ outcome' = [r \in Requests |-> IF \E id \in ids \cap DOMAIN waiting : waiting[id].of = r THEN told ELSE outcome[r]]

(* Mutant of SettleAll: a close ends no request. *)
SettleNone(i) == {}

(* webSocketClose, with the closing socket no longer open: a newer socket keeps every request waiting. *)
SettleAll(i) == IF OpenSockets \ {i} # {} THEN {} ELSE DOMAIN waiting

RelayHearsClose(i) ==
    LET s == [socks[i] EXCEPT !.bye = FALSE] IN
    /\ socks[i].bye /\ s.server # "none"
    /\ socks' = [socks EXCEPT ![i] = [(IF s.server = "open" THEN Down(s, <<Close>>) ELSE s) EXCEPT !.server = "closed"]]
    /\ Settle(SettleAll(i), Told("closed"))
    /\ UNCHANGED <<tabVars, work, next, drops>>

(* The tools have answered: the reply goes out on the socket its request came in on, if the tab still
   has it open, and settles that id.  Its flight is counted as part of the work.  One sent on a dead
   network, or after the relay closed the socket, may be lost. *)
Reply(w) ==
    LET s == socks[w.sock] IN
    /\ work' = work \ {w}
    /\ \/ s.client = "open" /\ ~s.cut /\ Settle({w.id}, Replied(w.of))
       \/ (s.client # "open" \/ s.cut \/ s.server # "open") /\ UNCHANGED <<waiting, outcome>>
    /\ UNCHANGED <<tabVars, socks, next, drops>>

(* Eleven minutes without a reply. *)
Timeout(id) ==
    /\ id \in DOMAIN waiting
    /\ Settle({id}, Told("timeout"))
    /\ UNCHANGED <<tabVars, socks, work, next, drops>>

(* An object with nothing pending is evicted from memory; its sockets stay, its fields start again. *)
Hibernate ==
    /\ waiting = <<>> /\ next > 1
    /\ next' = 1
    /\ UNCHANGED <<tabVars, socks, work, waiting, outcome, drops>>

------------------------------------------------------------------------------
LinkInit ==
    /\ wanted = [t \in Tabs |-> FALSE] /\ opening = [t \in Tabs |-> 0] /\ retries = [t \in Tabs |-> 0]
    /\ current = [t \in Tabs |-> 0] /\ screen = [t \in Tabs |-> "off"]
    /\ asks = 0 /\ echo = [t \in Tabs |-> IF t \in Launching THEN "first" ELSE "none"]
    /\ socks = <<>> /\ work = {} /\ drops = 0
    /\ waiting = <<>> /\ next = 1 /\ outcome = [r \in Requests |-> Unsent]

Sockets == DOMAIN socks
TabStep == \/ \E t \in Tabs : RelayAgain(t) \/ Connect(t) \/ Retry(t)
           \/ \E i \in Sockets : TabHears(i)
Carry == \E i \in Sockets : Accept(i) \/ RelayHearsClose(i)
LinkNext ==
    \/ TabStep
    \/ Carry
    \/ \E t \in Tabs : UseRelay(t)
    \/ \E i \in Sockets : Drop(i)
    \/ \E r \in Requests : Post(r)
    \/ \E w \in work : Reply(w)
    \/ \E id \in DOMAIN waiting : Timeout(id)
    \/ Hibernate
LinkSpec == LinkInit /\ [][LinkNext]_linkVars

(* Timers fire, sockets open and frames arrive; nobody has to ask, to send a request or to drop anything. *)
LinkFairness == WF_linkVars(TabStep \/ Carry)
FairLinkSpec == LinkSpec /\ LinkFairness

------------------------------------------------------------------------------
(* Properties *)

(* The state is of its types; every request that waits is pending, and no other is. *)
LinkTypeOK ==
    /\ wanted \in [Tabs -> BOOLEAN] /\ opening \in [Tabs -> Nat] /\ retries \in [Tabs -> Nat]
    /\ current \in [Tabs -> 0..Len(socks)]
    /\ screen \in [Tabs -> {"off", "connecting", "ready", "elsewhere"}]
    /\ asks \in Nat /\ echo \in [Tabs -> {"none", "first", "due"}]
    /\ \A i \in Sockets : /\ socks[i].tab \in Tabs /\ {socks[i].cut, socks[i].bye} \subseteq BOOLEAN
                          /\ socks[i].client \in {"connecting", "open", "closing", "closed"}
                          /\ socks[i].server \in {"none", "open", "closing", "closed"}
    /\ next \in Nat \ {0} /\ DOMAIN waiting \subseteq 1..(next - 1)
    /\ {waiting[id].of : id \in DOMAIN waiting} = {r \in Requests : outcome[r] = Pending}

(* "One tab per link": whatever order the tabs connect, drop and reconnect in, the relay has at most
   one socket open, so a request goes to one tab. *)
OneOpen == Cardinality(OpenSockets) <= 1

(* The relay and its tabs at any time. *)
LinkIsSound == LinkTypeOK /\ OneOpen

(* A client gets the reply to its own request.  The ids start again when the object is evicted, so a
   late reply can reach the client of another request; that one answers a request whose own client had
   been told something else before: that it was given up, or another's late reply. *)
ToldElse(q) == outcome[q] \in {Told("timeout"), Told("closed")} \/ (outcome[q].kind = "reply" /\ outcome[q].of # q)
OwnReply == \A r \in Requests : outcome[r].kind = "reply" => outcome[r].of = r \/ ToldElse(outcome[r].of)

(* When the last socket closes, every request still waiting is told at once that its tab closed: no
   client waits eleven minutes on a link nobody holds open. *)
NobodyWaitsOnNobody == waiting # <<>> => OpenSockets # {}

(* A tab that shows it is connecting does not show it for ever: it becomes ready, finds the link in
   another tab, or is switched off, through any loss of sockets and any order of its retries. *)
ConnectingEnds == \A t \in Tabs : (screen[t] = "connecting") ~> (screen[t] # "connecting")

(* relay/README.md:66, "the tab closed mid-request | 503, closed before it answered": a request whose
   tab has closed no longer waits. *)
ClosedMidRequest == \A id \in DOMAIN waiting : socks[waiting[id].sock].server # "closed"

(* relay/src/index.ts:180, "keep it open; the link comes back by itself": a tab that says its link is
   open wants it, and so connects again when the socket drops. *)
ComesBack == \A t \in Tabs : screen[t] = "ready" => wanted[t]

==============================================================================
