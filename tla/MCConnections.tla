--------------------------- MODULE MCConnections ---------------------------
(* Three connections that are lost and come back, which share no state: a tab's link to the relay, the
   processes that pass a client's messages to the host on the port, and a window that follows the session
   through a restart of its host.  One of them moves in a behaviour. *)
EXTENDS StdioRelay, RelayLink, TLC

(* One client makes two calls; another only shakes hands, and may be the one to host. *)
MCCallsOf == [r \in Relays |-> IF r = "busy" THEN 2 ELSE 0]

CONSTANTS Windows, Agent, Nobody, Parts, NoPart, Texts, Blank, Initial, Already, Capacity,
          MaxEdits, MaxFailures, MaxRestarts, Quiet
VARIABLES log, life, started, doc, seen, authored, timer, run, dirty, job, stream, first, ring, report, wrote,
          edits, breaks, failures, restarts
W == INSTANCE LiveSession WITH drops <- breaks
windowVars == <<log, life, started, doc, seen, authored, timer, run, dirty, job, stream, first, ring, report,
                wrote, edits, breaks, failures, restarts>>

VARIABLE part

ConnectionsInit ==
    /\ Init /\ LinkInit /\ W!Init
    /\ part \in {"link", "stdio", "window"}
    \* A client that waits for its answers finds the app running, one that does not finds nobody.
    /\ patient["busy"] = (port = "app")
    /\ part = "stdio" \/ port = "app"
StdioMoves == part = "stdio" /\ Next /\ UNCHANGED <<linkVars, windowVars, part>>
(* The bound on what happens to the link from outside: requests, asks and losses are four in all. *)
FourInAll == Cardinality({r \in Requests : outcome'[r] # Unsent}) + asks' + drops' <= 4
LinkMoves == part = "link" /\ LinkNext /\ FourInAll /\ UNCHANGED <<vars, windowVars, part>>
WindowMoves == part = "window" /\ W!Next /\ UNCHANGED <<vars, linkVars, part>>
ConnectionsSpec ==
    /\ ConnectionsInit
    /\ [][StdioMoves \/ LinkMoves \/ WindowMoves]_<<vars, linkVars, windowVars, part>>
    \* The clients are there from the start, and move in their own behaviours only.
    /\ WF_vars(part = "stdio" /\ Moves) /\ LinkFairness /\ W!Fairness

(* Every message a client sent is answered. *)
EveryMessageOfAClient == <>[](part = "stdio" => AllAnswered)

(* The window shows the session's part and text in the end, through a restart and a broken stream. *)
Converges == W!Converges
============================================================================
