--------------------------- MODULE MCLiveSession ---------------------------
(* Small instances of LiveSession for TLC. *)
EXTENDS LiveSession, TLC

(* Windows and scripts are interchangeable: where some windows are already  *)
(* open, one of them and one script to begin with stand for all, and keep   *)
(* liveness sound where a symmetry set would not.                           *)
AnyInit ==
  /\ Init
  /\ Already # {} => Session = Opened(CHOOSE w \in Already : TRUE, CHOOSE t \in Texts : TRUE)

(* The host does not restart: MCConnections has a window that lives through a restart. *)
SteadyNext == AgentStep \/ \E w \in Windows : WindowStep(w) \/ UserStep(w)

(* The bound on what happens from outside: a failed request comes in the place of an edit. *)
TwoInAll == edits' + failures' <= 2
SteadySpec == AnyInit /\ [][SteadyNext /\ TwoInAll]_vars
FairSteadySpec == SteadySpec /\ Fairness
=============================================================================
