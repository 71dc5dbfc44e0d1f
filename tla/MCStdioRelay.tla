---------------------------- MODULE MCStdioRelay ----------------------------
(* Two relays that start together on a free port, for TLC. *)
EXTENDS StdioRelay

(* One client makes a call after its handshake, the other none. *)
OneCall == [r \in Relays |-> IF r = "second" THEN 1 ELSE 0]
============================================================================
