----------------------------- MODULE MCRelayLink -----------------------------
(* RelayLink for TLC: the tabs are model values, every bound is a constant of the configuration. *)
EXTENDS RelayLink
==============================================================================
