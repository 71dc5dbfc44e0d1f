---- MODULE MCPageHost ----
EXTENDS PageHost

(* A part whose author wrote four checks of its walls. *)
FourChecks == [c \in Calls |-> <<"build", "wall1", "wall2", "wall3", "wall4", "print">>]
====
