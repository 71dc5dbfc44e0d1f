---------------------------- MODULE KernelCalls ----------------------------
(***************************************************************************)
(* What a caller of the kernel is promised (host.rs: evaluate, check_fit,  *)
(* perceive ... -> run_worker): every call ends, and it ends with the      *)
(* answer to the request it made or with a failure, whatever happens to    *)
(* the processes that serve it and to the calls beside it.                 *)
(***************************************************************************)
CONSTANTS
  Callers,    \* threads that call the kernel
  Requests,   \* what they ask
  NoRequest   \* a caller that is not calling

Failures == {"crashed", "timed out", "host"}
Answer(q) == [kind |-> "answered", of |-> q]
Failed(how) == [kind |-> how, of |-> NoRequest]
Nothing == [kind |-> "none", of |-> NoRequest]

VARIABLES asking, outcome
callVars == <<asking, outcome>>

Ask(c, q) ==
  /\ asking[c] = NoRequest
  /\ asking' = [asking EXCEPT ![c] = q]
  /\ outcome' = [outcome EXCEPT ![c] = Nothing]

Finish(c) ==
  /\ asking[c] # NoRequest
  /\ asking' = [asking EXCEPT ![c] = NoRequest]
  /\ \E o \in {Answer(asking[c])} \cup {Failed(how) : how \in Failures} :
       outcome' = [outcome EXCEPT ![c] = o]

Init ==
  /\ asking = [c \in Callers |-> NoRequest]
  /\ outcome = [c \in Callers |-> Nothing]

Next == \E c \in Callers : Finish(c) \/ \E q \in Requests : Ask(c, q)

Spec == Init /\ [][Next]_callVars

(* A call ends: every wait in it has a deadline. *)
FairSpec == Spec /\ \A c \in Callers : WF_callVars(Finish(c))
=============================================================================
