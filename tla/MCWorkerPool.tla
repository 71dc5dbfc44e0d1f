---------------------------- MODULE MCWorkerPool ----------------------------
(* Small instances of WorkerPool for TLC. *)
EXTENDS WorkerPool, TLC

(* Callers, processes and requests are interchangeable. *)
Symmetry == Permutations(Callers) \cup Permutations(Workers) \cup Permutations(Requests)
=============================================================================
