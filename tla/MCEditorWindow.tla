--------------------------- MODULE MCEditorWindow ---------------------------
(* Small instances of EditorWindow for TLC. *)
EXTENDS EditorWindow

(* Parts are interchangeable, and so are scripts: one of each to begin with *)
(* stands for all, and keeps liveness sound where a symmetry set would not. *)
AnyInit ==
  /\ Init
  /\ open = (CHOOSE p \in Parts : TRUE) /\ doc.says = (CHOOSE s \in Scripts : TRUE)
AnySpec == AnyInit /\ [][Next]_vars /\ Fairness
=============================================================================
