---------------------------- MODULE MCTaskQueue ----------------------------
(* TaskQueue on small instances: what TLC needs beyond the specification. *)
EXTENDS TaskQueue, TLC

\* Clients are interchangeable, and so are tasks (safety runs only).
Symmetry == Permutations(Clients) \cup Permutations(Tasks)
=============================================================================
