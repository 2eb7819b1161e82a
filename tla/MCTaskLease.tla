---------------------------- MODULE MCTaskLease ----------------------------
(* Small instances of TaskLease for TLC. *)
EXTENDS TaskLease, TLC

\* Tasks, dispatchers and administrators are interchangeable in safety runs.
Symmetry == Permutations(Tasks) \cup Permutations(Disps) \cup Permutations(Admins)
=============================================================================
