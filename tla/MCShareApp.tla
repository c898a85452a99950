----------------------------- MODULE MCShareApp -----------------------------
(* Small instances of ShareApp. *)
EXTENDS ShareApp, TLC

CONSTANTS f1, f2, j1, j2, t1, t2

Symmetric == Permutations(File) \cup Permutations(JobId) \cup Permutations(Task)
=============================================================================
