----------------------------- MODULE MCLifecycle -----------------------------
(* Instances of MihomoLifecycle for TLC. *)
EXTENDS MihomoLifecycle, TLC

CONSTANTS w1, w2, p1, p2

ProcSymmetry == Permutations({p1, p2})
WorkerSymmetry == Permutations({w1, w2}) \cup Permutations({p1, p2})
=============================================================================
