------------------------------ MODULE MCHistory ------------------------------
(* Instances of ConnectionHistory for TLC. *)
EXTENDS ConnectionHistory

CONSTANTS t1, t2, c, d

ThreadSymmetry == Permutations({t1, t2}) \cup Permutations({c, d})
=============================================================================
