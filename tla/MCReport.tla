------------------------------- MODULE MCReport -------------------------------
EXTENDS Report, TLC

(* Names are only compared for equality.                                   *)
Symmetry == Permutations(Benchmarks) \cup Permutations(Modes)
=============================================================================
