--------------------------- MODULE MCParallelSim ---------------------------
(* An instance of ParallelSim for TLC.                                     *)
EXTENDS ParallelSim

Three == 0 .. 2
=============================================================================
