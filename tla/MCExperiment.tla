----------------------------- MODULE MCExperiment -----------------------------
EXTENDS Experiment

(* -1 asks for the rest of the program. *)
MCReals == {-1, 0, 1, 3}
=============================================================================
