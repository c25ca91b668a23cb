-------------------------- MODULE MCExperimentRun --------------------------
(* ExperimentRun for TLC: two processes as model values; no symmetry, since  *)
(* RunCompletes is checked.                                                  *)
EXTENDS ExperimentRun, TLC
=============================================================================
