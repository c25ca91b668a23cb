-------------------------- MODULE MCExecWorkspace --------------------------
(* Instances of ExecWorkspace for TLC: processes, identities and entries    *)
(* are model values, interchangeable but for the patched identities.        *)
EXTENDS ExecWorkspace, TLC

Symmetry == Permutations(Procs) \cup Permutations(Entries)
=============================================================================
