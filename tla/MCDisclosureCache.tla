------------------------- MODULE MCDisclosureCache -------------------------
(* Instance of DisclosureCache for TLC.                                    *)
EXTENDS DisclosureCache, TLC

Symmetry == Permutations(Calls) \union Permutations(Values)
=============================================================================
