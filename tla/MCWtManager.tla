---------------------------- MODULE MCWtManager ----------------------------
(* WtManager for TLC: two callers and two sweepers as model values; no       *)
(* symmetry, since EnsureReturns is checked.                                 *)
EXTENDS WtManager, TLC
=============================================================================
