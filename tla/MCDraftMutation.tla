--------------------------- MODULE MCDraftMutation ---------------------------
(***************************************************************************)
(* DraftMutation for TLC: interchangeable clients.                         *)
(***************************************************************************)
EXTENDS DraftMutation

ClientPerms == Permutations(Clients)
=============================================================================
