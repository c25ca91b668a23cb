----------------------------- MODULE MCFileLock -----------------------------
(***************************************************************************)
(* FileLock with three goroutines: a lifetime holder and a writer of one   *)
(* process against a writer of another.                                    *)
(***************************************************************************)
EXTENDS FileLock, TLC

CONSTANTS p1, p2, serve, w1, w2, i1, i2, i3

TwoProcesses == (serve :> p1) @@ (w1 :> p1) @@ (w2 :> p2)

InodePerms == Permutations({i1, i2, i3})
=============================================================================
