----------------------------- MODULE MCLockLive -----------------------------
(***************************************************************************)
(* Progress of FileLock in one serving process with its lifetime holder    *)
(* and a writer, and the remains of two earlier ones, of which one's pid   *)
(* has been given to another program.                                      *)
(***************************************************************************)
EXTENDS FileLock, TLC

CONSTANTS ghost, reused, p1, serve, w1

MCProcOf == (serve :> p1) @@ (w1 :> p1)
=============================================================================
