---------------------------- MODULE MCSealedExec ----------------------------
(* SealedExec for TLC: one start, one resume and one replacement of a key,   *)
(* and a signal watcher for the start and for the resume.                    *)
EXTENDS SealedExec, TLC

CONSTANTS s1, r1, x1, w1, w2

Calls == [c \in Execs \cup Watchers |->
            IF c \in {s1, w1} THEN "start" ELSE IF c = x1 THEN "replacement" ELSE "resume"]
=============================================================================
