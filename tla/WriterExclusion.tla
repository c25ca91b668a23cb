--------------------------- MODULE WriterExclusion ---------------------------
(***************************************************************************)
(* What the writer lock promises a checkout (design decision D3): one      *)
(* owner at a time among all goroutines of all processes; at most one      *)
(* writer's callback beside it, and only as a guest of an owner in its own *)
(* process; an owner leaves only when its guest has left; the death of a   *)
(* process ends its ownership and its guest's work together.               *)
(***************************************************************************)
CONSTANTS Procs, Threads, ProcOf, Writers

VARIABLES
    owners,     \* the goroutines to which Acquire granted the lock
    guests      \* the goroutines working under a lease of it

avars == <<owners, guests>>

Init == owners = {} /\ guests = {}

Grant(t) == /\ owners = {}
            /\ owners' = {t}
            /\ UNCHANGED guests

\* The owner is not a writer itself: two writers of one process queue up.
Admit(t) == /\ t \in Writers
            /\ guests = {}
            /\ \E o \in owners \ Writers : ProcOf[o] = ProcOf[t]
            /\ guests' = {t}
            /\ UNCHANGED owners

Leave(t) == /\ t \in guests
            /\ guests' = guests \ {t}
            /\ UNCHANGED owners

Release(t) == /\ owners = {t}
              /\ guests = {}
              /\ owners' = {}
              /\ UNCHANGED guests

Crash(p) == /\ owners' = {t \in owners : ProcOf[t] # p}
            /\ guests' = {t \in guests : ProcOf[t] # p}

Next == \/ \E t \in Threads : Grant(t) \/ Admit(t) \/ Leave(t) \/ Release(t)
        \/ \E p \in Procs : Crash(p)

Spec == Init /\ [][Next]_avars
=============================================================================
