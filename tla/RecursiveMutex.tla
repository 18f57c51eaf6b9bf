--------------------------- MODULE RecursiveMutex ---------------------------
(***************************************************************************)
(* What mutex_lock(), mutex_trylock() and mutex_unlock() of linux_thread.c *)
(* promise: a lock that one thread at a time owns and may own several      *)
(* times over.  How a thread waits for it is not part of the promise.      *)
(***************************************************************************)
EXTENDS Integers

CONSTANTS Threads, Mutexes, NoOwner

VARIABLES holder, depth

vars == <<holder, depth>>

Init ==
    /\ holder = [m \in Mutexes |-> NoOwner]
    /\ depth = [m \in Mutexes |-> 0]

Acquire(t, m) ==
    /\ \/ holder[m] = NoOwner /\ depth[m] = 0
       \/ holder[m] = t /\ depth[m] > 0
    /\ holder' = [holder EXCEPT ![m] = t]
    /\ depth' = [depth EXCEPT ![m] = @ + 1]

Release(t, m) ==
    /\ holder[m] = t
    /\ depth[m] > 0
    /\ holder' = [holder EXCEPT ![m] = IF depth[m] = 1 THEN NoOwner ELSE t]
    /\ depth' = [depth EXCEPT ![m] = @ - 1]

Next == \E t \in Threads, m \in Mutexes : Acquire(t, m) \/ Release(t, m)

Spec == Init /\ [][Next]_vars
=============================================================================
