---------------------------- MODULE MCLinuxMutex ----------------------------
(***************************************************************************)
(* TLC instances of the two components of linux_thread.c that sleep under  *)
(* the atomic lock: the mutexes, and the wait queues with completions and  *)
(* kernel threads.  They share no state here; a behaviour is one of the    *)
(* part it is named for, and the variables of the other keep their values. *)
(***************************************************************************)
EXTENDS LinuxMutex, WaitQueue, TLC

VARIABLE part

BothInit == part \in {"mutex", "wait"} /\ Init /\ WaitInit

Both ==
    \/ part = "mutex" /\ Next /\ UNCHANGED <<part, waitVars>>
    \/ part = "wait" /\ WaitNext /\ UNCHANGED <<part, vars>>

BothSpec == BothInit /\ [][Both]_<<part, vars, waitVars>>

(* Threads are interchangeable, and so are the device threads. *)
Symmetry == Permutations(Threads) \cup Permutations(Callers)
=============================================================================
