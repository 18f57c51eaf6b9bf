----------------------------- MODULE AtomicLock -----------------------------
(***************************************************************************)
(* The one lock of the emulation layer: atomic_mutex of linux_thread.c, a  *)
(* recursive pthread mutex that every spin_lock(), read_lock() and         *)
(* rcu_read_lock() of the ported drivers takes.  pthread_cond_wait() gives *)
(* back one level of it, so a thread that sleeps at a deeper level has to  *)
(* drop the other levels first and pick them up afterwards.  It finds out  *)
(* how many there are from atomic_recurse, a global counter that the code  *)
(* maintains by hand beside the mutex's own recursion count.               *)
(*                                                                         *)
(*   hold    recursion count of the pthread mutex, per thread (external)   *)
(*   recurse atomic_recurse                                                *)
(*   spin    levels the thread's own program has locked and not unlocked   *)
(*   drops   the local variable "drops" of a thread that is asleep         *)
(***************************************************************************)
EXTENDS Integers

CONSTANTS
    Threads,    \* the threads of the daemon
    MaxSpin     \* bound: how deep a program nests its own atomic_lock() calls

ASSUME MaxSpinAssumption == MaxSpin \in Nat

VARIABLES hold, recurse, spin, drops

lockVars == <<hold, recurse, spin, drops>>

LockTypeOK ==
    /\ hold \in [Threads -> Nat]
    /\ recurse \in Nat
    /\ spin \in [Threads -> 0..MaxSpin]
    /\ drops \in [Threads -> Nat]

LockInit ==
    /\ hold = [t \in Threads |-> 0]
    /\ recurse = 0
    /\ spin = [t \in Threads |-> 0]
    /\ drops = [t \in Threads |-> 0]

(* pthread_mutex_lock() on the recursive mutex succeeds. *)
MayEnter(t) == \A u \in Threads \ {t} : hold[u] = 0

(* A whole atomic_lock() ... atomic_unlock() section that does not sleep:  *)
(* the two calls cancel out.                                               *)
Section(t) == MayEnter(t) /\ UNCHANGED lockVars

(* spin_lock() and friends: the program keeps the lock. *)
atomic_lock(t) ==
    /\ MayEnter(t)
    /\ spin[t] < MaxSpin
    /\ hold' = [hold EXCEPT ![t] = @ + 1]
    /\ recurse' = recurse + 1
    /\ spin' = [spin EXCEPT ![t] = @ + 1]
    /\ UNCHANGED drops

atomic_unlock(t) ==
    /\ spin[t] > 0
    /\ hold' = [hold EXCEPT ![t] = @ - 1]
    /\ recurse' = recurse - 1
    /\ spin' = [spin EXCEPT ![t] = @ - 1]
    /\ UNCHANGED drops

(* The number of levels atomic_drop() unlocks when atomic_recurse is r:    *)
(* it stops at one.                                                        *)
atomic_drop(r) == IF r > 1 THEN r - 1 ELSE 0

(* Fall asleep from inside k levels of the operation's own atomic_lock():  *)
(* atomic_drop(), atomic_pre_sleep(), and the level that                   *)
(* pthread_cond_wait() itself gives back.  schedule_timeout() does the     *)
(* same with an atomic_unlock() in the place of the condition variable.    *)
Sleep(t, k) ==
    LET d == atomic_drop(recurse + k) IN
    /\ drops' = [drops EXCEPT ![t] = d]
    /\ recurse' = recurse + k - d - 1
    /\ hold' = [hold EXCEPT ![t] = @ + k - d - 1]
    /\ UNCHANGED spin

(* The thread has the mutex again: atomic_post_sleep(), atomic_pickup() of *)
(* its drops, and on return the unlocks of the operation's own k levels.   *)
PickupMutant(t, k) ==
    /\ \A u \in Threads : hold[u] = 0
    /\ hold' = [hold EXCEPT ![t] = @ + 1 + drops[t] - k]
    /\ recurse' = recurse + drops[t] - k
    /\ drops' = [drops EXCEPT ![t] = 0]
    /\ UNCHANGED spin
atomic_pickup(t, k) ==
    /\ \A u \in Threads : hold[u] = 0
    /\ hold' = [hold EXCEPT ![t] = @ + 1 + drops[t] - k]
    /\ recurse' = recurse + 1 + drops[t] - k
    /\ drops' = [drops EXCEPT ![t] = 0]
    /\ UNCHANGED spin
=============================================================================
