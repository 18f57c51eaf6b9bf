----------------------------- MODULE LinuxMutex -----------------------------
(***************************************************************************)
(* The semaphores and mutexes of linux_thread.c.  Both are a struct        *)
(* semaphore {value, owner}; every thread that has to wait for one sleeps  *)
(* on the same condition variable, mutex_cond.  A mutex is recursive: the  *)
(* owner takes it again by decrementing value below zero.                  *)
(*                                                                         *)
(*   value, owner  the fields of struct semaphore                          *)
(*   op            the call a sleeping thread is inside, and its object    *)
(*   waiting       the threads blocked in pthread_cond_wait(&mutex_cond)   *)
(*   held          how often the thread's program has locked the mutex and *)
(*                 not unlocked it: what its author relies on              *)
(***************************************************************************)
EXTENDS AtomicLock

CONSTANTS
    Mutexes,        \* struct mutex objects
    Sems,           \* struct semaphore objects used with up() and down()
    SemInit,        \* the value a semaphore is initialised with
    MUTEX_NO_OWNER, \* not a thread
    NoSem,          \* not a mutex or semaphore
    MaxHeld,        \* bound: recursive locks of one mutex
    MaxValue        \* bound: up() calls outstanding on one semaphore

ASSUME MutexAssumption ==
    /\ MUTEX_NO_OWNER \notin Threads
    /\ Mutexes \cap Sems = {}
    /\ NoSem \notin Mutexes \cup Sems
    /\ MaxHeld \in Nat /\ MaxValue \in Nat
    /\ SemInit \in 0..MaxValue

VARIABLES value, owner, op, waiting, held

semVars == <<value, owner>>
vars == <<lockVars, semVars, op, waiting, held>>

Objects == Mutexes \cup Sems
Calls == {"down", "down_trylock", "mutex_lock", "mutex_trylock"}
NoOp == [fn |-> "none", on |-> NoSem]
Usleep == [fn |-> "schedule_timeout", on |-> NoSem]
Ops == [fn : Calls, on : Objects] \cup {NoOp, Usleep}

(* Levels of atomic_lock() the call holds where it sleeps: down() takes    *)
(* one, and the calls that call down() have one of their own.              *)
Inner(fn) == IF fn \in {"down", "schedule_timeout"} THEN 1 ELSE 2

Idle(t) == op[t] = NoOp

TypeOK ==
    /\ LockTypeOK
    /\ value \in [Objects -> Int]
    /\ owner \in [Objects -> Threads \cup {MUTEX_NO_OWNER}]
    /\ op \in [Threads -> Ops]
    /\ waiting \subseteq Threads
    /\ held \in [Threads -> [Mutexes -> Nat]]

(* sema_init(), mutex_init() = sema_init(1). *)
sema_init ==
    /\ value = [s \in Objects |-> IF s \in Mutexes THEN 1 ELSE SemInit]
    /\ owner = [s \in Objects |-> MUTEX_NO_OWNER]

Init ==
    /\ LockInit
    /\ sema_init
    /\ op = [t \in Threads |-> NoOp]
    /\ waiting = {}
    /\ held = [t \in Threads |-> [m \in Mutexes |-> 0]]

-----------------------------------------------------------------------------
(* The bookkeeping of the caller: it now holds the mutex, or what it took  *)
(* is a semaphore and there is no such notion.                             *)
Holds(t, s) ==
    IF s \in Mutexes THEN [held EXCEPT ![t][s] = @ + 1] ELSE held

(* What down() does once value is positive, with the owner assignment of   *)
(* mutex_lock() and mutex_trylock() after it.                              *)
Take(t, fn, s) ==
    /\ value' = [value EXCEPT ![s] = @ - 1]
    /\ owner' = IF fn \in {"mutex_lock", "mutex_trylock"}
                THEN [owner EXCEPT ![s] = t] ELSE owner
    /\ held' = Holds(t, s)

(* The body of down(), called by fn: take the semaphore or go to sleep.    *)
DownBy(t, fn, s) ==
    \/ /\ value[s] > 0
       /\ Take(t, fn, s)
       /\ Section(t)
       /\ UNCHANGED <<op, waiting>>
    \/ /\ value[s] <= 0
       /\ MayEnter(t)
       /\ Sleep(t, Inner(fn))
       /\ op' = [op EXCEPT ![t] = [fn |-> fn, on |-> s]]
       /\ waiting' = waiting \cup {t}
       /\ UNCHANGED <<semVars, held>>

down(t, s) == Idle(t) /\ DownBy(t, "down", s)

(* down_trylock() and down_read_trylock(): down() only if it cannot wait,  *)
(* else "congested".                                                       *)
down_trylock(t, s) ==
    /\ Idle(t)
    /\ \/ value[s] > 0 /\ DownBy(t, "down_trylock", s)
       \/ value[s] <= 0 /\ Section(t) /\ UNCHANGED <<semVars, op, waiting, held>>

(* The owner takes its mutex again; it never waits. *)
Relock(t, m) ==
    /\ owner[m] = t
    /\ value' = [value EXCEPT ![m] = @ - 1]
    /\ held' = Holds(t, m)
    /\ Section(t)
    /\ UNCHANGED <<owner, op, waiting>>

mutex_lock(t, m) ==
    /\ Idle(t)
    /\ held[t][m] < MaxHeld
    /\ \/ Relock(t, m)
       \/ owner[m] # t /\ DownBy(t, "mutex_lock", m)

mutex_trylock(t, m) ==
    /\ Idle(t)
    /\ held[t][m] < MaxHeld
    /\ \/ Relock(t, m)
       \/ owner[m] = MUTEX_NO_OWNER /\ DownBy(t, "mutex_trylock", m)
       \/ /\ owner[m] \notin {t, MUTEX_NO_OWNER}
          /\ Section(t)
          /\ UNCHANGED <<semVars, op, waiting, held>>

(* up() wakes the sleepers of mutex_cond, whichever semaphore they wait    *)
(* for, but only when the value becomes exactly one.                       *)
WakesMutant(v) == v = 2
Wakes(v) == v = 1
Broadcast(v) == IF Wakes(v) THEN {} ELSE waiting

up(t, s) ==
    /\ Idle(t)
    /\ value[s] < MaxValue
    /\ value' = [value EXCEPT ![s] = @ + 1]
    /\ waiting' = Broadcast(value[s] + 1)
    /\ Section(t)
    /\ UNCHANGED <<owner, op, held>>

(* mutex_unlock() is up() and, once the last recursive lock is gone, the   *)
(* owner is cleared and value reset to one, the code's "guard against      *)
(* double unlock".  It does not look at who calls it: it is called by a    *)
(* thread that holds the mutex, or once too often when nobody does.        *)
UnlockedMutant(v) == v
Unlocked(v) == IF v > 0 THEN 1 ELSE v

ClearsOwnerMutant(v) == v >= 0
ClearsOwner(v) == v > 0

mutex_unlock(t, m) ==
    /\ Idle(t)
    /\ held[t][m] > 0 \/ \A u \in Threads : held[u][m] = 0
    /\ value' = [value EXCEPT ![m] = Unlocked(@ + 1)]
    /\ owner' = IF ClearsOwner(value[m] + 1)
                THEN [owner EXCEPT ![m] = MUTEX_NO_OWNER] ELSE owner
    /\ waiting' = Broadcast(value[m] + 1)
    /\ held' = [held EXCEPT ![t][m] = IF @ > 0 THEN @ - 1 ELSE 0]
    /\ Section(t)
    /\ UNCHANGED op

(* A thread that was woken has the lock again and goes round the loop of   *)
(* down(): the semaphore may have been taken by somebody else.             *)
StillBlocked(t) == value[op[t].on] <= 0

Woken(t) ==
    /\ op[t].fn \in Calls
    /\ t \notin waiting
    /\ \/ /\ ~StillBlocked(t)
          /\ Take(t, op[t].fn, op[t].on)
          /\ atomic_pickup(t, Inner(op[t].fn))
          /\ op' = [op EXCEPT ![t] = NoOp]
          /\ UNCHANGED waiting
       \/ /\ StillBlocked(t)
          /\ \A u \in Threads : hold[u] = 0
          /\ waiting' = waiting \cup {t}
          /\ UNCHANGED <<lockVars, semVars, op, held>>

(* pthread_cond_wait() may return without a broadcast. *)
SpuriousWakeup(t) ==
    /\ t \in waiting
    /\ waiting' = waiting \ {t}
    /\ UNCHANGED <<lockVars, semVars, op, held>>

(* schedule_timeout(): leave the lock entirely, usleep(), pick it up.      *)
schedule_timeout(t) ==
    /\ Idle(t)
    /\ MayEnter(t)
    /\ Sleep(t, Inner("schedule_timeout"))
    /\ op' = [op EXCEPT ![t] = Usleep]
    /\ UNCHANGED <<semVars, waiting, held>>

UsleepOver(t) ==
    /\ op[t].fn = "schedule_timeout"
    /\ atomic_pickup(t, Inner("schedule_timeout"))
    /\ op' = [op EXCEPT ![t] = NoOp]
    /\ UNCHANGED <<semVars, waiting, held>>

SpinLock(t) ==
    Idle(t) /\ atomic_lock(t) /\ UNCHANGED <<semVars, op, waiting, held>>

SpinUnlock(t) ==
    Idle(t) /\ atomic_unlock(t) /\ UNCHANGED <<semVars, op, waiting, held>>

Step(t) ==
    \/ SpinLock(t) \/ SpinUnlock(t)
    \/ schedule_timeout(t) \/ UsleepOver(t)
    \/ Woken(t) \/ SpuriousWakeup(t)
    \/ \E m \in Mutexes : mutex_lock(t, m) \/ mutex_trylock(t, m) \/ mutex_unlock(t, m)
    \/ \E s \in Sems : down(t, s) \/ down_trylock(t, s) \/ up(t, s)

Next == \E t \in Threads : Step(t)

Spec == Init /\ [][Next]_vars

-----------------------------------------------------------------------------
(* The hand-kept counter atomic_recurse agrees with the recursion count    *)
(* of whichever thread is inside the pthread mutex, and a thread that is   *)
(* not asleep holds exactly the levels its program locked, however often   *)
(* it slept meanwhile (atomic_drop, atomic_pickup and the pre/post sleep   *)
(* calls in down and schedule_timeout).                                    *)
DepthRestored ==
    /\ \A t \in Threads : Idle(t) => hold[t] = spin[t]
    /\ \A t \in Threads : MayEnter(t) => recurse = hold[t]

(* A thread asleep in down() or schedule_timeout() holds no level of the   *)
(* lock: one level left behind would stop every other thread for good.     *)
SleepersHoldNothing == \A t \in Threads : ~Idle(t) => hold[t] = 0

(* What callers of mutex_lock() rely on: two threads never both believe    *)
(* that they hold a mutex, and the mutex knows its owner and how often it  *)
(* locked (double mutex_unlock() of a free mutex included).                *)
MutualExclusion ==
    \A m \in Mutexes : \A t \in Threads :
        held[t][m] > 0 => /\ owner[m] = t
                          /\ value[m] = 1 - held[t][m]
                          /\ \A u \in Threads \ {t} : held[u][m] = 0

(* mutex_trylock() and down_trylock() call down(), which can sleep, but    *)
(* they never do: a free owner field means that value is one.              *)
TrylockNeverSleeps ==
    \A t \in Threads : op[t].fn \notin {"mutex_trylock", "down_trylock"}

(* Nobody is left asleep on mutex_cond while the semaphore or mutex it     *)
(* waits for is available, although up() does not broadcast every time.    *)
NoLostWakeup == \A t \in waiting : value[op[t].on] <= 0

(* down() never takes a semaphore below zero, even when several sleepers   *)
(* are woken for one up().                                                 *)
NeverOverdrawn == \A s \in Sems : value[s] >= 0

(* Sleeping under the one lock is safe: what a thread has locked is put    *)
(* away before it sleeps in down() or schedule_timeout() and is there      *)
(* again after, and calls that promise not to sleep do not.                *)
SleepSafe == TypeOK /\ DepthRestored /\ SleepersHoldNothing /\ TrylockNeverSleeps

(* The locks lock: mutex_lock() excludes other threads and down() never    *)
(* takes more than up() has given.                                         *)
Exclusion == MutualExclusion /\ NeverOverdrawn

(* A mutex that is free while a thread sleeps in mutex_lock() for it does  *)
(* not stay free: that thread or another one takes it.                     *)
FreeMutexIsTaken ==
    \A m \in Mutexes : \A t \in Threads :
        (op[t] = [fn |-> "mutex_lock", on |-> m] /\ owner[m] = MUTEX_NO_OWNER)
            ~> owner[m] # MUTEX_NO_OWNER

(* The mutexes implement the recursive lock of RecursiveMutex: holder is   *)
(* the owner field and depth is 1 - value.                                 *)
Abs == INSTANCE RecursiveMutex
           WITH NoOwner <- MUTEX_NO_OWNER,
                holder <- [m \in Mutexes |-> owner[m]],
                depth <- [m \in Mutexes |-> 1 - value[m]]

AbsSpec == Abs!Spec
=============================================================================
