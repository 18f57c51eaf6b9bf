------------------------------ MODULE LockProofs ------------------------------
(***************************************************************************)
(* Proofs about LinuxMutex for any number of threads, mutexes and          *)
(* semaphores and any nesting, and about WaitQueue for any finite sets of  *)
(* threads, queues and completions.  The invariant of LinuxMutex has three *)
(* parts: what the lock counters say, what the sleepers are doing, and how *)
(* the fields of each semaphore relate to what its callers hold.  That of  *)
(* WaitQueue says that nobody sleeps through what he waits for, that       *)
(* sleep_count is the number of sleepers, and that a kernel thread is      *)
(* started and stopped without a lost signal or a use of freed memory.     *)
(***************************************************************************)
EXTENDS LinuxMutex, WaitQueue, FiniteSetTheorems, TLAPS

(* A sleeper has put away all of its own levels and those of the call it   *)
(* sleeps in, but for the one that the condition variable gives back.      *)
LockInv ==
    /\ \A t \in Threads : Idle(t) => hold[t] = spin[t]
    /\ \A t \in Threads : ~Idle(t) => /\ hold[t] = 0
                                      /\ drops[t] = spin[t] + Inner(op[t].fn) - 1
    /\ \A t, u \in Threads : hold[t] > 0 /\ hold[u] > 0 => t = u
    /\ \A t \in Threads : hold[t] > 0 => recurse = hold[t]
    /\ (\A t \in Threads : hold[t] = 0) => recurse = 0

(* Only down() and mutex_lock() sleep for a semaphore, and those still     *)
(* blocked wait for one that is not available.                             *)
SleepInv ==
    /\ \A t \in Threads :
          \/ op[t] = NoOp
          \/ op[t] = Usleep
          \/ op[t].fn = "down" /\ op[t].on \in Sems
          \/ op[t].fn = "mutex_lock" /\ op[t].on \in Mutexes
    /\ \A t \in waiting : op[t].fn \in Calls /\ value[op[t].on] <= 0

Free(m) ==
    /\ value[m] = 1
    /\ owner[m] = MUTEX_NO_OWNER
    /\ \A t \in Threads : held[t][m] = 0

Owned(m) ==
    /\ value[m] <= 0
    /\ owner[m] \in Threads
    /\ held[owner[m]][m] = 1 - value[m]
    /\ \A t \in Threads \ {owner[m]} : held[t][m] = 0

SemInv ==
    /\ \A m \in Mutexes : Free(m) \/ Owned(m)
    /\ \A s \in Sems : value[s] >= 0

IInv == TypeOK /\ LockInv /\ SleepInv /\ SemInv

-----------------------------------------------------------------------------
(* Whoever can enter the lock finds atomic_recurse equal to its own count. *)
LEMMA RecurseIsHold ==
    ASSUME LockTypeOK, LockInv, NEW t \in Threads, MayEnter(t)
    PROVE  recurse = hold[t]
BY DEF LockTypeOK, LockInv, MayEnter

(* Falling asleep gives back every level, the counter included.            *)
LEMMA SleepGivesBack ==
    ASSUME LockTypeOK, LockInv, NEW t \in Threads, MayEnter(t), Idle(t),
           NEW k \in {1, 2}, Sleep(t, k)
    PROVE  /\ hold' = [hold EXCEPT ![t] = 0]
           /\ recurse' = 0
           /\ drops' = [drops EXCEPT ![t] = spin[t] + k - 1]
           /\ spin' = spin
<1>1. recurse = hold[t] /\ hold[t] = spin[t] /\ recurse \in Nat
  BY RecurseIsHold DEF LockInv, LockTypeOK
<1>2. atomic_drop(recurse + k) = recurse + k - 1
  BY <1>1 DEF atomic_drop
<1>3. /\ recurse + k - (recurse + k - 1) - 1 = 0
      /\ hold[t] + k - (recurse + k - 1) - 1 = 0
      /\ recurse + k - 1 = spin[t] + k - 1
  BY <1>1
<1>4. /\ drops' = [drops EXCEPT ![t] = recurse + k - 1]
      /\ recurse' = recurse + k - (recurse + k - 1) - 1
      /\ hold' = [hold EXCEPT ![t] = hold[t] + k - (recurse + k - 1) - 1]
      /\ spin' = spin
  BY <1>2, Zenon DEF Sleep
<1> QED BY <1>3, <1>4, Zenon

(* Waking up restores exactly the levels the program had locked.           *)
LEMMA PickupRestores ==
    ASSUME LockTypeOK, LockInv, NEW t \in Threads, ~Idle(t),
           NEW k \in {1, 2}, k = Inner(op[t].fn), atomic_pickup(t, k)
    PROVE  /\ hold' = [hold EXCEPT ![t] = spin[t]]
           /\ recurse' = spin[t]
           /\ drops' = [drops EXCEPT ![t] = 0]
           /\ spin' = spin
           /\ \A u \in Threads : hold[u] = 0
<1>1. \A u \in Threads : hold[u] = 0
  BY DEF atomic_pickup
<1>2. recurse = 0 /\ hold[t] = 0 /\ drops[t] = spin[t] + k - 1
  BY <1>1 DEF LockInv
<1>3. spin[t] \in Nat
  BY MaxSpinAssumption DEF LockTypeOK
<1>4. hold[t] + 1 + drops[t] - k = spin[t] /\ recurse + 1 + drops[t] - k = spin[t]
  BY <1>2, <1>3
<1> QED BY <1>1, <1>4, Zenon DEF atomic_pickup

-----------------------------------------------------------------------------
(* The lock part, action by action: an action leaves the counters alone,   *)
(* or puts a thread to sleep, or wakes one, or is a spin_lock/unlock.      *)
LEMMA SleepLock ==
    ASSUME LockTypeOK, LockInv, NEW t \in Threads, MayEnter(t), Idle(t),
           op \in [Threads -> Ops], NEW o, o # NoOp, op' = [op EXCEPT ![t] = o], Sleep(t, Inner(o.fn))
    PROVE  LockTypeOK' /\ LockInv'
<1> DEFINE k == Inner(o.fn)
<1>1. k \in {1, 2}
  BY DEF Inner
<1>2. /\ hold' = [hold EXCEPT ![t] = 0]
      /\ recurse' = 0
      /\ drops' = [drops EXCEPT ![t] = spin[t] + k - 1]
      /\ spin' = spin
  BY <1>1, SleepGivesBack
<1>3. LockTypeOK'
  BY <1>1, <1>2, MaxSpinAssumption DEF LockTypeOK
<1>4. \A u \in Threads : hold'[u] = 0
  BY <1>2 DEF MayEnter, LockTypeOK
<1>5. op'[t] = o /\ \A u \in Threads \ {t} : op'[u] = op[u]
  OBVIOUS
<1>6. LockInv'
  <2>1. ASSUME NEW u \in Threads, Idle(u)' PROVE hold'[u] = spin'[u]
    BY <2>1, <1>2, <1>4, <1>5 DEF LockInv, LockTypeOK, Idle, MayEnter
  <2>2. ASSUME NEW u \in Threads, ~Idle(u)'
        PROVE  hold'[u] = 0 /\ drops'[u] = spin'[u] + Inner(op'[u].fn) - 1
    <3>1. CASE u = t
      BY <3>1, <1>2, <1>4, <1>5 DEF LockTypeOK
    <3>2. CASE u # t
      BY <3>2, <2>2, <1>2, <1>4, <1>5 DEF LockTypeOK, LockInv, Idle
    <3> QED BY <3>1, <3>2
  <2> QED BY <2>1, <2>2, <1>2, <1>4 DEF LockInv, Idle
<1> QED BY <1>3, <1>6

LEMMA WakeLock ==
    ASSUME LockTypeOK, LockInv, NEW t \in Threads, ~Idle(t),
           op \in [Threads -> Ops],
           op' = [op EXCEPT ![t] = NoOp], atomic_pickup(t, Inner(op[t].fn))
    PROVE  LockTypeOK' /\ LockInv'
<1>1. Inner(op[t].fn) \in {1, 2}
  BY DEF Inner
<1>2. /\ hold' = [hold EXCEPT ![t] = spin[t]]
      /\ recurse' = spin[t]
      /\ drops' = [drops EXCEPT ![t] = 0]
      /\ spin' = spin
      /\ \A u \in Threads : hold[u] = 0
  BY <1>1, PickupRestores
<1>3. LockTypeOK'
  BY <1>2, MaxSpinAssumption DEF LockTypeOK
<1>4. op'[t] = NoOp /\ \A u \in Threads \ {t} : op'[u] = op[u]
  OBVIOUS
<1>5. hold'[t] = spin[t] /\ \A u \in Threads \ {t} : hold'[u] = 0
  BY <1>2 DEF LockTypeOK
<1>6. spin[t] \in Nat
  BY MaxSpinAssumption DEF LockTypeOK
<1>7. LockInv'
  <2>1. ASSUME NEW u \in Threads, Idle(u)' PROVE hold'[u] = spin'[u]
    BY <2>1, <1>2, <1>4, <1>5 DEF LockInv, Idle
  <2>2. ASSUME NEW u \in Threads, ~Idle(u)'
        PROVE  hold'[u] = 0 /\ drops'[u] = spin'[u] + Inner(op'[u].fn) - 1
    <3>1. u # t
      BY <2>2, <1>4 DEF Idle
    <3> QED BY <3>1, <2>2, <1>2, <1>4, <1>5 DEF LockInv, LockTypeOK, Idle
  <2> QED BY <2>1, <2>2, <1>2, <1>5, <1>6 DEF LockInv, Idle
<1> QED BY <1>3, <1>7

LEMMA SpinLockStep ==
    ASSUME LockTypeOK, LockInv, NEW t \in Threads, SpinLock(t) \/ SpinUnlock(t)
    PROVE  LockTypeOK' /\ LockInv'
<1>1. hold[t] = spin[t] /\ op' = op
  BY DEF LockInv, SpinLock, SpinUnlock
<1>2. CASE SpinLock(t)
  <2>1. recurse = hold[t]
    BY <1>2, RecurseIsHold DEF SpinLock, atomic_lock
  <2> QED BY <1>1, <1>2, <2>1, MaxSpinAssumption
          DEF SpinLock, atomic_lock, LockTypeOK, LockInv, Idle, MayEnter
<1>3. CASE SpinUnlock(t)
  <2>1. hold[t] > 0 /\ recurse = hold[t]
    BY <1>1, <1>3, MaxSpinAssumption DEF SpinUnlock, atomic_unlock, LockInv, LockTypeOK
  <2> QED BY <1>1, <1>3, <2>1, MaxSpinAssumption
          DEF SpinUnlock, atomic_unlock, LockTypeOK, LockInv, Idle
<1> QED BY <1>2, <1>3

-----------------------------------------------------------------------------
(* The semaphore part.  Taking an available semaphore or mutex keeps it.   *)
LEMMA TakeKeeps ==
    ASSUME TypeOK, SemInv, NEW t \in Threads, NEW fn \in Calls, NEW s \in Objects,
           \/ fn \in {"down", "down_trylock"} /\ s \in Sems
           \/ fn \in {"mutex_lock", "mutex_trylock"} /\ s \in Mutexes,
           value[s] > 0, Take(t, fn, s)
    PROVE  /\ value' \in [Objects -> Int]
           /\ owner' \in [Objects -> Threads \cup {MUTEX_NO_OWNER}]
           /\ held' \in [Threads -> [Mutexes -> Nat]]
           /\ SemInv'
           /\ \A r \in Objects : value'[r] <= value[r]
<1> USE MutexAssumption
<1>1. CASE s \in Sems
  BY <1>1 DEF TypeOK, SemInv, Take, Holds, Objects, Free, Owned
<1>2. CASE s \in Mutexes
  <2>1. /\ value' = [value EXCEPT ![s] = @ - 1]
        /\ owner' = [owner EXCEPT ![s] = t]
        /\ held' = [held EXCEPT ![t][s] = @ + 1]
    BY <1>2 DEF Take, Holds
  <2>2. Free(s)
    BY <1>2 DEF SemInv, Owned, TypeOK, Objects
  <2>3. Owned(s)'
    <3>1. value'[s] = 0 /\ owner'[s] = t
      BY <1>2, <2>1, <2>2 DEF Free, TypeOK, Objects
    <3>2. held'[t][s] = 1 /\ \A u \in Threads \ {t} : held'[u][s] = 0
      BY <1>2, <2>1, <2>2 DEF Free, TypeOK
    <3> QED BY <3>1, <3>2 DEF Owned
  <2>4. \A m \in Mutexes \ {s} : Free(m)' \/ Owned(m)'
    BY <2>1 DEF SemInv, Free, Owned, TypeOK, Objects
  <2> QED BY <1>2, <2>1, <2>3, <2>4 DEF TypeOK, SemInv, Objects
<1> QED BY <1>1, <1>2 DEF Objects

(* The owner of a mutex locks it once more.                                *)
LEMMA RelockKeeps ==
    ASSUME IInv, NEW t \in Threads, NEW m \in Mutexes, Relock(t, m)
    PROVE  IInv'
<1> USE MutexAssumption
<1>1. /\ value' = [value EXCEPT ![m] = @ - 1]
      /\ held' = [held EXCEPT ![t][m] = @ + 1]
      /\ UNCHANGED <<lockVars, owner, op, waiting>>
  BY DEF Relock, Holds, Section
<1>2. TypeOK'
  BY <1>1 DEF IInv, TypeOK, LockTypeOK, lockVars, Objects
<1>3. LockInv'
  BY <1>1 DEF IInv, LockInv, lockVars, Idle
<1>4. SleepInv'
  BY <1>1 DEF IInv, SleepInv, TypeOK, Objects, Ops, NoOp, Usleep, Calls
<1>5. SemInv'
  <2>1. Owned(m)
    BY DEF IInv, SemInv, Free, Relock
  <2>2. Owned(m)'
    BY <1>1, <2>1 DEF Owned, IInv, TypeOK, Objects, Relock
  <2>3. \A n \in Mutexes \ {m} : Free(n)' \/ Owned(n)'
    BY <1>1 DEF IInv, SemInv, Free, Owned, TypeOK, Objects
  <2> QED BY <1>1, <2>2, <2>3 DEF IInv, SemInv, TypeOK, Objects
<1> QED BY <1>2, <1>3, <1>4, <1>5 DEF IInv

(* down() by any of its callers.  A trylock gets here only with a          *)
(* semaphore that is available.                                            *)
LEMMA DownKeeps ==
    ASSUME IInv, NEW t \in Threads, Idle(t), NEW fn \in Calls, NEW s \in Objects,
           \/ fn \in {"down", "down_trylock"} /\ s \in Sems
           \/ fn \in {"mutex_lock", "mutex_trylock"} /\ s \in Mutexes,
           fn \in {"down", "mutex_lock"} \/ value[s] > 0,
           DownBy(t, fn, s)
    PROVE  IInv'
<1> USE MutexAssumption
<1>1. CASE value[s] > 0
  <2>1. Take(t, fn, s) /\ UNCHANGED <<lockVars, op, waiting>>
    BY <1>1 DEF DownBy, Section, IInv, TypeOK
  <2>2. /\ value' \in [Objects -> Int]
        /\ owner' \in [Objects -> Threads \cup {MUTEX_NO_OWNER}]
        /\ held' \in [Threads -> [Mutexes -> Nat]]
        /\ SemInv'
        /\ \A r \in Objects : value'[r] <= value[r]
    BY <1>1, <2>1, TakeKeeps DEF IInv
  <2>3. TypeOK' /\ LockInv'
    BY <2>1, <2>2 DEF IInv, TypeOK, LockTypeOK, LockInv, lockVars, Idle
  <2>4. SleepInv'
    BY <2>1, <2>2 DEF IInv, SleepInv, TypeOK, Objects, Ops, NoOp, Usleep, Calls
  <2> QED BY <2>2, <2>3, <2>4 DEF IInv
<1>2. CASE ~(value[s] > 0)
  <2>1. /\ MayEnter(t) /\ Sleep(t, Inner(fn))
        /\ op' = [op EXCEPT ![t] = [fn |-> fn, on |-> s]]
        /\ waiting' = waiting \cup {t}
        /\ UNCHANGED <<value, owner, held>>
    BY <1>2 DEF DownBy, semVars
  <2>2. [fn |-> fn, on |-> s] # NoOp /\ [fn |-> fn, on |-> s] \in Ops
    BY DEF NoOp, Calls, Ops
  <2>3. LockTypeOK' /\ LockInv'
    BY <2>1, <2>2, SleepLock DEF IInv, TypeOK
  <2>4. TypeOK'
    BY <2>1, <2>2, <2>3 DEF IInv, TypeOK
  <2>5. SleepInv'
    BY <1>2, <2>1 DEF IInv, SleepInv, TypeOK, Objects, Calls
  <2>6. SemInv'
    BY <2>1 DEF IInv, SemInv, Free, Owned
  <2> QED BY <2>3, <2>4, <2>5, <2>6 DEF IInv
<1> QED BY <1>1, <1>2

(* A broadcast either empties the wait set or raises no value above zero.  *)
LEMMA UpKeeps ==
    ASSUME IInv, NEW t \in Threads, NEW s \in Sems, up(t, s)
    PROVE  IInv'
<1> USE MutexAssumption
<1>1. /\ value' = [value EXCEPT ![s] = @ + 1]
      /\ waiting' = IF value[s] + 1 = 1 THEN {} ELSE waiting
      /\ UNCHANGED <<lockVars, owner, op, held>>
  BY DEF up, Broadcast, Wakes, Section
<1>2. TypeOK'
  BY <1>1 DEF IInv, TypeOK, LockTypeOK, lockVars, Objects
<1>3. LockInv'
  BY <1>1 DEF IInv, LockInv, lockVars, Idle
<1>4. SemInv'
  BY <1>1 DEF IInv, SemInv, Free, Owned, TypeOK, Objects
<1>5. SleepInv'
  BY <1>1 DEF IInv, SleepInv, SemInv, TypeOK, Objects, Ops, NoOp, Usleep, Calls
<1> QED BY <1>2, <1>3, <1>4, <1>5 DEF IInv

LEMMA UnlockKeeps ==
    ASSUME IInv, NEW t \in Threads, NEW m \in Mutexes, mutex_unlock(t, m)
    PROVE  IInv'
<1> USE MutexAssumption
<1> DEFINE v == value[m] + 1
<1>1. /\ value' = [value EXCEPT ![m] = IF v > 0 THEN 1 ELSE v]
      /\ owner' = IF v > 0 THEN [owner EXCEPT ![m] = MUTEX_NO_OWNER] ELSE owner
      /\ waiting' = IF v = 1 THEN {} ELSE waiting
      /\ held' = [held EXCEPT ![t][m] = IF @ > 0 THEN @ - 1 ELSE 0]
      /\ UNCHANGED <<lockVars, op>>
      /\ held[t][m] > 0 \/ \A u \in Threads : held[u][m] = 0
  BY DEF mutex_unlock, Unlocked, ClearsOwner, Broadcast, Wakes, Section
<1>2. TypeOK'
  BY <1>1 DEF IInv, TypeOK, LockTypeOK, lockVars, Objects
<1>3. LockInv'
  BY <1>1 DEF IInv, LockInv, lockVars, Idle
<1>4. SemInv'
  <2>1. \A n \in Mutexes \ {m} : Free(n)' \/ Owned(n)'
    BY <1>1 DEF IInv, SemInv, Free, Owned, TypeOK, Objects
  <2>2. Free(m)' \/ Owned(m)'
    BY <1>1 DEF IInv, SemInv, Free, Owned, TypeOK, Objects
  <2> QED BY <1>1, <2>1, <2>2 DEF IInv, SemInv, TypeOK, Objects
<1>5. SleepInv'
  BY <1>1 DEF IInv, SleepInv, SemInv, Free, Owned, TypeOK, Objects, Ops, NoOp, Usleep, Calls
<1> QED BY <1>2, <1>3, <1>4, <1>5 DEF IInv

(* A woken thread takes what it waited for or goes back to sleep.          *)
LEMMA WokenKeeps ==
    ASSUME IInv, NEW t \in Threads, Woken(t)
    PROVE  IInv'
<1> USE MutexAssumption
<1> DEFINE s == op[t].on
           fn == op[t].fn
<1>1. /\ fn \in Calls /\ s \in Objects /\ op[t] # NoOp
      /\ \/ fn = "down" /\ s \in Sems
         \/ fn = "mutex_lock" /\ s \in Mutexes
  <2>1. op[t] # NoOp /\ op[t] # Usleep
    BY DEF Woken, Calls, NoOp, Usleep
  <2>2. \/ fn = "down" /\ s \in Sems
        \/ fn = "mutex_lock" /\ s \in Mutexes
    BY <2>1 DEF IInv, SleepInv
  <2> QED BY <2>1, <2>2 DEF Calls, Objects
<1>2. CASE ~StillBlocked(t)
  <2>1. /\ Take(t, fn, s)
        /\ atomic_pickup(t, Inner(fn))
        /\ op' = [op EXCEPT ![t] = NoOp]
        /\ waiting' = waiting
    BY <1>2 DEF Woken
  <2>2. /\ value' \in [Objects -> Int]
        /\ owner' \in [Objects -> Threads \cup {MUTEX_NO_OWNER}]
        /\ held' \in [Threads -> [Mutexes -> Nat]]
        /\ SemInv'
        /\ \A r \in Objects : value'[r] <= value[r]
    <3>1. value[s] > 0
      BY <1>1, <1>2 DEF StillBlocked, IInv, TypeOK
    <3> QED BY <1>1, <2>1, <3>1, TakeKeeps DEF IInv
  <2>3. LockTypeOK' /\ LockInv'
    BY <1>1, <2>1, WakeLock DEF IInv, TypeOK, Idle
  <2>4. TypeOK'
    BY <2>1, <2>2, <2>3 DEF IInv, TypeOK, Ops
  <2>5. SleepInv'
    <3>1. t \notin waiting
      BY DEF Woken
    <3>2. ASSUME NEW u \in waiting PROVE op'[u].fn \in Calls /\ value'[op'[u].on] <= 0
      <4>1. /\ u # t /\ u \in Threads
            /\ op[u].fn \in Calls /\ op[u].on \in Objects /\ value[op[u].on] <= 0
        BY <3>1, <3>2 DEF IInv, SleepInv, TypeOK, Ops, NoOp, Usleep, Calls
      <4>2. op'[u] = op[u]
        BY <2>1, <4>1 DEF IInv, TypeOK
      <4> QED BY <2>2, <4>1, <4>2 DEF IInv, TypeOK
    <3>3. op'[t] = NoOp /\ \A u \in Threads \ {t} : op'[u] = op[u]
      BY <2>1 DEF IInv, TypeOK
    <3> QED BY <2>1, <3>2, <3>3 DEF IInv, SleepInv
  <2> QED BY <2>2, <2>3, <2>4, <2>5 DEF IInv
<1>3. CASE StillBlocked(t)
  <2>1. waiting' = waiting \cup {t} /\ UNCHANGED <<lockVars, semVars, op, held>>
    BY <1>3 DEF Woken
  <2>2. TypeOK' /\ LockInv' /\ SemInv'
    BY <2>1 DEF IInv, TypeOK, LockTypeOK, LockInv, SemInv, Free, Owned, lockVars, semVars, Idle
  <2>3. SleepInv'
    BY <1>1, <1>3, <2>1 DEF IInv, SleepInv, StillBlocked, semVars
  <2> QED BY <2>2, <2>3 DEF IInv
<1> QED BY <1>2, <1>3

(* The steps that touch neither a semaphore nor a mutex.                   *)
LEMMA OtherStepsKeep ==
    ASSUME IInv, NEW t \in Threads,
           \/ SpinLock(t) \/ SpinUnlock(t)
           \/ schedule_timeout(t) \/ UsleepOver(t) \/ SpuriousWakeup(t)
    PROVE  IInv'
<1>1. UNCHANGED <<semVars, held>> /\ waiting' \subseteq waiting
  BY DEF SpinLock, SpinUnlock, schedule_timeout, UsleepOver, SpuriousWakeup
<1>2. SemInv'
  BY <1>1 DEF IInv, SemInv, Free, Owned, semVars
<1>3. LockTypeOK' /\ LockInv' /\ op' \in [Threads -> Ops] /\ SleepInv'
  <2>1. CASE SpinLock(t) \/ SpinUnlock(t)
    BY <1>1, <2>1, SpinLockStep
       DEF IInv, TypeOK, SpinLock, SpinUnlock, SleepInv, semVars
  <2>2. CASE schedule_timeout(t)
    <3>1. op' = [op EXCEPT ![t] = Usleep] /\ waiting' = waiting
      BY <2>2 DEF schedule_timeout
    <3>2. Usleep # NoOp /\ Usleep.fn = "schedule_timeout"
      BY DEF Usleep, NoOp
    <3>3. LockTypeOK' /\ LockInv'
      BY <2>2, <3>1, <3>2, SleepLock DEF IInv, TypeOK, schedule_timeout
    <3>4. t \notin waiting
      BY <2>2 DEF IInv, SleepInv, schedule_timeout, Idle, NoOp, Calls
    <3> QED BY <1>1, <3>1, <3>3, <3>4 DEF IInv, TypeOK, SleepInv, semVars, Ops
  <2>3. CASE UsleepOver(t)
    <3>1. op' = [op EXCEPT ![t] = NoOp] /\ waiting' = waiting
      BY <2>3 DEF UsleepOver
    <3>2. op[t] # NoOp
      BY <2>3 DEF UsleepOver, NoOp
    <3>3. LockTypeOK' /\ LockInv'
      BY <2>3, <3>1, <3>2, WakeLock DEF IInv, TypeOK, UsleepOver, Idle
    <3>4. t \notin waiting
      BY <2>3 DEF IInv, SleepInv, UsleepOver, Calls
    <3> QED BY <1>1, <3>1, <3>3, <3>4 DEF IInv, TypeOK, SleepInv, semVars, Ops
  <2>4. CASE SpuriousWakeup(t)
    BY <2>4 DEF SpuriousWakeup, IInv, TypeOK, LockTypeOK, LockInv, SleepInv,
                lockVars, semVars, Idle
  <2> QED BY <2>1, <2>2, <2>3, <2>4
<1>4. TypeOK'
  BY <1>1, <1>3 DEF IInv, TypeOK, semVars
<1> QED BY <1>2, <1>3, <1>4 DEF IInv

-----------------------------------------------------------------------------
LEMMA InitIInv == Init => IInv
<1> USE MutexAssumption, MaxSpinAssumption
<1> SUFFICES ASSUME Init PROVE IInv
  OBVIOUS
<1>1. TypeOK
  BY DEF Init, LockInit, sema_init, TypeOK, LockTypeOK, Objects, Ops
<1>2. LockInv
  BY DEF Init, LockInit, LockInv, Idle
<1>3. SleepInv
  BY DEF Init, SleepInv
<1>4. SemInv
  BY DEF Init, sema_init, SemInv, Free, Objects
<1> QED BY <1>1, <1>2, <1>3, <1>4 DEF IInv

LEMMA NextIInv == IInv /\ [Next]_vars => IInv'
<1> SUFFICES ASSUME IInv, [Next]_vars PROVE IInv'
  OBVIOUS
<1>1. CASE UNCHANGED vars
  BY <1>1 DEF vars, lockVars, semVars, IInv, TypeOK, LockTypeOK, LockInv, SleepInv,
              SemInv, Free, Owned, Idle
<1>2. ASSUME NEW t \in Threads, Step(t) PROVE IInv'
  <2>1. CASE \/ SpinLock(t) \/ SpinUnlock(t)
             \/ schedule_timeout(t) \/ UsleepOver(t) \/ SpuriousWakeup(t)
    BY <2>1, OtherStepsKeep
  <2>2. CASE Woken(t)
    BY <2>2, WokenKeeps
  <2>3. ASSUME NEW m \in Mutexes, mutex_lock(t, m) PROVE IInv'
    BY <2>3, RelockKeeps, DownKeeps DEF mutex_lock, Calls, Objects
  <2>4. ASSUME NEW m \in Mutexes, mutex_trylock(t, m) PROVE IInv'
    <3>1. CASE Relock(t, m)
      BY <3>1, RelockKeeps
    <3>2. CASE owner[m] = MUTEX_NO_OWNER /\ DownBy(t, "mutex_trylock", m)
      <4>1. value[m] > 0
        BY <3>2, MutexAssumption DEF IInv, SemInv, Free, Owned
      <4> QED BY <2>4, <3>2, <4>1, DownKeeps DEF mutex_trylock, Calls, Objects
    <3>3. CASE Section(t) /\ UNCHANGED <<semVars, op, waiting, held>>
      BY <3>3 DEF Section, lockVars, semVars, IInv, TypeOK, LockTypeOK, LockInv, SleepInv,
              SemInv, Free, Owned, Idle
    <3> QED BY <2>4, <3>1, <3>2, <3>3 DEF mutex_trylock
  <2>5. ASSUME NEW m \in Mutexes, mutex_unlock(t, m) PROVE IInv'
    BY <2>5, UnlockKeeps
  <2>6. ASSUME NEW s \in Sems, down(t, s) PROVE IInv'
    BY <2>6, DownKeeps DEF down, Calls, Objects
  <2>7. ASSUME NEW s \in Sems, down_trylock(t, s) PROVE IInv'
    <3>1. CASE value[s] > 0 /\ DownBy(t, "down_trylock", s)
      BY <2>7, <3>1, DownKeeps DEF down_trylock, Calls, Objects
    <3>2. CASE Section(t) /\ UNCHANGED <<semVars, op, waiting, held>>
      BY <3>2 DEF Section, lockVars, semVars, IInv, TypeOK, LockTypeOK, LockInv, SleepInv,
              SemInv, Free, Owned, Idle
    <3> QED BY <2>7, <3>1, <3>2 DEF down_trylock
  <2>8. ASSUME NEW s \in Sems, up(t, s) PROVE IInv'
    BY <2>8, UpKeeps
  <2> QED BY <1>2, <2>1, <2>2, <2>3, <2>4, <2>5, <2>6, <2>7, <2>8 DEF Step
<1> QED BY <1>1, <1>2 DEF Next

THEOREM Invariant == Spec => []IInv
BY InitIInv, NextIInv, PTL DEF Spec

(* Type correctness of the locks and semaphores of linux_thread.c.         *)
THEOREM TypeCorrect == Spec => []TypeOK
<1>1. IInv => TypeOK
  BY DEF IInv
<1> QED BY <1>1, Invariant, PTL

(* Sleeping and waking leave atomic_recurse and the pthread recursion      *)
(* count where the program's own atomic_lock() calls put them.             *)
THEOREM DepthIsRestored == Spec => []DepthRestored
<1>1. IInv => DepthRestored
  BY RecurseIsHold DEF IInv, LockInv, DepthRestored, TypeOK
<1> QED BY <1>1, Invariant, PTL

(* No thread sleeps with the one lock of the daemon in its hands.          *)
THEOREM SleepersAreClean == Spec => []SleepersHoldNothing
<1>1. IInv => SleepersHoldNothing
  BY DEF IInv, LockInv, SleepersHoldNothing
<1> QED BY <1>1, Invariant, PTL

(* mutex_lock() excludes: two callers never both believe they hold it.     *)
THEOREM MutexExcludes == Spec => []MutualExclusion
<1>1. IInv => MutualExclusion
  <2> SUFFICES ASSUME IInv, NEW m \in Mutexes, NEW t \in Threads, held[t][m] > 0
               PROVE  /\ owner[m] = t
                      /\ value[m] = 1 - held[t][m]
                      /\ \A u \in Threads \ {t} : held[u][m] = 0
    BY DEF MutualExclusion
  <2>1. held[t][m] \in Nat /\ value[m] \in Int
    BY DEF IInv, TypeOK, Objects
  <2>2. Owned(m) /\ owner[m] = t
    BY <2>1 DEF IInv, SemInv, Free, Owned
  <2> QED BY <2>1, <2>2 DEF Owned
<1> QED BY <1>1, Invariant, PTL

(* mutex_trylock() and down_trylock() never reach the sleep in down().     *)
THEOREM TrylockReturns == Spec => []TrylockNeverSleeps
<1>1. IInv => TrylockNeverSleeps
  <2> SUFFICES ASSUME IInv, NEW t \in Threads
               PROVE  op[t].fn \notin {"mutex_trylock", "down_trylock"}
    BY DEF TrylockNeverSleeps
  <2>1. NoOp.fn = "none" /\ Usleep.fn = "schedule_timeout"
    BY DEF NoOp, Usleep
  <2> QED BY <2>1 DEF IInv, SleepInv
<1> QED BY <1>1, Invariant, PTL

(* The broadcast of up() at value one is enough for every sleeper.         *)
THEOREM WakeupsArrive == Spec => []NoLostWakeup
<1>1. IInv => NoLostWakeup
  BY DEF IInv, SleepInv, NoLostWakeup
<1> QED BY <1>1, Invariant, PTL

(* down() never takes more than up() and sema_init() gave.                 *)
THEOREM SemaphoresHold == Spec => []NeverOverdrawn
<1>1. IInv => NeverOverdrawn
  BY DEF IInv, SemInv, NeverOverdrawn
<1> QED BY <1>1, Invariant, PTL

-----------------------------------------------------------------------------
(* Refinement: the fields owner and value of a mutex are a recursive lock. *)
Holder == [m \in Mutexes |-> owner[m]]
Depth == [m \in Mutexes |-> 1 - value[m]]

(* Only the fields of mutexes matter to the abstract lock.                 *)
LEMMA MutexesUntouched ==
    ASSUME \A m \in Mutexes : owner'[m] = owner[m] /\ value'[m] = value[m]
    PROVE  UNCHANGED <<Holder, Depth>>
BY DEF Holder, Depth

(* A step that changes the fields of one mutex changes both functions at   *)
(* that mutex only.                                                        *)
LEMMA OneMutexChanges ==
    ASSUME NEW m \in Mutexes,
           \A n \in Mutexes \ {m} : owner'[n] = owner[n] /\ value'[n] = value[n]
    PROVE  /\ Holder' = [Holder EXCEPT ![m] = owner'[m]]
           /\ Depth' = [Depth EXCEPT ![m] = 1 - value'[m]]
BY DEF Holder, Depth

LEMMA TakeRefines ==
    ASSUME IInv, NEW t \in Threads, NEW fn \in Calls, NEW s \in Objects,
           \/ fn \in {"down", "down_trylock"} /\ s \in Sems
           \/ fn \in {"mutex_lock", "mutex_trylock"} /\ s \in Mutexes,
           value[s] > 0, Take(t, fn, s)
    PROVE  Abs!Next \/ UNCHANGED <<Holder, Depth>>
<1> USE MutexAssumption
<1>1. CASE s \in Sems
  BY <1>1, MutexesUntouched DEF Take, IInv, TypeOK, Objects
<1>2. CASE s \in Mutexes
  <2>1. /\ value' = [value EXCEPT ![s] = @ - 1]
        /\ owner' = [owner EXCEPT ![s] = t]
    BY <1>2 DEF Take
  <2>2. value[s] = 1 /\ owner[s] = MUTEX_NO_OWNER
    BY <1>2 DEF IInv, SemInv, Free, Owned, TypeOK, Objects
  <2>3. Holder[s] = MUTEX_NO_OWNER /\ Depth[s] = 0
    BY <1>2, <2>2 DEF Holder, Depth
  <2>4. Holder' = [Holder EXCEPT ![s] = t] /\ Depth' = [Depth EXCEPT ![s] = @ + 1]
    <3>1. owner'[s] = t /\ 1 - value'[s] = Depth[s] + 1
      BY <1>2, <2>1, <2>2, <2>3 DEF IInv, TypeOK, Objects
    <3>2. \A n \in Mutexes \ {s} : owner'[n] = owner[n] /\ value'[n] = value[n]
      BY <2>1 DEF IInv, TypeOK, Objects
    <3> QED BY <1>2, <3>1, <3>2, OneMutexChanges, Zenon
  <2>5. Abs!Acquire(t, s)
    BY <2>3, <2>4 DEF Abs!Acquire, Holder, Depth
  <2> QED BY <1>2, <2>5 DEF Abs!Next
<1> QED BY <1>1, <1>2 DEF Objects

LEMMA RelockRefines ==
    ASSUME IInv, NEW t \in Threads, NEW m \in Mutexes, Relock(t, m)
    PROVE  Abs!Next
<1> USE MutexAssumption
<1>1. /\ value' = [value EXCEPT ![m] = @ - 1]
      /\ owner' = owner /\ owner[m] = t
  BY DEF Relock
<1>2. value[m] <= 0 /\ value[m] \in Int
  BY <1>1 DEF IInv, SemInv, Free, Owned, TypeOK, Objects
<1>3. Holder[m] = t /\ Depth[m] > 0
  BY <1>1, <1>2 DEF Holder, Depth
<1>4. Holder' = [Holder EXCEPT ![m] = t] /\ Depth' = [Depth EXCEPT ![m] = @ + 1]
  <2>1. owner'[m] = t /\ 1 - value'[m] = Depth[m] + 1
    BY <1>1, <1>2 DEF IInv, TypeOK, Objects, Depth
  <2>2. \A n \in Mutexes \ {m} : owner'[n] = owner[n] /\ value'[n] = value[n]
    BY <1>1 DEF IInv, TypeOK, Objects
  <2> QED BY <2>1, <2>2, OneMutexChanges, Zenon
<1>5. Abs!Acquire(t, m)
  BY <1>3, <1>4 DEF Abs!Acquire, Holder, Depth
<1> QED BY <1>5 DEF Abs!Next

LEMMA UnlockRefines ==
    ASSUME IInv, NEW t \in Threads, NEW m \in Mutexes, mutex_unlock(t, m)
    PROVE  Abs!Next \/ UNCHANGED <<Holder, Depth>>
<1> USE MutexAssumption
<1> DEFINE v == value[m] + 1
<1>1. /\ value' = [value EXCEPT ![m] = IF v > 0 THEN 1 ELSE v]
      /\ owner' = IF v > 0 THEN [owner EXCEPT ![m] = MUTEX_NO_OWNER] ELSE owner
      /\ held[t][m] > 0 \/ \A u \in Threads : held[u][m] = 0
  BY DEF mutex_unlock, Unlocked, ClearsOwner
<1>2. CASE Free(m)
  <2>1. value' = value /\ owner' = owner
    BY <1>1, <1>2 DEF Free, IInv, TypeOK, Objects
  <2> QED BY <2>1, MutexesUntouched
<1>3. CASE Owned(m)
  <2>1. held[t][m] \in Nat /\ value[m] \in Int
    BY DEF IInv, TypeOK, Objects
  <2>2. owner[m] = t /\ value[m] <= 0
    BY <1>1, <1>3, <2>1 DEF Owned
  <2>3. Holder[m] = t /\ Depth[m] > 0 /\ Depth[m] = 1 - value[m]
    BY <2>1, <2>2 DEF Holder, Depth
  <2>4. 1 - value'[m] = Depth[m] - 1
    BY <1>1, <2>1, <2>2, <2>3 DEF IInv, TypeOK, Objects
  <2>5. owner'[m] = IF Depth[m] = 1 THEN MUTEX_NO_OWNER ELSE t
    BY <1>1, <2>1, <2>2, <2>3 DEF IInv, TypeOK, Objects
  <2>6. \A n \in Mutexes \ {m} : owner'[n] = owner[n] /\ value'[n] = value[n]
    BY <1>1 DEF IInv, TypeOK, Objects
  <2>7. /\ Depth' = [Depth EXCEPT ![m] = @ - 1]
        /\ Holder' = [Holder EXCEPT ![m] = IF Depth[m] = 1 THEN MUTEX_NO_OWNER ELSE t]
    BY <2>4, <2>5, <2>6, OneMutexChanges, Zenon
  <2>8. Abs!Release(t, m)
    BY <2>3, <2>7 DEF Abs!Release, Holder, Depth
  <2> QED BY <2>8 DEF Abs!Next
<1> QED BY <1>2, <1>3 DEF IInv, SemInv

LEMMA DownRefines ==
    ASSUME IInv, NEW t \in Threads, NEW fn \in Calls, NEW s \in Objects,
           \/ fn \in {"down", "down_trylock"} /\ s \in Sems
           \/ fn \in {"mutex_lock", "mutex_trylock"} /\ s \in Mutexes,
           DownBy(t, fn, s)
    PROVE  Abs!Next \/ UNCHANGED <<Holder, Depth>>
<1>1. CASE value[s] > 0
  BY <1>1, TakeRefines DEF DownBy, IInv, TypeOK
<1>2. CASE ~(value[s] > 0)
  BY <1>2, MutexesUntouched DEF DownBy, semVars
<1> QED BY <1>1, <1>2

LEMMA StepRefines ==
    ASSUME IInv, NEW t \in Threads, Step(t)
    PROVE  Abs!Next \/ UNCHANGED <<Holder, Depth>>
<1>1. CASE \/ SpinLock(t) \/ SpinUnlock(t)
           \/ schedule_timeout(t) \/ UsleepOver(t) \/ SpuriousWakeup(t)
  BY <1>1, MutexesUntouched
     DEF SpinLock, SpinUnlock, schedule_timeout, UsleepOver, SpuriousWakeup, semVars
<1>2. CASE Woken(t)
  <2>1. /\ op[t].fn \in Calls
        /\ op[t].on \in Objects
        /\ \/ op[t].fn = "down" /\ op[t].on \in Sems
           \/ op[t].fn = "mutex_lock" /\ op[t].on \in Mutexes
    <3>1. op[t] # NoOp /\ op[t] # Usleep
      BY <1>2 DEF Woken, Calls, NoOp, Usleep
    <3>2. \/ op[t].fn = "down" /\ op[t].on \in Sems
          \/ op[t].fn = "mutex_lock" /\ op[t].on \in Mutexes
      BY <3>1 DEF IInv, SleepInv
    <3> QED BY <3>2 DEF Calls, Objects
  <2>2. CASE StillBlocked(t)
    BY <1>2, <2>2, MutexesUntouched DEF Woken, semVars
  <2>3. CASE ~StillBlocked(t)
    <3>1. value[op[t].on] > 0
      BY <2>1, <2>3 DEF StillBlocked, IInv, TypeOK
    <3> QED BY <1>2, <2>1, <2>3, <3>1, TakeRefines DEF Woken
  <2> QED BY <2>2, <2>3
<1>3. ASSUME NEW m \in Mutexes, mutex_lock(t, m)
      PROVE  Abs!Next \/ UNCHANGED <<Holder, Depth>>
  BY <1>3, RelockRefines, DownRefines DEF mutex_lock, Calls, Objects
<1>4. ASSUME NEW m \in Mutexes, mutex_trylock(t, m)
      PROVE  Abs!Next \/ UNCHANGED <<Holder, Depth>>
  <2>1. CASE semVars' = semVars
    BY <2>1, MutexesUntouched DEF semVars
  <2> QED BY <1>4, <2>1, RelockRefines, DownRefines DEF mutex_trylock, Calls, Objects
<1>5. ASSUME NEW m \in Mutexes, mutex_unlock(t, m)
      PROVE  Abs!Next \/ UNCHANGED <<Holder, Depth>>
  BY <1>5, UnlockRefines
<1>6. ASSUME NEW s \in Sems, down(t, s) \/ down_trylock(t, s)
      PROVE  Abs!Next \/ UNCHANGED <<Holder, Depth>>
  <2>1. CASE semVars' = semVars
    BY <2>1, MutexesUntouched DEF semVars
  <2> QED BY <1>6, <2>1, DownRefines DEF down, down_trylock, Calls, Objects
<1>7. ASSUME NEW s \in Sems, up(t, s)
      PROVE  Abs!Next \/ UNCHANGED <<Holder, Depth>>
  BY <1>7, MutexAssumption, MutexesUntouched DEF up, IInv, TypeOK, Objects
<1> QED BY <1>1, <1>2, <1>3, <1>4, <1>5, <1>6, <1>7 DEF Step

(* mutex_lock(), mutex_trylock() and mutex_unlock() implement the          *)
(* recursive lock of RecursiveMutex, sleeping and waking included.         *)
THEOREM Implements == Spec => AbsSpec
<1>1. Init => Abs!Init
  BY DEF Init, sema_init, Abs!Init, Objects
<1>2. IInv /\ [Next]_vars => [Abs!Next]_(Abs!vars)
  <2>1. CASE UNCHANGED vars
    BY <2>1 DEF vars, semVars, Abs!vars
  <2>2. CASE Next
    BY <2>2, StepRefines DEF Next, Abs!vars, Holder, Depth
  <2> QED BY <2>1, <2>2
<1> QED BY <1>1, <1>2, Invariant, PTL DEF Spec, AbsSpec, Abs!Spec

(* Sleeping under the atomic lock is safe for any number of threads and    *)
(* any nesting of atomic sections.                                         *)
THEOREM SleepingIsSafe == Spec => []SleepSafe
  BY TypeCorrect, DepthIsRestored, SleepersAreClean, TrylockReturns, PTL DEF SleepSafe

(* Mutexes and semaphores exclude as their callers rely on. *)
THEOREM LocksExclude == Spec => []Exclusion
  BY MutexExcludes, SemaphoresHold, PTL DEF Exclusion

-----------------------------------------------------------------------------
(* WaitQueue: what its invariant speaks of. *)
WaitCalls == Waits \cup {Run(k) : k \in Kthreads} \cup {Stop(k) : k \in Kthreads} \cup {NoCall}

WaitTypeOK ==
    /\ done \in [Completions -> Nat]
    /\ ready \in [Queues -> BOOLEAN]
    /\ owed \subseteq Queues
    /\ sleep_count \in [WaitObjects -> Nat]
    /\ call \in [Sleepers -> WaitCalls]
    /\ sleep \in [Sleepers -> {"no", "asleep", "woken", "timedout"}]
    /\ signalled \subseteq Sleepers
    /\ urg \subseteq Kthreads
    /\ kthread \in [Kthreads -> {"none", "created", "installed", "running", "exited"}]
    /\ fd \in [Kthreads -> {"none", "func", "cleared"}]

(* The threads in a wait on an object, asleep or on their way out of it. *)
WaitersOf(o) == {t \in Sleepers : call[t].fn = "wait" /\ call[t].on = o}

(* q->sleep_count, which the code counts up and down around each           *)
(* pthread_cond_wait(), is the number of threads in a wait on the queue:   *)
(* waitqueue_active() never says that nobody sleeps when somebody does.    *)
CountRight == \A o \in WaitObjects : sleep_count[o] = Cardinality(WaitersOf(o))

(* Only a wait with a timeout times out. *)
TimedOutRight == \A t \in Sleepers : sleep[t] = "timedout" => call[t].fn = "wait"

(* fd->func is set exactly while kthread_wrapper() has not reported. *)
FdRight == \A k \in Kthreads : fd[k] = "func" <=> kthread[k] \in {"created", "installed"}

(* Who stops a kernel thread stops one that has reported, alone. *)
StopRight ==
    \A t \in Sleepers : call[t].fn = "kthread_stop" =>
        /\ kthread[call[t].on] \in {"running", "exited"}
        /\ \A u \in Sleepers : call[u] = call[t] => u = t

WaitInv ==
    /\ WaitTypeOK
    /\ CountRight
    /\ TimedOutRight
    /\ FdRight
    /\ StopRight
    /\ NoLostEvent
    /\ StopIsSeen

-----------------------------------------------------------------------------
(* What a call record may be. *)
LEMMA CallFacts ==
    /\ NoCall \in WaitCalls
    /\ NoCall.fn = "none" /\ NoCall.on = Nothing /\ NoCall.timed = FALSE
    /\ \A c \in Waits : c \in WaitCalls /\ c.fn = "wait" /\ c.on \in WaitObjects
    /\ \A k \in Kthreads : /\ Run(k) \in WaitCalls /\ Run(k).fn = "kthread_run" /\ Run(k).on = k
                           /\ Stop(k) \in WaitCalls /\ Stop(k).fn = "kthread_stop" /\ Stop(k).on = k
    /\ \A c \in WaitCalls :
                        /\ c.fn = "wait" => c \in Waits
                        /\ c.timed => c.fn = "wait"
                        /\ c.fn = "kthread_stop" => c.on \in Kthreads /\ c = Stop(c.on)
                        /\ c.fn = "kthread_run" => c.on \in Kthreads /\ c = Run(c.on)
  <1>1. /\ NoCall \in WaitCalls
        /\ NoCall.fn = "none" /\ NoCall.on = Nothing /\ NoCall.timed = FALSE
    BY DEF NoCall, WaitCalls
  <1>2. \A c \in Waits : c \in WaitCalls /\ c.fn = "wait" /\ c.on \in WaitObjects
    BY DEF Waits, Wait, WaitCalls
  <1>3. \A k \in Kthreads :
           /\ Run(k) \in WaitCalls /\ Run(k).fn = "kthread_run" /\ Run(k).on = k /\ Run(k).timed = FALSE
           /\ Stop(k) \in WaitCalls /\ Stop(k).fn = "kthread_stop" /\ Stop(k).on = k /\ Stop(k).timed = FALSE
    BY DEF Run, Stop, WaitCalls
  <1>4. ASSUME NEW c \in WaitCalls
        PROVE  /\ c.fn = "wait" => c \in Waits
               /\ c.timed => c.fn = "wait"
               /\ c.fn = "kthread_stop" => c.on \in Kthreads /\ c = Stop(c.on)
               /\ c.fn = "kthread_run" => c.on \in Kthreads /\ c = Run(c.on)
    <2>1. CASE c \in Waits
      BY <2>1, <1>2
    <2>2. CASE c = NoCall
      BY <2>2, <1>1
    <2>3. CASE \E k \in Kthreads : c = Run(k)
      BY <2>3, <1>3
    <2>4. CASE \E k \in Kthreads : c = Stop(k)
      BY <2>4, <1>3
    <2> QED
      BY <2>1, <2>2, <2>3, <2>4 DEF WaitCalls
  <1> QED
    BY <1>1, <1>2, <1>3, <1>4

LEMMA SetFacts ==
    /\ IsFiniteSet(Sleepers)
    /\ Callers \subseteq Sleepers /\ Kthreads \subseteq Sleepers /\ Callers \cap Kthreads = {}
    /\ Queues \subseteq WaitObjects /\ Completions \subseteq WaitObjects
    /\ Queues \cap Completions = {}
  BY WaitAssumption, FS_Union DEF Sleepers, WaitObjects

LEMMA WaitersFinite ==
    ASSUME NEW o
    PROVE  IsFiniteSet(WaitersOf(o))
  BY SetFacts, FS_Subset DEF WaitersOf

(* A change of one thread's call moves that thread only. *)
LEMMA WaitersMove ==
    ASSUME call \in [Sleepers -> WaitCalls], NEW t \in Sleepers, NEW c \in WaitCalls,
           call' = [call EXCEPT ![t] = c], NEW o
    PROVE  /\ c.fn = "wait" /\ c.on = o => WaitersOf(o)' = (WaitersOf(o) \ {t}) \cup {t}
           /\ ~(c.fn = "wait" /\ c.on = o) => WaitersOf(o)' = WaitersOf(o) \ {t}
  <1>1. \A u \in Sleepers : call'[u] = IF u = t THEN c ELSE call[u]
    OBVIOUS
  <1> QED
    BY <1>1 DEF WaitersOf

(* A call that is not a wait begins or ends: the counts stay right. *)
LEMMA CountFrame ==
    ASSUME WaitTypeOK, CountRight, NEW t \in Sleepers, NEW c \in WaitCalls,
           call' = [call EXCEPT ![t] = c], call[t].fn # "wait", c.fn # "wait",
           sleep_count' = sleep_count
    PROVE  CountRight'
  <1>1. \A o \in WaitObjects : WaitersOf(o)' = WaitersOf(o)
    <2> TAKE o \in WaitObjects
    <2>1. WaitersOf(o)' = WaitersOf(o) \ {t}
      BY WaitersMove DEF WaitTypeOK
    <2>2. t \notin WaitersOf(o)
      BY DEF WaitersOf
    <2> QED
      BY <2>1, <2>2
  <1> QED
    BY <1>1 DEF CountRight

LEMMA CountSame ==
    ASSUME CountRight, call' = call, sleep_count' = sleep_count
    PROVE  CountRight'
  BY DEF CountRight, WaitersOf

(* pthread_cond_broadcast() leaves nobody asleep. *)
LEMMA WakeAllFacts ==
    ASSUME WaitTypeOK, TimedOutRight, sleep' = WakeAll, call' = call
    PROVE  /\ sleep' \in [Sleepers -> {"no", "asleep", "woken", "timedout"}]
           /\ \A t \in Sleepers : sleep'[t] # "asleep"
           /\ TimedOutRight'
  BY DEF WaitTypeOK, TimedOutRight, WakeAll

(* The parts of the invariant about kernel threads depend on these. *)
LEMMA StopFrame ==
    ASSUME FdRight, StopRight, StopIsSeen, UNCHANGED <<call, threadVars>>
    PROVE  FdRight' /\ StopRight' /\ StopIsSeen'
  BY DEF FdRight, StopRight, StopIsSeen, threadVars

(* A thread goes from a call that is not kthread_stop() to another. *)
LEMMA StopMove ==
    ASSUME WaitTypeOK, FdRight, StopRight, StopIsSeen, NEW t \in Sleepers, NEW c \in WaitCalls,
           call' = [call EXCEPT ![t] = c], c.fn # "kthread_stop", UNCHANGED threadVars
    PROVE  FdRight' /\ StopRight' /\ StopIsSeen'
  <1>1. FdRight'
    BY DEF FdRight, threadVars
  <1>2. \A u \in Sleepers : /\ call'[u] = call[u] \/ u = t
                            /\ u = t => call'[u] = c
    BY DEF WaitTypeOK
  <1>3. StopRight'
    BY <1>2 DEF StopRight, threadVars
  <1>4. StopIsSeen'
    BY <1>2 DEF StopIsSeen, threadVars
  <1> QED
    BY <1>1, <1>3, <1>4

-----------------------------------------------------------------------------
(* The loop of a wait, entered for the first time or again. *)
LEMMA LoopKeeps ==
    ASSUME WaitInv, NEW t \in Sleepers, NEW c \in Waits, NEW n \in [WaitObjects -> Nat],
           WaitLoop(t, c, n), UNCHANGED <<ready, owed, threadVars>>,
           \A o \in WaitObjects : n[o] = Cardinality(WaitersOf(o) \ {t})
    PROVE  WaitInv'
  <1> USE DEF WaitInv
  <1>c. c \in WaitCalls /\ c.fn = "wait" /\ c.on \in WaitObjects /\ NoCall \in WaitCalls /\ NoCall.fn = "none"
    BY CallFacts
  <1>0. UNCHANGED <<ready, owed, signalled, urg, kthread, fd>>
    BY DEF threadVars
  <1>1. CASE /\ call' = [call EXCEPT ![t] = NoCall]
             /\ sleep' = [sleep EXCEPT ![t] = "no"]
             /\ sleep_count' = n
             /\ \/ Available(c.on) /\ done' = [x \in Completions |-> IF x = c.on THEN done[x] - 1 ELSE done[x]]
                \/ done' = done
    <2>1. done' \in [Completions -> Nat] /\ \A x \in Completions : done'[x] # 0 => done[x] # 0
      BY <1>1 DEF WaitTypeOK, Available
    <2>2. WaitTypeOK'
      BY <1>1, <1>c, <1>0, <2>1 DEF WaitTypeOK
    <2>3. CountRight'
      <3>1. \A o \in WaitObjects : WaitersOf(o)' = WaitersOf(o) \ {t}
        BY <1>1, <1>c, WaitersMove DEF WaitTypeOK
      <3> QED
        BY <3>1, <1>1 DEF CountRight
    <2>4. \A u \in Sleepers : /\ u = t => call'[u] = NoCall /\ sleep'[u] = "no"
                              /\ u # t => call'[u] = call[u] /\ sleep'[u] = sleep[u]
      BY <1>1 DEF WaitTypeOK
    <2>5. TimedOutRight'
      BY <2>4 DEF TimedOutRight
    <2>6. FdRight' /\ StopRight' /\ StopIsSeen'
      BY <1>1, <1>c, StopMove
    <2>7. \A o \in WaitObjects : Available(o)' => Available(o)
      BY <2>1, <1>0 DEF Available, WaitObjects
    <2>8. NoLostEvent'
      <3> SUFFICES ASSUME NEW u \in Sleepers, call'[u].fn = "wait", sleep'[u] = "asleep",
                          Available(call[u].on)'
                   PROVE  call'[u].on \in owed
        BY <1>0 DEF NoLostEvent
      <3>1. u # t
        BY <2>4, <1>c
      <3>2. call[u].on \in WaitObjects
        BY <3>1, <2>4, CallFacts DEF WaitTypeOK
      <3> QED
        BY <3>1, <3>2, <2>4, <2>7 DEF NoLostEvent
    <2> QED
      BY <2>2, <2>3, <2>5, <2>6, <2>8
  <1>2. CASE /\ ~Available(c.on)
             /\ call' = [call EXCEPT ![t] = c]
             /\ sleep' = [sleep EXCEPT ![t] = "asleep"]
             /\ sleep_count' = CountUp(n, c.on)
             /\ done' = done
    <2>1. WaitTypeOK'
      BY <1>2, <1>c, <1>0 DEF WaitTypeOK, CountUp
    <2>2. CountRight'
      <3> SUFFICES ASSUME NEW o \in WaitObjects
                   PROVE  sleep_count'[o] = Cardinality(WaitersOf(o)')
        BY DEF CountRight
      <3>1. CASE o = c.on
        <4>1. WaitersOf(o)' = (WaitersOf(o) \ {t}) \cup {t}
          BY <3>1, <1>2, <1>c, WaitersMove DEF WaitTypeOK
        <4>2. IsFiniteSet(WaitersOf(o) \ {t})
          BY WaitersFinite, FS_Subset
        <4>3. Cardinality(WaitersOf(o)') = Cardinality(WaitersOf(o) \ {t}) + 1
          BY <4>1, <4>2, FS_AddElement
        <4> QED
          BY <4>3, <3>1, <1>2 DEF CountUp
      <3>2. CASE o # c.on
        <4>1. WaitersOf(o)' = WaitersOf(o) \ {t}
          BY <3>2, <1>2, <1>c, WaitersMove DEF WaitTypeOK
        <4> QED
          BY <4>1, <3>2, <1>2, <1>c DEF CountUp
      <3> QED
        BY <3>1, <3>2
    <2>4. \A u \in Sleepers : /\ u = t => call'[u] = c /\ sleep'[u] = "asleep"
                              /\ u # t => call'[u] = call[u] /\ sleep'[u] = sleep[u]
      BY <1>2 DEF WaitTypeOK
    <2>5. TimedOutRight'
      BY <2>4 DEF TimedOutRight
    <2>6. FdRight' /\ StopRight' /\ StopIsSeen'
      BY <1>2, <1>c, StopMove
    <2>7. \A o : Available(o)' = Available(o)
      BY <1>2, <1>0 DEF Available
    <2>8. NoLostEvent'
      BY <2>4, <2>7, <1>0, <1>2 DEF NoLostEvent, Available
    <2> QED
      BY <2>1, <2>2, <2>5, <2>6, <2>8
  <1> QED
    BY <1>1, <1>2 DEF WaitLoop

(* wait_event() and its variants, wait_for_completion() and its variants. *)
LEMMA WaitEventKeeps ==
    ASSUME WaitInv, NEW t \in Sleepers, NEW c \in Waits, wait_event(t, c)
    PROVE  WaitInv'
  <1>1. call[t].fn = "none"
    BY CallFacts DEF wait_event, NotWaiting
  <1>2. \A o \in WaitObjects : WaitersOf(o) \ {t} = WaitersOf(o)
    BY <1>1 DEF WaitersOf
  <1>3. \A o \in WaitObjects : sleep_count[o] = Cardinality(WaitersOf(o) \ {t})
    BY <1>2 DEF WaitInv, CountRight
  <1>4. sleep_count \in [WaitObjects -> Nat]
    BY DEF WaitInv, WaitTypeOK
  <1> QED
    BY <1>3, <1>4, LoopKeeps DEF wait_event

(* A thread that leaves a wait takes itself out of sleep_count. *)
LEMMA CountsDown ==
    ASSUME WaitTypeOK, CountRight, NEW t \in Sleepers, call[t].fn = "wait"
    PROVE  /\ CountDown(call[t].on) \in [WaitObjects -> Nat]
           /\ \A o \in WaitObjects : CountDown(call[t].on)[o] = Cardinality(WaitersOf(o) \ {t})
  <1> DEFINE p == call[t].on
  <1>1. p \in WaitObjects
    BY CallFacts DEF WaitTypeOK
  <1>2. t \in WaitersOf(p)
    BY DEF WaitersOf
  <1>3. Cardinality(WaitersOf(p) \ {t}) = sleep_count[p] - 1 /\ Cardinality(WaitersOf(p) \ {t}) \in Nat
    <2>1. IsFiniteSet(WaitersOf(p))
      BY WaitersFinite
    <2>2. Cardinality(WaitersOf(p) \ {t}) = Cardinality(WaitersOf(p)) - 1
      BY <2>1, <1>2, FS_RemoveElement
    <2>3. IsFiniteSet(WaitersOf(p) \ {t})
      BY <2>1, FS_Subset
    <2>4. Cardinality(WaitersOf(p) \ {t}) \in Nat
      BY <2>3, FS_CardinalityType
    <2> QED
      BY <2>2, <2>4, <1>1 DEF CountRight
  <1>4. \A o \in WaitObjects : o # p => WaitersOf(o) \ {t} = WaitersOf(o)
    BY DEF WaitersOf
  <1>5. CountDown(p) = [sleep_count EXCEPT ![p] = sleep_count[p] - 1]
    BY <1>1 DEF CountDown, WaitTypeOK
  <1> HIDE DEF p
  <1>6. CountDown(p) \in [WaitObjects -> Nat]
    BY <1>1, <1>3, <1>5 DEF WaitTypeOK
  <1>7. \A o \in WaitObjects : CountDown(p)[o] = Cardinality(WaitersOf(o) \ {t})
    BY <1>1, <1>3, <1>4, <1>5 DEF WaitTypeOK, CountRight
  <1> QED
    BY <1>6, <1>7 DEF p

LEMMA WaitWokenKeeps ==
    ASSUME WaitInv, NEW t \in Sleepers, WaitWoken(t)
    PROVE  WaitInv'
  <1>1. call[t].fn = "wait" /\ call[t] \in Waits
    BY CallFacts DEF WaitWoken, WaitInv, WaitTypeOK
  <1>2. /\ CountDown(call[t].on) \in [WaitObjects -> Nat]
        /\ \A o \in WaitObjects : CountDown(call[t].on)[o] = Cardinality(WaitersOf(o) \ {t})
    BY <1>1, CountsDown DEF WaitInv
  <1> QED
    BY <1>1, <1>2, LoopKeeps DEF WaitWoken

LEMMA TimesOutKeeps ==
    ASSUME WaitInv, NEW t \in Sleepers, TimesOut(t)
    PROVE  WaitInv'
  <1> USE DEF WaitInv
  <1>1. /\ UNCHANGED <<done, ready, owed, sleep_count, call, signalled, urg, kthread, fd>>
        /\ sleep' = [sleep EXCEPT ![t] = "timedout"] /\ call[t].timed
    BY DEF TimesOut, condVars, threadVars
  <1>2. WaitTypeOK'
    BY <1>1 DEF WaitTypeOK
  <1>3. \A u \in Sleepers : sleep'[u] = IF u = t THEN "timedout" ELSE sleep[u]
    BY <1>1 DEF WaitTypeOK
  <1>4. call[t].fn = "wait"
    BY <1>1, CallFacts DEF WaitTypeOK
  <1>5. TimedOutRight'
    BY <1>1, <1>3, <1>4 DEF TimedOutRight
  <1>6. NoLostEvent'
    BY <1>1, <1>3 DEF NoLostEvent, Available
  <1>7. FdRight' /\ StopRight' /\ StopIsSeen'
    BY <1>1, StopFrame DEF threadVars
  <1> QED
    BY <1>1, <1>2, <1>5, <1>6, <1>7, CountSame

LEMMA TimedOutKeeps ==
    ASSUME WaitInv, NEW t \in Sleepers, WaitTimedOut(t)
    PROVE  WaitInv'
  <1> USE DEF WaitInv
  <1>1. /\ UNCHANGED <<done, ready, owed, signalled, urg, kthread, fd>>
        /\ sleep[t] = "timedout"
        /\ sleep' = [sleep EXCEPT ![t] = "no"] /\ call' = [call EXCEPT ![t] = NoCall]
        /\ sleep_count' = CountDown(call[t].on)
    BY DEF WaitTimedOut, condVars, threadVars
  <1>2. call[t].fn = "wait"
    BY <1>1 DEF TimedOutRight
  <1>3. /\ sleep_count' \in [WaitObjects -> Nat]
        /\ \A o \in WaitObjects : sleep_count'[o] = Cardinality(WaitersOf(o) \ {t})
    BY <1>1, <1>2, CountsDown
  <1>4. NoCall \in WaitCalls /\ NoCall.fn = "none"
    BY CallFacts
  <1>5. WaitTypeOK'
    BY <1>1, <1>3, <1>4 DEF WaitTypeOK
  <1>6. \A u \in Sleepers : /\ u = t => call'[u] = NoCall /\ sleep'[u] = "no"
                            /\ u # t => call'[u] = call[u] /\ sleep'[u] = sleep[u]
    BY <1>1 DEF WaitTypeOK
  <1>7. CountRight'
    <2>1. \A o \in WaitObjects : WaitersOf(o)' = WaitersOf(o) \ {t}
      BY <1>1, <1>4, WaitersMove DEF WaitTypeOK
    <2> QED
      BY <2>1, <1>3 DEF CountRight
  <1>8. TimedOutRight'
    BY <1>6 DEF TimedOutRight
  <1>9. FdRight' /\ StopRight' /\ StopIsSeen'
    BY <1>1, <1>4, StopMove DEF threadVars
  <1>10. NoLostEvent'
    BY <1>1, <1>4, <1>6 DEF NoLostEvent, Available
  <1> QED
    BY <1>5, <1>7, <1>8, <1>9, <1>10

-----------------------------------------------------------------------------
(* Conditions, completions and broadcasts. *)
LEMMA SetConditionKeeps ==
    ASSUME WaitInv, NEW q \in Queues, SetCondition(q)
    PROVE  WaitInv'
  <1> USE DEF WaitInv
  <1>1. /\ UNCHANGED <<done, sleep_count, call, sleep, signalled, urg, kthread, fd>>
        /\ ready' = [ready EXCEPT ![q] = TRUE] /\ owed' = owed \cup {q}
    BY DEF SetCondition, threadVars
  <1>2. WaitTypeOK' /\ TimedOutRight'
    BY <1>1 DEF WaitTypeOK, TimedOutRight
  <1>3. \A o \in WaitObjects : Available(o)' => Available(o) \/ o = q
    BY <1>1 DEF Available, WaitTypeOK, WaitObjects
  <1>4. NoLostEvent'
    <2> SUFFICES ASSUME NEW u \in Sleepers, call[u].fn = "wait", sleep[u] = "asleep",
                        Available(call[u].on)'
                 PROVE  call[u].on \in owed'
      BY <1>1 DEF NoLostEvent
    <2>1. call[u].on \in WaitObjects
      BY CallFacts DEF WaitTypeOK
    <2> QED
      BY <2>1, <1>1, <1>3 DEF NoLostEvent
  <1>5. FdRight' /\ StopRight' /\ StopIsSeen'
    BY <1>1, StopFrame DEF threadVars
  <1> QED
    BY <1>1, <1>2, <1>4, <1>5, CountSame

(* wake_up() may be skipped only when nobody is in a wait on the queue. *)
LEMMA WakeUpKeeps ==
    ASSUME WaitInv, NEW q \in Queues, wake_up(q)
    PROVE  WaitInv'
  <1> USE DEF WaitInv
  <1>1. /\ UNCHANGED <<done, ready, sleep_count, call, signalled, urg, kthread, fd>>
        /\ owed' = owed \ {q}
        /\ sleep' = WakeAll \/ (sleep_count[q] = 0 /\ sleep' = sleep)
    BY DEF wake_up, waitqueue_active, threadVars
  <1>2. FdRight' /\ StopRight' /\ StopIsSeen'
    BY <1>1, StopFrame DEF threadVars
  <1>3. CASE sleep' = WakeAll
    <2>1. /\ sleep' \in [Sleepers -> {"no", "asleep", "woken", "timedout"}]
          /\ \A t \in Sleepers : sleep'[t] # "asleep"
          /\ TimedOutRight'
      BY <1>1, <1>3, WakeAllFacts
    <2>2. WaitTypeOK'
      BY <1>1, <2>1 DEF WaitTypeOK
    <2>3. NoLostEvent'
      BY <2>1 DEF NoLostEvent
    <2> QED
      BY <1>1, <1>2, <2>1, <2>2, <2>3, CountSame
  <1>4. CASE sleep_count[q] = 0 /\ sleep' = sleep
    <2>1. WaitTypeOK' /\ TimedOutRight'
      BY <1>1, <1>4 DEF WaitTypeOK, TimedOutRight
    <2>2. WaitersOf(q) = {}
      <3>1. q \in WaitObjects
        BY SetFacts
      <3>2. Cardinality(WaitersOf(q)) = 0
        BY <3>1, <1>4 DEF CountRight
      <3> QED
        BY <3>2, WaitersFinite, FS_EmptySet
    <2>3. NoLostEvent'
      BY <1>1, <1>4, <2>2 DEF NoLostEvent, Available, WaitersOf
    <2> QED
      BY <1>1, <1>2, <2>1, <2>3, CountSame
  <1> QED
    BY <1>1, <1>3, <1>4

LEMMA ResetConditionKeeps ==
    ASSUME WaitInv, NEW q \in Queues, ResetCondition(q)
    PROVE  WaitInv'
  <1> USE DEF WaitInv
  <1>1. /\ UNCHANGED <<done, owed, sleep_count, call, sleep, signalled, urg, kthread, fd>>
        /\ ready' = [ready EXCEPT ![q] = FALSE]
    BY DEF ResetCondition, threadVars
  <1>2. WaitTypeOK' /\ TimedOutRight'
    BY <1>1 DEF WaitTypeOK, TimedOutRight
  <1>3. \A o \in WaitObjects : Available(o)' => Available(o)
    BY <1>1 DEF Available, WaitTypeOK, WaitObjects
  <1>4. NoLostEvent'
    <2> SUFFICES ASSUME NEW u \in Sleepers, call[u].fn = "wait", sleep[u] = "asleep",
                        Available(call[u].on)'
                 PROVE  call[u].on \in owed
      BY <1>1 DEF NoLostEvent
    <2>1. call[u].on \in WaitObjects
      BY CallFacts DEF WaitTypeOK
    <2> QED
      BY <2>1, <1>1, <1>3 DEF NoLostEvent
  <1>5. FdRight' /\ StopRight' /\ StopIsSeen'
    BY <1>1, StopFrame DEF threadVars
  <1> QED
    BY <1>1, <1>2, <1>4, <1>5, CountSame

LEMMA CompleteKeeps ==
    ASSUME WaitInv, NEW x \in Completions, complete(x)
    PROVE  WaitInv'
  <1> USE DEF WaitInv
  <1>1. /\ UNCHANGED <<ready, owed, sleep_count, call, signalled, urg, kthread, fd>>
        /\ done' = [done EXCEPT ![x] = @ + 1] /\ sleep' = WakeAll
    BY DEF complete, threadVars
  <1>2. /\ sleep' \in [Sleepers -> {"no", "asleep", "woken", "timedout"}]
        /\ \A t \in Sleepers : sleep'[t] # "asleep"
        /\ TimedOutRight'
    BY <1>1, WakeAllFacts
  <1>3. WaitTypeOK'
    BY <1>1, <1>2 DEF WaitTypeOK
  <1>4. NoLostEvent'
    BY <1>2 DEF NoLostEvent
  <1>5. FdRight' /\ StopRight' /\ StopIsSeen'
    BY <1>1, StopFrame DEF threadVars
  <1> QED
    BY <1>1, <1>2, <1>3, <1>4, <1>5, CountSame

LEMMA WakeAllKeeps ==
    ASSUME WaitInv, wake_up_all_internal
    PROVE  WaitInv'
  <1> USE DEF WaitInv
  <1>1. /\ UNCHANGED <<done, ready, owed, sleep_count, call, signalled, urg, kthread, fd>>
        /\ sleep' = WakeAll
    BY DEF wake_up_all_internal, condVars, threadVars
  <1>2. /\ sleep' \in [Sleepers -> {"no", "asleep", "woken", "timedout"}]
        /\ \A t \in Sleepers : sleep'[t] # "asleep"
        /\ TimedOutRight'
    BY <1>1, WakeAllFacts
  <1>3. WaitTypeOK'
    BY <1>1, <1>2 DEF WaitTypeOK
  <1>4. NoLostEvent'
    BY <1>2 DEF NoLostEvent
  <1>5. FdRight' /\ StopRight' /\ StopIsSeen'
    BY <1>1, StopFrame DEF threadVars
  <1> QED
    BY <1>1, <1>2, <1>3, <1>4, <1>5, CountSame

-----------------------------------------------------------------------------
(* Kernel threads.  What these steps have in common: they do not touch the *)
(* conditions or the counts, and who is asleep in a wait was so before.    *)
LEMMA ThreadFrame ==
    ASSUME WaitInv, UNCHANGED <<condVars, sleep_count>>,
           CountRight', FdRight', StopRight', StopIsSeen',
           call' \in [Sleepers -> WaitCalls],
           sleep' \in [Sleepers -> {"no", "asleep", "woken", "timedout"}],
           \A u \in Sleepers : sleep'[u] = "timedout" => call'[u].fn = "wait",
           \A u \in Sleepers : call'[u].fn = "wait" /\ sleep'[u] = "asleep"
                                   => call[u] = call'[u] /\ sleep[u] = "asleep",
           signalled' \subseteq Sleepers, urg' \subseteq Kthreads,
           kthread' \in [Kthreads -> {"none", "created", "installed", "running", "exited"}],
           fd' \in [Kthreads -> {"none", "func", "cleared"}]
    PROVE  WaitInv'
  <1>1. UNCHANGED <<done, ready, owed, sleep_count>>
    BY DEF condVars
  <1>2. WaitTypeOK'
    BY <1>1 DEF WaitInv, WaitTypeOK
  <1>3. TimedOutRight'
    BY DEF TimedOutRight
  <1>4. \A o : Available(o) = (IF o \in Completions THEN done'[o] # 0 ELSE ready'[o])
    BY <1>1 DEF Available
  <1>5. NoLostEvent'
    <2> SUFFICES ASSUME NEW u \in Sleepers, call'[u].fn = "wait", sleep'[u] = "asleep",
                        IF call'[u].on \in Completions THEN done'[call'[u].on] # 0 ELSE ready'[call'[u].on]
                 PROVE  call'[u].on \in owed
      BY <1>1 DEF NoLostEvent, Available
    <2>1. call[u] = call'[u] /\ sleep[u] = "asleep"
      OBVIOUS
    <2>2. Available(call[u].on)
      BY <2>1, <1>4
    <2> QED
      BY <2>1, <2>2 DEF WaitInv, NoLostEvent
  <1> QED
    BY <1>2, <1>3, <1>5 DEF WaitInv

LEMMA RunKeeps ==
    ASSUME WaitInv, NEW t \in Callers, NEW k \in Kthreads, kthread_run(t, k)
    PROVE  WaitInv'
  <1>1. /\ UNCHANGED <<condVars, sleep_count, signalled, urg>>
        /\ kthread[k] = "none" /\ kthread' = [kthread EXCEPT ![k] = "created"]
        /\ fd' = [fd EXCEPT ![k] = "func"]
        /\ call[t] = NoCall /\ call' = [call EXCEPT ![t] = Run(k)]
        /\ sleep' = [sleep EXCEPT ![t] = "woken"]
    BY DEF kthread_run, NotWaiting
  <1>2. t \in Sleepers /\ WaitTypeOK
    BY SetFacts DEF WaitInv
  <1>3. Run(k) \in WaitCalls /\ Run(k).fn = "kthread_run" /\ NoCall.fn = "none"
    BY CallFacts
  <1>4. /\ call' \in [Sleepers -> WaitCalls]
        /\ sleep' \in [Sleepers -> {"no", "asleep", "woken", "timedout"}]
        /\ kthread' \in [Kthreads -> {"none", "created", "installed", "running", "exited"}]
        /\ fd' \in [Kthreads -> {"none", "func", "cleared"}]
        /\ signalled' \subseteq Sleepers /\ urg' \subseteq Kthreads
    BY <1>1, <1>2, <1>3 DEF WaitTypeOK
  <1>5. \A u \in Sleepers : /\ u = t => call'[u] = Run(k) /\ sleep'[u] = "woken"
                            /\ u # t => call'[u] = call[u] /\ sleep'[u] = sleep[u]
    BY <1>1, <1>2 DEF WaitTypeOK
  <1>6. \A j \in Kthreads : /\ j = k => kthread'[j] = "created" /\ fd'[j] = "func"
                            /\ j # k => kthread'[j] = kthread[j] /\ fd'[j] = fd[j]
    BY <1>1, <1>2 DEF WaitTypeOK
  <1>7. CountRight'
    BY <1>1, <1>2, <1>3, CountFrame DEF WaitInv
  <1>8. FdRight'
    BY <1>6 DEF WaitInv, FdRight
  <1>9. \A u \in Sleepers : call'[u].fn = "kthread_stop" =>
            /\ u # t /\ call'[u] = call[u]
            /\ call[u].on \in Kthreads /\ call[u].on # k
    BY <1>1, <1>2, <1>3, <1>5, CallFacts DEF WaitInv, StopRight, WaitTypeOK
  <1>10. StopRight'
    BY <1>5, <1>6, <1>9, <1>3 DEF WaitInv, StopRight
  <1>11. StopIsSeen'
    BY <1>1, <1>6, <1>9 DEF WaitInv, StopIsSeen
  <1>12. \A u \in Sleepers : sleep'[u] = "timedout" => call'[u].fn = "wait"
    BY <1>5 DEF WaitInv, TimedOutRight
  <1>13. \A u \in Sleepers : call'[u].fn = "wait" /\ sleep'[u] = "asleep"
                                 => call[u] = call'[u] /\ sleep[u] = "asleep"
    BY <1>5
  <1> QED
    BY <1>1, <1>4, <1>7, <1>8, <1>10, <1>11, <1>12, <1>13, ThreadFrame

LEMMA RunReturnsKeeps ==
    ASSUME WaitInv, NEW t \in Callers, RunReturns(t)
    PROVE  WaitInv'
  <1> DEFINE k == call[t].on
  <1>1. /\ UNCHANGED <<condVars, sleep_count, signalled, urg, kthread>>
        /\ call[t].fn = "kthread_run"
        /\ \/ /\ fd[k] = "cleared"
              /\ fd' = [fd EXCEPT ![k] = "none"]
              /\ call' = [call EXCEPT ![t] = NoCall]
              /\ sleep' = [sleep EXCEPT ![t] = "no"]
           \/ /\ sleep' = [sleep EXCEPT ![t] = "asleep"]
              /\ UNCHANGED <<fd, call>>
    BY DEF RunReturns
  <1>2. t \in Sleepers /\ WaitTypeOK
    BY SetFacts DEF WaitInv
  <1>3. NoCall \in WaitCalls /\ NoCall.fn = "none"
    BY CallFacts
  <1>4. k \in Kthreads
    BY <1>1, <1>2, CallFacts DEF WaitTypeOK
  <1> HIDE DEF k
  <1>5. CASE /\ fd[k] = "cleared"
             /\ fd' = [fd EXCEPT ![k] = "none"]
             /\ call' = [call EXCEPT ![t] = NoCall]
             /\ sleep' = [sleep EXCEPT ![t] = "no"]
    <2>1. /\ call' \in [Sleepers -> WaitCalls]
          /\ sleep' \in [Sleepers -> {"no", "asleep", "woken", "timedout"}]
          /\ kthread' \in [Kthreads -> {"none", "created", "installed", "running", "exited"}]
          /\ fd' \in [Kthreads -> {"none", "func", "cleared"}]
          /\ signalled' \subseteq Sleepers /\ urg' \subseteq Kthreads
      BY <1>1, <1>2, <1>3, <1>5 DEF WaitTypeOK
    <2>2. \A u \in Sleepers : /\ u = t => call'[u] = NoCall /\ sleep'[u] = "no"
                              /\ u # t => call'[u] = call[u] /\ sleep'[u] = sleep[u]
      BY <1>2, <1>5 DEF WaitTypeOK
    <2>3. \A j \in Kthreads : /\ j = k => fd'[j] = "none"
                              /\ j # k => fd'[j] = fd[j]
      BY <1>2, <1>5 DEF WaitTypeOK
    <2>4. CountRight'
      BY <1>1, <1>2, <1>3, <1>5, CountFrame DEF WaitInv
    <2>5. FdRight'
      BY <1>1, <1>4, <1>5, <2>3 DEF WaitInv, FdRight
    <2>6. StopRight'
      BY <1>1, <1>3, <2>2 DEF WaitInv, StopRight
    <2>7. StopIsSeen'
      BY <1>1, <1>3, <2>2 DEF WaitInv, StopIsSeen
    <2>8. \A u \in Sleepers : sleep'[u] = "timedout" => call'[u].fn = "wait"
      BY <2>2 DEF WaitInv, TimedOutRight
    <2>9. \A u \in Sleepers : call'[u].fn = "wait" /\ sleep'[u] = "asleep"
                                  => call[u] = call'[u] /\ sleep[u] = "asleep"
      BY <2>2
    <2> QED
      BY <1>1, <2>1, <2>4, <2>5, <2>6, <2>7, <2>8, <2>9, ThreadFrame
  <1>6. CASE sleep' = [sleep EXCEPT ![t] = "asleep"] /\ UNCHANGED <<fd, call>>
    <2>1. /\ call' \in [Sleepers -> WaitCalls]
          /\ sleep' \in [Sleepers -> {"no", "asleep", "woken", "timedout"}]
          /\ kthread' \in [Kthreads -> {"none", "created", "installed", "running", "exited"}]
          /\ fd' \in [Kthreads -> {"none", "func", "cleared"}]
          /\ signalled' \subseteq Sleepers /\ urg' \subseteq Kthreads
      BY <1>1, <1>2, <1>6 DEF WaitTypeOK
    <2>2. \A u \in Sleepers : sleep'[u] = IF u = t THEN "asleep" ELSE sleep[u]
      BY <1>2, <1>6 DEF WaitTypeOK
    <2>3. CountRight'
      BY <1>1, <1>6, CountSame DEF WaitInv
    <2>4. FdRight' /\ StopRight' /\ StopIsSeen'
      BY <1>1, <1>6, StopFrame DEF WaitInv, threadVars
    <2>5. \A u \in Sleepers : sleep'[u] = "timedout" => call'[u].fn = "wait"
      BY <1>6, <2>2 DEF WaitInv, TimedOutRight
    <2>6. \A u \in Sleepers : call'[u].fn = "wait" /\ sleep'[u] = "asleep"
                                  => call[u] = call'[u] /\ sleep[u] = "asleep"
      BY <1>1, <1>6, <2>2
    <2> QED
      BY <1>1, <2>1, <2>3, <2>4, <2>5, <2>6, ThreadFrame
  <1> QED
    BY <1>1, <1>5, <1>6

LEMMA InstallKeeps ==
    ASSUME WaitInv, NEW k \in Kthreads, InstallHandler(k)
    PROVE  WaitInv'
  <1>1. /\ UNCHANGED <<condVars, sleep_count, call, sleep, signalled, urg, fd>>
        /\ kthread[k] = "created" /\ kthread' = [kthread EXCEPT ![k] = "installed"]
    BY DEF InstallHandler
  <1>2. WaitTypeOK
    BY DEF WaitInv
  <1>3. /\ call' \in [Sleepers -> WaitCalls]
        /\ sleep' \in [Sleepers -> {"no", "asleep", "woken", "timedout"}]
        /\ kthread' \in [Kthreads -> {"none", "created", "installed", "running", "exited"}]
        /\ fd' \in [Kthreads -> {"none", "func", "cleared"}]
        /\ signalled' \subseteq Sleepers /\ urg' \subseteq Kthreads
    BY <1>1, <1>2 DEF WaitTypeOK
  <1>4. \A j \in Kthreads : kthread'[j] = IF j = k THEN "installed" ELSE kthread[j]
    BY <1>1, <1>2 DEF WaitTypeOK
  <1>5. CountRight'
    BY <1>1, CountSame DEF WaitInv
  <1>6. FdRight'
    BY <1>1, <1>4 DEF WaitInv, FdRight
  <1>7. \A u \in Sleepers : call[u].fn = "kthread_stop" => call[u].on \in Kthreads /\ call[u].on # k
    BY <1>1, <1>2, CallFacts DEF WaitInv, StopRight, WaitTypeOK
  <1>8. StopRight'
    BY <1>1, <1>4, <1>7 DEF WaitInv, StopRight
  <1>9. StopIsSeen'
    BY <1>1, <1>4, <1>7 DEF WaitInv, StopIsSeen
  <1>10. \A u \in Sleepers : sleep'[u] = "timedout" => call'[u].fn = "wait"
    BY <1>1 DEF WaitInv, TimedOutRight
  <1> QED
    BY <1>1, <1>3, <1>5, <1>6, <1>8, <1>9, <1>10, ThreadFrame

(* kthread_wrapper() tells kthread_run(), which may then free fd. *)
LEMMA ReportKeeps ==
    ASSUME WaitInv, NEW k \in Kthreads, ReportStarted(k)
    PROVE  WaitInv'
  <1>1. /\ UNCHANGED <<condVars, sleep_count, call, signalled, urg>>
        /\ kthread[k] = "installed" /\ kthread' = [kthread EXCEPT ![k] = "running"]
        /\ fd' = [fd EXCEPT ![k] = "cleared"] /\ sleep' = WakeAll
    BY DEF ReportStarted
  <1>2. WaitTypeOK
    BY DEF WaitInv
  <1>3. /\ sleep' \in [Sleepers -> {"no", "asleep", "woken", "timedout"}]
        /\ \A t \in Sleepers : sleep'[t] # "asleep"
        /\ TimedOutRight'
    BY <1>1, WakeAllFacts DEF WaitInv
  <1>4. /\ call' \in [Sleepers -> WaitCalls]
        /\ kthread' \in [Kthreads -> {"none", "created", "installed", "running", "exited"}]
        /\ fd' \in [Kthreads -> {"none", "func", "cleared"}]
        /\ signalled' \subseteq Sleepers /\ urg' \subseteq Kthreads
    BY <1>1, <1>2 DEF WaitTypeOK
  <1>5. \A j \in Kthreads : /\ j = k => kthread'[j] = "running" /\ fd'[j] = "cleared"
                            /\ j # k => kthread'[j] = kthread[j] /\ fd'[j] = fd[j]
    BY <1>1, <1>2 DEF WaitTypeOK
  <1>6. CountRight'
    BY <1>1, CountSame DEF WaitInv
  <1>7. FdRight'
    BY <1>5 DEF WaitInv, FdRight
  <1>8. \A u \in Sleepers : call[u].fn = "kthread_stop" => call[u].on \in Kthreads /\ call[u].on # k
    BY <1>1, <1>2, CallFacts DEF WaitInv, StopRight, WaitTypeOK
  <1>9. StopRight'
    BY <1>1, <1>5, <1>8 DEF WaitInv, StopRight
  <1>10. StopIsSeen'
    BY <1>1, <1>5, <1>8 DEF WaitInv, StopIsSeen
  <1> QED
    BY <1>1, <1>3, <1>4, <1>6, <1>7, <1>9, <1>10, ThreadFrame DEF TimedOutRight

LEMMA ReturnsKeeps ==
    ASSUME WaitInv, NEW k \in Kthreads, FunctionReturns(k)
    PROVE  WaitInv'
  <1>1. /\ UNCHANGED <<condVars, sleep_count, call, sleep, signalled, urg, fd>>
        /\ kthread[k] = "running" /\ kthread' = [kthread EXCEPT ![k] = "exited"]
    BY DEF FunctionReturns, NotWaiting
  <1>2. WaitTypeOK
    BY DEF WaitInv
  <1>3. /\ call' \in [Sleepers -> WaitCalls]
        /\ sleep' \in [Sleepers -> {"no", "asleep", "woken", "timedout"}]
        /\ kthread' \in [Kthreads -> {"none", "created", "installed", "running", "exited"}]
        /\ fd' \in [Kthreads -> {"none", "func", "cleared"}]
        /\ signalled' \subseteq Sleepers /\ urg' \subseteq Kthreads
    BY <1>1, <1>2 DEF WaitTypeOK
  <1>4. \A j \in Kthreads : kthread'[j] = IF j = k THEN "exited" ELSE kthread[j]
    BY <1>1, <1>2 DEF WaitTypeOK
  <1>5. CountRight'
    BY <1>1, CountSame DEF WaitInv
  <1>6. FdRight'
    BY <1>1, <1>4 DEF WaitInv, FdRight
  <1>7. \A u \in Sleepers : call[u].fn = "kthread_stop" => call[u].on \in Kthreads
    BY <1>2, CallFacts DEF WaitTypeOK
  <1>8. StopRight'
    BY <1>1, <1>4, <1>7 DEF WaitInv, StopRight
  <1>9. StopIsSeen'
    BY <1>1, <1>4, <1>7 DEF WaitInv, StopIsSeen
  <1>10. \A u \in Sleepers : sleep'[u] = "timedout" => call'[u].fn = "wait"
    BY <1>1 DEF WaitInv, TimedOutRight
  <1> QED
    BY <1>1, <1>3, <1>5, <1>6, <1>8, <1>9, <1>10, ThreadFrame

(* kthread_stop() finds the handler installed: fd has been freed. *)
LEMMA StopKeeps ==
    ASSUME WaitInv, NEW t \in Callers, NEW k \in Kthreads, kthread_stop(t, k)
    PROVE  WaitInv'
  <1>1. /\ UNCHANGED <<condVars, sleep_count, sleep, signalled, kthread, fd>>
        /\ call[t] = NoCall /\ call' = [call EXCEPT ![t] = Stop(k)]
        /\ kthread[k] # "none" /\ fd[k] = "none" /\ urg' = urg \cup {k}
        /\ \A u \in Sleepers : call[u].on # k
    BY DEF kthread_stop, NotWaiting
  <1>2. t \in Sleepers /\ WaitTypeOK
    BY SetFacts DEF WaitInv
  <1>3. Stop(k) \in WaitCalls /\ Stop(k).fn = "kthread_stop" /\ Stop(k).on = k /\ NoCall.fn = "none"
    BY CallFacts
  <1>4. /\ call' \in [Sleepers -> WaitCalls]
        /\ sleep' \in [Sleepers -> {"no", "asleep", "woken", "timedout"}]
        /\ kthread' \in [Kthreads -> {"none", "created", "installed", "running", "exited"}]
        /\ fd' \in [Kthreads -> {"none", "func", "cleared"}]
        /\ signalled' \subseteq Sleepers /\ urg' \subseteq Kthreads
    BY <1>1, <1>2, <1>3 DEF WaitTypeOK
  <1>5. \A u \in Sleepers : /\ u = t => call'[u] = Stop(k)
                            /\ u # t => call'[u] = call[u]
    BY <1>1, <1>2 DEF WaitTypeOK
  <1>6. CountRight'
    BY <1>1, <1>2, <1>3, CountFrame DEF WaitInv
  <1>7. FdRight'
    BY <1>1 DEF WaitInv, FdRight
  <1>8. kthread[k] \in {"running", "exited"}
    BY <1>1, <1>2 DEF WaitInv, FdRight, WaitTypeOK
  <1>9. StopRight'
    BY <1>1, <1>3, <1>5, <1>8 DEF WaitInv, StopRight
  <1>10. StopIsSeen'
    BY <1>1, <1>3, <1>5 DEF WaitInv, StopIsSeen
  <1>11. \A u \in Sleepers : sleep'[u] = "timedout" => call'[u].fn = "wait"
    BY <1>1, <1>3, <1>5 DEF WaitInv, TimedOutRight
  <1>12. \A u \in Sleepers : call'[u].fn = "wait" /\ sleep'[u] = "asleep"
                                 => call[u] = call'[u] /\ sleep[u] = "asleep"
    BY <1>1, <1>3, <1>5
  <1> QED
    BY <1>1, <1>4, <1>6, <1>7, <1>9, <1>10, <1>11, <1>12, ThreadFrame

LEMMA UrgKeeps ==
    ASSUME WaitInv, NEW k \in Kthreads, thread_urg(k)
    PROVE  WaitInv'
  <1>1. /\ UNCHANGED <<condVars, sleep_count, call, sleep, kthread, fd>>
        /\ urg' = urg \ {k}
        /\ signalled' = IF kthread[k] \in {"installed", "running"}
                        THEN signalled \cup {k} ELSE signalled
    BY DEF thread_urg
  <1>2. WaitTypeOK /\ k \in Sleepers
    BY SetFacts DEF WaitInv
  <1>3. /\ call' \in [Sleepers -> WaitCalls]
        /\ sleep' \in [Sleepers -> {"no", "asleep", "woken", "timedout"}]
        /\ kthread' \in [Kthreads -> {"none", "created", "installed", "running", "exited"}]
        /\ fd' \in [Kthreads -> {"none", "func", "cleared"}]
        /\ signalled' \subseteq Sleepers /\ urg' \subseteq Kthreads
    BY <1>1, <1>2 DEF WaitTypeOK
  <1>4. CountRight'
    BY <1>1, CountSame DEF WaitInv
  <1>5. FdRight' /\ StopRight'
    BY <1>1 DEF WaitInv, FdRight, StopRight
  <1>6. StopIsSeen'
    BY <1>1 DEF WaitInv, StopIsSeen, StopRight
  <1>7. \A u \in Sleepers : sleep'[u] = "timedout" => call'[u].fn = "wait"
    BY <1>1 DEF WaitInv, TimedOutRight
  <1> QED
    BY <1>1, <1>3, <1>4, <1>5, <1>6, <1>7, ThreadFrame

LEMMA JoinedKeeps ==
    ASSUME WaitInv, NEW t \in Callers, Joined(t)
    PROVE  WaitInv'
  <1> DEFINE k == call[t].on
  <1>1. /\ UNCHANGED <<condVars, sleep_count, sleep, fd>>
        /\ call[t].fn = "kthread_stop" /\ call' = [call EXCEPT ![t] = NoCall]
        /\ kthread[k] = "exited" /\ kthread' = [kthread EXCEPT ![k] = "none"]
        /\ signalled' = signalled \ {k} /\ urg' = urg \ {k}
    BY DEF Joined
  <1>2. t \in Sleepers /\ WaitTypeOK
    BY SetFacts DEF WaitInv
  <1>3. NoCall \in WaitCalls /\ NoCall.fn = "none"
    BY CallFacts
  <1>4. k \in Kthreads /\ call[t] = Stop(k)
    BY <1>1, <1>2, CallFacts DEF WaitTypeOK
  <1>5. \A u \in Sleepers : u # t /\ call[u].fn = "kthread_stop" => call[u].on \in Kthreads /\ call[u].on # k
    <2> TAKE u \in Sleepers
    <2> HAVE u # t /\ call[u].fn = "kthread_stop"
    <2>1. call[u].on \in Kthreads /\ call[u] = Stop(call[u].on)
      BY <1>2, CallFacts DEF WaitTypeOK
    <2>2. call[u] # call[t]
      BY <1>1, <1>2 DEF WaitInv, StopRight
    <2> QED
      BY <2>1, <2>2, <1>4
  <1> HIDE DEF k
  <1>6. /\ call' \in [Sleepers -> WaitCalls]
        /\ sleep' \in [Sleepers -> {"no", "asleep", "woken", "timedout"}]
        /\ kthread' \in [Kthreads -> {"none", "created", "installed", "running", "exited"}]
        /\ fd' \in [Kthreads -> {"none", "func", "cleared"}]
        /\ signalled' \subseteq Sleepers /\ urg' \subseteq Kthreads
    BY <1>1, <1>2, <1>3 DEF WaitTypeOK
  <1>7. \A u \in Sleepers : /\ u = t => call'[u] = NoCall
                            /\ u # t => call'[u] = call[u]
    BY <1>1, <1>2 DEF WaitTypeOK
  <1>8. \A j \in Kthreads : kthread'[j] = IF j = k THEN "none" ELSE kthread[j]
    BY <1>1, <1>2 DEF WaitTypeOK
  <1>9. CountRight'
    BY <1>1, <1>2, <1>3, CountFrame DEF WaitInv
  <1>10. FdRight'
    BY <1>1, <1>8 DEF WaitInv, FdRight
  <1>11. StopRight'
    BY <1>3, <1>5, <1>7, <1>8 DEF WaitInv, StopRight
  <1>12. StopIsSeen'
    BY <1>1, <1>3, <1>5, <1>7, <1>8 DEF WaitInv, StopIsSeen
  <1>13. \A u \in Sleepers : sleep'[u] = "timedout" => call'[u].fn = "wait"
    <2>1. sleep[t] # "timedout"
      BY <1>1, <1>2 DEF WaitInv, TimedOutRight
    <2> QED
      BY <1>1, <1>7, <2>1 DEF WaitInv, TimedOutRight
  <1>14. \A u \in Sleepers : call'[u].fn = "wait" /\ sleep'[u] = "asleep"
                                 => call[u] = call'[u] /\ sleep[u] = "asleep"
    BY <1>1, <1>3, <1>7
  <1> QED
    BY <1>1, <1>6, <1>9, <1>10, <1>11, <1>12, <1>13, <1>14, ThreadFrame

(* A request is interrupted, or a new one begins. *)
LEMMA SignalKeeps ==
    ASSUME WaitInv, NEW t \in Callers, PeerSignal(t) \/ RequestEnds(t)
    PROVE  WaitInv'
  <1>1. /\ UNCHANGED <<condVars, sleep_count, call, sleep, urg, kthread, fd>>
        /\ signalled' = signalled \cup {t} \/ signalled' = signalled \ {t}
    BY DEF PeerSignal, RequestEnds
  <1>2. WaitTypeOK /\ t \in Sleepers /\ t \notin Kthreads
    BY SetFacts DEF WaitInv
  <1>3. /\ call' \in [Sleepers -> WaitCalls]
        /\ sleep' \in [Sleepers -> {"no", "asleep", "woken", "timedout"}]
        /\ kthread' \in [Kthreads -> {"none", "created", "installed", "running", "exited"}]
        /\ fd' \in [Kthreads -> {"none", "func", "cleared"}]
        /\ signalled' \subseteq Sleepers /\ urg' \subseteq Kthreads
    BY <1>1, <1>2 DEF WaitTypeOK
  <1>4. CountRight'
    BY <1>1, CountSame DEF WaitInv
  <1>5. FdRight' /\ StopRight'
    BY <1>1 DEF WaitInv, FdRight, StopRight
  <1>6. \A u \in Sleepers : call[u].fn = "kthread_stop" => call[u].on # t
    BY <1>2, CallFacts DEF WaitTypeOK
  <1>7. StopIsSeen'
    BY <1>1, <1>6 DEF WaitInv, StopIsSeen
  <1>8. \A u \in Sleepers : sleep'[u] = "timedout" => call'[u].fn = "wait"
    BY <1>1 DEF WaitInv, TimedOutRight
  <1> QED
    BY <1>1, <1>3, <1>4, <1>5, <1>7, <1>8, ThreadFrame

-----------------------------------------------------------------------------
LEMMA WaitInitInv == WaitInit => WaitInv
  <1> SUFFICES ASSUME WaitInit PROVE WaitInv
    OBVIOUS
  <1>1. NoCall \in WaitCalls /\ NoCall.fn = "none"
    BY CallFacts
  <1>2. WaitTypeOK
    BY <1>1 DEF WaitInit, WaitTypeOK
  <1>3. CountRight
    <2>1. \A o : WaitersOf(o) = {}
      BY <1>1 DEF WaitInit, WaitersOf
    <2> QED
      BY <2>1, FS_EmptySet DEF WaitInit, CountRight
  <1>4. TimedOutRight /\ FdRight /\ StopRight /\ NoLostEvent /\ StopIsSeen
    BY <1>1 DEF WaitInit, TimedOutRight, FdRight, StopRight, NoLostEvent, StopIsSeen
  <1> QED
    BY <1>2, <1>3, <1>4 DEF WaitInv

LEMMA WaitNextInv == WaitInv /\ [WaitNext]_waitVars => WaitInv'
  <1> SUFFICES ASSUME WaitInv, [WaitNext]_waitVars PROVE WaitInv'
    OBVIOUS
  <1>1. ASSUME NEW t \in Sleepers, ThreadStep(t) PROVE WaitInv'
    BY <1>1, WaitEventKeeps, WaitWokenKeeps, TimesOutKeeps, TimedOutKeeps DEF ThreadStep
  <1>2. ASSUME NEW t \in Callers, CallerStep(t) PROVE WaitInv'
    BY <1>2, SignalKeeps, RunReturnsKeeps, JoinedKeeps, RunKeeps, StopKeeps DEF CallerStep
  <1>3. ASSUME NEW k \in Kthreads, KthreadStep(k) PROVE WaitInv'
    BY <1>3, InstallKeeps, ReportKeeps, ReturnsKeeps, UrgKeeps DEF KthreadStep
  <1>4. ASSUME NEW q \in Queues, SetCondition(q) \/ wake_up(q) \/ ResetCondition(q) PROVE WaitInv'
    BY <1>4, SetConditionKeeps, WakeUpKeeps, ResetConditionKeeps
  <1>5. ASSUME NEW x \in Completions, complete(x) PROVE WaitInv'
    BY <1>5, CompleteKeeps
  <1>6. CASE wake_up_all_internal
    BY <1>6, WakeAllKeeps
  <1>7. CASE UNCHANGED waitVars
    <2>1. UNCHANGED <<condVars, sleep_count, call, sleep, threadVars>>
      BY <1>7 DEF waitVars
    <2>2. UNCHANGED <<done, ready, owed, signalled, urg, kthread, fd>>
      BY <2>1 DEF condVars, threadVars
    <2>3. WaitTypeOK' /\ TimedOutRight'
      BY <2>1, <2>2 DEF WaitInv, WaitTypeOK, TimedOutRight
    <2>4. NoLostEvent'
      BY <2>1, <2>2 DEF WaitInv, NoLostEvent, Available
    <2>5. FdRight' /\ StopRight' /\ StopIsSeen'
      BY <2>1, StopFrame DEF WaitInv
    <2> QED
      BY <2>1, <2>3, <2>4, <2>5, CountSame DEF WaitInv
  <1> QED
    BY <1>1, <1>2, <1>3, <1>4, <1>5, <1>6, <1>7 DEF WaitNext

(* The inductive invariant holds in every behaviour: in particular         *)
(* sleep_count of every queue and completion is the number of threads in a *)
(* wait on it.                                                             *)
THEOREM WaitInductive == WaitSpec => []WaitInv
  BY WaitInitInv, WaitNextInv, PTL DEF WaitSpec

(* sleep_count of every queue and completion is the number of threads that *)
(* wait on it, through timeouts, signals and spurious wakeups: what        *)
(* waitqueue_active() answers can be relied on.                            *)
THEOREM CountExact == WaitSpec => []CountRight
  <1>1. WaitInv => CountRight
    BY DEF WaitInv
  <1> QED
    BY <1>1, WaitInductive, PTL

(* No wait sleeps through its event, kthread_run() does not free what      *)
(* kthread_wrapper() uses, and kthread_stop() reaches the thread.          *)
THEOREM Missed == WaitSpec => []NothingMissed
  <1>1. WaitInv => NothingMissed
    BY DEF WaitInv, NothingMissed, FdOutlivesWrapper, FdRight
  <1> QED
    BY <1>1, WaitInductive, PTL
=============================================================================
