CONSTANTS
    c1 = c1
    c2 = c2
    k1 = k1
    q1 = q1
    x1 = x1
    Callers = {c1, c2}
    Kthreads = {k1}
    Queues = {q1}
    Completions = {x1}
    Nothing = Nothing
    MaxDone = 2
    t1 = t1
    t2 = t2
    t3 = t3
    Threads = {t1, t2, t3}
    m1 = m1
    s1 = s1
    Mutexes = {m1}
    Sems = {s1}
    SemInit = 1
    MUTEX_NO_OWNER = MUTEX_NO_OWNER
    NoSem = NoSem
    MaxSpin = 2
    MaxHeld = 2
    MaxValue = 2
SYMMETRY Symmetry
SPECIFICATION BothSpec
CHECK_DEADLOCK FALSE
INVARIANT SleepSafe
INVARIANT Exclusion
INVARIANT NoLostWakeup
INVARIANT NothingMissed
PROPERTY AbsSpec
