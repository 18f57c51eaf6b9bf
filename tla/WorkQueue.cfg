CONSTANTS
    t1 = t1
    t2 = t2
    Threads = {t1, t2}
    w1 = w1
    w2 = w2
    Works = {w1, w2}
    NoWork = NoWork
SPECIFICATION FairSpec
INVARIANT QueueSafe
PROPERTY WaitersServed
PROPERTY WorkGoesOn
