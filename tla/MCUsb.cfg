CONSTANTS
    c1 = c1
    c2 = c2
    Cancellers = {c1, c2}
    MaxRounds = 2
    u1 = u1
    u2 = u2
    Urbs = {u1, u2}
    NoUrb = NoUrb
    MaxUses = 3
    e1 = e1
    e2 = e2
    Evs = {e1, e2}
    Ifaces = {0, 1}
    MaxCalls = 3
SPECIFICATION Spec
CHECK_DEADLOCK FALSE
INVARIANT RequestExact
INVARIANT AnchorExact
INVARIANT EventsSafe
 
