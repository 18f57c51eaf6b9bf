CONSTANTS
    c1 = c1
    k1 = k1
    q1 = q1
    x1 = x1
    Nothing = Nothing
    t1 = t1
    t2 = t2
    t3 = t3
    m1 = m1
    NoOwner = NoOwner
    NoSem = NoSem
    Pollers = {p1, p2}
    Rounds = {usb}
    Others = {dev}
    Heads = {h1, h2, h3}
    NULL = NULL
    MaxCalls = 5
    Requests = {r1}
    MaxLen = 2
    MaxChanges = 2
SPECIFICATION Spec
 
INVARIANT FirmwareExact
PROPERTY WaitsEnd
PROPERTY PollerReturns
 
