CONSTANTS
    u1 = u1
    u2 = u2
    u3 = u3
    u4 = u4
    Urbs = {u1, u2, u3, u4}
    BigUrbs = {}
    NoUrb = NoUrb
    MaxReject = 0
SPECIFICATION SpecAnyHandler
INVARIANT UrbAccounted
