CONSTANTS
    u1 = u1
    u2 = u2
    u3 = u3
    Urbs = {u1, u2, u3}
    BigUrbs = {}
    NoUrb = NoUrb
    MaxReject = 1
SPECIFICATION Spec
INVARIANT KillIsFinal
