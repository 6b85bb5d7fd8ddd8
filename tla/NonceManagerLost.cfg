SPECIFICATION Spec
CONSTANTS
    c1 = c1
    c2 = c2
    c3 = c3
    Callers <- MCCallers
    LockTTL = 2
    ReserveTTL = 4
    MaxHold = 1
    MaxSend = 1
    Usages <- MCLost
    MaxNonce = 2
SYMMETRY MCSymmetry
INVARIANTS
    NeverReused
