SPECIFICATION Spec
CONSTANTS
    p1 = p1
    p2 = p2
    Proc = {p1, p2}
    MaxAttempts = 3
    Seconds = 3
    Tick = 2
SYMMETRY Attempts
INVARIANT RetryTimeKept
INVARIANT GuessesBounded
