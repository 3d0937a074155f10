SPECIFICATION Spec
CONSTANTS
    u1 = u1
    u2 = u2
    c1 = c1
    c2 = c2
    p1 = p1
    p2 = p2
    User = {u1, u2}
    Bootstrap = u1
    Chosen = {c1}
    Proc = {p1, p2}
    Replicated = TRUE
    Upgraded = TRUE
    MaxStarts = 2
SYMMETRY TwoProcesses
INVARIANT AdminRemainsUnlessRaced
PROPERTY DisabledStaysDisabled
