SPECIFICATION FairSpec
CONSTANTS
    p1 = p1
    p2 = p2
    Proc = {p1, p2}
    Rotates = TRUE
    StoreRotated = TRUE
    UseDpop = TRUE
    Faults = {"validation", "lost"}
    MaxIssued = 4
INVARIANT TypeOK
INVARIANT TokenKeptUnlessDropped
PROPERTY ClaimsNeverOlder
PROPERTY RefreshEnds
