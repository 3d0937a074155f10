\* Requests that keep a user's identifiers, two at a time, under fairness.
CONSTANTS
    s1 = s1  s2 = s2  u1 = u1  u2 = u2  r1 = r1  r2 = r2
    SessionId = {s1, s2}
    UserId = {u1}
    Request = {r1, r2}
    NoUser = NoUser
    Absent = Absent
    Name <- MCName
    NoName = ""
    Strip <- MCStrip
    PyLower <- MCPyLower
    DbLower <- AsciiLower
    CreateBody <- OneBob
    ReplaceBody <- KeepNames
    PatchBody <- OnlyActive
    Identity <- Identities
    MaxFailures = 0
SPECIFICATION FairSpec
INVARIANTS
    TypeOK
    OwedAccountedFor
    SelectionMatches
PROPERTIES
    OwedEnd
    KeepsThePromise
