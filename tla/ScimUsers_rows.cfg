\* Two users, two requests and no sessions: the table of users alone.
CONSTANTS
    s1 = s1  s2 = s2  u1 = u1  u2 = u2  r1 = r1  r2 = r2
    SessionId = {}
    UserId = {u1, u2}
    Request = {r1, r2}
    NoUser = NoUser
    Absent = Absent
    Name <- MCName
    NoName = ""
    Strip <- MCStrip
    PyLower <- MCPyLower
    DbLower <- AsciiLower
    CreateBody <- AnnAndBob
    ReplaceBody <- Replacements
    PatchBody <- RowPatches
    Identity <- NoIdentity
    MaxFailures = 1
SPECIFICATION Spec
PROPERTIES
    ReactivationIsAsked
    DeletedStaysDeleted
