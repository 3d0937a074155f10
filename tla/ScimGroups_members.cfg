\* Two users, two groups, two overlapping requests.
CONSTANTS
    u1 = u1  u2 = u2  g1 = g1  g2 = g2  r1 = r1  r2 = r2
    UserId = {u1, u2}
    Stranger = Stranger
    GroupId = {g1, g2}
    Request = {r1, r2}
    Title <- Titles
    NoTitle = ""
    Fold <- LowerCase
    GroupBody <- Bodies
    PatchBody <- Patches
SPECIFICATION Spec
SYMMETRY Symmetry
INVARIANTS
    TypeOK
    NoDanglingMember
PROPERTIES
    MembershipIsAsked
    UndisturbedIsExact
    GroupStaysDeleted
