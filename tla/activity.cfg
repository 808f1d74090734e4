SPECIFICATION ActivitySpec
CONSTANTS
    e1 = e1
    e2 = e2
    e3 = e3
    Extras = {e1, e2, e3}
    Priority <- MCPriority
    MaxWalks = 2
    Actors = {p1, p2}
    Items = {p1, p2}
    MaxChanges = 3
    MaxDepth = 2
    People = {p1, p2}
    Sessions = {s1, s2}
    Host = Host
    Roles = {r}
    Absent = Absent
    m1 = m1
    m2 = m2
    r1 = r1
    r2 = r2
    Members = {m1, m2}
    RolesOf <- MCRolesOf
    NoRole = NoRole
    Stranger = nobody
    ReplyTo = {"session"}
    MaxSends = 3
    MaxSet = 1
CHECK_DEADLOCK FALSE
INVARIANTS ActivityTypeOK ExtrasHeard PredictedAsSent RaisesOnlyWhenCrossed  HeardByAddressed
SYMMETRY Symmetry
