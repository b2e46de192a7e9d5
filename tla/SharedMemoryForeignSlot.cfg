SPECIFICATION Spec
CONSTANTS
    p1 = p1
    p2 = p2
    c1 = c1
    c2 = c2
    short = short
    Absent = Absent
    NotU64 = NotU64
    NotNumber = NotNumber
    None = None
    Providers = {p1, p2}
    Clients = {c1}
    Contents = {short}
    Utf8 = {short}
    Size <- MCOneSize
    MaxCollectBytes = 1
    RetainedGenerations = 0
    MaxVersion = 3
    MaxSlot = 2
    MaxNames = 3
    MaxDrops = 0
    Limits = {Absent}
    HostMayFail = FALSE
    ReadOps = {"collect", "snapshot", "view"}
INVARIANTS
    ViewShowsNamedMapping
