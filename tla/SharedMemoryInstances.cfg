SPECIFICATION Spec
CONSTANTS
    p1 = p1
    p2 = p2
    c1 = c1
    c2 = c2
    short = short
    Absent = Absent
    NotU64 = NotU64
    NotNumber = NotNumber
    None = None
    Providers = {p1, p2}
    Clients = {c1}
    Contents = {short}
    Utf8 = {short}
    Size <- MCOneSize
    MaxCollectBytes = 1
    RetainedGenerations = 1
    MaxVersion = 2
    MaxSlot = 2
    MaxNames = 2
    MaxDrops = 1
    Limits = {Absent}
    HostMayFail = TRUE
    ReadOps = {"collect", "snapshot", "view"}
SYMMETRY Symmetry
INVARIANTS
    BytesMatchDescriptor
    OneOwner
