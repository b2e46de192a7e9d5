SPECIFICATION Spec
CONSTANTS
    p1 = p1
    c1 = c1
    c2 = c2
    x = x
    y = y
    Absent = Absent
    NotU64 = NotU64
    NotNumber = NotNumber
    None = None
    Providers = {p1}
    Clients = {c1, c2}
    Contents = {x, y}
    Utf8 = {x}
    Size <- MCSizes
    MaxCollectBytes = 1
    RetainedGenerations = 1
    MaxVersion = 3
    MaxSlot = 2
    MaxNames = 3
    MaxDrops = 0
    Limits = {Absent, NotU64, NotNumber, 0, 2}
    HostMayFail = FALSE
    ReadOps = {"collect", "snapshot", "export"}
SYMMETRY ClientSymmetry
PROPERTIES
    OwnedBytesBounded
    ImplementsResourceStore
