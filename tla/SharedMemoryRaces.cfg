SPECIFICATION Spec
CONSTANTS
    p1 = p1
    p2 = p2
    c1 = c1
    c2 = c2
    short = short
    Absent = Absent
    NotU64 = NotU64
    NotNumber = NotNumber
    None = None
    Providers = {p1}
    Clients = {c1, c2}
    Contents = {short}
    Utf8 = {short}
    Size <- MCOneSize
    MaxCollectBytes = 1
    RetainedGenerations = 2
    MaxVersion = 3
    MaxSlot = 3
    MaxNames = 5
    MaxDrops = 0
    Limits = {Absent}
    HostMayFail = FALSE
    ReadOps = {"snapshot"}
SYMMETRY ClientSymmetry
INVARIANTS
    TypeOK
    GenerationUnique
    CurrentOpenable
    SnapshotLatestHonest
    RetiredAreNewest
PROPERTIES
    NoSpuriousRejection
    SealedNeverReplaced
