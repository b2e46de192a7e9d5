SPECIFICATION Spec
CONSTANTS
    c1 = c1
    c2 = c2
    text = text
    Empty = Empty
    None = None
    Clients = {c1}
    UsesOf <- MCDataUses
    Contents = {Empty, text}
    Utf8 = {Empty, text}
    Size <- MCSmallSize
    MaxSlot = 2
    MaxVersion = 2
    MaxCommands = 0
    MaxReloads = 1
INVARIANTS
    EntriesHonest
