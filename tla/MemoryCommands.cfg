SPECIFICATION Spec
CONSTANTS
    c1 = c1
    c2 = c2
    text = text
    Empty = Empty
    None = None
    Clients = {c1, c2}
    UsesOf <- MCCommandUses
    Contents = {Empty}
    Utf8 = {Empty}
    Size <- MCEmptySize
    MaxSlot = 2
    MaxVersion = 2
    MaxCommands = 2
    MaxReloads = 0
INVARIANTS
    TypeOK
    CommandsAsIfAtomic
