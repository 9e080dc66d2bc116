CONSTANTS
    a = a
    b = b
    c = c
    x = x
    y = y
    sa = sa
    sb = sb
    sc = sc
    Node = {a, x, y}
    Slot = {sa}
    None = None
    Rank <- IDs
    FirstMaster <- Masters
    FirstOwner <- Owners
    FirstEpoch <- Epochs
    MaxEpoch = 2
    MaxFaults = 1

SPECIFICATION FairSpec
INVARIANTS
    TypeOK
    OwnersAreMasters
    EpochsBounded
PROPERTIES
    OwnEpochGrows
    TablesConverge
