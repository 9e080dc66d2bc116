CONSTANTS
    a = a
    b = b
    c = c
    x = x
    y = y
    sa = sa
    sb = sb
    sc = sc
    Node = {a, b, c, x}
    Slot = {sa, sb, sc}
    None = None
    Rank <- IDs
    FirstMaster <- Masters
    FirstOwner <- Owners
    FirstEpoch <- Epochs
    MaxEpoch = 5
    MaxFaults = 0

SPECIFICATION Spec
INVARIANT ElectedByMajority
