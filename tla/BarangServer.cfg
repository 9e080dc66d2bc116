CONSTANTS
    Barang = {b1}
    Satuan = {s1}
    Info = {i1, i2}
    Amount = {1}
    Req = {r1, r2}
    ListKey = ListKey
    None = None
    MinStock = 0
    MaxStock = 1
    MaxQueue = 3
    MaxCrash = 1

SPECIFICATION FairSpec
INVARIANTS
    TypeOK
    SatuanCoherent
    ListCoherent
    HitServesRequestTime
PROPERTIES
    ImplementsReadThrough
    HandlersResume
    SilentMissFills
