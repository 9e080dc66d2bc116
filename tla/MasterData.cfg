CONSTANTS
    Id = {i1, i2}
    Nama = {n1, n2}
    Req = {r1, r2}
    None = None
    MaxQueue = 4

SYMMETRY MasterSymmetry
SPECIFICATION Spec
INVARIANTS
    TypeOK
    MasterCoherent
    KategoriUnik
PROPERTIES
    ImplementsReadThrough
