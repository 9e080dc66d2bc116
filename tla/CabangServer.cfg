CONSTANTS
    CabangId = {k1, k2}
    Nama = {n1}
    Email = {e1}
    Peran = {m1, m2}
    Pemilik = {p1, p2}
    None = None
    MaxQueue = 3
    MaxHapus = 1

SYMMETRY CabangSymmetry
SPECIFICATION Spec
INVARIANTS
    TypeOK
    UserCoherent
    ManagerHasGudang
PROPERTIES
    ImplementsReadThrough
