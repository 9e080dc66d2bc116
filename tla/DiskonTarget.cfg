CONSTANTS
    Cabang = {c1, c2}
    DiskonId = {d1, d2}
    Nama = {n1}
    Barang = {b1}
    Dated = {TRUE, FALSE}
    None = None
    MaxQueue = 2

SPECIFICATION Spec
INVARIANTS
    TargetOwn
