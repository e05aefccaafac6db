SPECIFICATION HeapSpec
SYMMETRY Symmetry
CONSTANTS
  Client = {t1, t2}
  Requests = {0, 1, 5, 30, 62, 63}
  Arrays <- MCArrays
  HeapSize = 20
  Bases = {2, 3}
  Align = 2
  LinkSize = 2
  SizeMod = 64
INVARIANTS HeapIsSound
PROPERTIES ServesClients
CHECK_DEADLOCK FALSE
