SPECIFICATION CalmSpec
CONSTANTS
  Ids = {i1, i2}
  Names = {n1, n2}
  Groups = {}
  Procs = {p1, p2}
  MaxRepeat = 2
  None = None
  AtBoot <- RunBoot
  Creations = {}
  Updates <- RunUpdates
  Requests = {"update", "remove", "deviceEvent", "fire", "restart"}
INVARIANTS CalmInv
SYMMETRY Symmetry
