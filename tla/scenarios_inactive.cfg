SPECIFICATION Spec
CONSTANTS
  Ids = {i1, i2}
  Names = {n1, n2}
  Groups = {g1}
  Procs = {p1}
  MaxRepeat = 2
  None = None
  AtBoot <- SeqBoot
  Creations <- PurgeCreations
  Updates <- PurgeUpdates
  Requests = {"add", "update", "remove", "purgeGroup", "fire"}
INVARIANTS FetchedActive
SYMMETRY Symmetry
