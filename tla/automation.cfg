SPECIFICATION MCSpec
CONSTANTS
  s1 = s1
  s2 = s2
  lamp = lamp
  fan = fan
  Ids = {s1, s2}
  Names = {s1, s2}
  Groups = {}
  Procs = {p1, p2}
  MaxRepeat = 3
  None = None
  AtBoot <- Boot
  Creations = {}
  Updates = {}
  Requests = {"fire"}
  Devices = {lamp, fan}
  Values = {"off", "on"}
  Homes <- MCHomes
  MaxCalls = 2
  MaxWork = 2
CHECK_DEADLOCK FALSE
INVARIANTS Reacts CommandOnce
PROPERTIES CascadeEnds CountdownEnds
