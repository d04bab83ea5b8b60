SPECIFICATION DaySpec
CONSTANTS
  Ids = {i1, i2}
  Names = {n1, n2}
  Groups = {g1}
  Procs = {p1}
  MaxRepeat = 2
  None = None
  AtBoot <- SeqBoot
  Creations <- SeqCreations
  Updates <- SeqUpdates
  Requests = {"add", "update", "remove", "createGroup", "unlinkGroup", "deleteEmptyGroup", "deviceEvent", "fire"}
  AdjustTo = {"cron", "both"}
  NullAdjust = {"bad"}
  MaxDay = 1
INVARIANTS TypeOK NoMissedSchedule NoZombieJob CountsExact QuotaRespected FetchedActive ScheduleCurrent
PROPERTIES RollbackRestores NightReaches
SYMMETRY Symmetry
