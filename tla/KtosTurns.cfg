SPECIFICATION WatchedSpec
CONSTANTS
  Task = {t1, t2, t3}
  NULL = NULL
  QCapacity <- OneSlot
  Message = {m1}
  Filler = zero
  ReturnDelays = {0, 2, 65535}
  SleepDelays = {}
  SwitchModes = {}
  WakeValues = {7}
  IsrMessages = {}
  IsrExits = FALSE
  TaskExits = FALSE
  SavesIrq = TRUE
PROPERTY OneTurnEach
INVARIANT RingIsOneCycle
PROPERTY ProgramsSeeHandlers
