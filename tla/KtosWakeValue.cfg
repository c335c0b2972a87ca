SPECIFICATION Spec
CONSTANTS
  Task = {t1, t2, t3}
  NULL = NULL
  QCapacity <- OneSlot
  Message = {m1}
  Filler = zero
  ReturnDelays = {65535}
  SleepDelays = {65535}
  SwitchModes = {TRUE}
  WakeValues = {7, 8}
  IsrMessages = {}
  IsrExits = FALSE
  TaskExits = FALSE
  SavesIrq = FALSE
PROPERTY LatestWakeWins
