SPECIFICATION FairSpec
CONSTANTS
  Task = {t1}
  NULL = NULL
  QCapacity <- OneSlot
  Message = {m1}
  Filler = zero
  ReturnDelays = {65535}
  SleepDelays = {1}
  SwitchModes = {TRUE}
  WakeValues = {}
  IsrMessages = {}
  IsrExits = FALSE
  TaskExits = FALSE
  SavesIrq = TRUE
PROPERTY SleepEnds
