SPECIFICATION FairSpec
CONSTANTS
  Task = {t1, t2}
  NULL = NULL
  QCapacity <- OneSlot
  Message = {m1}
  Filler = zero
  ReturnDelays = {1}
  SleepDelays = {}
  SwitchModes = {}
  WakeValues = {}
  IsrMessages = {}
  IsrExits = FALSE
  TaskExits = FALSE
  SavesIrq = FALSE
PROPERTY TimerFires
