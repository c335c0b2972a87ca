SPECIFICATION Spec
CONSTANTS
  Task = {t1, t2}
  NULL = NULL
  QCapacity <- OneSlot
  Message = {m1}
  Filler = zero
  ReturnDelays = {0, 1, 65535}
  SleepDelays = {0, 2, 65535}
  SwitchModes = {FALSE, TRUE}
  WakeValues = {7, 8}
  IsrMessages = {m1}
  IsrExits = TRUE
  TaskExits = TRUE
  SavesIrq = FALSE
INVARIANT TypeOK
INVARIANT ReinitIffReturned
INVARIANT HaltedBySleeper
PROPERTY HaltFreezesOthers
PROPERTY ResumptionNeedsMail
PROPERTY FirstEventWins
