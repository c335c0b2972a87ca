SPECIFICATION FairSpec
CONSTANTS
  Task = {t1, t2}
  NULL = NULL
  QCapacity <- Mixed
  Message = {m1, m2}
  Filler = zero
  ReturnDelays = {0, 2, 65535}
  SleepDelays = {}
  SwitchModes = {}
  WakeValues = {7}
  IsrMessages = {}
  IsrExits = FALSE
  TaskExits = FALSE
  SavesIrq = TRUE
PROPERTY MailboxesAreFifo
PROPERTY HandlersAreActors
PROPERTY MailDelivered
PROPERTY TimerFires
