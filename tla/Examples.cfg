SPECIFICATION Spec
CONSTANTS
  Base = 3
  EepromLines = 2
  Letter = {a, b}
  LineBufSize = 3
  ShellBurst = 4
  Needed = 6
  LedQueue = 2
  LedBurst = 3
  LineMax = 3
  RosQueue = 2
  WordBits = 2
  Speeds = {2}
  Port = {p1, p2, p3}
  Closed = none
  MaxPolls = 3
  RespRoom = 3
  HttpSegment = 2
INVARIANT LineReadIntact
INVARIANT UiSeesEveryEdge
INVARIANT LastModeWins
INVARIANT LineIsTail
INVARIANT StateIsLastAccepted
INVARIANT StatusIsCurrent
INVARIANT NoLeakedPort
INVARIANT TimeoutIsHonest
PROPERTY BootCountRises
PROPERTY EdgesAreDebounced
PROPERTY ButtonLevelReported
PROPERTY LedBlinksForever
PROPERTY Reconnects
PROPERTY EndsClean
PROPERTY HttpReports
