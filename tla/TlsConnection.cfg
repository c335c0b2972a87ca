SPECIFICATION Spec
CONSTANTS
  HelloEnd = 4
  HandshakeEnd = 6
  ResponseEnd = 9
  BearRxbufSize = 3
  HttpRespBuf = 2
  Segment = 4
INVARIANT NothingLeftBehind
INVARIANT AckOnlyWhatWasSent
INVARIANT InOrderUntilDrop
INVARIANT ReportIsTrue
PROPERTY DropsOnlyUnderWay
PROPERTY EventuallyPrints
