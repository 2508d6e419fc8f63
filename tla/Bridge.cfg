SPECIFICATION Spec
CONSTANTS
  HeaderSize = 2
  PayloadSize = 1
  BufferSize = 5
  MaxConns = 3
  MaxUp = 2
  MaxDown = 2
  MaxRetries = 1
CHECK_DEADLOCK FALSE
INVARIANTS
  TypeOK
  ShownIsWhatWasSent
  ForwardedOnceInOrder
  HandledWholeInOrder
  ConnectedMeansUp
  OnlyLateOnesOutlive
PROPERTIES
  NobodyWaitsForEver
  AllIsShown
