SPECIFICATION Spec
CONSTANTS
  MaxSockets = 3
  MaxConnects = 1
  MaxMessages = 2
  MaxDrops = 1
  MaxLogouts = 1
  MaxReconnectAttempts = 2
CHECK_DEADLOCK FALSE
INVARIANTS
  TypeOK
  NothingForgotten
  PromiseIsLive
PROPERTIES
  ConnectionComesBack
