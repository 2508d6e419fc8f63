SPECIFICATION ViewSpec
CONSTANTS
  u1 = u1
  u2 = u2
  u3 = u3
  l1 = l1
  edge = edge
  Users = {u1, u2, u3}
  NoUser = NoUser
  MaxPlayersPerRoom = 4
  MaxWordsStack = 3
  RequestedSizes = {3, 4}
  RequestedRounds = {1}
  Lines = {l1, edge}
  OffCanvas = {edge}
  OtherRounds = {1}
  MaxAstray = 1
  MaxBacklog = 1
  MaxStrokes = 2
  MaxMoves = 4
SYMMETRY UserSymmetry
CHECK_DEADLOCK FALSE
INVARIANT
  NoBroadcastMissed
