SPECIFICATION SafeSpec
CONSTANTS
  Users = {u1, u2, u3, u4}
  NoUser = NoUser
  MaxPlayersPerRoom = 5
  MaxWordsStack = 4
  RequestedSizes = {1, 2, 3, 5}
  RequestedRounds = {0, 1, 2}
SYMMETRY UserSymmetry
CHECK_DEADLOCK FALSE
INVARIANTS
  TypeOK
  OneSeatPerUser
  OwnerIsActive
  DrawerIsPlaying
  GameHasTwoPlayers
  RoundAlwaysOpen
  PaidOncePerRound
  RoundsBounded
PROPERTIES
  TurnPassesInOrder
  ScoresGrow
  EarlyEndIsEarned
