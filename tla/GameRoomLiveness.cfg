SPECIFICATION Spec
CONSTANTS
  Users = {u1, u2, u3}
  NoUser = NoUser
  MaxPlayersPerRoom = 4
  MaxWordsStack = 6
  RequestedSizes = {3, 4}
  RequestedRounds = {1, 2}
CHECK_DEADLOCK FALSE
PROPERTIES
  GameEnds
