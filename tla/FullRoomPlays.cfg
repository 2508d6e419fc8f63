SPECIFICATION SafeSpec
CONSTANTS
  Users = {u1, u2, u3, u4}
  NoUser = NoUser
  MaxPlayersPerRoom = 4
  MaxWordsStack = 8
  RequestedSizes = {2, 3, 4}
  RequestedRounds = {1, 2}
CHECK_DEADLOCK FALSE
INVARIANT
  FullRoomPlays
