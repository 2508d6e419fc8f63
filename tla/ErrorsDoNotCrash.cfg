SPECIFICATION RecordsSpec
CONSTANTS
  u1 = u1
  u2 = u2
  Users = {u1, u2}
  NoUser = NoUser
  MaxPlayersPerRoom = 3
  MaxWordsStack = 2
  RequestedSizes = {3}
  RequestedRounds = {1}
  MaxRoomIds = 1
  MaxRestarts = 0
  MaxSeatRows = 2
  MaxTexts = 1
  MaxOutages = 1
  Fuses = {0, 1}
CHECK_DEADLOCK FALSE
INVARIANTS
  ErrorsDoNotCrash
