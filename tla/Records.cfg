SPECIFICATION RecordsSpec
CONSTANTS
  u1 = u1
  u2 = u2
  Users = {u1, u2}
  NoUser = NoUser
  MaxPlayersPerRoom = 3
  MaxWordsStack = 2
  RequestedSizes = {2, 3}
  RequestedRounds = {1}
  MaxRoomIds = 2
  MaxRestarts = 1
  MaxSeatRows = 3
  MaxTexts = 1
  MaxOutages = 1
  Fuses = {0, 1, 2}
SYMMETRY UserSymmetry
CHECK_DEADLOCK FALSE
INVARIANTS
  RecordsTypeOK
  SeatsHaveTheirRows
  RowsFitTogether
PROPERTIES
  HistoryIsComplete
