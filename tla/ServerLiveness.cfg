SPECIFICATION Spec
CONSTANTS
  Users = {u1, u2}
  NoUser = NoUser
  MaxPlayersPerRoom = 4
  MaxWordsStack = 3
  MaxClients = 2
  MaxRooms = 2
  MaxRoomIds = 2
  AnyRoom = 1
  Relogin = TRUE
  RequestedSizes = {2, 3}
  RequestedRounds = {1}
CHECK_DEADLOCK FALSE
PROPERTIES
  EveryGameEnds
