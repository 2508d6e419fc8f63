SPECIFICATION SafeSpec
CONSTANTS
  Users = {u1, u2}
  NoUser = NoUser
  MaxPlayersPerRoom = 4
  MaxWordsStack = 2
  MaxClients = 3
  MaxRooms = 2
  MaxRoomIds = 2
  AnyRoom = 1
  Relogin = TRUE
  RequestedSizes = {2, 3}
  RequestedRounds = {1}
SYMMETRY UserSymmetry
CHECK_DEADLOCK FALSE
INVARIANTS
  TypeOK
  SlotsHoldLiveRooms
  RoomCountExact
PROPERTIES
  EveryRoomIsAGameRoom
  PlayersAreNotKicked
  StartReachesPlayers
