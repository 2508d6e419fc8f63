SPECIFICATION Spec
CONSTANTS
  Users = {u1, u2, u3, u4}
  NoUser = NoUser
  MaxPlayersPerRoom = 4
  MaxWordsStack = 8
  MaxSeats = 4
  MaxTotal = 7
SYMMETRY UserSymmetry
CHECK_DEADLOCK FALSE
INVARIANTS
  LoopAgrees
  SomebodyIsFound
