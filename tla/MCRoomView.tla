----------------------------- MODULE MCRoomView -----------------------------
(***************************************************************************)
(* Small instances of RoomView for TLC.                                    *)
(***************************************************************************)
EXTENDS RoomView, TLC

CONSTANTS u1, u2, u3, l1, edge

UserSymmetry == Permutations(Users)
=============================================================================
