----------------------------- MODULE MCRecords -----------------------------
(***************************************************************************)
(* Small instances of Records for TLC.                                     *)
(***************************************************************************)
EXTENDS Records, TLC

CONSTANTS u1, u2

UserSymmetry == Permutations(Users)
=============================================================================
