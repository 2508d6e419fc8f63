----------------------------- MODULE MCGameRoom -----------------------------
(***************************************************************************)
(* Small instances of GameRoom for TLC.                                    *)
(***************************************************************************)
EXTENDS GameRoom, TLC

\* Users are interchangeable: nothing orders or names them.
UserSymmetry == Permutations(Users)
=============================================================================
