---------------------------- MODULE MCRoundLoop ----------------------------
(***************************************************************************)
(* Small instances of RoundLoop for TLC.                                   *)
(***************************************************************************)
EXTENDS RoundLoop, TLC

\* Users are interchangeable: nothing orders or names them.
UserSymmetry == Permutations(Users)
=============================================================================
