------------------------------ MODULE MCServer ------------------------------
(***************************************************************************)
(* Small instances of Server for TLC.                                      *)
(***************************************************************************)
EXTENDS Server, TLC

\* Users are interchangeable; client and room slots are not, they are ordered.
UserSymmetry == Permutations(Users)
=============================================================================
