------------------------------ MODULE MCKeygen ------------------------------
(***************************************************************************)
(* Values for model checking Keygen.  Runs and passwords are symmetric: no *)
(* definition tells two of them apart.                                     *)
(***************************************************************************)
EXTENDS Keygen, TLC

MCSymmetry == Permutations(Runs) \cup Permutations(Passwords)
=============================================================================
