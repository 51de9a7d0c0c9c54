------------------------------ MODULE MCEngine ------------------------------
(***************************************************************************)
(* Instances of Engine for TLC.                                            *)
(***************************************************************************)
EXTENDS Engine, TLC

\* The stations are interchangeable.
SiteSymmetry == Permutations(Sites)
=============================================================================
