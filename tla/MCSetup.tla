--------------------------------- MODULE MCSetup ---------------------------------
(* Values for model checking Setup.                                         *)
EXTENDS Setup, TLC

Symmetry == Permutations(Models)
=============================================================================
