------------------------------ MODULE MCLogSwap ------------------------------
(* Small instances of LogSwap. *)
EXTENDS LogSwap, TLC

CONSTANTS l1, l2, w1, p1, p2

MCLoads   == {l1, l2}
MCWarmups == {w1}
MCPrompts == {p1, p2}
MCNone    == {}

Symmetry == Permutations(MCLoads) \cup Permutations(MCPrompts)
=============================================================================
