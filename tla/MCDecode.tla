------------------------------- MODULE MCDecode -------------------------------
(* A small instance of Decode: every combination of arguments up to 5. *)
EXTENDS Decode

MCSizes  == 0 .. 5
MCLimits == {0 - 1} \cup 0 .. 5
=============================================================================
