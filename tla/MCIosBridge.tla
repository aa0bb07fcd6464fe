----------------------------- MODULE MCIosBridge -----------------------------
(* Small instances of IosBridge: no more addresses than instances, so that *)
(* an address is soon used again.                                          *)
EXTENDS IosBridge

MCAddrs == 1 .. Cardinality(Instances)
=============================================================================
