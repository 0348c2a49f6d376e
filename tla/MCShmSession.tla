--------------------------- MODULE MCShmSession ---------------------------
(* Instances of ShmSession for TLC.  SigMod = 3 is the smallest modulus     *)
(* the assumptions allow, so three calls make the signal words wrap.        *)
EXTENDS ShmSession
=============================================================================
