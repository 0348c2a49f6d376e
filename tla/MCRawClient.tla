---------------------------- MODULE MCRawClient ----------------------------
(* Instances of RawClient for TLC: payloads of one to eight units, and an   *)
(* overflow limit lower than the code's 8 so that calls can exhaust it.     *)
EXTENDS RawClient
=============================================================================
