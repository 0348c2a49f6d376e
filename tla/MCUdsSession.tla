---------------------------- MODULE MCUdsSession ----------------------------
(* The baseline session for TLC; message ids are interchangeable.           *)
EXTENDS UdsSession, TLC

Symmetry == Permutations(Ids)

(* What is left of a deadline means nothing between two receives: the next  *)
(* one sets it again, and the properties checked under this view do not     *)
(* speak of it.                                                             *)
View == <<transport, open, wire, out, rx, buf,
          IF rx["client"] = NotReceiving THEN 0 ELSE left,
          abort, inflight, callers, result, history>>
=============================================================================
