---------------------------- MODULE MCShmRegion ----------------------------
(* Instances of ShmRegion for TLC. *)
EXTENDS ShmRegion, TLC

Symmetry == Permutations(Servers) \cup Permutations(Clients)

\* The states TLC tells apart.  No guard reads why, failed or deceived, and the
\* properties look at the failures of a server only while it may still be
\* refused or own the entry, at deceived and at the clients only while nothing
\* overlapped.
Mattering == {p \in failed : \/ Busy(p) \/ pc[p] \in {"ready", "serving"}
                             \/ file = p /\ pc[p] # "crashed"}
Excused == overlapped \/ deceived

View == <<file, header, gen, pc, reused, Mattering, overlapped, Excused,
          IF Excused THEN <<>> ELSE clientVars>>
=============================================================================
