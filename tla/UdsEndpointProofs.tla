------------------------- MODULE UdsEndpointProofs -------------------------
(* Proofs about UdsEndpoint for any set of listener objects, however many   *)
(* processes start, stop and crash.                                          *)
EXTENDS UdsEndpoint, TLAPS

USE ListenersAssumption
USE DEF None, Foreign

\* What the places of bind and Drop know of the path while starts and stops
\* come one at a time and no probe of a listener that was up failed.
Owned(s) ==
    /\ pc[s] \in {"listen", "undo", "up", "dropped", "unlink"} => path = s
    /\ pc[s] = "remove" => \A t \in Listeners : pc[t] # "up"

\* A start none of whose calls failed comes to bind() with the path free, also
\* when it took the path from a listener that was up.
Free(s) == pc[s] = "bind" /\ s \notin failed => path = None

\* The inductive invariant.  Overlap is remembered; a listener's socket is
\* there only after its own bind; the foreign entry never comes back once a
\* start whose calls work found the path free.
Inv ==
    /\ TypeOK
    /\ Overlap => overlapped
    /\ ~overlapped /\ ~deceived => \A s \in Listeners : Owned(s)
    /\ ~overlapped => \A s \in Listeners : Free(s)
    /\ \A s \in Listeners : pc[s] = "bind" /\ s \notin failed => path \notin Foreign
    /\ \A s \in Listeners :
          path = s => pc[s] \notin {"off", "exists", "probe", "remove", "bind"}
    /\ \A s \in Listeners : pc[s] = "undo" => s \in failed

(* Nothing has started: no listener owns anything.                           *)
LEMMA InvInit == Init => Inv
<1> SUFFICES ASSUME Init PROVE Inv
  OBVIOUS
<1>1. TypeOK
  <2>1. pc \in [Listeners -> Places] /\ why \in [Listeners -> Reasons]
    BY DEF Init, Places, Reasons
  <2>2. /\ path \in Listeners \cup Foreign \cup {None}
        /\ failed \subseteq Listeners
        /\ {deceived, overlapped} \subseteq BOOLEAN
    BY Zenon DEF Init
  <2> QED BY <2>1, <2>2, Zenon DEF TypeOK
<1>2. \A s \in Listeners : pc[s] = "off" /\ path # s
  BY DEF Init
<1>3. ~Overlap
  BY <1>2 DEF Overlap, Busy, Starting, Stopping
<1>4. \A s \in Listeners : Owned(s) /\ Free(s)
  BY <1>2 DEF Owned, Free
<1> QED BY <1>1, <1>2, <1>3, <1>4 DEF Inv

(* Each system call of bind and Drop keeps the types.                        *)
LEMMA TypeStep ==
    ASSUME TypeOK, NEW s \in Listeners, Step(s)
    PROVE  /\ path' \in Listeners \cup Foreign \cup {None}
           /\ pc' \in [Listeners -> Places]
           /\ why' \in [Listeners -> Reasons]
           /\ failed' \subseteq Listeners /\ failed \subseteq failed'
<1> USE DEF TypeOK, Goto, Places, Starting, Stopping, Works, Errs
<1>1. CASE Start(s) \/ CheckExists(s) \/ Listen(s) \/ ListenFails(s)
  BY <1>1 DEF Start, CheckExists, Listen, ListenFails
<1>2. CASE Probe(s) \/ CannotProbe(s)
  BY <1>2 DEF Probe, ProbeErrs, CannotProbe, Refuse, Reasons
<1>3. CASE Remove(s) \/ Bind(s)
  BY <1>3 DEF Remove, Bind, Refuse, Reasons
<1>4. CASE UndoBind(s)
  BY <1>4 DEF UndoBind, RemoveByName, Reasons
<1>5. CASE DropListener(s) \/ DropCheck(s) \/ DropUnlink(s) \/ Crash(s)
  BY <1>5 DEF DropListener, DropCheck, DropUnlink, RemoveByName, Crash
<1> QED BY <1>1, <1>2, <1>3, <1>4, <1>5 DEF Step

(* A step moves the listener that takes it and no other.                     *)
LEMMA OthersStay ==
    ASSUME TypeOK, NEW s \in Listeners, Step(s), NEW t \in Listeners, t # s
    PROVE  pc'[t] = pc[t] /\ why'[t] = why[t]
<1> USE DEF TypeOK, Goto
<1>1. CASE Start(s) \/ CheckExists(s) \/ Listen(s) \/ ListenFails(s)
  BY <1>1 DEF Start, CheckExists, Listen, ListenFails
<1>2. CASE Probe(s) \/ CannotProbe(s) \/ Remove(s) \/ Bind(s)
  BY <1>2 DEF Probe, ProbeErrs, CannotProbe, Remove, Bind, Refuse
<1>3. CASE UndoBind(s)
  BY <1>3 DEF UndoBind
<1>4. CASE DropListener(s) \/ DropCheck(s) \/ DropUnlink(s) \/ Crash(s)
  BY <1>4 DEF DropListener, DropCheck, DropUnlink, Crash
<1> QED BY <1>1, <1>2, <1>3, <1>4 DEF Step

(* Only a failing probe can be deceived.                                     *)
LEMMA DeceivedKept ==
    ASSUME NEW s \in Listeners, Step(s)
    PROVE  ProbeErrs(s) \/ deceived' = deceived
<1> SUFFICES ASSUME ~ProbeErrs(s) PROVE deceived' = deceived
  OBVIOUS
<1> USE DEF Works, Errs
<1>1. CASE Start(s) \/ CheckExists(s) \/ Listen(s) \/ ListenFails(s)
  BY <1>1, Zenon DEF Start, CheckExists, Listen, ListenFails
<1>2. CASE Probe(s) \/ CannotProbe(s)
  BY <1>2, Zenon DEF Probe, CannotProbe
<1>3. CASE Remove(s) \/ Bind(s)
  BY <1>3, Zenon DEF Remove, Bind
<1>4. CASE UndoBind(s) \/ DropUnlink(s)
  BY <1>4, Zenon DEF UndoBind, DropUnlink, RemoveByName
<1>5. CASE DropListener(s) \/ DropCheck(s) \/ Crash(s)
  BY <1>5, Zenon DEF DropListener, DropCheck, Crash
<1> QED BY <1>1, <1>2, <1>3, <1>4, <1>5, Zenon DEF Step

(* A probe that failed on a listener that is up is remembered.               *)
LEMMA DeceivedStep ==
    ASSUME NEW s \in Listeners, Step(s), ~deceived'
    PROVE  ~deceived /\ (ProbeErrs(s) => ~Connectable)
<1>1. CASE ProbeErrs(s)
  BY <1>1, Zenon DEF ProbeErrs
<1>2. CASE ~ProbeErrs(s)
  BY <1>2, DeceivedKept, Zenon
<1> QED BY <1>1, <1>2, Zenon

(* What a path entry means does not depend on how starts and stops overlap: *)
(* a socket appears in its own listener's bind, and no step creates a       *)
(* foreign entry.                                                            *)
LEMMA PathStep ==
    ASSUME Inv, NEW s \in Listeners, Step(s)
    PROVE  /\ \A t \in Listeners :
                 pc'[t] = "bind" /\ t \notin failed' => path' \notin Foreign
           /\ \A t \in Listeners :
                 path' = t => pc'[t] \notin {"off", "exists", "probe", "remove", "bind"}
           /\ \A t \in Listeners : pc'[t] = "undo" => t \in failed'
<1>1. TypeOK
  BY DEF Inv
<1>2. \A t \in Listeners \ {s} : pc'[t] = pc[t]
  BY <1>1, OthersStay
<1>3. failed \subseteq failed'
  BY <1>1, TypeStep
<1> USE <1>2, <1>3 DEF Inv, TypeOK, Goto, Works, Errs
<1>4. CASE Start(s) \/ CheckExists(s) \/ Listen(s) \/ ListenFails(s)
  BY <1>4 DEF Start, CheckExists, Listen, ListenFails
<1>5. CASE Probe(s) \/ CannotProbe(s)
  BY <1>5 DEF Probe, ProbeErrs, CannotProbe, Refuse
<1>6. CASE Remove(s)
  BY <1>6 DEF Remove, Refuse
<1>7. CASE Bind(s)
  BY <1>7 DEF Bind, Refuse
<1>8. CASE UndoBind(s) \/ DropUnlink(s)
  BY <1>8 DEF UndoBind, DropUnlink, RemoveByName
<1>9. CASE DropListener(s) \/ DropCheck(s) \/ Crash(s)
  BY <1>9 DEF DropListener, DropCheck, Crash
<1> QED BY <1>4, <1>5, <1>6, <1>7, <1>8, <1>9 DEF Step

(* While starts and stops come one at a time, a start whose own calls work  *)
(* finds the path free when it binds.                                        *)
LEMMA FreeStep ==
    ASSUME Inv, NEW s \in Listeners, Step(s), ~overlapped, ~Overlap',
           NEW t \in Listeners
    PROVE  Free(t)'
<1>1. TypeOK
  BY DEF Inv
<1>2. \A u \in Listeners \ {s} : pc'[u] = pc[u]
  BY <1>1, OthersStay
<1>3. failed \subseteq failed'
  BY <1>1, TypeStep
<1>4. \A u \in Listeners : Free(u)
  BY DEF Inv
<1>5. ASSUME pc[s] \in Starting \cup Stopping \/ pc'[s] \in Starting \cup Stopping
      PROVE  \A u \in Listeners \ {s} : pc[u] \notin Starting \cup Stopping
  BY <1>2, <1>5 DEF Inv, Overlap, Busy
<1> USE <1>2, <1>3, <1>4 DEF TypeOK, Goto, Free, Starting, Stopping, Works, Errs
<1>6. CASE Start(s) \/ CheckExists(s)
  BY <1>1, <1>5, <1>6 DEF Start, CheckExists
<1>7. CASE Probe(s) \/ CannotProbe(s)
  BY <1>1, <1>5, <1>7 DEF Probe, ProbeErrs, CannotProbe, Refuse
<1>8. CASE Remove(s) \/ Bind(s)
  BY <1>1, <1>5, <1>8 DEF Remove, Bind, Refuse
<1>9. CASE Listen(s) \/ ListenFails(s)
  BY <1>1, <1>5, <1>9 DEF Listen, ListenFails
<1>10. CASE UndoBind(s) \/ DropUnlink(s)
  BY <1>1, <1>5, <1>10 DEF UndoBind, DropUnlink, RemoveByName
<1>11. CASE DropListener(s) \/ DropCheck(s) \/ Crash(s)
  BY <1>1, <1>5, <1>11 DEF DropListener, DropCheck, Crash
<1> QED BY <1>6, <1>7, <1>8, <1>9, <1>10, <1>11 DEF Step

(* While starts and stops come one at a time and no probe is deceived, every *)
(* step leaves each listener with what its place knows of the path.          *)
LEMMA OwnedStep ==
    ASSUME Inv, NEW s \in Listeners, Step(s), ~overlapped, ~Overlap', ~deceived',
           NEW t \in Listeners
    PROVE  Owned(t)'
<1>1. TypeOK
  BY DEF Inv
<1>2. \A u \in Listeners \ {s} : pc'[u] = pc[u]
  BY <1>1, OthersStay
<1>3. ~deceived /\ (ProbeErrs(s) => ~Connectable)
  BY DeceivedStep
<1>4. \A u \in Listeners : Owned(u)
  BY <1>3, Zenon DEF Inv
<1>5. ASSUME pc[s] \in Starting \cup Stopping \/ pc'[s] \in Starting \cup Stopping
      PROVE  \A u \in Listeners \ {s} : pc[u] \notin Starting \cup Stopping
  BY <1>2, <1>5 DEF Inv, Overlap, Busy
<1> USE <1>2, <1>4 DEF TypeOK, Goto, Owned, Starting, Stopping
<1>6. CASE Start(s) \/ CheckExists(s)
  BY <1>1, <1>5, <1>6 DEF Start, CheckExists
<1>7. CASE Probe(s)
  <2>1. pc[s] = "probe" /\ UNCHANGED path
    BY <1>7, Zenon DEF Probe, ProbeErrs, Refuse
  <2>2. Connectable => pc' = [pc EXCEPT ![s] = "ended"]
    BY <1>3, <1>7, Zenon DEF Probe, Refuse
  <2>3. \/ pc' = [pc EXCEPT ![s] = "ended"]
        \/ pc' = [pc EXCEPT ![s] = "bind"]
        \/ pc' = [pc EXCEPT ![s] = "remove"]
    BY <1>7, Zenon DEF Probe, ProbeErrs, Refuse
  <2>4. CASE Connectable
    BY <1>1, <1>5, <2>1, <2>2, <2>4
  <2>5. CASE ~Connectable
    BY <1>1, <1>5, <2>1, <2>3, <2>5 DEF Connectable
  <2> QED BY <2>4, <2>5
<1>8. CASE CannotProbe(s)
  BY <1>1, <1>5, <1>8 DEF CannotProbe, Refuse
<1>9. CASE Remove(s)
  BY <1>1, <1>5, <1>9 DEF Remove, Refuse
<1>10. CASE Bind(s)
  <2>1. \A u \in Listeners : pc[u] = "up" => path = u
    OBVIOUS
  <2>2. pc[s] = "bind" /\ \A u \in Listeners \ {s} : pc[u] \notin Starting \cup Stopping
    BY <1>5, <1>10 DEF Bind
  <2> QED BY <1>1, <1>10, <2>1, <2>2 DEF Bind, Refuse
<1>11. CASE Listen(s) \/ ListenFails(s)
  BY <1>1, <1>5, <1>11 DEF Listen, ListenFails
<1>12. CASE UndoBind(s) \/ DropUnlink(s)
  BY <1>1, <1>5, <1>12 DEF UndoBind, DropUnlink, RemoveByName
<1>13. CASE DropListener(s) \/ DropCheck(s)
  BY <1>1, <1>5, <1>13 DEF DropListener, DropCheck
<1>14. CASE Crash(s)
  BY <1>1, <1>14 DEF Crash
<1> QED BY <1>6, <1>7, <1>8, <1>9, <1>10, <1>11, <1>12, <1>13, <1>14 DEF Step

(* Every step of every process keeps the invariant.                          *)
LEMMA InvStep == Inv /\ [Next]_vars => Inv'
<1> SUFFICES ASSUME Inv, [Next]_vars PROVE Inv'
  OBVIOUS
<1>1. CASE UNCHANGED vars
  BY <1>1 DEF vars, Inv, TypeOK, Overlap, Busy, Owned, Free
<1>2. CASE Next
  <2>1. PICK s \in Listeners : Step(s)
    BY <1>2 DEF Next
  <2>2. overlapped' = (overlapped \/ Overlap')
    BY <1>2 DEF Next
  <2>3. TypeOK'
    <3>1. overlapped' \in BOOLEAN
      BY <2>2, Zenon
    <3>2. deceived' \in BOOLEAN
      BY <2>1, DeceivedKept, Zenon DEF Inv, TypeOK, ProbeErrs
    <3> QED BY <2>1, <3>1, <3>2, TypeStep, Zenon DEF Inv, TypeOK
  <2>4. (Overlap => overlapped)'
    BY <2>2, Zenon
  <2>5. ASSUME ~overlapped', NEW t \in Listeners PROVE Free(t)'
    <3>1. ~overlapped /\ ~Overlap'
      BY <2>2, <2>5, Zenon
    <3> QED BY <2>1, <3>1, FreeStep
  <2>6. ASSUME ~overlapped', ~deceived', NEW t \in Listeners PROVE Owned(t)'
    <3>1. ~overlapped /\ ~Overlap'
      BY <2>2, <2>6, Zenon
    <3> QED BY <2>1, <2>6, <3>1, OwnedStep
  <2> QED BY <2>1, <2>3, <2>4, <2>5, <2>6, PathStep, Zenon DEF Inv
<1> QED BY <1>1, <1>2

(* The invariant holds in every reachable state.                             *)
THEOREM Inductive == Spec => []Inv
BY InvInit, InvStep, PTL DEF Spec

(* A listener that is up is the one clients reach, for any number of        *)
(* listeners started, stopped and crashed one at a time, whichever of their *)
(* system calls fail, unless a probe's connect() fails on a listener that   *)
(* is up (check_and_recover_stale and Drop in posix.rs).                     *)
THEOREM ListenersStayReachable == Spec => []UpIsReachable
<1>1. Inv => UpIsReachable
  BY Zenon DEF Inv, UpIsReachable, Owned
<1> QED BY <1>1, Inductive, PTL

(* A start whose own system calls work is refused for a listener that is up, *)
(* a directory, or a start that overlapped it: no crash and no failure of   *)
(* another, at whatever step, leaves an entry that keeps it out.             *)
THEOREM RefusalsAreJustified == Spec => RefusalIsJustified
<1> DEFINE Justified(s) ==
      \/ s \in failed'
      \/ why'[s] = "live" /\ \E t \in Listeners \ {s} : path = t /\ pc[t] = "up"
      \/ why'[s] = "notRemoved" /\ path = "dir"
      \/ why'[s] = "bindFailed" /\ overlapped /\ path \in Listeners \ {s}
<1>1. ASSUME Inv, [Next]_vars, NEW s \in Listeners, why'[s] # why[s]
      PROVE  Justified(s)
  <2>1. TypeOK
    BY <1>1 DEF Inv
  <2>2. PICK u \in Listeners : Step(u)
    BY <1>1 DEF Next, vars
  <2>3. s = u
    BY <1>1, <2>1, <2>2, OthersStay
  <2>4. Step(s)
    BY <2>2, <2>3
  <2>5. failed \subseteq failed'
    BY <2>1, <2>4, TypeStep
  <2> USE DEF TypeOK, Errs
  <2>6. CASE Probe(s)
    BY <1>1, <2>1, <2>6 DEF Probe, ProbeErrs, Refuse, Connectable
  <2>7. CASE CannotProbe(s)
    BY <2>7 DEF CannotProbe
  <2>8. CASE UndoBind(s)
    <3>1. s \in failed
      BY <1>1, <2>8 DEF Inv, UndoBind
    <3> QED BY <2>5, <3>1
  <2>9. CASE Remove(s)
    BY <1>1, <2>1, <2>9 DEF Remove, Refuse
  <2>10. CASE Bind(s) /\ s \notin failed'
    <3>1. path # None /\ why'[s] = "bindFailed"
      BY <1>1, <2>1, <2>10 DEF Bind, Refuse
    <3>2. pc[s] = "bind" /\ s \notin failed
      BY <2>5, <2>10 DEF Bind
    <3>3. overlapped
      BY <1>1, <3>1, <3>2, Zenon DEF Inv, Free
    <3>4. path \in Listeners \ {s}
      BY <1>1, <2>1, <3>1, <3>2 DEF Inv
    <3> QED BY <3>1, <3>3, <3>4
  <2>11. ~(Start(s) \/ CheckExists(s) \/ Listen(s) \/ ListenFails(s)
            \/ DropListener(s) \/ DropCheck(s) \/ DropUnlink(s) \/ Crash(s))
    BY <1>1 DEF Start, CheckExists, Listen, ListenFails, DropListener,
                DropCheck, DropUnlink, Crash
  <2> QED BY <2>4, <2>6, <2>7, <2>8, <2>9, <2>10, <2>11, Zenon DEF Step
<1>2. Inv /\ [Next]_vars => [\A s \in Listeners : why'[s] # why[s] => Justified(s)]_vars
  BY <1>1
<1> QED BY <1>2, Inductive, PTL DEF Spec, RefusalIsJustified
=============================================================================
