-------------------------- MODULE ShmRegionProofs --------------------------
(* Proofs about ShmRegion for any number of server processes and clients.   *)
EXTENDS ShmRegion, TLAPS

USE ServersAssumption
USE DEF None, Foreign

\* A process makes the region once, so its header and its entry tell how far
\* it came, whatever other processes do meanwhile.
Once(p) ==
    /\ pc[p] \in {"off", "ready", "open", "check", "reclaim", "reopen"} \cup Scanning
         => header[p] = "empty" /\ file # p
    /\ pc[p] = "size" => header[p] = "empty"
    /\ pc[p] = "header" => header[p] = "blank"
    /\ pc[p] = "serving" => header[p] = "full"
    /\ file = p /\ header[p] = "full" => pc[p] \in {"serving", "crashed"} \/ p \in failed

\* What each place knows of the entry while servers start and create one at a
\* time and no probe of a server in service failed.
Owned(p) ==
    /\ pc[p] \in {"size", "header"} => file = p
    /\ pc[p] = "serving" => file = p \/ (file = None /\ gen[p] = 0)
    /\ pc[p] = "sweep" => \A q \in Servers : pc[q] = "serving" => gen[q] = 0
    /\ \A q \in Servers : pc[p] \in Listening /\ pc[q] \in Listening => p = q

\* A server none of whose calls failed opens again with the path free, also
\* when it took the entry from a server in service.
Free(p) == pc[p] = "reopen" /\ p \notin failed => file = None

\* A server answers a client only once its region is complete.
Acked(c) ==
    /\ mapped[c] # None => ack[c] # None
    /\ ack[c] # None => pc[ack[c]] \in {"serving", "idle", "ended", "crashed"}

\* The inductive invariant.
Inv ==
    /\ TypeOK
    /\ Overlap => overlapped
    /\ \A p \in Servers : Once(p)
    /\ ~overlapped /\ ~deceived => \A p \in Servers : Owned(p)
    /\ ~overlapped => \A p \in Servers : Free(p)
    /\ \A c \in Clients : Acked(c)
    /\ MapsItsOwnRegion

(* Nothing has started: no server owns anything.                             *)
LEMMA InvInit == Init => Inv
<1> SUFFICES ASSUME Init PROVE Inv
  OBVIOUS
<1>1. TypeOK
  <2>1. deceived \in BOOLEAN
    BY Zenon DEF Init
  <2> QED BY <2>1 DEF Init, TypeOK, Places, Generations
<1>2. \A p \in Servers : pc[p] = "off" /\ header[p] = "empty" /\ file # p
  BY DEF Init
<1>3. ~Overlap
  BY <1>2 DEF Overlap, Busy, Scanning, Creating
<1>4. \A p \in Servers : Once(p) /\ Owned(p) /\ Free(p)
  BY <1>2 DEF Once, Owned, Free, Listening, Creating
<1>5. (\A c \in Clients : Acked(c)) /\ MapsItsOwnRegion
  BY DEF Init, Acked, MapsItsOwnRegion
<1> QED BY <1>1, <1>3, <1>4, <1>5 DEF Inv

(* A probe that fails on a server in service is remembered.                  *)
LEMMA DeceivedKept ==
    ASSUME NEW p \in Servers, Server(p)
    PROVE  Unreadable(p) \/ deceived' = deceived \/ (deceived' = TRUE /\ BindListener(p))
<1> SUFFICES ASSUME ~Unreadable(p)
             PROVE  deceived' = deceived \/ (deceived' = TRUE /\ BindListener(p))
  BY Zenon
<1> USE DEF Works, Errs
<1>1. CASE Run(p) \/ List(p) \/ Inspect(p) \/ Stop(p) \/ Create(p)
  BY <1>1, Zenon DEF Run, List, Inspect, Stop, Create
<1>2. CASE BindListener(p)
  BY <1>2, Zenon DEF BindListener
<1>3. CASE Sweep(p) \/ Destroy(p) \/ CannotMap(p)
  BY <1>3, Zenon DEF Sweep, Destroy, CannotMap, TryUnlink
<1>4. CASE Open(p) \/ Reopen(p) \/ Reclaim(p) \/ CheckStale(p)
  BY <1>4, Zenon DEF Open, Reopen, Reclaim, CheckStale, CannotOpen
<1>5. CASE Size(p) \/ WriteHeader(p) \/ Crash(p) \/ ReusePid(p)
  BY <1>5, Zenon DEF Size, WriteHeader, Crash, ReusePid
<1> QED BY <1>1, <1>2, <1>3, <1>4, <1>5, Zenon DEF Server

LEMMA DeceivedStep ==
    ASSUME NEW p \in Servers, Server(p), ~deceived'
    PROVE  ~deceived /\ (Unreadable(p) => ~Served)
<1>1. CASE Unreadable(p)
  BY <1>1, Zenon DEF Unreadable
<1>2. CASE ~Unreadable(p)
  BY <1>2, DeceivedKept, Zenon
<1> QED BY <1>1, <1>2, Zenon

(* Every step keeps the types.                                               *)
LEMMA TypeStep == ASSUME TypeOK, [Next]_vars PROVE TypeOK'
<1>1. CASE UNCHANGED vars
  BY <1>1 DEF vars, TypeOK
<1>2. ASSUME NEW p \in Servers, Server(p) PROVE TypeOK'
  <2>1. deceived' \in BOOLEAN
    BY <1>2, DeceivedKept, Zenon DEF Unreadable, TypeOK
  <2> DEFINE Rest == /\ file' \in Servers \cup Foreign \cup {None}
                     /\ header' \in [Servers -> {"empty", "blank", "full"}]
                     /\ gen' \in [Servers -> Generations]
                     /\ pc' \in [Servers -> Places]
                     /\ why' \in [Servers -> {"none", "live", "noDescriptor", "notRemoved",
                                               "raced", "notOpened", "noMemory"}]
                     /\ {reused', failed'} \subseteq SUBSET Servers
                     /\ ack' \in [Clients -> Servers \cup {None}]
                     /\ mapped' \in [Clients -> Servers \cup {None}]
  <2>2. Rest
    <3> USE DEF TypeOK, directory, clientVars, Goto, Places, Scanning, Creating, Listening,
                Works, Errs
    <3>1. CASE Run(p) \/ List(p) \/ Stop(p) \/ Create(p)
      BY <1>2, <3>1 DEF Run, List, Stop, Create
    <3>2. CASE Inspect(p)
      BY <1>2, <3>2 DEF Inspect, Unreadable
    <3>3. CASE BindListener(p)
      BY <1>2, <3>3 DEF BindListener
    <3>4. CASE Sweep(p) \/ Destroy(p)
      BY <1>2, <3>4 DEF Sweep, Destroy, Unlink, TryUnlink
    <3>5. CASE Open(p)
      BY <1>2, <3>5 DEF Open, OpenExclusive, CannotOpen, Refuse
    <3>6. CASE CheckStale(p)
      BY <1>2, <3>6 DEF CheckStale, Refuse, Unreadable
    <3>7. CASE Reclaim(p)
      BY <1>2, <3>7 DEF Reclaim, Unlink, Refuse
    <3>8. CASE Reopen(p)
      BY <1>2, <3>8 DEF Reopen, OpenExclusive, CannotOpen, Refuse
    <3>9. CASE Size(p) \/ WriteHeader(p)
      BY <1>2, <3>9 DEF Size, WriteHeader, Generations
    <3>10. CASE CannotMap(p)
      BY <1>2, <3>10 DEF CannotMap, Unlink
    <3>11. CASE Crash(p) \/ ReusePid(p)
      BY <1>2, <3>11 DEF Crash, ReusePid
    <3> QED BY <1>2, <3>1, <3>2, <3>3, <3>4, <3>5, <3>6, <3>7, <3>8, <3>9, <3>10, <3>11
            DEF Server
  <2> QED BY <2>1, <2>2, Zenon DEF TypeOK
<1>3. ASSUME NEW c \in Clients, Client(c) PROVE TypeOK'
  BY <1>3 DEF TypeOK, directory, Client, Attach, HelloAck, Works
<1> QED BY <1>1, <1>2, <1>3 DEF Next

(* A server's step moves no other server and no client, and no failure is    *)
(* forgotten.                                                                *)
LEMMA OthersStay ==
    ASSUME TypeOK, NEW p \in Servers, Server(p)
    PROVE  /\ \A q \in Servers \ {p} : /\ pc'[q] = pc[q] /\ header'[q] = header[q]
                                       /\ gen'[q] = gen[q] /\ why'[q] = why[q]
           /\ UNCHANGED clientVars
           /\ failed \subseteq failed'
<1> USE DEF TypeOK, directory, clientVars, Goto, Works, Errs
<1>1. CASE Run(p) \/ List(p) \/ Inspect(p) \/ Stop(p) \/ Create(p)
  BY <1>1 DEF Run, List, Inspect, Stop, Create, Unreadable
<1>2. CASE BindListener(p)
  BY <1>2 DEF BindListener
<1>3. CASE Sweep(p) \/ Destroy(p) \/ CannotMap(p)
  BY <1>3 DEF Sweep, Destroy, CannotMap, TryUnlink
<1>4. CASE Open(p) \/ Reopen(p) \/ Reclaim(p)
  BY <1>4 DEF Open, Reopen, Reclaim, OpenExclusive, CannotOpen, Refuse
<1>5. CASE CheckStale(p)
  BY <1>5 DEF CheckStale, Refuse, Unreadable
<1>6. CASE Size(p) \/ WriteHeader(p) \/ Crash(p) \/ ReusePid(p)
  BY <1>6 DEF Size, WriteHeader, Crash, ReusePid
<1> QED BY <1>1, <1>2, <1>3, <1>4, <1>5, <1>6 DEF Server

(* A server's step keeps what every header and entry tells.                  *)
LEMMA OnceStep ==
    ASSUME TypeOK, \A q \in Servers : Once(q), NEW p \in Servers, Server(p),
           NEW q \in Servers
    PROVE  Once(q)'
<1>1. /\ q # p => pc'[q] = pc[q] /\ header'[q] = header[q]
      /\ failed \subseteq failed'
  BY OthersStay
<1> USE <1>1 DEF TypeOK, directory, Goto, Once, Scanning
<1>2. CASE Run(p) \/ List(p) \/ Inspect(p) \/ Stop(p) \/ Create(p)
  BY <1>2 DEF Run, List, Inspect, Stop, Create
<1>3. CASE BindListener(p)
  BY <1>3 DEF BindListener
<1>4. CASE Sweep(p) \/ Destroy(p) \/ CannotMap(p)
  BY <1>4 DEF Sweep, Destroy, CannotMap, Unlink, TryUnlink, Errs
<1>5. CASE Open(p)
  BY <1>5 DEF Open, OpenExclusive, CannotOpen, Refuse
<1>6. CASE CheckStale(p)
  BY <1>6 DEF CheckStale, Refuse
<1>7. CASE Reclaim(p)
  BY <1>7 DEF Reclaim, Unlink, Refuse
<1>8. CASE Reopen(p)
  BY <1>8 DEF Reopen, OpenExclusive, CannotOpen, Refuse
<1>9. CASE Size(p) \/ WriteHeader(p)
  BY <1>9 DEF Size, WriteHeader
<1>10. CASE Crash(p) \/ ReusePid(p)
  BY <1>10 DEF Crash, ReusePid, Running
<1> QED BY <1>2, <1>3, <1>4, <1>5, <1>6, <1>7, <1>8, <1>9, <1>10 DEF Server

(* While servers start and create one at a time, a server whose own calls    *)
(* work finds the path free when it opens again.                             *)
LEMMA FreeStep ==
    ASSUME Inv, NEW p \in Servers, Server(p), ~overlapped, ~Overlap',
           NEW q \in Servers
    PROVE  Free(q)'
<1>1. TypeOK /\ \A r \in Servers : Free(r)
  BY DEF Inv
<1>2. /\ \A r \in Servers \ {p} : pc'[r] = pc[r]
      /\ failed \subseteq failed'
  BY <1>1, OthersStay
<1>3. ASSUME pc[p] \in Scanning \cup Creating \/ pc'[p] \in Scanning \cup Creating
      PROVE  \A r \in Servers \ {p} : pc[r] \notin Scanning \cup Creating
  BY <1>2, <1>3 DEF Inv, Overlap, Busy
<1> USE <1>1, <1>2 DEF TypeOK, directory, Goto, Free, Scanning, Creating
<1>4. CASE Run(p) \/ List(p) \/ Inspect(p) \/ Stop(p) \/ Create(p)
  BY <1>3, <1>4 DEF Run, List, Inspect, Stop, Create
<1>5. CASE BindListener(p)
  BY <1>3, <1>5 DEF BindListener
<1>6. CASE Sweep(p) \/ Destroy(p) \/ CannotMap(p)
  BY <1>3, <1>6 DEF Sweep, Destroy, CannotMap, Unlink, TryUnlink
<1>7. CASE Open(p)
  BY <1>3, <1>7 DEF Open, OpenExclusive, CannotOpen, Refuse
<1>8. CASE CheckStale(p)
  BY <1>3, <1>8 DEF CheckStale, Refuse, Errs
<1>9. CASE Reclaim(p)
  BY <1>3, <1>9 DEF Reclaim, Unlink, Refuse
<1>10. CASE Reopen(p)
  BY <1>3, <1>10 DEF Reopen, OpenExclusive, CannotOpen, Refuse
<1>11. CASE Size(p) \/ WriteHeader(p)
  BY <1>3, <1>11 DEF Size, WriteHeader
<1>12. CASE Crash(p) \/ ReusePid(p)
  BY <1>12 DEF Crash, ReusePid
<1> QED BY <1>4, <1>5, <1>6, <1>7, <1>8, <1>9, <1>10, <1>11, <1>12 DEF Server

(* While also no probe of a server in service fails, a server's step leaves  *)
(* each with what its place knows of the entry.                              *)
LEMMA OwnedStep ==
    ASSUME Inv, NEW p \in Servers, Server(p), ~overlapped, ~Overlap', ~deceived',
           NEW q \in Servers
    PROVE  Owned(q)'
<1>1. ~deceived /\ (Unreadable(p) => ~Served)
  BY DeceivedStep
<1>2. TypeOK /\ (\A r \in Servers : Once(r)) /\ (\A r \in Servers : Owned(r))
  BY <1>1, Zenon DEF Inv
<1>3. \A r \in Servers \ {p} : pc'[r] = pc[r] /\ header'[r] = header[r] /\ gen'[r] = gen[r]
  BY <1>2, OthersStay
<1>4. ASSUME pc[p] \in Scanning \cup Creating \/ pc'[p] \in Scanning \cup Creating
      PROVE  \A r \in Servers \ {p} : pc[r] \notin Scanning \cup Creating
  BY <1>3, <1>4 DEF Inv, Overlap, Busy
<1> USE <1>2, <1>3 DEF TypeOK, directory, Goto, Owned, Scanning, Creating, Listening
<1>5. CASE Run(p) \/ List(p) \/ Stop(p) \/ Create(p)
  BY <1>4, <1>5 DEF Run, List, Stop, Create
<1>6. CASE Inspect(p)
  <2>1. pc' \in {[pc EXCEPT ![p] = "bind"], [pc EXCEPT ![p] = "sweep"]}
    BY <1>6 DEF Inspect
  <2>2. UNCHANGED <<file, gen>> /\ pc[p] = "inspect"
    BY <1>6 DEF Inspect
  <2>3. CASE pc' = [pc EXCEPT ![p] = "bind"]
    BY <1>4, <2>2, <2>3
  <2>4. CASE pc' = [pc EXCEPT ![p] = "sweep"]
    <3>1. ~LooksLive \/ Unreadable(p)
      BY <1>6, <2>4 DEF Inspect
    <3>2. ~Served \/ ~LooksLive
      BY <1>1, <3>1
    <3>3. \A r \in Servers : pc[r] = "serving" => gen[r] = 0
      BY <3>2 DEF Served, LooksLive, PidAlive, Running, Once
    <3> QED BY <1>4, <2>2, <2>4, <3>3
  <2> QED BY <2>1, <2>3, <2>4
<1>7. CASE BindListener(p)
  <2>1. UNCHANGED <<file, gen>> /\ pc[p] = "bind"
    BY <1>7 DEF BindListener
  <2>2. CASE pc' = [pc EXCEPT ![p] = "ended"]
    BY <1>4, <2>1, <2>2
  <2>3. CASE pc' # [pc EXCEPT ![p] = "ended"]
    <3>1. /\ pc' = [pc EXCEPT ![p] = "ready"]
          /\ ~\E r \in Servers \ {p} : pc[r] \in Listening
      BY <1>7, <2>3, Zenon DEF BindListener
    <3> QED BY <1>4, <2>1, <3>1
  <2> QED BY <2>2, <2>3
<1>8. CASE Sweep(p)
  BY <1>4, <1>8 DEF Sweep, Unlink, TryUnlink
<1>9. CASE Destroy(p) \/ CannotMap(p)
  BY <1>4, <1>9 DEF Destroy, CannotMap, Unlink, TryUnlink
<1>10. CASE Open(p)
  BY <1>4, <1>10 DEF Open, OpenExclusive, CannotOpen, Refuse
<1>11. CASE CheckStale(p)
  BY <1>4, <1>11 DEF CheckStale, Refuse
<1>12. CASE Reclaim(p)
  BY <1>4, <1>12 DEF Reclaim, Unlink, Refuse
<1>13. CASE Reopen(p)
  BY <1>4, <1>13 DEF Reopen, OpenExclusive, CannotOpen, Refuse
<1>14. CASE Size(p) \/ WriteHeader(p)
  BY <1>4, <1>14 DEF Size, WriteHeader
<1>15. CASE Crash(p) \/ ReusePid(p)
  BY <1>15 DEF Crash, ReusePid
<1> QED BY <1>5, <1>6, <1>7, <1>8, <1>9, <1>10, <1>11, <1>12, <1>13, <1>14, <1>15
        DEF Server

(* No server comes back to serving, and none serves before its header is     *)
(* written.                                                                  *)
LEMMA ServingStep ==
    ASSUME TypeOK, NEW p \in Servers, Server(p)
    PROVE  /\ pc'[p] = "serving" => pc[p] = "serving" \/ pc[p] = "header"
           /\ pc[p] \in {"serving", "idle", "ended", "crashed"}
                => pc'[p] \in {"serving", "idle", "ended", "crashed"}
<1> USE DEF TypeOK, Goto
<1>1. CASE Run(p) \/ List(p) \/ Inspect(p) \/ BindListener(p) \/ Stop(p) \/ Create(p)
  BY <1>1 DEF Run, List, Inspect, BindListener, Stop, Create
<1>2. CASE Sweep(p) \/ Destroy(p) \/ CannotMap(p) \/ Open(p)
  BY <1>2 DEF Sweep, Destroy, CannotMap, Open, OpenExclusive, CannotOpen, Refuse
<1>3. CASE CheckStale(p) \/ Reclaim(p) \/ Reopen(p)
  BY <1>3 DEF CheckStale, Reclaim, Reopen, OpenExclusive, CannotOpen, Refuse
<1>4. CASE Size(p) \/ WriteHeader(p) \/ Crash(p) \/ ReusePid(p)
  BY <1>4 DEF Size, WriteHeader, Crash, ReusePid
<1> QED BY <1>1, <1>2, <1>3, <1>4 DEF Server

(* Every step keeps the invariant.                                           *)
LEMMA InvStep == Inv /\ [Next]_vars => Inv'
<1> SUFFICES ASSUME Inv, [Next]_vars PROVE Inv'
  OBVIOUS
<1>1. TypeOK /\ TypeOK'
  BY TypeStep, Zenon DEF Inv
<1>2. CASE UNCHANGED vars
  BY <1>2 DEF vars, Inv, TypeOK, Overlap, Busy, Once, Owned, Free, Acked, MapsItsOwnRegion
<1>3. CASE Next
  <2>1. overlapped' = (overlapped \/ Overlap')
    BY <1>3 DEF Next
  <2>2. (Overlap => overlapped)'
    BY <2>1, Zenon
  <2>3. ~overlapped' => ~overlapped /\ ~Overlap'
    BY <2>1, Zenon
  <2>4. ASSUME NEW p \in Servers, Server(p) PROVE Inv'
    <3>1. \A q \in Servers : Once(q)'
      BY <1>1, <2>4, OnceStep DEF Inv
    <3>2. /\ ~overlapped' => \A q \in Servers : Free(q)'
          /\ ~overlapped' /\ ~deceived' => \A q \in Servers : Owned(q)'
      BY <2>3, <2>4, FreeStep, OwnedStep, Zenon
    <3>3. /\ UNCHANGED <<ack, mapped>>
          /\ \A q \in Servers \ {p} : pc'[q] = pc[q]
      BY <1>1, <2>4, OthersStay DEF clientVars
    <3>4. \A c \in Clients : Acked(c)'
      BY <1>1, <2>4, <3>3, ServingStep DEF Inv, Acked, TypeOK
    <3>5. ~overlapped' /\ ~deceived' => ~overlapped /\ ~deceived
      BY <2>3, <2>4, DeceivedStep, Zenon
    <3>6. MapsItsOwnRegion'
      BY <1>1, <2>4, <3>3, <3>5, ServingStep DEF Inv, Acked, MapsItsOwnRegion, TypeOK
    <3> QED BY <1>1, <2>2, <3>1, <3>2, <3>4, <3>6, Zenon DEF Inv
  <2>5. ASSUME NEW c \in Clients, Client(c) PROVE Inv'
    <3>1. UNCHANGED <<file, header, gen, pc, failed>> /\ UNCHANGED deceived
      BY <2>5 DEF Client, Attach, HelloAck, directory, Works
    <3>2. \A q \in Servers : Once(q)'
      BY <3>1 DEF Inv, Once
    <3>3. /\ ~overlapped' => \A q \in Servers : Free(q)'
          /\ ~overlapped' /\ ~deceived' => \A q \in Servers : Owned(q)'
      BY <2>3, <3>1 DEF Inv, Free, Owned
    <3>4. \A d \in Clients : Acked(d)'
      BY <1>1, <2>5, <3>1 DEF Inv, Acked, TypeOK, Client, Attach, HelloAck
    <3>5. MapsItsOwnRegion'
      <4>1. CASE Attach(c)
        BY <1>1, <2>3, <3>1, <4>1 DEF Inv, Acked, Owned, MapsItsOwnRegion, TypeOK, Attach
      <4>2. ASSUME NEW p \in Servers, HelloAck(c, p) PROVE MapsItsOwnRegion'
        BY <1>1, <2>3, <3>1, <4>2 DEF Inv, Acked, MapsItsOwnRegion, TypeOK, HelloAck
      <4> QED BY <2>5, <4>1, <4>2, Zenon DEF Client
    <3> QED BY <1>1, <2>2, <3>2, <3>3, <3>4, <3>5, Zenon DEF Inv
  <2> QED BY <1>3, <2>4, <2>5 DEF Next
<1> QED BY <1>2, <1>3

(* The invariant holds in every reachable state.                             *)
THEOREM Inductive == Spec => []Inv
BY InvInit, InvStep, PTL DEF Spec

(* The region of a session that is being served is the one its name leads    *)
(* to: neither the start-up scan nor server_create of another server removes *)
(* it, unless two overlap or a probe of it failed (cleanup_stale,            *)
(* check_shm_stale).                                                         *)
THEOREM ServedRegionsStay == Spec => []ServingIsReachable
<1>1. Inv => ServingIsReachable
  BY Zenon DEF Inv, Owned, ServingIsReachable
<1> QED BY <1>1, Inductive, PTL

(* No client maps the region of a server other than the one that serves it   *)
(* (client_attach finds the region by name).                                 *)
THEOREM ClientsMapTheirOwn == Spec => []MapsItsOwnRegion
<1>1. Inv => MapsItsOwnRegion
  BY DEF Inv
<1> QED BY <1>1, Inductive, PTL

(* server_create of a process whose system calls work refuses for a cause    *)
(* that still exists, a reused pid among them: whatever else a crash left of *)
(* a region, at whatever step, is reclaimed.                                 *)
THEOREM RefusalsAreJustified == Spec => RefusalIsJustified
<1> DEFINE Justified(p) ==
      \/ p \in failed'
      \/ /\ why'[p] = "live" /\ file \in Servers
         /\ \/ pc[file] = "serving"
            \/ file \in failed /\ pc[file] # "crashed"
            \/ file \in reused
      \/ why'[p] = "notRemoved" /\ file = "dir"
      \/ why'[p] = "raced" /\ overlapped
<1>1. ASSUME Inv, [Next]_vars, NEW p \in Servers, why'[p] # why[p]
      PROVE  Justified(p)
  <2>1. TypeOK
    BY <1>1 DEF Inv
  <2>2. ~\E c \in Clients : Client(c)
    BY <1>1 DEF Client, Attach, HelloAck
  <2>3. PICK q \in Servers : Server(q)
    BY <1>1, <2>2 DEF Next, vars
  <2>4. Server(p) /\ failed \subseteq failed'
    BY <1>1, <2>1, <2>3, OthersStay
  <2> USE DEF TypeOK, Errs
  <2>5. CASE CheckStale(p)
    <3>1. CASE LooksLive /\ why'[p] = "live"
      BY <1>1, <3>1 DEF Inv, Once, LooksLive, PidAlive, Running
    <3>2. CASE p \in failed'
      BY <3>2
    <3> QED BY <1>1, <2>1, <2>5, <3>1, <3>2 DEF CheckStale, Refuse
  <2>6. CASE Reclaim(p)
    BY <1>1, <2>1, <2>6 DEF Reclaim, Refuse
  <2>7. CASE Reopen(p) /\ p \notin failed'
    <3>1. file # None /\ why'[p] = "raced" /\ pc[p] = "reopen"
      BY <1>1, <2>1, <2>7 DEF Reopen, OpenExclusive, CannotOpen, Refuse
    <3>2. overlapped
      BY <1>1, <2>4, <2>7, <3>1, Zenon DEF Inv, Free
    <3> QED BY <3>1, <3>2
  <2>8. CASE CannotMap(p)
    BY <2>8 DEF CannotMap
  <2>9. CASE Open(p)
    BY <1>1, <2>9 DEF Open, OpenExclusive, CannotOpen
  <2>10. ~(Run(p) \/ List(p) \/ Inspect(p) \/ Sweep(p) \/ BindListener(p) \/ Stop(p)
            \/ Create(p) \/ Size(p) \/ WriteHeader(p) \/ Destroy(p)
            \/ Crash(p) \/ ReusePid(p))
    BY <1>1 DEF Run, List, Inspect, Sweep, BindListener, Stop, Create, Size,
                WriteHeader, Destroy, Crash, ReusePid
  <2> QED BY <2>4, <2>5, <2>6, <2>7, <2>8, <2>9, <2>10, Zenon DEF Server
<1>2. Inv /\ [Next]_vars => [\A p \in Servers : why'[p] # why[p] => Justified(p)]_vars
  BY <1>1
<1> QED BY <1>2, Inductive, PTL DEF Spec, RefusalIsJustified
=============================================================================
