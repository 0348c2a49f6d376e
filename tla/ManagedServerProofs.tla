------------------------ MODULE ManagedServerProofs ------------------------
(* Proofs about ManagedServer for any set of connections, any number of     *)
(* workers and any number of session ids.                                    *)
EXTENDS ManagedServer, TLAPS

USE ZenonT(60)

USE IdsAssumption, ClientsAssumption
USE DEF NoPeer, Hellos, Ready, Places, Alive, idVars, clientVars, sessionVars

\* What run() holds at each of its places: an id from prepare_unix_accept to
\* the end of the admission, a connection from accept on.
Acceptance ==
    /\ acc = "prepare" => nextId <= MaxIds
    /\ IF acc \in {"accept", "handshake", "admit"}
         THEN offer \in 1..(nextId - 1) ELSE offer = 0
    /\ IF acc \in {"handshake", "admit"}
         THEN peer \in Clients /\ conn[peer] = "accepted" ELSE peer = NoPeer
    /\ acc = "admit" /\ shm[peer] => offer \in regions

\* A thread exists only for a connection that was admitted, under an id that
\* was handed out and that no accept in progress has.
Sessions ==
    /\ \A c \in Clients :
          conn[c] \in {"idle", "queued", "accepted"} => thread[c] = "none"
    /\ \A c \in Clients : Alive(c) => sid[c] \in 1..(nextId - 1) /\ sid[c] # offer
    /\ regions \subseteq 1..(nextId - 1)

\* RegionsMatchSessions without the types.
Matching ==
    /\ \A id \in regions :
          \/ id = offer /\ acc \in Ready
          \/ \E c \in Clients : Alive(c) /\ shm[c] /\ sid[c] = id
    /\ \A c \in Clients : Alive(c) /\ shm[c] => sid[c] \in regions
    /\ \A c, d \in Clients : Alive(c) /\ Alive(d) /\ sid[c] = sid[d] => c = d

\* The inductive invariant.
Inv == RegionsMatchSessions /\ Acceptance /\ Sessions

(* A server that has not run has no regions and no sessions.                 *)
LEMMA InvInit == Init => Inv
<1> SUFFICES ASSUME Init PROVE Inv
  OBVIOUS
<1>1. TypeOK
  <2>1. /\ nextId \in 1..(MaxIds + 1) /\ offer \in 0..MaxIds
        /\ regions \in SUBSET (1..MaxIds)
        /\ sid \in [Clients -> 0..MaxIds]
    BY SMTT(60) DEF Init
  <2>2. /\ acc \in Places /\ peer \in Clients \cup {NoPeer}
        /\ conn \in [Clients -> {"idle", "queued", "accepted", "open", "dropped"}]
        /\ hello \in [Clients -> Hellos \cup {"none"}]
        /\ thread \in [Clients -> {"none", "running", "leaving", "finished"}]
        /\ pool \in SUBSET Clients /\ stopped \in {"no", "early", "yes"}
    BY DEF Init
  <2>3. running \in BOOLEAN /\ left \in [Clients -> BOOLEAN] /\ shm \in [Clients -> BOOLEAN]
    BY DEF Init
  <2> QED BY <2>1, <2>2, <2>3 DEF TypeOK
<1>2. \A c \in Clients : thread[c] = "none"
  BY DEF Init
<1> QED BY <1>1, <1>2 DEF Init, Inv, RegionsMatchSessions, Acceptance, Sessions

(* An update keeps the range of a function.                                  *)
LEMMA UpdateType ==
    ASSUME NEW S, NEW T, NEW f \in [S -> T], NEW a, NEW b \in T
    PROVE  [f EXCEPT ![a] = b] \in [S -> T]
OBVIOUS

(* The flags stay Boolean.                                                   *)
LEMMA FlagStep ==
    ASSUME TypeOK, [Next]_vars
    PROVE  /\ running' \in BOOLEAN
           /\ left' \in [Clients -> BOOLEAN]
           /\ shm' \in [Clients -> BOOLEAN]
<1>1. running \in BOOLEAN /\ left \in [Clients -> BOOLEAN] /\ shm \in [Clients -> BOOLEAN]
  BY DEF TypeOK
<1>2. running' \in {running, TRUE, FALSE}
  BY DEF Next, vars, Acceptor, Run, SetRunning, Poll, PollFails, Prepare, Accept,
         AcceptFailed, Handshake, Admit, Join, Stop, Session, SeesError, SeesStop,
         SeesHangup, Leaving, Exit, Client, Connect, SayHello, Leave
<1>3. \/ left' = left
      \/ \E c \in Clients : left' = [left EXCEPT ![c] = TRUE]
  BY DEF Next, vars, Acceptor, Run, SetRunning, Poll, PollFails, Prepare, Accept,
         AcceptFailed, Handshake, Admit, Join, Stop, Session, SeesError, SeesStop,
         SeesHangup, Leaving, Exit, Client, Connect, SayHello, Leave
<1>4. \/ shm' = shm
      \/ shm' = [shm EXCEPT ![peer] = hello[peer] = "shm" /\ offer \in regions]
  BY DEF Next, vars, Acceptor, Run, SetRunning, Poll, PollFails, Prepare, Accept,
         AcceptFailed, Handshake, Admit, Join, Stop, Session, SeesError, SeesStop,
         SeesHangup, Leaving, Exit, Client, Connect, SayHello, Leave
<1>5. (hello[peer] = "shm" /\ offer \in regions) \in BOOLEAN
  OBVIOUS
<1>6. left' \in [Clients -> BOOLEAN]
  BY <1>1, <1>3, UpdateType
<1>7. shm' \in [Clients -> BOOLEAN]
  BY <1>1, <1>4, <1>5, UpdateType
<1> QED BY <1>1, <1>2, <1>6, <1>7

\* TypeOK without its flags: what the acceptor and the sessions are doing.
Typed ==
    /\ acc \in Places
    /\ nextId \in 1..(MaxIds + 1) /\ offer \in 0..MaxIds
    /\ peer \in Clients \cup {NoPeer}
    /\ regions \in SUBSET (1..MaxIds)
    /\ conn \in [Clients -> {"idle", "queued", "accepted", "open", "dropped"}]
    /\ hello \in [Clients -> Hellos \cup {"none"}]
    /\ sid \in [Clients -> 0..MaxIds]
    /\ thread \in [Clients -> {"none", "running", "leaving", "finished"}]
    /\ pool \in SUBSET Clients
    /\ stopped \in {"no", "early", "yes"}

(* Every step keeps the other types; the ids stay within their bound because *)
(* the acceptor prepares only when one is left.                              *)
LEMMA TypedStep ==
    ASSUME Typed, Acceptance, [Next]_vars PROVE Typed'
<1> USE DEF Typed
<1>1. CASE UNCHANGED vars
  BY <1>1 DEF vars
<1>2. CASE Run \/ SetRunning \/ PollFails \/ Stop
  BY <1>2 DEF Run, SetRunning, PollFails, Stop
<1>3. CASE Poll
  BY <1>3 DEF Poll, Reaped
<1>4. CASE Prepare
  <2>1. nextId \in 1..MaxIds /\ nextId' = nextId + 1
    BY SMTT(60), <1>4 DEF Prepare, Acceptance
  <2>2. nextId' \in 1..(MaxIds + 1) /\ nextId \in 0..MaxIds
    BY SMTT(60), <2>1
  <2>3. regions' \in SUBSET (1..MaxIds)
    BY <1>4, <2>1 DEF Prepare
  <2> QED BY SMTT(60), <1>4, <2>2, <2>3 DEF Prepare
<1>5. ASSUME AcceptFailed PROVE Typed'
  BY SMTT(60), <1>5 DEF AcceptFailed, Discard
<1>6. CASE Accept
  BY <1>5, <1>6 DEF Accept, Queued
<1>7. CASE Handshake
  BY <1>5, <1>7 DEF Handshake
<1>8. CASE Admit
  <2>1. CASE AtCapacity /\ Discard /\ pool' = Reaped /\ UNCHANGED sessionVars
    BY SMTT(60), <1>8, <2>1 DEF Admit, Discard, Reaped
  <2>2. CASE ~AtCapacity
    <3>1. peer \in Clients
      BY <1>8 DEF Admit, Acceptance
    <3>2. /\ pool' = Reaped \cup {peer} /\ regions' = Kept
          /\ sid' = [sid EXCEPT ![peer] = offer]
          /\ thread' = [thread EXCEPT ![peer] = "running"]
          /\ conn' = [conn EXCEPT ![peer] = "open"]
          /\ offer' = 0 /\ peer' = NoPeer /\ acc' = "loop"
          /\ UNCHANGED <<nextId, hello, stopped>>
      BY <1>8, <2>2 DEF Admit
    <3> QED BY SMTT(60), <3>1, <3>2 DEF Reaped, Kept
  <2> QED BY <1>8, <2>1, <2>2 DEF Admit
<1>9. CASE Join
  BY <1>9 DEF Join
<1>10. ASSUME NEW c \in Clients, Session(c) \/ SeesError(c) PROVE Typed'
  BY <1>10 DEF Session, SeesError, SeesStop, SeesHangup, Leaving, Exit
<1>11. ASSUME NEW c \in Clients, Client(c) PROVE Typed'
  <2>1. CASE Connect(c) BY <2>1 DEF Connect
  <2>2. CASE SayHello(c) BY <2>2 DEF SayHello
  <2>3. CASE Leave(c) BY <2>3 DEF Leave
  <2> QED BY <1>11, <2>1, <2>2, <2>3 DEF Client
<1> QED BY <1>1, <1>2, <1>3, <1>4, <1>6, <1>7, <1>8, <1>9, <1>10, <1>11
        DEF Next, Acceptor

(* Every step keeps the types.                                               *)
LEMMA TypeStep == ASSUME Inv, [Next]_vars PROVE TypeOK'
<1>1. TypeOK /\ Acceptance
  BY DEF Inv, RegionsMatchSessions
<1>2. Typed
  BY <1>1 DEF TypeOK, Typed
<1> QED BY <1>1, <1>2, FlagStep, TypedStep DEF TypeOK, Typed

(* A step that leaves the ids, the regions and the threads alone keeps       *)
(* Sessions, also when connections that have no thread move on.              *)
LEMMA SessionsKept ==
    ASSUME Sessions, UNCHANGED <<nextId, offer, regions, thread, sid>>,
           \A c \in Clients : conn'[c] = conn[c] \/ thread[c] = "none" \/ conn'[c] = "dropped"
    PROVE  Sessions'
BY DEF Sessions

(* A step that leaves the regions and the sessions alone keeps them matched, *)
(* provided that run() does not leave its loop with a region on offer.       *)
LEMMA MatchingKept ==
    ASSUME Matching, UNCHANGED <<regions, offer, thread, sid>>,
           \A c \in Clients : shm'[c] = shm[c] \/ ~Alive(c),
           acc' \in Ready \/ offer \notin regions
    PROVE  Matching'
BY DEF Matching

(* run() outside an accept has no region on offer.                           *)
LEMMA NothingOffered ==
    ASSUME Acceptance, Sessions, acc \notin {"accept", "handshake", "admit"}
    PROVE  offer = 0 /\ offer \notin regions
BY SMTT(60) DEF Acceptance, Sessions

(* Every step keeps regions and sessions matched.                            *)
LEMMA MatchStep ==
    ASSUME Inv, [Next]_vars PROVE (Acceptance /\ Sessions /\ Matching)'
<1>1. Typed
  BY DEF Inv, RegionsMatchSessions, TypeOK, Typed
<1>2. Acceptance /\ Sessions /\ Matching
  BY DEF Inv, RegionsMatchSessions, Matching
<1>3. CASE UNCHANGED vars
  BY <1>2, <1>3 DEF vars, Acceptance, Sessions, Matching
<1>4. CASE Run \/ SetRunning \/ Poll \/ PollFails \/ Stop
  <2>1. UNCHANGED <<nextId, offer, peer, regions, conn, shm, thread, sid>>
    BY <1>4 DEF Run, SetRunning, Poll, PollFails, Stop
  <2>2. \/ acc' = acc
        \/ /\ {acc, acc'} \cap {"accept", "handshake", "admit"} = {}
           /\ acc' = "prepare" => nextId <= MaxIds
    BY <1>4 DEF Run, SetRunning, Poll, PollFails, Stop
  <2>3. Acceptance'
    BY <1>2, <2>1, <2>2 DEF Acceptance
  <2>4. acc' \in Ready \/ offer \notin regions
    BY <1>2, <2>2, NothingOffered
  <2> QED BY <1>2, <2>1, <2>3, <2>4, SessionsKept, MatchingKept
<1>5. CASE Prepare
  <2>1. /\ nextId \in 1..MaxIds /\ offer = 0 /\ peer = NoPeer
        /\ regions \subseteq 1..(nextId - 1)
    BY SMTT(60), <1>1, <1>2, <1>5 DEF Typed, Acceptance, Sessions, Prepare
  <2>2. /\ nextId' = nextId + 1 /\ acc' \in {"accept", "loop"}
        /\ offer' = IF acc' = "accept" THEN nextId ELSE 0
        /\ regions' \in {regions, regions \cup {offer'}}
        /\ acc' = "loop" => regions' = regions
        /\ UNCHANGED <<peer, conn, shm, sid, thread>>
    BY <1>5 DEF Prepare
  <2>3. Acceptance'
    BY SMTT(60), <2>1, <2>2 DEF Acceptance
  <2>4. Sessions'
    <3>1. regions' \subseteq 1..(nextId' - 1)
      BY SMTT(60), <2>1, <2>2
    <3>2. \A c \in Clients : Alive(c)' => sid'[c] \in 1..(nextId' - 1) /\ sid'[c] # offer'
      BY SMTT(60), <1>2, <2>1, <2>2 DEF Sessions
    <3> QED BY <1>2, <2>2, <3>1, <3>2 DEF Sessions
  <2>5. Matching'
    BY SMTT(60), <1>2, <2>1, <2>2 DEF Matching
  <2> QED BY <2>3, <2>4, <2>5
<1>6. ASSUME Discard, acc \in {"accept", "handshake", "admit"},
             acc' \in {"loop", "join"}, UNCHANGED <<nextId, sessionVars>>
      PROVE  (Acceptance /\ Sessions /\ Matching)'
  <2>1. Acceptance'
    BY <1>6 DEF Acceptance, Discard
  <2>2. Sessions'
    <3>1. \A c \in Clients : conn'[c] = conn[c] \/ conn'[c] = "dropped"
      BY <1>6 DEF Discard
    <3>2. regions' \subseteq regions /\ offer' = 0 /\ UNCHANGED <<nextId, sid, thread>>
      BY <1>6 DEF Discard
    <3>3. \A c \in Clients : conn'[c] \in {"idle", "queued", "accepted"} => thread'[c] = "none"
      BY <1>2, <3>1, <3>2 DEF Sessions
    <3>4. \A c \in Clients : Alive(c)' => sid'[c] \in 1..(nextId' - 1) /\ sid'[c] # offer'
      BY SMTT(60), <1>2, <3>2 DEF Sessions
    <3>5. regions' \subseteq 1..(nextId' - 1)
      BY <1>2, <3>2 DEF Sessions
    <3> QED BY <3>3, <3>4, <3>5 DEF Sessions
  <2>3. Matching'
    BY <1>2, <1>6 DEF Sessions, Matching, Discard
  <2> QED BY <2>1, <2>2, <2>3
<1>7. CASE Accept
  <2>1. CASE AcceptFailed
    BY <1>6, <1>7, <2>1 DEF Accept, AcceptFailed
  <2>2. ASSUME NEW c \in Queued, conn' = [conn EXCEPT ![c] = "accepted"], peer' = c,
               acc' = "handshake",
               UNCHANGED <<running, idVars, regions, clientVars, sessionVars, pool, stopped>>
        PROVE  (Acceptance /\ Sessions /\ Matching)'
    <3>1. c \in Clients /\ conn[c] = "queued" /\ thread[c] = "none"
      BY <1>2, <2>2 DEF Queued, Sessions
    <3>2. Acceptance'
      BY <1>1, <1>2, <1>7, <2>2, <3>1 DEF Acceptance, Typed, Accept
    <3>3. \A d \in Clients : conn'[d] = conn[d] \/ thread[d] = "none"
      BY <1>1, <2>2, <3>1 DEF Typed
    <3> QED BY <1>2, <2>2, <3>2, <3>3, SessionsKept, MatchingKept
  <2> QED BY <1>7, <2>1, <2>2 DEF Accept
<1>8. CASE Handshake
  <2>1. CASE AcceptFailed
    BY <1>6, <1>8, <2>1 DEF Handshake, AcceptFailed
  <2>2. CASE ~AcceptFailed
    <3>1. /\ shm' = [shm EXCEPT ![peer] = hello[peer] = "shm" /\ offer \in regions]
          /\ acc' = "admit"
          /\ UNCHANGED <<nextId, offer, peer, regions, conn, sid, thread>>
      BY <1>8, <2>2 DEF Handshake
    <3>2. peer \in Clients /\ conn[peer] = "accepted" /\ thread[peer] = "none"
      BY <1>2, <1>8 DEF Acceptance, Sessions, Handshake
    <3>3. shm \in [Clients -> BOOLEAN]
      BY DEF Inv, RegionsMatchSessions, TypeOK
    <3>4. shm'[peer] => offer \in regions
      BY <3>1, <3>2, <3>3
    <3>5. \A c \in Clients : shm'[c] = shm[c] \/ ~Alive(c)
      BY <3>1, <3>2, <3>3
    <3>6. Acceptance'
      BY <1>2, <1>8, <3>1, <3>2, <3>4 DEF Acceptance, Handshake
    <3> QED BY <1>2, <3>1, <3>5, <3>6, SessionsKept, MatchingKept
  <2> QED BY <2>1, <2>2
<1>9. CASE Admit
  <2>1. CASE AtCapacity
    BY <1>6, <1>9, <2>1 DEF Admit
  <2>2. CASE ~AtCapacity
    <3>1. /\ regions' = Kept
          /\ sid' = [sid EXCEPT ![peer] = offer]
          /\ thread' = [thread EXCEPT ![peer] = "running"]
          /\ conn' = [conn EXCEPT ![peer] = "open"]
          /\ offer' = 0 /\ peer' = NoPeer /\ acc' = "loop"
          /\ UNCHANGED <<nextId, shm>>
      BY <1>9, <2>2 DEF Admit
    <3>2. /\ peer \in Clients /\ thread[peer] = "none"
          /\ offer \in 1..(nextId - 1)
          /\ shm[peer] => offer \in regions
      BY <1>2, <1>9 DEF Acceptance, Sessions, Admit
    <3>3. /\ sid'[peer] = offer /\ thread'[peer] = "running" /\ conn'[peer] = "open"
          /\ \A c \in Clients \ {peer} :
                sid'[c] = sid[c] /\ thread'[c] = thread[c] /\ conn'[c] = conn[c]
      BY <1>1, <3>1, <3>2 DEF Typed
    <3>4. Acceptance'
      BY <3>1 DEF Acceptance
    <3>5. Sessions'
      BY SMTT(60), <1>1, <1>2, <3>1, <3>2, <3>3 DEF Sessions, Typed, Kept
    <3>6. Matching'
      <4>1. \A id \in regions' : \E c \in Clients : Alive(c)' /\ shm'[c] /\ sid'[c] = id
        BY SMTT(60), <1>2, <3>1, <3>2, <3>3 DEF Matching, Kept
      <4>2. \A c \in Clients : Alive(c)' /\ shm'[c] => sid'[c] \in regions'
        BY SMTT(60), <1>2, <3>1, <3>2, <3>3 DEF Matching, Sessions, Kept
      <4>3. \A c, d \in Clients : Alive(c)' /\ Alive(d)' /\ sid'[c] = sid'[d] => c = d
        BY SMTT(60), <1>2, <3>2, <3>3 DEF Matching, Sessions
      <4> QED BY <4>1, <4>2, <4>3 DEF Matching
    <3> QED BY <3>4, <3>5, <3>6
  <2> QED BY <2>1, <2>2
<1>10. CASE Join
  <2>1. /\ UNCHANGED <<nextId, offer, peer, regions, shm, sid, thread>>
        /\ acc = "join" /\ acc' = "returned"
        /\ \A c \in Clients : conn'[c] = conn[c] \/ conn'[c] = "dropped"
    BY <1>10 DEF Join
  <2>2. Acceptance'
    BY <1>2, <2>1 DEF Acceptance
  <2> QED BY <1>2, <2>1, <2>2, NothingOffered, SessionsKept, MatchingKept
<1>11. ASSUME NEW c \in Clients, Leaving(c)
       PROVE  (Acceptance /\ Sessions /\ Matching)'
  <2>1. \A d \in Clients : /\ Alive(d)' = Alive(d)
                           /\ thread[d] = "none" => thread'[d] = "none"
    BY SMTT(60), <1>1, <1>11 DEF Leaving, Typed
  <2>2. UNCHANGED <<acc, nextId, offer, peer, regions, conn, shm, sid>>
    BY <1>11 DEF Leaving
  <2> QED BY SMTT(60), <1>2, <2>1, <2>2 DEF Acceptance, Sessions, Matching
<1>12. ASSUME NEW c \in Clients, Exit(c)
       PROVE  (Acceptance /\ Sessions /\ Matching)'
  <2>1. /\ Alive(c) /\ thread'[c] = "finished" /\ conn'[c] = "dropped"
        /\ \A d \in Clients \ {c} : thread'[d] = thread[d] /\ conn'[d] = conn[d]
    BY <1>1, <1>12 DEF Exit, Typed
  <2>2. /\ UNCHANGED <<acc, nextId, offer, peer, shm, sid>>
        /\ regions' = regions \ (IF shm[c] THEN {sid[c]} ELSE {})
    BY <1>12 DEF Exit
  <2>3. offer # sid[c] /\ peer # c
    BY <1>2, <2>1 DEF Acceptance, Sessions
  <2>4. Acceptance'
    BY <1>2, <2>1, <2>2, <2>3 DEF Acceptance
  <2>5. Sessions'
    BY <1>2, <2>1, <2>2 DEF Sessions
  <2>6. Matching'
    BY SMTT(60), <1>2, <2>1, <2>2, <2>3 DEF Matching
  <2> QED BY <2>4, <2>5, <2>6
<1>13. ASSUME NEW c \in Clients, Client(c)
       PROVE  (Acceptance /\ Sessions /\ Matching)'
  <2>1. UNCHANGED <<acc, nextId, offer, peer, regions, shm, sid, thread>>
    BY <1>13 DEF Client, Connect, SayHello, Leave
  <2>2. \A d \in Clients : conn'[d] = conn[d] \/ (conn[d] = "idle" /\ conn'[d] = "queued")
    <3>1. CASE Connect(c)
      BY <1>1, <3>1 DEF Connect, Typed
    <3>2. CASE SayHello(c) \/ Leave(c)
      BY <3>2 DEF SayHello, Leave
    <3> QED BY <1>13, <3>1, <3>2 DEF Client
  <2>3. \A d \in Clients : conn'[d] = conn[d] \/ thread[d] = "none"
    BY <1>2, <2>2 DEF Sessions
  <2>4. Acceptance'
    BY <1>2, <2>1, <2>2 DEF Acceptance
  <2>5. Matching'
    BY <1>2, <2>1 DEF Matching
  <2> QED BY <1>2, <2>1, <2>3, <2>4, <2>5, SessionsKept
<1> QED BY <1>3, <1>4, <1>5, <1>7, <1>8, <1>9, <1>10, <1>11, <1>12, <1>13
        DEF Next, Acceptor, Session, SeesError, SeesStop, SeesHangup

(* The invariant holds in every reachable state.                             *)
THEOREM Inductive == Spec => []Inv
<1>1. Inv /\ [Next]_vars => Inv'
  BY TypeStep, MatchStep DEF Inv, RegionsMatchSessions, Matching
<1> QED BY <1>1, InvInit, PTL DEF Spec

(* No region file outlives its session or loses it, and no two live sessions *)
(* share an id, for any number of clients, workers and accepts               *)
(* (prepare_unix_accept, finalize_unix_shm and the session thread's exit).   *)
THEOREM RegionsBelongToSessions == Spec => []RegionsMatchSessions
BY Inductive, PTL DEF Inv
=============================================================================
