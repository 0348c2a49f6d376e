--------------------------- MODULE ManagedServer ---------------------------
(***************************************************************************)
(* The managed server on POSIX: the acceptor loop of ManagedServer::run    *)
(* (server_unix.rs), one thread per session (server_session_unix.rs) and   *)
(* stop() (server.rs), with the clients that connect, say hello and leave. *)
(*                                                                         *)
(* What a session thread does with a request is ShmSession; here a thread  *)
(* only stays in its loop or leaves it.  Each element of Clients is one    *)
(* connection.                                                             *)
(***************************************************************************)
EXTENDS Naturals, FiniteSets

CONSTANTS
    Clients,
    WorkerCount,
    ShmSupported,   \* the server's profiles include SHM
    MaxIds          \* bound on the session ids handed out

ASSUME WorkerAssumption == WorkerCount \in Nat \ {0}
ASSUME IdsAssumption == MaxIds \in Nat
ASSUME ClientsAssumption == "noPeer" \notin Clients

VARIABLES
    running,        \* the AtomicBool shared by stop(), run() and the threads
    acc,            \* where run() is
    nextId, offer,  \* next_session_id; the id prepared for this accept, or 0
    peer,           \* the connection run() is shaking hands with
    regions,        \* ids whose SHM region file exists
    conn, hello, left,
    shm, sid, thread,
    pool,           \* session_threads: handles not reaped yet
    stopped         \* history: "early" when stop() came before run() was ready

vars == <<running, acc, nextId, offer, peer, regions, conn, hello, left,
          shm, sid, thread, pool, stopped>>
sessionVars == <<shm, sid, thread>>
clientVars == <<hello, left>>
idVars == <<nextId, offer>>

NoPeer == "noPeer"
Hellos == {"shm", "baseline", "bad"}
Ready == {"loop", "prepare", "accept", "handshake", "admit"}
Places == {"off", "listening", "join", "returned"} \cup Ready

Init ==
    /\ running = FALSE
    /\ acc = "off"
    /\ nextId = 1
    /\ offer = 0
    /\ peer = NoPeer
    /\ regions = {}
    /\ conn = [c \in Clients |-> "idle"]
    /\ hello = [c \in Clients |-> "none"]
    /\ left = [c \in Clients |-> FALSE]
    /\ shm = [c \in Clients |-> FALSE]
    /\ sid = [c \in Clients |-> 0]
    /\ thread = [c \in Clients |-> "none"]
    /\ pool = {}
    /\ stopped = "no"

-----------------------------------------------------------------------------
(* run() *)

Run ==
    /\ acc = "off"
    /\ acc' \in {"listening", "returned"}     \* bind may fail
    /\ UNCHANGED <<running, idVars, peer, regions, conn, clientVars, sessionVars, pool, stopped>>

SetRunning ==
    /\ acc = "listening"
    /\ running' = TRUE
    /\ acc' = "loop"
    /\ UNCHANGED <<idVars, peer, regions, conn, clientVars, sessionVars, pool, stopped>>

Queued == {c \in Clients : conn[c] = "queued"}
Reaped == {c \in pool : thread[c] # "finished"}

\* The loop condition, then poll on the listening socket.
Poll ==
    /\ acc = "loop"
    /\ \/ ~running /\ acc' = "join" /\ UNCHANGED pool
       \/ running /\ pool' = Reaped /\ UNCHANGED acc             \* times out
       \/ /\ running /\ Queued # {} /\ nextId <= MaxIds
          /\ acc' = "prepare"
          /\ UNCHANGED pool
    /\ UNCHANGED <<running, idVars, peer, regions, conn, clientVars, sessionVars, stopped>>

\* poll reports an error: run() leaves its loop, the flag stays up.
PollFails ==
    /\ acc = "loop" /\ running
    /\ acc' = "join"
    /\ UNCHANGED <<running, idVars, peer, regions, conn, clientVars, sessionVars, pool, stopped>>

\* prepare_unix_accept: take an id and create its region, or offer no SHM.
Prepare ==
    /\ acc = "prepare"
    /\ nextId' = nextId + 1
    /\ \/ ShmSupported /\ regions' = regions \cup {nextId} /\ acc' = "accept"
       \/ regions' = regions /\ acc' = "accept"
       \/ ShmSupported /\ regions' = regions /\ acc' = "loop"     \* SHM was all it had
    /\ offer' = IF acc' = "accept" THEN nextId ELSE 0
    /\ UNCHANGED <<running, peer, conn, clientVars, sessionVars, pool, stopped>>

\* The prepared region goes, and with it the connection if there is one.
Discard ==
    /\ regions' = regions \ {offer}
    /\ offer' = 0
    /\ peer' = NoPeer
    /\ conn' = [c \in Clients |-> IF c = peer THEN "dropped" ELSE conn[c]]

AcceptFailed ==
    /\ Discard
    /\ acc' = IF running THEN "loop" ELSE "join"
    /\ UNCHANGED <<running, nextId, clientVars, sessionVars, pool, stopped>>

Accept ==
    /\ acc = "accept"
    /\ \/ \E c \in Queued :
            /\ conn' = [conn EXCEPT ![c] = "accepted"]
            /\ peer' = c
            /\ acc' = "handshake"
            /\ UNCHANGED <<running, idVars, regions, clientVars, sessionVars, pool, stopped>>
       \/ AcceptFailed

\* server_handshake: a blocking receive with no deadline, then the answer.
Handshake ==
    /\ acc = "handshake"
    /\ \/ /\ hello[peer] = "bad" \/ left[peer]
          /\ AcceptFailed
       \/ /\ hello[peer] \in {"shm", "baseline"}
          /\ shm' = [shm EXCEPT ![peer] = hello[peer] = "shm" /\ offer \in regions]
          /\ acc' = "admit"
          /\ UNCHANGED <<running, idVars, peer, regions, conn, clientVars,
                         sid, thread, pool, stopped>>

AtCapacity == Cardinality(Reaped) >= WorkerCount

\* Mutant: a baseline session keeps the region prepared for it.
KeptAlways == regions

\* finalize_unix_shm: a baseline session has no use for its region.
Kept == IF shm[peer] THEN regions ELSE regions \ {offer}

Admit ==
    /\ acc = "admit"
    /\ acc' = "loop"
    /\ \/ AtCapacity /\ Discard /\ pool' = Reaped /\ UNCHANGED sessionVars
       \/ /\ ~AtCapacity
          /\ pool' = Reaped \cup {peer}
          /\ regions' = Kept
          /\ sid' = [sid EXCEPT ![peer] = offer]
          /\ thread' = [thread EXCEPT ![peer] = "running"]
          /\ conn' = [conn EXCEPT ![peer] = "open"]
          /\ offer' = 0
          /\ peer' = NoPeer
          /\ UNCHANGED shm
    /\ UNCHANGED <<running, nextId, clientVars, stopped>>

\* Join every thread, then drop the listener and whatever still queues there.
Join ==
    /\ acc = "join"
    /\ \A c \in pool : thread[c] = "finished"
    /\ pool' = {}
    /\ acc' = "returned"
    /\ conn' = [c \in Clients |-> IF conn[c] = "queued" THEN "dropped" ELSE conn[c]]
    /\ UNCHANGED <<running, idVars, peer, regions, clientVars, sessionVars, stopped>>

Acceptor == Run \/ SetRunning \/ Poll \/ Prepare \/ Accept \/ Handshake \/ Admit \/ Join

Stop ==
    /\ stopped # "yes"
    /\ running' = FALSE
    /\ stopped' = IF acc \in {"off", "listening"} THEN "early" ELSE "yes"
    /\ UNCHANGED <<acc, idVars, peer, regions, conn, clientVars, sessionVars, pool>>

-----------------------------------------------------------------------------
(* handle_session_threaded: the reasons to leave its loop, and the exit. *)

Leaving(c) ==
    /\ thread[c] = "running"
    /\ thread' = [thread EXCEPT ![c] = "leaving"]
    /\ UNCHANGED <<running, acc, idVars, peer, regions, conn, clientVars, shm, sid, pool, stopped>>

\* Mutant: the loop does not look at the running flag.
SeesStopNever(c) == FALSE /\ Leaving(c)

SeesStop(c) == ~running /\ Leaving(c)

\* Mutant: POLLHUP is ignored.
SeesHangupNever(c) == FALSE /\ Leaving(c)

\* poll_fd reports the hangup.  An SHM session waits on the region only and
\* never looks at its socket.
SeesHangup(c) == left[c] /\ ~shm[c] /\ Leaving(c)

\* A message that is not a request, a failed send, LIMIT_EXCEEDED sent.
SeesError(c) == ~left[c] /\ Leaving(c)

Exit(c) ==
    /\ thread[c] = "leaving"
    /\ thread' = [thread EXCEPT ![c] = "finished"]
    /\ regions' = regions \ (IF shm[c] THEN {sid[c]} ELSE {})
    /\ conn' = [conn EXCEPT ![c] = "dropped"]
    /\ UNCHANGED <<running, acc, idVars, peer, clientVars, shm, sid, pool, stopped>>

Session(c) == SeesStop(c) \/ SeesHangup(c) \/ Exit(c)

-----------------------------------------------------------------------------
(* The clients. *)

Connect(c) ==
    /\ acc \in {"listening", "join"} \cup Ready
    /\ conn[c] = "idle"
    /\ conn' = [conn EXCEPT ![c] = "queued"]
    /\ UNCHANGED <<running, acc, idVars, peer, regions, clientVars, sessionVars, pool, stopped>>

SayHello(c) ==
    /\ conn[c] \in {"queued", "accepted"}
    /\ hello[c] = "none" /\ ~left[c]
    /\ \E h \in Hellos : hello' = [hello EXCEPT ![c] = h]
    /\ UNCHANGED <<running, acc, idVars, peer, regions, conn, left, sessionVars, pool, stopped>>

Leave(c) ==
    /\ conn[c] # "idle" /\ ~left[c]
    /\ left' = [left EXCEPT ![c] = TRUE]
    /\ UNCHANGED <<running, acc, idVars, peer, regions, conn, hello, sessionVars, pool, stopped>>

Client(c) == Connect(c) \/ SayHello(c) \/ Leave(c)

-----------------------------------------------------------------------------
Next ==
    \/ Acceptor \/ PollFails
    \/ Stop
    \/ \E c \in Clients : Session(c) \/ SeesError(c) \/ Client(c)

Spec == Init /\ [][Next]_vars

\* Threads are scheduled; this library's clients send HELLO right after they
\* connect, or die and are closed by the kernel.
FairSpec ==
    /\ Spec
    /\ WF_vars(Acceptor)
    /\ \A c \in Clients : WF_vars(Session(c))
    /\ \A c \in Clients : WF_vars(SayHello(c) \/ Leave(c))

-----------------------------------------------------------------------------
\* The acceptor, the sessions and the clients are at known places, and ids
\* stay within those handed out.
TypeOK ==
    /\ running \in BOOLEAN
    /\ acc \in Places
    /\ nextId \in 1..(MaxIds + 1)
    /\ offer \in 0..MaxIds
    /\ peer \in Clients \cup {NoPeer}
    /\ regions \in SUBSET (1..MaxIds)
    /\ conn \in [Clients -> {"idle", "queued", "accepted", "open", "dropped"}]
    /\ hello \in [Clients -> Hellos \cup {"none"}]
    /\ left \in [Clients -> BOOLEAN]
    /\ shm \in [Clients -> BOOLEAN]
    /\ sid \in [Clients -> 0..MaxIds]
    /\ thread \in [Clients -> {"none", "running", "leaving", "finished"}]
    /\ pool \in SUBSET Clients
    /\ stopped \in {"no", "early", "yes"}

Alive(c) == thread[c] \in {"running", "leaving"}

\* Regions and sessions match: every region file belongs to the session being
\* set up or to a live SHM session (no failed accept, refused profile or full
\* pool leaves one behind, and since run() joins its threads none is left once
\* it has returned), every live SHM session still has its own, and no two live
\* sessions have one id.  The variables keep their types.
RegionsMatchSessions ==
    /\ TypeOK
    /\ \A id \in regions :
          \/ id = offer /\ acc \in Ready
          \/ \E c \in Clients : Alive(c) /\ shm[c] /\ sid[c] = id
    /\ \A c \in Clients : Alive(c) /\ shm[c] => sid[c] \in regions
    /\ \A c, d \in Clients : Alive(c) /\ Alive(d) /\ sid[c] = sid[d] => c = d

\* run() "returns when `stop()` is called" once it has said it is running.
StopReturns == (stopped = "yes") ~> (acc = "returned")

\* A client that leaves a session over the socket gives its worker slot back.
BaselineSlotIsFreed ==
    \A c \in Clients : (Alive(c) /\ left[c] /\ ~shm[c]) ~> ~Alive(c)
=============================================================================
