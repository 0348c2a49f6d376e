----------------------------- MODULE WinServer -----------------------------
(***************************************************************************)
(* The managed server on Windows: the acceptor loop of server_windows.rs   *)
(* over NpListener (transport/windows.rs), the shared-memory contexts it   *)
(* prepares before every accept (win_shm.rs), stop() (server.rs), the end  *)
(* of a session thread (server_session_windows.rs), and the clients'       *)
(* try_connect (client_windows.rs).                                        *)
(*                                                                         *)
(* Pipes, sections and events belong to the kernel: an object lives while  *)
(* a handle to it is open, and a name means the object that has it.  What  *)
(* a session exchanges is WinShm; here a thread stays in its loop or       *)
(* leaves it.  An element of Conns is one connection; a client that        *)
(* reconnects uses another.                                                *)
(***************************************************************************)
EXTENDS Handshake

CONSTANTS
    Conns,
    Hellos,          \* the configurations clients may connect with
    ServerConfigs,   \* the configurations the server may have
    WorkerCount,
    MaxIds,          \* bound on the session ids one server hands out
    MaxServers,      \* bound on the server processes, one after another
    MaxMishaps       \* bound on the stops, crashes and failing system calls

NoConn == "noConn"
Kinds == {"mapping", "req_event", "resp_event"}

\* Sizes are counts of bytes; the server may not grow its responses beyond a
\* ceiling it starts at or below.  fits: the kinds of object whose name is short
\* enough, which the length of the service's name decides.
ASSUME ConfigAssumption ==
    /\ ServerConfigs \subseteq
          [supported : SUBSET Selectable, preferred : SUBSET Selectable, req : Nat,
           resp : Nat, ceiling : Nat, token : STRING, packet : Nat, fits : SUBSET Kinds]
    /\ \A s \in ServerConfigs : s.resp <= s.ceiling
    /\ Hellos \subseteq
          [version : Versions, supported : SUBSET Selectable, preferred : SUBSET Selectable,
           req : Nat, token : STRING, packet : Nat]

\* A connection is neither the server nor the absence of one.
ASSUME ConnsAssumption == NoConn \notin Conns /\ "server" \notin Conns

ASSUME BoundsAssumption == MaxIds \in Nat /\ MaxServers \in Nat \ {0} /\ MaxMishaps \in Nat

VARIABLES
    server,          \* the configuration of every server process
    gen,             \* which server process this is
    running, acc, nextId,
    learned,         \* learned_response_payload_bytes
    cfg,             \* the configuration prepared for this accept
    making,          \* the profile whose context is being created
    listener,        \* the listening pipe instance: open, closed or invalid
    guest,           \* the client connected to it
    remembered,      \* what the handle in listener_handle is: see Stop
    peer,            \* the client being shaken hands with
    held,            \* open handles to named objects
    flagged,         \* regions whose req_client_closed is up
    thread, pool,
    end,             \* the server's end of each pipe
    ack,             \* the HELLO_ACK the client has not read
    hello,           \* what a client that connects again is left with
    cpc,
    sess,            \* the session as HELLO_ACK describes it to both ends
    mishaps, stopped

acceptVars == <<running, acc, nextId, cfg, making>>
pipeVars == <<listener, guest, remembered, peer>>
clientVars == <<hello, cpc, sess>>
constVars == <<server, gen>>
vars == <<constVars, acceptVars, learned, pipeVars, held, flagged, thread, pool,
          end, ack, clientVars, mishaps, stopped>>

Hybrid == 2
Busywait == 4
ShmProfiles == {Hybrid, Busywait}
Creating == {"mapping", "req_event", "resp_event"}
Accepting == {"accept", "replace", "handshake", "refuse", "accepted"}
Connecting == {"write", "ack", "attach", "req_event", "resp_event"}
Attached == {"ready", "closing"}
Places == {"off", "starting", "loop", "flush", "join", "returned"}
              \cup Creating \cup Accepting

NoAck == [Silence EXCEPT !.status = "unsent"]
NoHello == [version |-> "unset", supported |-> {}, preferred |-> {}, req |-> 0,
            token |-> "none", packet |-> 0]
NoSession == [ack |-> NoAck, hello |-> NoHello, gen |-> 0]

Init ==
    /\ server \in ServerConfigs
    /\ gen = 1
    /\ learned = server.resp
    /\ running = FALSE /\ acc = "off" /\ nextId = 1 /\ cfg = server /\ making = 0
    /\ listener = "invalid" /\ guest = NoConn /\ remembered = "none" /\ peer = NoConn
    /\ held = {} /\ flagged = {}
    /\ thread = [c \in Conns |-> "none"]
    /\ pool = {}
    /\ end = [c \in Conns |-> "none"]
    /\ ack = [c \in Conns |-> NoAck]
    /\ hello = [c \in Conns |-> NoHello]
    /\ cpc = [c \in Conns |-> "idle"]
    /\ sess = [c \in Conns |-> NoSession]
    /\ mishaps = 0
    /\ stopped = "no"

Gone(c) == cpc[c] \in {"mute", "failed", "closed"}
Said(c) == cpc[c] \notin {"idle", "write", "mute"}
SessionId == nextId - 1

\* A session neither end uses any more is forgotten, which keeps the model small.
Forget ==
    sess' = [c \in Conns |-> IF Gone(c)' /\ thread'[c] \notin {"running", "leaving"} /\ c # peer'
                             THEN NoSession ELSE sess[c]]

Mishap == mishaps < MaxMishaps /\ mishaps' = mishaps + 1

-----------------------------------------------------------------------------
(* Named objects. *)

Object(profile, id, kind, g, limits) ==
    [profile |-> profile, id |-> id, kind |-> kind, gen |-> g, limits |-> limits]

Named(profile, id, kind) ==
    {h.obj : h \in {x \in held : x.obj.profile = profile /\ x.obj.id = id
                                                        /\ x.obj.kind = kind}}

HeldBy(who) == {h \in held : h.by = who}
Region(obj) == [profile |-> obj.profile, id |-> obj.id, gen |-> obj.gen]

\* Everything the server holds for one session id, or for one profile of it.
OfSession(id) == {h \in HeldBy("server") : h.obj.id = id}
OfProfile(id, p) == {h \in OfSession(id) : h.obj.profile = p}

\* PreparedWinShm: the contexts of the profiles still on offer.
Prepared == {h \in OfSession(SessionId) : h.obj.profile \in cfg.supported}

-----------------------------------------------------------------------------
(* run() *)

Bind ==
    /\ acc = "off"
    /\ \/ acc' = "returned" /\ UNCHANGED <<listener, remembered>>
       \/ acc' = "starting" /\ listener' = "open" /\ remembered' = "listener"
    /\ UNCHANGED <<constVars, running, nextId, cfg, making, learned, guest, peer, held,
                   flagged, thread, pool, end, ack, clientVars, mishaps, stopped>>

SetRunning ==
    /\ acc = "starting"
    /\ running' = TRUE
    /\ acc' = "loop"
    /\ UNCHANGED <<constVars, nextId, cfg, making, learned, pipeVars, held, flagged,
                   thread, pool, end, ack, clientVars, mishaps, stopped>>

Remember == remembered' = IF listener' = "invalid" THEN "none" ELSE "listener"

Offer(config) == cfg' = config /\ making' = 0 /\ acc' = "accept" /\ Remember

\* Where prepare_windows_accept goes on once the profiles up to p are done: the
\* next context, the accept, or back to the loop with nothing to offer.
GoOn(p, config) ==
    LET rest == {q \in config.supported \cap ShmProfiles : q > p} IN
    \/ /\ rest # {}
       /\ cfg' = config
       /\ making' = IF Hybrid \in rest THEN Hybrid ELSE Busywait
       /\ acc' = "mapping"
       /\ UNCHANGED remembered
    \/ rest = {} /\ config.supported # {} /\ Offer(config)
    \/ /\ config.supported = {}
       /\ cfg' = config
       /\ making' = 0
       /\ acc' = "loop"
       /\ UNCHANGED remembered

Leave ==
    /\ acc = "loop" /\ ~running
    /\ acc' = "join"
    /\ remembered' = "none"
    /\ UNCHANGED <<constVars, running, nextId, cfg, making, learned, listener, guest,
                   peer, held, flagged, thread, pool, end, ack, clientVars, mishaps, stopped>>

Prepare ==
    /\ acc = "loop" /\ running /\ nextId <= MaxIds
    /\ nextId' = nextId + 1
    /\ UNCHANGED listener
    /\ LET config == [server EXCEPT !.resp = learned] IN
       IF server.supported \cap ShmProfiles = {} THEN Offer(config) ELSE GoOn(0, config)
    /\ UNCHANGED <<constVars, running, learned, guest, peer, held, flagged, thread,
                   pool, end, ack, clientVars, mishaps, stopped>>

Without(p) == [cfg EXCEPT !.supported = @ \ {p}, !.preferred = @ \ {p}]

\* Mutant: the handles already open are forgotten when the last event fails.
CreateFailsLeaks ==
    /\ held' = IF acc = "resp_event" THEN held ELSE held \ OfProfile(SessionId, making)
    /\ GoOn(making, Without(making))

\* server_create returns an error and has closed what it had opened.
CreateFails ==
    /\ held' = held \ OfProfile(SessionId, making)
    /\ GoOn(making, Without(making))

\* build_object_name refuses the name, and server_create returns at once: what
\* it has open for the profile by then stays open.
NameTooLong ==
    /\ acc \notin server.fits
    /\ IF acc = "mapping" THEN CreateFails
       ELSE UNCHANGED held /\ GoOn(making, Without(making))

\* Mutant: ERROR_ALREADY_EXISTS goes unnoticed, and the handle is to the
\* object that was there.
CreatedOrOpened ==
    LET there == Named(making, SessionId, acc)
        obj == Object(making, SessionId, acc, gen, [req |-> cfg.req, resp |-> cfg.resp])
    IN {[by |-> "server", obj |-> IF there = {} THEN obj ELSE CHOOSE o \in there : TRUE]}

\* Mutant: the region is sized from the configured limits, not the learned ones.
CreatedAsConfigured ==
    IF Named(making, SessionId, acc) # {} THEN {}
    ELSE {[by |-> "server",
           obj |-> Object(making, SessionId, acc, gen, [req |-> server.req, resp |-> server.resp])]}

\* The handle CreateFileMapping or CreateEvent yields, if the name is free.
Created ==
    IF Named(making, SessionId, acc) # {} THEN {}
    ELSE {[by |-> "server",
           obj |-> Object(making, SessionId, acc, gen, [req |-> cfg.req, resp |-> cfg.resp])]}

\* One system call of server_create: the section with its view and header, then
\* the two events of the hybrid profile.
Create ==
    /\ acc \in Creating
    /\ UNCHANGED listener
    /\ \/ /\ Created # {} /\ acc \in server.fits
          /\ held' = held \cup Created
          /\ UNCHANGED mishaps
          /\ IF making = Busywait \/ acc = "resp_event"
             THEN GoOn(making, cfg)
             ELSE /\ acc' = IF acc = "mapping" THEN "req_event" ELSE "resp_event"
                  /\ UNCHANGED <<cfg, making, remembered>>
       \/ /\ Created = {} /\ acc \in server.fits                    \* AddrInUse
          /\ CreateFails /\ UNCHANGED mishaps
       \/ acc \in server.fits /\ Mishap /\ CreateFails
       \/ NameTooLong /\ UNCHANGED mishaps
    /\ UNCHANGED <<constVars, running, nextId, learned, guest, peer, flagged, thread,
                   pool, end, ack, clientVars, stopped>>

\* accept_with_config returned an error: destroy_all, and back to the loop.
AcceptFailed ==
    /\ held' = held \ Prepared
    /\ acc' = "loop"
    /\ peer' = NoConn
    /\ Remember

\* ConnectNamedPipe.  A client that came and went leaves the instance in its
\* closing state, and the call answers ERROR_NO_DATA.
Accept ==
    /\ acc = "accept"
    /\ UNCHANGED listener
    /\ \/ /\ listener # "open" \/ (guest # NoConn /\ Gone(guest))
          /\ AcceptFailed
       \/ /\ listener = "open" /\ guest # NoConn /\ ~Gone(guest)
          /\ acc' = "replace"
          /\ UNCHANGED <<held, peer, remembered>>
    /\ UNCHANGED <<constVars, running, nextId, cfg, making, learned, guest, flagged,
                   thread, pool, end, ack, clientVars, mishaps, stopped>>

\* The next listening instance, or, when there is none, no listener from now on.
Replace ==
    /\ acc = "replace"
    /\ guest' = NoConn
    /\ \/ /\ listener' = "open"
          /\ peer' = guest
          /\ remembered' = IF remembered = "listener" THEN "session" ELSE "none"
          /\ acc' = "handshake"
          /\ UNCHANGED <<held, end, ack, mishaps>>
       \/ /\ Mishap
          /\ listener' = "invalid"
          /\ end' = [end EXCEPT ![guest] = "closed"]
          /\ ack' = [ack EXCEPT ![guest] = NoAck]
          /\ AcceptFailed
    /\ UNCHANGED <<constVars, running, nextId, cfg, making, learned, flagged, thread,
                   pool, clientVars, stopped>>

\* DisconnectNamedPipe, which throws away what the client has not read.
Disconnect(c) ==
    /\ end' = [end EXCEPT ![c] = "closed"]
    /\ ack' = [ack EXCEPT ![c] = NoAck]

\* What the client wrote; a configuration nobody has looked at yet is any.
HelloOf(c) == IF hello[c] = NoHello THEN Hellos ELSE {hello[c]}

\* server_handshake: a blocking read with no deadline, then the answer.
DoHandshake ==
    /\ acc = "handshake"
    /\ UNCHANGED listener
    /\ \/ /\ end[peer] = "closed" \/ (Gone(peer) /\ ~Said(peer))
          /\ Disconnect(peer)
          /\ AcceptFailed
          /\ UNCHANGED <<hello, sess>>
       \/ /\ end[peer] = "open" /\ Said(peer)
          /\ \E h \in HelloOf(peer) :
               LET answer == ServerHandshake(cfg, h, SessionId)
                   written == ~Gone(peer) /\ answer # Silence
                   ok == written /\ answer.status = "OK"
               IN /\ ack' = [ack EXCEPT ![peer] = IF written THEN answer ELSE NoAck]
                  /\ acc' = IF ok THEN "accepted" ELSE "refuse"
                  /\ sess' = [sess EXCEPT ![peer] =
                                IF ok THEN [ack |-> answer, hello |-> h, gen |-> gen] ELSE @]
          /\ hello' = [hello EXCEPT ![peer] = NoHello]
          /\ UNCHANGED <<held, end, peer, remembered>>
    /\ UNCHANGED <<constVars, running, nextId, cfg, making, learned, guest, flagged,
                   thread, pool, cpc, mishaps, stopped>>

\* Mutant: the pipe is left open after a failed handshake.
RefuseLeavesOpen ==
    /\ acc = "refuse"
    /\ UNCHANGED <<listener, end, ack>>
    /\ AcceptFailed
    /\ UNCHANGED <<constVars, running, nextId, cfg, making, learned, guest, flagged,
                   thread, pool, clientVars, mishaps, stopped>>

\* The handshake failed: the answer, if any, may still be unread.
Refuse ==
    /\ acc = "refuse"
    /\ UNCHANGED listener
    /\ Disconnect(peer)
    /\ AcceptFailed
    /\ UNCHANGED <<constVars, running, nextId, cfg, making, learned, guest, flagged,
                   thread, pool, clientVars, mishaps, stopped>>

Reaped == {c \in pool : thread[c] # "finished"}

AtCapacity == Cardinality(Reaped) >= WorkerCount

\* finalize_windows_shm: only the context of the selected profile stays.
Finalized ==
    held \ (Prepared \ OfProfile(SessionId, sess[peer].ack.profile))

Admit ==
    /\ acc = "accepted"
    /\ UNCHANGED listener
    /\ Remember
    /\ \/ /\ AtCapacity
          /\ held' = held \ Prepared
          /\ pool' = Reaped
          /\ acc' = "flush"
          /\ UNCHANGED <<thread, peer>>
       \/ /\ ~AtCapacity
          /\ held' = Finalized
          /\ thread' = [thread EXCEPT ![peer] = "running"]
          /\ pool' = Reaped \cup {peer}
          /\ acc' = "loop"
          /\ peer' = NoConn
    /\ UNCHANGED <<constVars, running, nextId, cfg, making, learned, guest, flagged,
                   end, ack, clientVars, mishaps, stopped>>

\* NpSession::close: FlushFileBuffers returns once the client has read
\* everything or is gone.
CanFlush(c) == ack[c] = NoAck \/ Gone(c) \/ end[c] = "closed"

\* The session run() has no worker for is dropped, which closes it.
Flush ==
    /\ acc = "flush"
    /\ CanFlush(peer)
    /\ Disconnect(peer)
    /\ peer' = NoConn
    /\ acc' = "loop"
    /\ UNCHANGED <<constVars, running, nextId, cfg, making, learned, listener, guest,
                   remembered, held, flagged, thread, pool, hello, cpc, mishaps, stopped>>
    /\ Forget

\* Closes the pipe of the client connected to the listening instance.
HangUpGuest == end' = [c \in Conns |-> IF c = guest THEN "closed" ELSE end[c]]

\* Every thread is joined, then the listener is dropped.
Join ==
    /\ acc = "join"
    /\ \A c \in pool : thread[c] = "finished"
    /\ pool' = {}
    /\ acc' = "returned"
    /\ listener' = "invalid"
    /\ HangUpGuest
    /\ guest' = NoConn
    /\ UNCHANGED <<constVars, running, nextId, cfg, making, learned, remembered, peer,
                   held, flagged, thread, ack, clientVars, mishaps, stopped>>

Acceptor ==
    \/ Bind \/ SetRunning \/ Leave \/ Prepare \/ Create \/ Accept \/ Replace
    \/ DoHandshake \/ Refuse \/ Admit \/ Flush \/ Join

\* Mutant: the flag is lowered, ConnectNamedPipe is left waiting.
StopFlagOnly ==
    /\ stopped = "no" /\ Mishap
    /\ running' = FALSE
    /\ stopped' = IF acc \in {"off", "starting"} THEN "early" ELSE "yes"
    /\ UNCHANGED <<constVars, acc, nextId, cfg, making, learned, pipeVars, held, flagged,
                   thread, pool, end, ack, clientVars>>

\* stop(): lower the flag and close the handle run() last stored.  From the
\* moment accept_with_config moves on to a new instance until it returns, that
\* handle is the pipe of the client being shaken hands with.
Stop ==
    /\ stopped = "no" /\ Mishap
    /\ running' = FALSE
    /\ stopped' = IF acc \in {"off", "starting"} THEN "early" ELSE "yes"
    /\ remembered' = "none"
    /\ \/ remembered = "none" /\ UNCHANGED <<listener, end>>
       \/ remembered = "listener" /\ listener' = "closed" /\ HangUpGuest
       \/ /\ remembered = "session"
          /\ end' = [end EXCEPT ![peer] = "closed"]
          /\ UNCHANGED listener
    /\ UNCHANGED <<constVars, acc, nextId, cfg, making, learned, guest, peer, held, flagged,
                   thread, pool, ack, clientVars>>

\* The process dies.  The kernel closes its handles, which breaks its pipes but
\* leaves what it wrote readable; the next process starts from nothing.
Crash ==
    /\ gen < MaxServers /\ Mishap
    /\ gen' = gen + 1
    /\ acc' = "off"
    /\ learned' = server.resp
    /\ running' = FALSE /\ nextId' = 1 /\ cfg' = server /\ making' = 0
    /\ listener' = "invalid" /\ guest' = NoConn /\ remembered' = "none" /\ peer' = NoConn
    /\ held' = held \ HeldBy("server")
    /\ thread' = [c \in Conns |-> "none"]
    /\ pool' = {}
    /\ end' = [c \in Conns |-> IF end[c] = "open" THEN "closed" ELSE end[c]]
    /\ stopped' = "no"
    /\ UNCHANGED <<server, flagged, ack, hello, cpc>>
    /\ Forget

-----------------------------------------------------------------------------
(* handle_session_win_threaded: the reasons to leave its loop, and the exit. *)

serverVars == <<constVars, acceptVars, pipeVars, pool>>

Own(c) == [profile |-> sess[c].ack.profile, id |-> sess[c].ack.id, gen |-> sess[c].gen]
OverShm(c) == sess[c].ack.profile \in ShmProfiles

Leaving(c) ==
    /\ thread[c] = "running"
    /\ thread' = [thread EXCEPT ![c] = "leaving"]
    /\ UNCHANGED <<serverVars, held, flagged, end, ack, clientVars, mishaps, stopped>>

SeesStop(c) == ~running /\ Leaving(c) /\ UNCHANGED learned

\* The closed flag of its region, or the end of its pipe: an SHM session does
\* not look at the pipe.
SeesClose(c) ==
    /\ IF OverShm(c) THEN Own(c) \in flagged ELSE Gone(c)
    /\ Leaving(c)
    /\ UNCHANGED learned

Larger(m, n) == IF m < n THEN n ELSE m

\* A response that does not fit: the server learns, answers LIMIT_EXCEEDED and
\* ends the session.  A message it cannot use ends it too.
SeesError(c) ==
    /\ cpc[c] = "ready"
    /\ Leaving(c)
    /\ learned' \in {learned, Larger(learned, Smaller(2 * sess[c].ack.resp, server.ceiling))}

Destroy(c) ==
    /\ thread[c] = "leaving"
    /\ thread' = [thread EXCEPT ![c] = "flushing"]
    /\ held' = held \ OfProfile(sess[c].ack.id, sess[c].ack.profile)
    /\ flagged' = flagged \ {Own(c)}
    /\ UNCHANGED <<serverVars, learned, end, ack, hello, cpc, mishaps, stopped>>
    /\ Forget

Exit(c) ==
    /\ thread[c] = "flushing"
    /\ CanFlush(c)
    /\ Disconnect(c)
    /\ thread' = [thread EXCEPT ![c] = "finished"]
    /\ UNCHANGED <<serverVars, learned, held, flagged, clientVars, mishaps, stopped>>

Session(c) == SeesStop(c) \/ SeesClose(c) \/ Destroy(c) \/ Exit(c)

-----------------------------------------------------------------------------
(* The clients: RawClient::try_connect and disconnect. *)

kernelVars == <<serverVars, learned, thread, mishaps, stopped>>

\* CreateFile on the pipe's name; it fails, and nothing changes, unless an
\* instance is listening.
OpenPipe(c) ==
    /\ cpc[c] = "idle"
    /\ listener = "open" /\ guest = NoConn
    /\ guest' = c
    /\ end' = [end EXCEPT ![c] = "open"]

Open(c) ==
    /\ OpenPipe(c)
    /\ cpc' = [cpc EXCEPT ![c] = "write"]
    /\ UNCHANGED <<constVars, acceptVars, listener, remembered, peer, pool, learned, thread,
                   mishaps, stopped, held, flagged, ack, hello, sess>>

Step(c, from, to) == cpc[c] = from /\ cpc' = [cpc EXCEPT ![c] = to]

WriteHello(c) ==
    /\ \/ end[c] = "open" /\ Step(c, "write", "ack")
       \/ end[c] = "closed" /\ Step(c, "write", "failed")
    /\ UNCHANGED <<kernelVars, held, flagged, end, ack, hello, sess>>

Outcome(c) == ClientHandshake(ack[c])

\* The blocking read of HELLO_ACK, with no deadline.
ReadAck(c) ==
    /\ \/ /\ ack[c] # NoAck
          /\ ack' = [ack EXCEPT ![c] = NoAck]
          /\ \/ Outcome(c) = "Connected" /\ OverShm(c) /\ Step(c, "ack", "attach")
             \/ Outcome(c) = "Connected" /\ ~OverShm(c) /\ Step(c, "ack", "ready")
             \/ Outcome(c) # "Connected" /\ Step(c, "ack", "failed")
       \/ ack[c] = NoAck /\ end[c] = "closed" /\ Step(c, "ack", "failed") /\ UNCHANGED ack
    /\ UNCHANGED <<kernelVars, held, flagged, end, hello, sess>>

Wanted(c) == IF cpc[c] = "attach" THEN "mapping" ELSE cpc[c]
Attaching == {"attach", "req_event", "resp_event"}

\* One system call of client_attach: the section and the check of its header,
\* then the events of the hybrid profile.  The object is the one that has the
\* name now.
Attach(c) ==
    /\ cpc[c] \in Attaching
    /\ \E obj \in Named(sess[c].ack.profile, sess[c].ack.id, Wanted(c)) :
          held' = held \cup {[by |-> c, obj |-> obj]}
    /\ cpc' = [cpc EXCEPT ![c] =
                  IF sess[c].ack.profile = Busywait \/ @ = "resp_event" THEN "ready"
                  ELSE IF @ = "attach" THEN "req_event" ELSE "resp_event"]
    /\ UNCHANGED <<kernelVars, flagged, end, ack, hello, sess>>

\* client_attach fails: the name is gone, or the system refuses.  It closes what
\* it opened; before the deadline the loop tries again.
AttachFails(c) ==
    /\ cpc[c] \in Attaching
    /\ held' = held \ HeldBy(c)
    /\ cpc' = [cpc EXCEPT ![c] = "attach"]
    /\ UNCHANGED <<kernelVars, flagged, end, ack, hello, sess>>

WithoutShm(h) ==
    [h EXCEPT !.supported = @ \ ShmProfiles, !.preferred = @ \ ShmProfiles]

\* The deadline has passed: the session is dropped and the client connects
\* again without shared memory, if that leaves it a profile.
GiveUp(c) ==
    /\ cpc[c] \in Attaching
    /\ held' = held \ HeldBy(c)
    /\ \/ /\ WithoutShm(sess[c].hello).supported # {}
          /\ \E d \in Conns \ {c} :
                /\ OpenPipe(d)
                /\ hello' = [hello EXCEPT ![d] = WithoutShm(sess[c].hello)]
                /\ cpc' = [cpc EXCEPT ![c] = "closed", ![d] = "write"]
       \/ /\ cpc' = [cpc EXCEPT ![c] = "closed"]
          /\ UNCHANGED <<hello, end, guest>>
    /\ UNCHANGED <<constVars, acceptVars, listener, remembered, peer, pool, learned, thread,
                   mishaps, stopped, flagged, ack>>
    /\ Forget

\* Where a client's section is mapped.
MappedBy(c) == {Region(h.obj) : h \in {x \in HeldBy(c) : x.obj.kind = "mapping"}}

\* WinShmContext::close raises the flag, then closes the section and the
\* events; the pipe goes last.
Close(c) ==
    /\ IF OverShm(c) THEN Step(c, "ready", "closing") ELSE Step(c, "ready", "closed")
    /\ flagged' = flagged \cup {r \in MappedBy(c) : \E h \in HeldBy("server") : Region(h.obj) = r}
    /\ held' = {h \in held : h.by # c \/ h.obj.kind # "mapping"}
    /\ UNCHANGED <<kernelVars, end, ack, hello>>
    /\ Forget

Closed(c) ==
    /\ Step(c, "closing", "closed")
    /\ held' = held \ HeldBy(c)
    /\ UNCHANGED <<kernelVars, flagged, end, ack, hello>>
    /\ Forget

\* The client's process dies, at any point, without raising any flag.
Die(c) ==
    /\ cpc[c] \in Connecting \cup Attached
    /\ cpc' = [cpc EXCEPT ![c] = IF @ = "write" THEN "mute" ELSE "closed"]
    /\ held' = held \ HeldBy(c)
    /\ UNCHANGED <<kernelVars, flagged, end, ack, hello>>
    /\ Forget

Client(c) == WriteHello(c) \/ ReadAck(c) \/ Closed(c)

-----------------------------------------------------------------------------
Next ==
    \/ Acceptor \/ Stop \/ Crash
    \/ \E c \in Conns :
          \/ Session(c) \/ SeesError(c)
          \/ Open(c) \/ Client(c) \/ Attach(c) \/ AttachFails(c) \/ GiveUp(c)
          \/ Close(c) \/ Die(c)

Spec == Init /\ [][Next]_vars

Progress ==
    \/ \E c \in Conns : Client(c) \/ Session(c) \/ GiveUp(c)
    \/ Acceptor

\* While a thread of the server can run, a connecting client can go on or the
\* deadline of an attach loop can pass, one of these happens.
FairSpec == Spec /\ WF_vars(Progress)

-----------------------------------------------------------------------------
Objects == [profile : ShmProfiles, id : 1..MaxIds, kind : Kinds, gen : 1..MaxServers,
            limits : [req : Nat, resp : Nat]]

\* The acceptor, the sessions and the clients are at known places, and every
\* handle is to an object some server created.
TypeOK ==
    /\ server \in ServerConfigs
    /\ gen \in 1..MaxServers
    /\ running \in BOOLEAN
    /\ acc \in Places
    /\ nextId \in 1..(MaxIds + 1)
    /\ learned \in server.resp..server.ceiling
    /\ cfg.supported \subseteq server.supported
    /\ making \in {0} \cup ShmProfiles
    /\ listener \in {"open", "closed", "invalid"}
    /\ {guest, peer} \subseteq Conns \cup {NoConn}
    /\ remembered \in {"none", "listener", "session"}
    /\ \A h \in held : h.by \in Conns \cup {"server"} /\ h.obj \in Objects
    /\ thread \in [Conns -> {"none", "running", "leaving", "flushing", "finished"}]
    /\ pool \subseteq Conns
    /\ end \in [Conns -> {"none", "open", "closed"}]
    /\ cpc \in [Conns -> {"idle", "mute", "failed", "closed"} \cup Connecting \cup Attached]
    /\ mishaps \in 0..MaxMishaps
    /\ stopped \in {"no", "early", "yes"}

\* Every section and event the server holds was created by this very process
\* and belongs to the accept under way or to a session thread that has not
\* destroyed it: no failed create, failed accept, refused profile or full pool
\* leaves one behind, and no name another process still uses is taken over.
\* The exception is the hybrid profile of a service with a name so long that
\* the section has a name and one of the events does not: every accept leaves
\* the section, or the section and an event, behind.  The variables keep their
\* types.
NoObjectLeak ==
    /\ TypeOK
    /\ \A h \in HeldBy("server") :
          /\ h.obj.gen = gen
          /\ \/ h \in Prepared /\ acc \in Creating \cup Accepting
             \/ \E c \in Conns : thread[c] \in {"running", "leaving"} /\ Region(h.obj) = Own(c)
             \/ server.fits # Kinds /\ h.obj.profile = Hybrid

KindsOf(profile) == IF profile = Hybrid THEN Kinds ELSE {"mapping"}

\* "successful HELLO_ACK guarantees the SHM resources for that session are
\* already prepared": from the answer on, the server holds the section (and the
\* events) of the selected profile, with room for the limits it agreed to,
\* whatever was learned meanwhile.
AckIsBacked ==
    \A c \in Conns :
        (OverShm(c) /\ (thread[c] = "running" \/ (acc = "accepted" /\ c = peer))) =>
            \A k \in KindsOf(sess[c].ack.profile) :
                \E h \in HeldBy("server") :
                    /\ Region(h.obj) = Own(c) /\ h.obj.kind = k
                    /\ h.obj.limits.req >= sess[c].ack.req
                    /\ h.obj.limits.resp >= sess[c].ack.resp

\* While its session is served, from the answer until the thread has left its
\* loop and destroys the region, every section and event a client has opened by
\* name is that session's own; a client mapped into its own session's region
\* never has an event of another, even after a crash and restarts under the same
\* names; and clients of one server never meet in a region.
RegionsApart ==
    /\ \A c \in Conns :
          thread[c] \in {"running", "leaving"} \/ (acc = "accepted" /\ c = peer) =>
              \A h \in HeldBy(c) : Region(h.obj) = Own(c)
    /\ \A c \in Conns :
          Own(c) \in MappedBy(c) => \A h \in HeldBy(c) : Region(h.obj) = Own(c)
    /\ \A c, d \in Conns :
          c # d /\ MappedBy(c) \cap MappedBy(d) # {} => sess[c].gen # sess[d].gen

\* A client in a session showed the server's token, agreed on a profile both
\* have, and asked for no more than the server takes.
ReadyIsEntitled ==
    \A c \in Conns : cpc[c] = "ready" =>
        /\ sess[c].hello.token = server.token
        /\ sess[c].ack.profile \in sess[c].hello.supported \cap ProfilesOf(server)
        /\ sess[c].ack.req <= server.req
        /\ sess[c].ack.packet > HeaderSize

\* run() returns once stop() was called while it was running, wherever the
\* acceptor was: waiting for a client, shaking hands, or flushing.
StopReturns == (stopped = "yes") ~> (acc \in {"returned", "off"})

\* Sooner or later every client that reached the pipe has a session or an error.
\* The acceptor must come to an accept: with no baseline profile left to offer,
\* a create that fails every time sends it round its loop, and clients wait.
ConnectEnds == []<>(\A c \in Conns : cpc[c] \notin Connecting)

\* "The server must create a new pipe instance before or after accepting each
\* client to remain available for the next connection": an accept that fails
\* leaves no instance behind that a departed client occupies.
AvailableAfterAccept ==
    [][acc = "accept" /\ acc' = "loop" => ~(guest' # NoConn /\ Gone(guest)')]_vars
=============================================================================
