-------------------------- MODULE WinServerProofs --------------------------
(***************************************************************************)
(* The accept loop of the Windows server and its clients, for every number *)
(* of connections, sessions, servers and mishaps, and every configuration  *)
(* a server may start with: no section or event outlives what it was made  *)
(* for, an answer that names shared memory is backed by it, regions of two *)
(* sessions never mix, and who is ready was entitled to be.                *)
(*                                                                         *)
(* Every step of the system is first shown to be of one of twenty kinds,   *)
(* which say no more than what the step does to the state the invariant is *)
(* about; the invariant is then carried over the kinds.                    *)
(***************************************************************************)
EXTENDS WinServer, TLAPS

USE ZenonT(60)

AckType == [status : Statuses \cup {"none", "unsent"}, profile : {0} \cup Selectable,
            id : Nat, req : Nat, resp : Nat, packet : Nat]
HelloType == [version : Versions \cup {"unset"}, supported : SUBSET Selectable,
              preferred : SUBSET Selectable, req : Nat, token : STRING \cup {"none"},
              packet : Nat]
SessionType == [ack : AckType, hello : HelloType, gen : Nat]
ConfigType == [supported : SUBSET Selectable, preferred : SUBSET Selectable, req : Nat,
               resp : Nat, ceiling : Nat, token : STRING, packet : Nat,
               fits : SUBSET Kinds]
Handle == [by : Conns \cup {"server"}, obj : Objects]

\* The accept loop is between the number it gave out and its next turn; it has
\* a pipe; it has neither a pipe nor an offer.
Busy == Creating \cup Accepting
Shaking == {"handshake", "refuse", "accepted", "flush"}
Resting == {"off", "starting", "loop", "join", "returned"}

\* A session thread has c, or is to have it; the server answered c in some
\* session; the shared memory profiles on offer.
Served(c) == thread[c] \in {"running", "leaving"}
Answered(c) == acc = "accepted" /\ c = peer
Known(c) == sess[c].gen # 0
Shm == cfg.supported \cap ShmProfiles

\* An object of the session c has; one with the name of another.
Of(obj, c) ==
    /\ obj.profile = sess[c].ack.profile
    /\ obj.id = sess[c].ack.id
    /\ obj.gen = sess[c].gen
Namesakes(o, obj) == o.profile = obj.profile /\ o.id = obj.id /\ o.kind = obj.kind

-----------------------------------------------------------------------------
(* The inductive invariant. *)

\* The one number, object or set that each variable of the acceptor may be.
Scalars ==
    /\ server \in ServerConfigs
    /\ gen \in 1..MaxServers
    /\ acc \in Places
    /\ nextId \in 1..(MaxIds + 1)
    /\ cfg \in ConfigType
    /\ making \in {0} \cup ShmProfiles
    /\ guest \in Conns \cup {NoConn}
    /\ peer \in Conns \cup {NoConn}
    /\ held \subseteq Handle

\* What each connection has.
Maps ==
    /\ thread \in [Conns -> {"none", "running", "leaving", "flushing", "finished"}]
    /\ end \in [Conns -> {"none", "open", "closed"}]
    /\ ack \in [Conns -> AckType]
    /\ hello \in [Conns -> HelloType]
    /\ cpc \in [Conns -> {"idle", "mute", "failed", "closed"} \cup Connecting \cup Attached]
    /\ sess \in [Conns -> SessionType]

Types == Scalars /\ Maps

\* What no handle depends on.
Rest ==
    /\ learned \in server.resp..server.ceiling
    /\ listener \in {"open", "closed", "invalid"}
    /\ remembered \in {"none", "listener", "session"}
    /\ pool \subseteq Conns
    /\ mishaps \in 0..MaxMishaps
    /\ stopped \in {"no", "early", "yes"}

\* What is offered to the next client is what the server was configured with,
\* less the profiles whose objects could not be made.
Config ==
    /\ cfg.req = server.req /\ cfg.token = server.token
    /\ cfg.supported \subseteq server.supported
    /\ acc \in Busy => nextId > 1 /\ ProfilesOf(cfg) \subseteq ProfilesOf(server)
    /\ acc \in Creating => making \in Shm
    /\ acc \in {"req_event", "resp_event"} => making = Hybrid

\* A connection waits in the listening pipe, is shaken hands with, or is served,
\* one of these at a time, and has no session before the handshake.
Seats ==
    /\ peer \in Conns <=> acc \in Shaking
    /\ acc = "replace" => guest \in Conns
    /\ \A c \in Conns :
         /\ c = guest => c # peer
         /\ cpc[c] = "idle" => c # guest /\ c # peer
         /\ cpc[c] = "idle" \/ c = guest \/ (c = peer /\ acc = "handshake") =>
              thread[c] = "none" /\ ~Known(c)
         /\ c = peer => thread[c] = "none"

\* An acknowledgement of a client still there is the one its session was made by.
Acks ==
    \A c \in Conns :
      /\ ack[c] # NoAck => ack[c].status \in Statuses
      /\ ack[c].status = "OK" /\ ~Gone(c) => Known(c) /\ sess[c].ack = ack[c]

\* The checks of server_handshake, against the configuration the server started with.
Entitled(s) ==
    /\ s.hello.token = server.token
    /\ s.ack.profile \in s.hello.supported
    /\ s.ack.profile \in ProfilesOf(server)
    /\ s.ack.req <= server.req
    /\ s.ack.packet > HeaderSize

\* A session was entitled to; its number was given out, before the one on offer;
\* it is this server's while served, and answered with what is on offer; and a
\* client attaches only in a session, by a profile of shared memory.
Rightful(c) == Known(c) => Entitled(sess[c]) /\ sess[c].gen <= gen
Numbered(c) ==
    Known(c) /\ sess[c].gen = gen =>
        /\ sess[c].ack.id < nextId
        /\ acc \in Busy /\ ~Answered(c) => sess[c].ack.id < SessionId
Current(c) ==
    /\ Served(c) \/ Answered(c) => Known(c) /\ sess[c].gen = gen
    /\ Answered(c) =>
          /\ sess[c].ack.id = SessionId
          /\ sess[c].ack.resp = cfg.resp
          /\ sess[c].ack.profile \in ProfilesOf(cfg)
Along(c) ==
    /\ cpc[c] \in Attaching \cup Attached => Known(c)
    /\ cpc[c] \in Attaching => OverShm(c)
    /\ cpc[c] \in {"req_event", "resp_event"} => sess[c].ack.profile = Hybrid
SessionOf(c) == Rightful(c) /\ Numbered(c) /\ Current(c) /\ Along(c)

\* No two sessions of one server have one number.
Sessions ==
    /\ \A c \in Conns : SessionOf(c)
    /\ \A c, d \in Conns :
         c # d /\ Known(c) /\ Known(d) /\ sess[c].gen = sess[d].gen =>
             sess[c].ack.id # sess[d].ack.id

\* Names lead to one object each.
Objective ==
    /\ \A h \in held : h.obj.kind \in KindsOf(h.obj.profile)
    /\ \A h, i \in held : Namesakes(h.obj, i.obj) => h.obj = i.obj

\* What the server holds is on offer, or belongs to a session it serves, or was
\* made before build_object_name refused the name of an event.
InUse(h) == \E c \in Conns : Served(c) /\ Of(h.obj, c)
Offered(h) == acc \in Busy /\ h.obj.id = SessionId /\ h.obj.profile \in Shm
Stray(h) == server.fits # Kinds /\ h.obj.profile = Hybrid

Owned ==
    \A h \in held : h.by = "server" =>
        h.obj.gen = gen /\ (Offered(h) \/ InUse(h) \/ Stray(h))

\* What a client holds it opened by the names of its session.
Opened ==
    \A h \in held : h.by \in Conns =>
        /\ cpc[h.by] \in Attaching \cup Attached
        /\ h.obj.profile = sess[h.by].ack.profile
        /\ h.obj.id = sess[h.by].ack.id

\* The objects prepare_windows_accept has made for the offer, in the order it makes them, and
\* that the server holds them, as large as it will answer.
Earlier(k) == (k = "mapping" /\ acc # "mapping") \/ (k = "req_event" /\ acc = "resp_event")
Made(p, k) ==
    /\ acc \in Busy /\ p \in Shm /\ k \in KindsOf(p)
    /\ acc \in Creating => p < making \/ (p = making /\ Earlier(k))
Ours(p, k) ==
    [by |-> "server",
     obj |-> Object(p, SessionId, k, gen, [req |-> cfg.req, resp |-> cfg.resp])]

Ready == \A p \in ShmProfiles, k \in Kinds : Made(p, k) => Ours(p, k) \in held

\* A session over shared memory has all its objects, as large as it was told.
Backs(h, c) ==
    /\ h.by = "server" /\ Of(h.obj, c)
    /\ h.obj.limits.req >= sess[c].ack.req
    /\ h.obj.limits.resp >= sess[c].ack.resp
Backed ==
    \A c \in Conns : Served(c) /\ OverShm(c) =>
        \A k \in KindsOf(sess[c].ack.profile) : \E h \in held : h.obj.kind = k /\ Backs(h, c)

\* After a crash the names are used again. Once the mapping of a session is open,
\* nothing else of its names is of another server.
Unmixed ==
    \A c \in Conns : Known(c) => \A h, i \in held :
        /\ Of(h.obj, c) /\ h.obj.kind = "mapping"
        /\ i.obj.profile = h.obj.profile /\ i.obj.id = h.obj.id
        => i.obj.gen = h.obj.gen

\* While a session is served, its client holds objects of that session only.
Matched ==
    \A h \in held : h.by \in Conns /\ (Served(h.by) \/ Answered(h.by)) => Of(h.obj, h.by)

Flag == running \in BOOLEAN

Inv == /\ Types /\ Rest /\ Flag /\ Config /\ Seats /\ Acks /\ Sessions /\ Objective /\ Owned
       /\ Opened /\ Ready /\ Backed /\ Unmixed /\ Matched

-----------------------------------------------------------------------------
(* What a step does to the state the invariant is about. *)

\* Answers are read or thrown away; sessions nobody uses are forgotten.
Unread == \A c \in Conns : ack'[c] = ack[c] \/ ack'[c] = NoAck
Forgets ==
    \A c \in Conns :
        \/ sess'[c] = sess[c]
        \/ sess'[c] = NoSession /\ Gone(c)' /\ ~Served(c)' /\ c # peer'

\* The server closes what it holds for the offer, but for one profile.
Clears(keep) ==
    /\ held' \subseteq held
    /\ \A h \in held :
         h \in held' <=> ~(/\ h.by = "server" /\ h.obj.id = SessionId
                           /\ h.obj.profile \in cfg.supported /\ h.obj.profile # keep)

others == <<thread, cpc, sess>>
offer == <<server, gen, nextId, cfg, making>>

\* Nothing happens to an offer, a session or a handle.
Rests ==
    /\ \/ acc' = acc /\ guest' = guest
       \/ acc \in Resting /\ acc' \in Resting /\ guest' \in {guest, NoConn}
    /\ UNCHANGED <<offer, peer, held, ack, others>>

\* GoOn: to the next profile above p, to accept, or back for want of a profile.
Resumes(p) ==
    /\ making' \in {0} \cup ShmProfiles
    /\ \/ acc' = "mapping" /\ making' \in Shm' /\ \A q \in Shm' : q < making' => q <= p
       \/ acc' = "accept" /\ \A q \in Shm' : q <= p
       \/ acc' = "loop" /\ cfg'.supported = {}

\* Prepare.
Prepares ==
    /\ acc = "loop"
    /\ nextId <= MaxIds /\ nextId' = nextId + 1
    /\ cfg' \in ConfigType
    /\ cfg'.supported = server.supported /\ cfg'.req = server.req /\ cfg'.token = server.token
    /\ Resumes(0)
    /\ UNCHANGED <<server, gen, guest, peer, held, ack, others>>

\* Create, when the object is new.
Creates ==
    /\ acc \in Creating
    /\ \A h \in held : ~Namesakes(h.obj, Ours(making, acc).obj)
    /\ held' = held \cup {Ours(making, acc)}
    /\ \/ (making = Busywait \/ acc = "resp_event") /\ Resumes(making)
       \/ /\ making # Busywait /\ making' = making
          /\ \/ acc = "mapping" /\ acc' = "req_event"
             \/ acc = "req_event" /\ acc' = "resp_event"
    /\ UNCHANGED <<server, gen, nextId, cfg, guest, peer, ack, others>>

\* CreateFails and NameTooLong: the profile is not offered, and its objects are
\* closed or astray.
Drops ==
    /\ acc \in Creating
    /\ held' \subseteq held
    /\ \A h \in held :
         IF h.by = "server" /\ h.obj.id = SessionId /\ h.obj.profile = making
         THEN h \in held' => Stray(h)
         ELSE h \in held'
    /\ cfg' \in ConfigType /\ cfg'.supported = cfg.supported \ {making}
    /\ cfg'.req = cfg.req /\ cfg'.resp = cfg.resp /\ cfg'.token = cfg.token
    /\ Resumes(making) /\ (acc' # "loop" => cfg'.supported # {})
    /\ UNCHANGED <<server, gen, nextId, guest, peer, ack, others>>

\* An accept fails, before a handshake or for what the handshake says.
Fails ==
    /\ acc \in {"accept", "replace", "handshake", "refuse"} /\ acc' = "loop"
    /\ peer' = NoConn /\ guest' \in {guest, NoConn}
    /\ Clears(0) /\ Unread
    /\ UNCHANGED <<offer, others>>

\* Accept, with a client in the pipe; Replace.
Takes ==
    /\ acc = "accept" /\ acc' = "replace" /\ guest # NoConn
    /\ UNCHANGED <<offer, guest, peer, held, ack, others>>

Seated ==
    /\ acc = "replace" /\ acc' = "handshake"
    /\ guest' = NoConn /\ peer' = guest
    /\ UNCHANGED <<offer, held, ack, others>>

\* What server_handshake makes sure of before it says OK.
Accepts(s) ==
    /\ s.hello.token = cfg.token
    /\ s.ack.profile \in s.hello.supported /\ s.ack.profile \in ProfilesOf(cfg)
    /\ s.ack.req <= cfg.req /\ s.ack.resp = cfg.resp
    /\ s.ack.packet > HeaderSize
    /\ s.ack.id = SessionId /\ s.ack.status = "OK" /\ s.gen = gen

\* One answer of DoHandshake.
Replies(h, answer) ==
    LET written == ~Gone(peer) /\ answer # Silence
        ok == written /\ answer.status = "OK"
    IN /\ ack' = [ack EXCEPT ![peer] = IF written THEN answer ELSE NoAck]
       /\ acc' = IF ok THEN "accepted" ELSE "refuse"
       /\ sess' = [sess EXCEPT ![peer] =
                     IF ok THEN [ack |-> answer, hello |-> h, gen |-> gen] ELSE @]

\* DoHandshake, with an acknowledgement or a refusal.
Answers ==
    /\ acc = "handshake" /\ ~Gone(peer)
    /\ acc' = "accepted"
    /\ Accepts(sess'[peer]) /\ ack'[peer] = sess'[peer].ack
    /\ \A c \in Conns : c # peer => ack'[c] = ack[c] /\ sess'[c] = sess[c]
    /\ UNCHANGED <<offer, guest, peer, held, thread, cpc>>

Refuses ==
    /\ acc = "handshake" /\ acc' = "refuse"
    /\ ack'[peer] = NoAck \/ ack'[peer].status \in Statuses \ {"OK"}
    /\ \A c \in Conns : c # peer => ack'[c] = ack[c]
    /\ UNCHANGED <<offer, guest, peer, held, others>>

\* Admit, beyond the worker count and with a worker free.
Turns ==
    /\ acc = "accepted" /\ acc' = "flush"
    /\ Clears(0)
    /\ UNCHANGED <<offer, guest, peer, ack, others>>

Serves ==
    /\ acc = "accepted" /\ acc' = "loop"
    /\ Clears(sess[peer].ack.profile)
    /\ thread'[peer] = "running" /\ peer' = NoConn
    /\ \A c \in Conns : c # peer => thread'[c] = thread[c]
    /\ UNCHANGED <<offer, guest, ack, cpc, sess>>

\* Flush; the end of the server process.
Flushes ==
    /\ acc = "flush" /\ acc' = "loop" /\ peer' = NoConn
    /\ Unread /\ Forgets
    /\ UNCHANGED <<offer, guest, held, thread, cpc>>

Crashes ==
    /\ gen < MaxServers /\ gen' = gen + 1 /\ acc' = "off" /\ nextId' = 1 /\ cfg' = server /\ making' = 0
    /\ guest' = NoConn /\ peer' = NoConn
    /\ held' \subseteq held /\ \A h \in held : h \in held' <=> h.by # "server"
    /\ \A c \in Conns : thread'[c] = "none"
    /\ Forgets
    /\ UNCHANGED <<server, ack, cpc>>

\* A session thread leaves its loop, destroys its region, ends.
Winds(c) ==
    /\ thread[c] = "running" /\ thread'[c] = "leaving"
    /\ \A d \in Conns : d # c => thread'[d] = thread[d]
    /\ UNCHANGED <<offer, acc, guest, peer, held, ack, cpc, sess>>

Destroys(c) ==
    /\ thread[c] = "leaving" /\ thread'[c] = "flushing"
    /\ \A d \in Conns : d # c => thread'[d] = thread[d]
    /\ held' \subseteq held
    /\ \A h \in held :
         h \in held' <=> ~(/\ h.by = "server" /\ h.obj.id = sess[c].ack.id
                           /\ h.obj.profile = sess[c].ack.profile)
    /\ Forgets
    /\ UNCHANGED <<offer, acc, guest, peer, ack, cpc>>

Exits(c) ==
    /\ thread[c] = "flushing" /\ thread'[c] = "finished"
    /\ \A d \in Conns : d # c => thread'[d] = thread[d]
    /\ Unread
    /\ UNCHANGED <<offer, acc, guest, peer, held, cpc, sess>>

\* A client opens the pipe, writes and reads, opens an object, closes or retries.
Opens(c) ==
    /\ cpc[c] = "idle" /\ cpc'[c] = "write" /\ guest' = c
    /\ \A d \in Conns : d # c => cpc'[d] = cpc[d]
    /\ UNCHANGED <<offer, acc, peer, held, thread, ack, sess>>

Goes(c) ==
    /\ cpc[c] \in {"write", "ack"}
    /\ \/ cpc'[c] \in {"ack", "failed"}
       \/ cpc'[c] = "attach" /\ Known(c) /\ OverShm(c)
       \/ cpc'[c] = "ready" /\ Known(c)
    /\ \A d \in Conns : d # c => cpc'[d] = cpc[d]
    /\ Unread
    /\ UNCHANGED <<offer, acc, guest, peer, held, thread, sess>>

Attaches(c) ==
    /\ cpc[c] \in Attaching
    /\ cpc'[c] = "ready" \/ (cpc'[c] \in Attaching /\ sess[c].ack.profile = Hybrid)
    /\ \E h \in held, new \in Handle :
         /\ h.obj.profile = sess[c].ack.profile /\ h.obj.id = sess[c].ack.id
         /\ new.by = c /\ new.obj = h.obj
         /\ held' = held \cup {new}
    /\ \A d \in Conns : d # c => cpc'[d] = cpc[d]
    /\ UNCHANGED <<offer, acc, guest, peer, thread, ack, sess>>

Releases(c) ==
    /\ cpc[c] \in Connecting \cup Attached
    /\ \/ cpc'[c] = "attach" /\ cpc[c] \in Attaching
       \/ cpc'[c] = "closing" /\ cpc[c] = "ready"
       \/ Gone(c)' /\ \A h \in held' : h.by # c
    /\ held' \subseteq held /\ \A h \in held : h.by # c => h \in held'
    /\ \/ guest' = guest /\ \A d \in Conns : d # c => cpc'[d] = cpc[d]
       \/ /\ guest' \in Conns /\ guest' # c
          /\ cpc[guest'] = "idle" /\ cpc'[guest'] = "write"
          /\ \A d \in Conns : d # c /\ d # guest' => cpc'[d] = cpc[d]
    /\ Forgets
    /\ UNCHANGED <<offer, acc, peer, thread, ack>>

\* The kinds of step.
Kind ==
    \/ Rests \/ Prepares \/ Creates \/ Drops \/ Fails \/ Takes \/ Seated \/ Answers \/ Refuses
    \/ Turns \/ Serves \/ Flushes \/ Crashes
KindOf(c) ==
    \/ Winds(c) \/ Destroys(c) \/ Exits(c) \/ Opens(c) \/ Goes(c) \/ Attaches(c) \/ Releases(c)

-----------------------------------------------------------------------------
\* highest_bit is a bit of a mask that has one.
LEMMA Widest ==
    ASSUME NEW mask \in SUBSET Selectable, mask # {}
    PROVE  highest_bit(mask) \in mask
<1>1. \E x \in mask : \A y \in mask : y <= x
  <2>1. CASE 8 \in mask
    BY <2>1, SMT DEF Selectable
  <2>2. CASE 8 \notin mask /\ 4 \in mask
    BY <2>2, SMT DEF Selectable
  <2>3. CASE 8 \notin mask /\ 4 \notin mask /\ 2 \in mask
    BY <2>3, SMT DEF Selectable
  <2>4. CASE 8 \notin mask /\ 4 \notin mask /\ 2 \notin mask
    <3>1. PICK x \in mask : TRUE
      OBVIOUS
    <3>2. \A y \in mask : y = 1
      BY <2>4, SMT DEF Selectable
    <3> QED BY <3>1, <3>2, SMT
  <2> QED BY <2>1, <2>2, <2>3, <2>4
<1> QED BY <1>1, SMT DEF highest_bit

\* What server_handshake answers, and what holds when it says OK.
LEMMA Handshakes ==
    ASSUME NEW s \in ConfigType, NEW h \in HelloType, NEW id \in Nat
    PROVE  LET a == ServerHandshake(s, h, id) IN
           /\ a \in AckType
           /\ a = Silence \/ a.status \in Statuses
           /\ a.status = "OK" =>
                /\ h.token = s.token
                /\ a.profile \in h.supported /\ a.profile \in ProfilesOf(s)
                /\ a.req <= s.req /\ a.resp = s.resp
                /\ a.packet > HeaderSize
                /\ a.id = id
<1> DEFINE both == h.supported \cap ProfilesOf(s)
           liked == both \cap h.preferred \cap s.preferred
           g == Agreed(s, h, id)
<1>1. both \in SUBSET Selectable /\ liked \in SUBSET Selectable
  BY DEF HelloType
<1>2. both # {} => g.profile \in both
  BY <1>1, Widest DEF Agreed
<1>3. both # {} => g \in AckType
  <2>1. Smaller(h.packet, s.packet) \in Nat
    BY DEF Smaller, HelloType, ConfigType
  <2> QED BY <1>1, <1>2, <2>1 DEF Agreed, AckType, Statuses, HelloType, ConfigType
<1>4. /\ g.status = "OK" /\ g.id = id /\ g.req = h.req /\ g.resp = s.resp
  BY DEF Agreed
<1> HIDE DEF g
<1>5. \A x \in Statuses \cup {"none"} : Refusal(x) \in AckType /\ Refusal(x).status = x
  BY DEF Refusal, AckType
<1>6. CASE ServerHandshake(s, h, id) = Silence
  BY <1>5, <1>6 DEF Silence
<1>7. CASE \E x \in Statuses \ {"OK"} : ServerHandshake(s, h, id) = Refusal(x)
  BY <1>5, <1>7
<1>8. CASE /\ ServerHandshake(s, h, id) = g /\ both # {} /\ h.token = s.token
           /\ ~(h.req > s.req) /\ ~(g.packet <= HeaderSize)
  BY SMTT(60), <1>2, <1>3, <1>4, <1>8
     DEF Statuses, AckType, HelloType, ConfigType, HeaderSize
<1> QED BY <1>6, <1>7, <1>8 DEF ServerHandshake, Statuses, g

-----------------------------------------------------------------------------
\* The assumptions on the constants, by the names used below.
LEMMA Consts ==
    /\ MaxIds \in Nat /\ MaxServers \in Nat /\ MaxMishaps \in Nat
    /\ NoConn \notin Conns /\ "server" \notin Conns
    /\ \A s \in ServerConfigs : s \in ConfigType /\ s.resp <= s.ceiling
    /\ Hellos \subseteq HelloType
    /\ NoAck \in AckType /\ NoHello \in HelloType /\ NoSession \in SessionType
    /\ NoAck.status = "unsent" /\ NoSession.gen = 0
<1>1. MaxIds \in Nat /\ MaxServers \in Nat /\ MaxMishaps \in Nat
  BY BoundsAssumption
<1>2. NoConn \notin Conns /\ "server" \notin Conns
  BY ConnsAssumption
<1>3. \A s \in ServerConfigs : s \in ConfigType /\ s.resp <= s.ceiling
  BY ConfigAssumption DEF ConfigType
<1>4. Hellos \subseteq HelloType
  BY ConfigAssumption DEF HelloType
<1>5. NoAck \in AckType /\ NoAck.status = "unsent"
  BY DEF NoAck, Silence, Refusal, AckType
<1>6. NoHello \in HelloType
  BY DEF NoHello, HelloType
<1>7. NoSession \in SessionType /\ NoSession.gen = 0
  BY <1>5, <1>6 DEF NoSession, SessionType
<1> QED BY <1>1, <1>2, <1>3, <1>4, <1>5, <1>6, <1>7

\* Generations and session numbers are numbers.
LEMMA Numbers ==
    ASSUME Types
    PROVE  /\ gen \in Nat \ {0} /\ nextId \in Nat \ {0} /\ SessionId \in Nat
           /\ \A c \in Conns : sess[c].gen \in Nat /\ sess[c].ack.id \in Nat
  BY SMTT(60), Consts DEF Types, Scalars, Maps, SessionType, AckType, SessionId

\* A session number below another is another.
LEMMA Below ==
    ASSUME NEW m \in Nat, NEW n \in Nat, m < n
    PROVE  m # n
  BY SMTT(60)

\* The profiles of shared memory, in the order prepare_windows_accept takes them.
LEMMA Order ==
    /\ Hybrid # Busywait
    /\ \A p, q \in ShmProfiles : ~(p <= 0) /\ (p <= q => p < q \/ p = q)
  BY SMTT(60) DEF ShmProfiles, Hybrid, Busywait

\* A profile of shared memory the server has is one it was given.
LEMMA Offers ==
    ASSUME NEW p \in ShmProfiles, p \in ProfilesOf(cfg)
    PROVE  p \in Shm
  BY SMTT(60) DEF ProfilesOf, Baseline, Shm, ShmProfiles, Hybrid, Busywait

\* Forget keeps the sessions of clients still there, and of threads and the acceptor.
LEMMA Forgetting ==
    ASSUME sess \in [Conns -> SessionType], Forget
    PROVE  sess' \in [Conns -> SessionType] /\ Forgets
BY Consts DEF Forget, Forgets, Served

\* Without takes one profile out of an offer and nothing else.
LEMMA Dropping ==
    ASSUME NEW p, cfg \in ConfigType
    PROVE  /\ Without(p) \in ConfigType
           /\ Without(p).supported = cfg.supported \ {p}
           /\ Without(p).req = cfg.req /\ Without(p).resp = cfg.resp
           /\ Without(p).token = cfg.token
<1> DEFINE g == [cfg EXCEPT !.supported = @ \ {p}]
<1>1. /\ g \in ConfigType /\ g.supported = cfg.supported \ {p}
      /\ g.req = cfg.req /\ g.resp = cfg.resp /\ g.token = cfg.token
  BY DEF ConfigType
<1>2. Without(p) = [g EXCEPT !.preferred = @ \ {p}]
  BY DEF Without, ConfigType
<1> HIDE DEF g
<1> QED BY <1>1, <1>2 DEF ConfigType

\* GoOn leaves no profile out between the one it has done and the one it goes to.
LEMMA GoingOn ==
    ASSUME NEW p \in {0} \cup ShmProfiles, NEW config \in ConfigType, GoOn(p, config),
           remembered \in {"none", "listener", "session"}
    PROVE  /\ cfg' = config
           /\ remembered' \in {"none", "listener", "session"}
           /\ Resumes(p)
           /\ acc' # "loop" => config.supported # {}
<1> DEFINE rest == {q \in config.supported \cap ShmProfiles : q > p}
<1>1. CASE rest # {}
  <2>1. cfg' = config /\ acc' = "mapping" /\ remembered' = remembered
        /\ making' = IF Hybrid \in rest THEN Hybrid ELSE Busywait
    BY <1>1 DEF GoOn
  <2>2. making' \in rest /\ \A q \in rest : making' <= q
    BY SMTT(60), <1>1, <2>1 DEF ShmProfiles, Hybrid, Busywait
  <2> QED BY SMTT(60), <2>1, <2>2 DEF Resumes, Shm, ShmProfiles, Hybrid, Busywait
<1>2. CASE rest = {} /\ config.supported # {}
  <2>1. Offer(config)
    BY <1>2 DEF GoOn
  <2> QED BY SMTT(60), <1>2, <2>1
             DEF Offer, Remember, Resumes, Shm, ShmProfiles, Hybrid, Busywait
<1>3. CASE config.supported = {}
  BY <1>3 DEF GoOn, Offer, Resumes
<1> QED BY <1>1, <1>2, <1>3

-----------------------------------------------------------------------------
\* destroy_all closes what is held for the offer.
LEMMA Cleared ==
    ASSUME cfg \in ConfigType, held' = held \ Prepared
    PROVE  Clears(0)
<1>1. 0 \notin cfg.supported
  BY SMTT(60) DEF ConfigType, Selectable
<1> QED BY <1>1 DEF Clears, Prepared, OfSession, HeldBy

\* Each step of the acceptor, of stop and of a crash is of one of the kinds.
LEMMA AcceptorSteps ==
    ASSUME Types, Rest, Config, Seats, Acceptor \/ Stop \/ Crash \/ UNCHANGED vars
    PROVE  Kind
<1>0. /\ cfg \in ConfigType /\ making \in {0} \cup ShmProfiles
      /\ remembered \in {"none", "listener", "session"}
      /\ sess \in [Conns -> SessionType] /\ ack \in [Conns -> AckType]
      /\ thread \in [Conns -> {"none", "running", "leaving", "flushing", "finished"}]
      /\ server \in ConfigType
      /\ guest \in Conns \cup {NoConn} /\ NoConn \notin Conns
      /\ nextId \in Nat
  BY SMTT(60), Consts DEF Types, Scalars, Maps, Rest
<1>1. CASE UNCHANGED vars \/ Bind \/ SetRunning \/ Leave \/ Join \/ Stop
  <2>1. Rests
    BY <1>1
       DEF Rests, Bind, SetRunning, Leave, Join, Stop, vars, constVars, acceptVars,
           pipeVars,
                clientVars, offer, others, Resting
  <2> QED BY <2>1 DEF Kind
<1>2. CASE Prepare
  <2> DEFINE config == [server EXCEPT !.resp = learned]
  <2>1. /\ config \in ConfigType /\ config.supported = server.supported
        /\ config.req = server.req /\ config.token = server.token
    BY SMTT(60), <1>0 DEF ConfigType, Rest
  <2> HIDE DEF config
  <2>2. cfg' = config /\ Resumes(0)
    <3>1. CASE Offer(config) /\ server.supported \cap ShmProfiles = {}
      BY <2>1, <3>1 DEF Offer, Resumes, Shm
    <3>2. CASE GoOn(0, config)
      BY <1>0, <2>1, <3>2, GoingOn
    <3> QED BY <1>2, <3>1, <3>2 DEF Prepare, config
  <2>3. Prepares
    BY <1>2, <2>1, <2>2 DEF Prepare, Prepares, constVars, clientVars, others
  <2> QED BY <2>3 DEF Kind
<1>3. CASE Create
  <2>1. UNCHANGED <<server, gen, nextId, guest, peer, ack, thread, cpc, sess>> /\ acc \in Creating
    BY <1>3 DEF Create, constVars, clientVars
  <2>2. CASE CreateFails \/ NameTooLong
    <3>1. /\ Without(making) \in ConfigType
          /\ Without(making).supported = cfg.supported \ {making}
          /\ Without(making).req = cfg.req /\ Without(making).resp = cfg.resp
          /\ Without(making).token = cfg.token
      BY <1>0, Dropping
    <3>2. /\ cfg' = Without(making) /\ Resumes(making)
          /\ acc' # "loop" => cfg'.supported # {}
      <4>1. GoOn(making, Without(making))
        BY <2>2 DEF CreateFails, NameTooLong
      <4> QED BY <1>0, <3>1, <4>1, GoingOn
    <3>3. CASE CreateFails
      <4>1. Drops
        BY <2>1, <3>1, <3>2, <3>3
           DEF Drops, CreateFails, OfProfile, OfSession, HeldBy, others
      <4> QED BY <4>1 DEF Kind
    <3>4. CASE NameTooLong /\ ~CreateFails
      <4>1. held' = held /\ acc \in {"req_event", "resp_event"} /\ acc \notin server.fits
        BY <2>1, <3>4 DEF NameTooLong, Creating
      <4>2. making = Hybrid /\ server.fits # Kinds
        BY <4>1 DEF Config, Kinds
      <4>3. Drops
        BY <2>1, <3>1, <3>2, <4>1, <4>2 DEF Drops, Stray, others
      <4> QED BY <4>3 DEF Kind
    <3> QED BY <2>2, <3>3, <3>4
  <2>3. CASE /\ Created # {} /\ held' = held \cup Created
             /\ IF making = Busywait \/ acc = "resp_event" THEN GoOn(making, cfg)
                ELSE /\ acc' = IF acc = "mapping" THEN "req_event" ELSE "resp_event"
                     /\ UNCHANGED <<cfg, making, remembered>>
    <3>1. Named(making, SessionId, acc) = {} /\ Created = {Ours(making, acc)}
      BY <2>3 DEF Created, Ours
    <3>2. \A h \in held : ~Namesakes(h.obj, Ours(making, acc).obj)
      BY <3>1 DEF Named, Namesakes, Ours, Object
    <3>3. CASE (making = Busywait \/ acc = "resp_event") /\ GoOn(making, cfg)
      <4>1. cfg' = cfg /\ Resumes(making)
        BY <1>0, <3>3, GoingOn
      <4>2. Creates
        BY <2>1, <2>3, <3>1, <3>2, <3>3, <4>1 DEF Creates, others
      <4> QED BY <4>2 DEF Kind
    <3>4. CASE ~(making = Busywait \/ acc = "resp_event")
      <4>1. Creates
        BY <2>1, <2>3, <3>1, <3>2, <3>4 DEF Creates, others, Creating
      <4> QED BY <4>1 DEF Kind
    <3> QED BY <2>3, <3>3, <3>4
  <2> QED BY <1>3, <2>2, <2>3 DEF Create
<1>4. CASE AcceptFailed /\ (Accept \/ Replace \/ DoHandshake \/ Refuse)
  <2>1. UNCHANGED <<server, gen, nextId, cfg, making, thread, cpc>> /\ guest' \in {guest, NoConn}
    BY <1>4 DEF Accept, Replace, DoHandshake, Refuse, constVars, clientVars
  <2>2. sess' = sess /\ Unread /\ acc \in {"accept", "replace", "handshake", "refuse"}
    BY <1>0, <1>4
       DEF AcceptFailed, Accept, Replace, DoHandshake, Refuse, Disconnect, Unread,
           clientVars
  <2>3. Fails
    BY <1>0, <1>4, <2>1, <2>2, Cleared DEF Fails, AcceptFailed, offer, others
  <2> QED BY <2>3 DEF Kind
<1>5. CASE Accept /\ ~AcceptFailed
  <2>1. Takes
    BY <1>5 DEF Accept, Takes, offer, others, constVars, clientVars
  <2> QED BY <2>1 DEF Kind
<1>6. CASE Replace /\ ~AcceptFailed
  <2>1. Seated
    BY <1>6 DEF Replace, Seated, offer, others, constVars, clientVars
  <2> QED BY <2>1 DEF Kind
<1>7. CASE DoHandshake /\ ~AcceptFailed
  <2>1. PICK h \in HelloOf(peer) : Replies(h, ServerHandshake(cfg, h, SessionId))
    BY <1>7 DEF DoHandshake, Replies
  <2>2. peer \in Conns /\ acc = "handshake"
        /\ UNCHANGED <<server, gen, nextId, cfg, making, guest, peer, held, thread, cpc>>
    BY <1>7 DEF DoHandshake, Seats, Shaking, constVars
  <2> DEFINE answer == ServerHandshake(cfg, h, SessionId)
  <2>3. SessionId \in Nat /\ h \in HelloType
    BY <2>2, Consts, Numbers DEF HelloOf, Types, Scalars, Maps
  <2>4. /\ answer = Silence \/ answer.status \in Statuses
        /\ answer.status = "OK" =>
             /\ h.token = cfg.token
             /\ answer.profile \in h.supported /\ answer.profile \in ProfilesOf(cfg)
             /\ answer.req <= cfg.req /\ answer.resp = cfg.resp
             /\ answer.packet > HeaderSize /\ answer.id = SessionId
    BY SMTT(60), <1>0, <2>3, Handshakes
  <2>5. Replies(h, answer)
    BY <2>1
  <2> HIDE DEF answer
  <2>6. CASE ~Gone(peer) /\ answer # Silence /\ answer.status = "OK"
    <3>1. Answers
      BY <1>0, <2>2, <2>4, <2>5, <2>6 DEF Answers, Accepts, Replies, offer
    <3> QED BY <3>1 DEF Kind
  <2>7. CASE ~(~Gone(peer) /\ answer # Silence /\ answer.status = "OK")
    <3>1. sess' = sess /\ acc' = "refuse"
      BY <1>0, <2>2, <2>5, <2>7 DEF Replies
    <3>2. Refuses
      BY <1>0, <2>2, <2>4, <2>5, <2>7, <3>1 DEF Refuses, Replies, offer, others
    <3> QED BY <3>2 DEF Kind
  <2> QED BY <2>6, <2>7
<1>8. CASE Admit
  <2>1. peer \in Conns
    BY <1>8 DEF Admit, Seats, Shaking
  <2>2. CASE acc' = "flush"
    <3>1. Turns
      BY <1>0, <1>8, <2>2, Cleared DEF Admit, Turns, offer, others, constVars, clientVars
    <3> QED BY <3>1 DEF Kind
  <2>3. CASE acc' # "flush"
    <3>1. Clears(sess[peer].ack.profile)
      BY <1>8, <2>3 DEF Admit, Finalized, Clears, Prepared, OfProfile, OfSession, HeldBy
    <3>2. Serves
      BY <1>0, <1>8, <2>1, <2>3, <3>1
         DEF Admit, Serves, offer, others, constVars, clientVars
    <3> QED BY <3>2 DEF Kind
  <2> QED BY <2>2, <2>3
<1>9. CASE Flush
  <2>1. Flushes
    BY <1>0, <1>9, Forgetting DEF Flush, Flushes, Disconnect, Unread, offer, constVars
  <2> QED BY <2>1 DEF Kind
<1>10. CASE Crash
  <2>1. Crashes
    BY <1>0, <1>10, Forgetting DEF Crash, Crashes, HeldBy
  <2> QED BY <2>1 DEF Kind
<1> QED BY <1>1, <1>2, <1>3, <1>4, <1>5, <1>6, <1>7, <1>8, <1>9, <1>10
           DEF Acceptor, Refuse

\* So is each step of a session thread and of a client.
LEMMA ConnSteps ==
    ASSUME Types, Acks, Opened, NEW c \in Conns,
           \/ Session(c) \/ SeesError(c) \/ Open(c) \/ Client(c) \/ Attach(c) \/ AttachFails(c)
           \/ GiveUp(c) \/ Close(c) \/ Die(c)
    PROVE  KindOf(c)
<1>0. /\ sess \in [Conns -> SessionType] /\ ack \in [Conns -> AckType]
      /\ thread \in [Conns -> {"none", "running", "leaving", "flushing", "finished"}]
      /\ cpc \in [Conns -> {"idle", "mute", "failed", "closed"} \cup Connecting \cup Attached]
  BY DEF Types, Maps
<1>1. CASE Leaving(c)
  <2>1. Winds(c)
    BY <1>0, <1>1
       DEF Leaving, Winds, serverVars, constVars, acceptVars, pipeVars, clientVars, offer
  <2> QED BY <2>1 DEF KindOf
<1>2. CASE Destroy(c)
  <2>1. Destroys(c)
    BY <1>0, <1>2, Forgetting
       DEF Destroy, Destroys, OfProfile, OfSession, HeldBy, serverVars,
          constVars, acceptVars, pipeVars, offer
  <2> QED BY <2>1 DEF KindOf
<1>3. CASE Exit(c)
  <2>1. Exits(c)
    BY <1>0, <1>3 DEF Exit, Exits, Disconnect, Unread, serverVars, constVars, acceptVars,
          pipeVars, clientVars, offer
  <2> QED BY <2>1 DEF KindOf
<1>4. CASE Open(c)
  <2>1. Opens(c)
    BY <1>0, <1>4 DEF Open, OpenPipe, Opens, constVars, acceptVars, offer
  <2> QED BY <2>1 DEF KindOf
<1>5. CASE WriteHello(c)
  <2>1. Goes(c)
    BY <1>0, <1>5 DEF WriteHello, Step, Goes, Unread, kernelVars, serverVars, constVars,
          acceptVars, pipeVars, offer
  <2> QED BY <2>1 DEF KindOf
<1>6. CASE ReadAck(c)
  <2>1. /\ UNCHANGED <<offer, acc, guest, peer, held, thread, sess>>
        /\ Unread
    BY <1>0, <1>6
       DEF ReadAck, Unread, kernelVars, serverVars, constVars, acceptVars, pipeVars, offer
  <2>2. cpc[c] = "ack" /\ \A d \in Conns : d # c => cpc'[d] = cpc[d]
    BY <1>0, <1>6 DEF ReadAck, Step
  <2>3. CASE cpc'[c] = "failed"
    <3>1. Goes(c)
      BY <2>1, <2>2, <2>3 DEF Goes
    <3> QED BY <3>1 DEF KindOf
  <2>4. CASE cpc'[c] # "failed"
    <3>1. /\ ack[c] # NoAck /\ Outcome(c) = "Connected"
          /\ cpc'[c] = IF OverShm(c) THEN "attach" ELSE "ready"
      BY <1>0, <1>6, <2>4 DEF ReadAck, Step
    <3>2. ack[c].status = "OK"
      BY <3>1 DEF Acks, Outcome, ClientHandshake, Statuses
    <3>3. Known(c)
      BY <2>2, <3>2 DEF Acks, Gone
    <3>4. Goes(c)
      BY <2>1, <2>2, <3>1, <3>3 DEF Goes
    <3> QED BY <3>4 DEF KindOf
  <2> QED BY <2>3, <2>4
<1>7. CASE Attach(c)
  <2>1. /\ cpc'[c] = "ready" \/ (cpc'[c] \in Attaching /\ sess[c].ack.profile # Busywait)
        /\ \A d \in Conns : d # c => cpc'[d] = cpc[d]
    BY <1>0, <1>7 DEF Attach, Attaching
  <2>2. PICK obj \in Named(sess[c].ack.profile, sess[c].ack.id, Wanted(c)) :
             held' = held \cup {[by |-> c, obj |-> obj]}
    BY <1>7 DEF Attach
  <2>3. PICK h \in held : h.obj = obj /\ obj.profile = sess[c].ack.profile /\ obj.id = sess[c].ack.id
    BY <2>2 DEF Named
  <2>4. obj.profile \in ShmProfiles
    BY <2>3 DEF Types, Scalars, Handle, Objects
  <2>5. PICK new \in Handle : new.by = c /\ new.obj = h.obj /\ held' = held \cup {new}
    <3>1. obj \in Objects
      BY <2>3 DEF Types, Scalars, Handle
    <3> QED BY <2>2, <2>3, <3>1 DEF Handle
  <2>6. Attaches(c)
    BY <1>7, <2>1, <2>3, <2>4, <2>5
       DEF Attach, Attaches, kernelVars, serverVars, constVars,
          acceptVars, pipeVars, offer, ShmProfiles
  <2> QED BY <2>6 DEF KindOf
<1>8. CASE AttachFails(c)
  <2>1. Releases(c)
    BY <1>0, <1>8
       DEF AttachFails, Releases, HeldBy, Forgets, kernelVars, serverVars, constVars,
          acceptVars, pipeVars, offer, Attaching, Connecting
  <2> QED BY <2>1 DEF KindOf
<1>9. CASE GiveUp(c)
  <2>1. /\ cpc[c] \in Connecting
        /\ held' = held \ HeldBy(c) /\ Forgets
        /\ UNCHANGED <<offer, acc, peer, thread, ack>>
    BY <1>0, <1>9, Forgetting
       DEF GiveUp, constVars, acceptVars, offer, Attaching, Connecting
  <2>2. CASE guest' = guest /\ cpc' = [cpc EXCEPT ![c] = "closed"]
    <3>1. Releases(c)
      BY <1>0, <2>1, <2>2 DEF Releases, HeldBy, Gone
    <3> QED BY <3>1 DEF KindOf
  <2>3. ASSUME NEW d \in Conns \ {c}, OpenPipe(d),
               cpc' = [cpc EXCEPT ![c] = "closed", ![d] = "write"]
        PROVE  KindOf(c)
    <3>1. Releases(c)
      BY <1>0, <2>1, <2>3 DEF Releases, HeldBy, Gone, OpenPipe
    <3> QED BY <3>1 DEF KindOf
  <2> QED BY <1>9, <2>2, <2>3 DEF GiveUp
<1>10. CASE Close(c)
  <2>1. /\ cpc[c] = "ready" /\ held' = {h \in held : h.by # c \/ h.obj.kind # "mapping"}
        /\ Forgets
        /\ UNCHANGED <<offer, acc, guest, peer, thread, ack>>
    BY <1>0, <1>10, Forgetting
       DEF Close, Step, kernelVars, serverVars, constVars, acceptVars,
          pipeVars, offer
  <2>2. CASE OverShm(c)
    <3>1. Releases(c)
      BY <1>0, <1>10, <2>1, <2>2 DEF Close, Step, Releases, Attached
    <3> QED BY <3>1 DEF KindOf
  <2>3. CASE ~OverShm(c)
    <3>1. \A h \in held : h.by # c
      BY <2>3 DEF Opened, OverShm, Types, Scalars, Handle, Objects
    <3>2. Releases(c)
      BY <1>0, <1>10, <2>1, <2>3, <3>1 DEF Close, Step, Releases, Attached, Gone
    <3> QED BY <3>2 DEF KindOf
  <2> QED BY <2>2, <2>3
<1>11. CASE Closed(c) \/ Die(c)
  <2>1. /\ held' = held \ HeldBy(c) /\ Forgets
        /\ UNCHANGED <<offer, acc, guest, peer, thread, ack>>
    BY <1>0, <1>11, Forgetting
       DEF Closed, Die, kernelVars, serverVars, constVars, acceptVars,
          pipeVars, offer
  <2>2. /\ cpc[c] \in Connecting \cup Attached /\ Gone(c)'
        /\ \A d \in Conns : d # c => cpc'[d] = cpc[d]
    BY <1>0, <1>11 DEF Closed, Die, Step, Attached, Gone
  <2>3. Releases(c)
    BY <2>1, <2>2 DEF Releases, HeldBy
  <2> QED BY <2>3 DEF KindOf
<1> QED
  BY <1>1, <1>2, <1>3, <1>4, <1>5, <1>6, <1>7, <1>8, <1>9, <1>10, <1>11
     DEF Session, SeesStop, SeesClose, SeesError, Client

-----------------------------------------------------------------------------
(* Every kind of step keeps every part of the invariant. *)

\* The offer stays as it is, or ends.
Stays ==
    /\ UNCHANGED offer
    /\ acc' = acc \/ acc' \notin Busy \/ (acc \in Accepting /\ acc' \in Accepting)
Any == Kind \/ \E c \in Conns : KindOf(c)

\* The session of c goes on as it was, or is forgotten with nobody to use it.
Carries(c) ==
    /\ UNCHANGED <<server, gen, nextId>>
    /\ sess'[c] = sess[c] \/ (sess'[c] = NoSession /\ ~Served(c)' /\ c # peer')
    /\ acc' \in Busy /\ ~Answered(c)' => acc \in Busy /\ ~Answered(c)
    /\ Answered(c)' => Answered(c) /\ cfg' = cfg
    /\ Served(c)' => Served(c) \/ Answered(c)

\* A client goes on to attach, or goes on attaching.
Moves(c) ==
    \/ cpc'[c] = "attach" /\ Known(c) /\ OverShm(c)
    \/ cpc'[c] = "ready" /\ Known(c)
    \/ cpc[c] \in Attaching /\ (\/ cpc'[c] \in {"attach", "ready"}
                                \/ cpc'[c] \in Attaching /\ sess[c].ack.profile = Hybrid)
    \/ cpc[c] = "ready" /\ cpc'[c] = "closing"

\* The offer changes in four kinds of step only.
LEMMA Kept ==
    ASSUME Any
    PROVE  Prepares \/ Creates \/ Drops \/ Crashes \/ Stays
<1>1. CASE Rests
  BY <1>1 DEF Rests, Stays, Resting, Busy, Creating, Accepting
<1>2. CASE \/ Fails \/ Takes \/ Seated \/ Answers \/ Refuses \/ Turns \/ Serves \/ Flushes
  BY <1>2
     DEF Fails, Takes, Seated, Answers, Refuses, Turns, Serves, Flushes, Stays, Busy,
         Creating, Accepting
<1>3. ASSUME NEW c \in Conns, KindOf(c) PROVE Stays
  BY <1>3 DEF KindOf, Winds, Destroys, Exits, Opens, Goes, Attaches, Releases, Stays
<1> QED BY <1>1, <1>2, <1>3 DEF Any, Kind

\* The types of the acceptor's variables are kept.
LEMMA ScalarsStep ==
    ASSUME Types, Config, Any
    PROVE  Scalars'
<1>0. /\ MaxIds \in Nat /\ MaxServers \in Nat /\ NoConn \notin Conns
      /\ \A s \in ServerConfigs : s \in ConfigType
      /\ Scalars
  BY Consts DEF Types
<1>1. CASE Rests \/ Takes \/ Seated \/ Answers \/ Refuses
  BY <1>0, <1>1
     DEF Scalars, Rests, Takes, Seated, Answers, Refuses, offer, Places, Resting,
         Accepting
<1>2. CASE Prepares
  BY SMTT(60), <1>0, <1>2 DEF Scalars, Prepares, Resumes, Places, Creating, Accepting
<1>3. CASE Creates
  <2>1. Ours(making, acc) \in Handle
    <3>1. acc \in Kinds /\ making \in ShmProfiles /\ SessionId \in 1..MaxIds
      BY SMTT(60), <1>0, <1>3
         DEF Creates, Config, Scalars, SessionId, Shm, Busy, Creating, Kinds
    <3>2. cfg.req \in Nat /\ cfg.resp \in Nat /\ gen \in 1..MaxServers
      BY <1>0 DEF Scalars, ConfigType
    <3> QED BY <3>1, <3>2 DEF Ours, Object, Handle, Objects
  <2> QED BY <1>0, <1>3, <2>1 DEF Scalars, Creates, Resumes, Places, Creating, Accepting
<1>4. CASE Drops
  BY <1>0, <1>4 DEF Scalars, Drops, Resumes, Places, Creating, Accepting
<1>5. CASE Fails \/ Turns \/ Serves \/ Flushes
  BY <1>0, <1>5 DEF Scalars, Fails, Turns, Serves, Flushes, Clears, offer, Places
<1>6. CASE Crashes
  BY SMTT(60), <1>0, <1>6 DEF Scalars, Crashes, Places
<1>7. ASSUME NEW c \in Conns, KindOf(c), ~Attaches(c) PROVE Scalars'
  BY <1>0, <1>7 DEF Scalars, KindOf, Winds, Destroys, Exits, Opens, Goes, Releases, offer
<1>8. ASSUME NEW c \in Conns, Attaches(c) PROVE Scalars'
  BY <1>0, <1>8 DEF Scalars, Attaches, offer
<1> QED BY <1>1, <1>2, <1>3, <1>4, <1>5, <1>6, <1>7, <1>8 DEF Any, Kind

\* And those of what each connection has.
LEMMA MapsStep ==
    ASSUME Types, Seats, [Next]_vars
    PROVE  Maps'
<1>0. Maps /\ NoAck \in AckType /\ NoHello \in HelloType
  BY Consts DEF Types
<1>a. acc \in Shaking => peer \in Conns
  BY DEF Seats
<1>1. CASE UNCHANGED <<thread, end, ack, hello, cpc, sess>>
  BY <1>0, <1>1 DEF Maps
<1>2. CASE UNCHANGED vars \/ Bind \/ SetRunning \/ Leave \/ Prepare \/ Create \/ Accept
  BY <1>1, <1>2 DEF vars, clientVars, Bind, SetRunning, Leave, Prepare, Create, Accept
<1>3. CASE Replace
  BY <1>0, <1>3 DEF Maps, Replace, clientVars
<1>4. CASE DoHandshake
  <2>0. peer \in Conns
    BY <1>4, <1>a DEF DoHandshake, Shaking
  <2>1. CASE Disconnect(peer) /\ UNCHANGED <<hello, sess>>
    BY <1>0, <1>4, <2>0, <2>1 DEF Maps, DoHandshake, Disconnect
  <2>2. CASE /\ \E h \in HelloOf(peer) : Replies(h, ServerHandshake(cfg, h, SessionId))
             /\ hello' = [hello EXCEPT ![peer] = NoHello]
             /\ UNCHANGED end
    <3>1. PICK h \in HelloOf(peer) : Replies(h, ServerHandshake(cfg, h, SessionId))
      BY <2>2
    <3>2. h \in HelloType /\ cfg \in ConfigType /\ SessionId \in Nat /\ gen \in Nat
      <4>1. h \in HelloType
        BY <1>0, <2>0, Consts DEF HelloOf, Maps
      <4>2. cfg \in ConfigType /\ SessionId \in Nat /\ gen \in Nat
        BY SMTT(60), Consts DEF Types, Scalars, SessionId
      <4> QED BY <4>1, <4>2
    <3> DEFINE answer == ServerHandshake(cfg, h, SessionId)
    <3>3. answer \in AckType
      BY <3>2, Handshakes
    <3>4. Replies(h, answer)
      BY <3>1
    <3> HIDE DEF answer
    <3>5. [ack |-> answer, hello |-> h, gen |-> gen] \in SessionType
      BY <3>2, <3>3 DEF SessionType
    <3>6. ack' \in [Conns -> AckType] /\ sess' \in [Conns -> SessionType]
      BY <1>0, <2>0, <3>3, <3>4, <3>5 DEF Maps, Replies
    <3>7. hello' \in [Conns -> HelloType] /\ end' = end /\ thread' = thread /\ cpc' = cpc
      BY <1>0, <1>4, <2>0, <2>2 DEF Maps, DoHandshake
    <3> QED BY <1>0, <3>6, <3>7 DEF Maps
  <2> QED BY <1>4, <2>1, <2>2 DEF DoHandshake, Replies
<1>5. CASE Refuse
  BY <1>0, <1>a, <1>5 DEF Maps, Refuse, Disconnect, clientVars, Shaking
<1>6. CASE Admit
  BY <1>0, <1>6 DEF Maps, Admit, clientVars
<1>7. CASE Flush
  BY <1>0, <1>a, <1>7, Forgetting DEF Maps, Flush, Disconnect, Shaking
<1>8. CASE Join \/ Stop
  BY <1>0, <1>8 DEF Maps, Join, Stop, HangUpGuest, clientVars
<1>9. CASE Crash
  BY <1>0, <1>9, Forgetting DEF Maps, Crash
<1>10. ASSUME NEW c \in Conns, Leaving(c) PROVE Maps'
  BY <1>0, <1>10 DEF Maps, Leaving, clientVars
<1>11. ASSUME NEW c \in Conns, Destroy(c) PROVE Maps'
  BY <1>0, <1>11, Forgetting DEF Maps, Destroy
<1>12. ASSUME NEW c \in Conns, Exit(c) PROVE Maps'
  BY <1>0, <1>12 DEF Maps, Exit, Disconnect, clientVars
<1>13. ASSUME NEW c \in Conns, Open(c) PROVE Maps'
  BY <1>0, <1>13 DEF Maps, Open, OpenPipe, Connecting
<1>14. ASSUME NEW c \in Conns, WriteHello(c) \/ ReadAck(c) PROVE Maps'
  BY <1>0, <1>14 DEF Maps, WriteHello, ReadAck, Step, kernelVars, Connecting, Attached
<1>15. ASSUME NEW c \in Conns, Attach(c) \/ AttachFails(c) PROVE Maps'
  BY <1>0, <1>15 DEF Maps, Attach, AttachFails, kernelVars, Connecting, Attached
<1>16. ASSUME NEW c \in Conns, GiveUp(c) PROVE Maps'
  <2>1. WithoutShm(sess[c].hello) \in HelloType
    <3> DEFINE h == sess[c].hello
               g == [h EXCEPT !.supported = @ \ ShmProfiles]
    <3>1. h \in HelloType
      BY <1>0 DEF Maps, SessionType
    <3>2. g \in HelloType
      BY <3>1 DEF HelloType
    <3>3. WithoutShm(h) = [g EXCEPT !.preferred = @ \ ShmProfiles]
      BY <3>1 DEF WithoutShm, HelloType
    <3> HIDE DEF g
    <3>4. [g EXCEPT !.preferred = @ \ ShmProfiles] \in HelloType
      BY <3>2 DEF HelloType
    <3> QED BY <3>3, <3>4
  <2>2. thread' = thread /\ ack' = ack /\ sess' \in [Conns -> SessionType]
    BY <1>0, <1>16, Forgetting DEF GiveUp, Maps
  <2>3. /\ hello' \in [Conns -> HelloType] /\ end' \in [Conns -> {"none", "open", "closed"}]
        /\ cpc' \in [Conns -> {"idle", "mute", "failed", "closed"} \cup Connecting \cup Attached]
    BY SMTT(60), <1>0, <1>16, <2>1 DEF Maps, GiveUp, OpenPipe, Connecting
  <2> QED BY <1>0, <2>2, <2>3 DEF Maps
<1>17. ASSUME NEW c \in Conns, Close(c) \/ Closed(c) \/ Die(c) PROVE Maps'
  <2>1. cpc' \in [Conns -> {"idle", "mute", "failed", "closed"} \cup Connecting \cup Attached]
    BY <1>0, <1>17 DEF Maps, Close, Closed, Die, Step, Attached
  <2>2. thread' = thread /\ end' = end /\ ack' = ack /\ hello' = hello /\ Forget
    BY <1>17 DEF Close, Closed, Die, kernelVars
  <2> QED BY <1>0, <2>1, <2>2, Forgetting DEF Maps
<1> QED
  BY <1>2, <1>3, <1>4, <1>5, <1>6, <1>7, <1>8, <1>9, <1>10, <1>11, <1>12, <1>13, <1>14,
     <1>15,
     <1>16, <1>17 DEF Next, Acceptor, Session, Client, SeesStop, SeesClose, SeesError

\* And those of the variables no handle depends on.
LEMMA RestStep ==
    ASSUME Types, Rest, Config, Seats, [Next]_vars
    PROVE  Rest'
<1>0. /\ server \in ConfigType /\ server.resp <= server.ceiling /\ MaxMishaps \in Nat
      /\ peer \in Conns \/ acc # "accepted"
  BY Consts DEF Types, Scalars, Seats, Shaking
<1>1. CASE UNCHANGED <<server, learned, listener, remembered, pool, mishaps, stopped>>
  BY <1>1 DEF Rest
<1>2. CASE UNCHANGED vars \/ SetRunning \/ Flush
  BY <1>1, <1>2 DEF vars, constVars, pipeVars, SetRunning, Flush
<1>3. CASE Bind \/ Leave \/ Accept \/ DoHandshake \/ Refuse
  BY <1>3
     DEF Rest, Bind, Leave, Accept, DoHandshake, Refuse, AcceptFailed, Remember, constVars
<1>4. CASE Prepare
  <2> DEFINE config == [server EXCEPT !.resp = learned]
  <2>1. config \in ConfigType
    BY SMTT(60), <1>0 DEF ConfigType, Rest
  <2> HIDE DEF config
  <2>2. remembered' \in {"none", "listener", "session"}
    <3>1. CASE Offer(config)
      BY <3>1 DEF Offer, Remember
    <3>2. CASE GoOn(0, config)
      BY <2>1, <3>2, GoingOn DEF Rest
    <3> QED BY <1>4, <3>1, <3>2 DEF Prepare, config
  <2> QED BY <1>4, <2>2 DEF Rest, Prepare, constVars
<1>5. CASE Create
  <2>1. remembered' \in {"none", "listener", "session"}
    <3>1. /\ making \in {0} \cup ShmProfiles /\ cfg \in ConfigType
          /\ Without(making) \in ConfigType
      <4>1. making \in {0} \cup ShmProfiles /\ cfg \in ConfigType
        BY DEF Types, Scalars
      <4> QED BY <4>1, Dropping
    <3>2. CASE GoOn(making, cfg) \/ GoOn(making, Without(making))
      BY <3>1, <3>2, GoingOn DEF Rest
    <3> QED BY <1>5, <3>2 DEF Rest, Create, CreateFails, NameTooLong
  <2>2. mishaps' \in 0..MaxMishaps
    BY SMTT(60), <1>0, <1>5 DEF Rest, Create, Mishap
  <2> QED BY <1>5, <2>1, <2>2 DEF Rest, Create, constVars
<1>6. CASE Replace
  BY SMTT(60), <1>0, <1>6 DEF Rest, Replace, AcceptFailed, Remember, Mishap, constVars
<1>7. CASE Admit \/ Join
  BY <1>0, <1>7 DEF Rest, Admit, Join, Reaped, Remember, constVars
<1>8. CASE Stop
  BY SMTT(60), <1>0, <1>8 DEF Rest, Stop, Mishap, constVars
<1>9. CASE Crash
  BY SMTT(60), <1>0, <1>9 DEF Rest, Crash, Mishap, ConfigType
<1>10. ASSUME NEW c \in Conns, SeesError(c) PROVE Rest'
  <2>1. sess[c].ack.resp \in Nat
    BY DEF Types, Maps, SessionType, AckType
  <2>2. learned' \in server.resp..server.ceiling
    BY SMTT(60), <1>0, <1>10, <2>1 DEF Rest, SeesError, Larger, Smaller, ConfigType
  <2> QED BY <1>10, <2>2 DEF Rest, SeesError, Leaving, serverVars, constVars, pipeVars
<1>11. ASSUME NEW c \in Conns,
              \/ SeesStop(c) \/ SeesClose(c) \/ Destroy(c) \/ Exit(c) \/ Open(c) \/ GiveUp(c)
       PROVE  Rest'
  BY <1>1, <1>11 DEF SeesStop, SeesClose, Leaving, Destroy, Exit, Open, OpenPipe, GiveUp,
         serverVars, constVars, pipeVars
<1>12. ASSUME NEW c \in Conns,
              \/ WriteHello(c) \/ ReadAck(c) \/ Closed(c) \/ Attach(c) \/ AttachFails(c)
              \/ Close(c) \/ Die(c)
       PROVE  Rest'
  BY <1>1, <1>12
     DEF WriteHello, ReadAck, Closed, Attach, AttachFails, Close, Die, kernelVars,
         serverVars, constVars, pipeVars
<1> QED BY <1>2, <1>3, <1>4, <1>5, <1>6, <1>7, <1>8, <1>9, <1>10, <1>11, <1>12
     DEF Next, Acceptor, Session, Client

\* The offer stays within the configuration.
LEMMA ConfigStep ==
    ASSUME Types, Config, Any
    PROVE  Config'
<1>0. /\ server \in ConfigType /\ nextId \in Nat \ {0} /\ making \in {0} \cup ShmProfiles
  BY SMTT(60), Consts DEF Types, Scalars, Maps
<1>1. CASE Prepares
  BY SMTT(60), <1>0, <1>1
     DEF Prepares, Resumes, Config, ProfilesOf, Busy, Creating, Accepting
<1>2. CASE Creates
  BY <1>2
     DEF Creates, Resumes, Config, ProfilesOf, Busy, Creating, Accepting, Shm,
         ShmProfiles, Hybrid, Busywait
<1>3. CASE Drops
  BY <1>3 DEF Drops, Resumes, Config, ProfilesOf, Busy, Creating, Accepting, Shm
<1>4. CASE Crashes
  BY <1>4 DEF Crashes, Config, Busy, Creating, Accepting
<1>5. CASE Stays
  BY <1>5 DEF Stays, offer, Config, ProfilesOf, Busy, Creating, Accepting, Shm
<1> QED BY <1>1, <1>2, <1>3, <1>4, <1>5, Kept

\* A connection has one seat at a time.
LEMMA SeatsStep ==
    ASSUME Types, Seats, Any
    PROVE  Seats'
<1>0. NoConn \notin Conns /\ guest \in Conns \cup {NoConn} /\ peer \in Conns \cup {NoConn}
      /\ NoSession.gen = 0
  BY Consts DEF Types, Scalars, Maps
<1>1. CASE Rests
  BY <1>0, <1>1 DEF Rests, Seats, Shaking, Resting, others, Known
<1>2. CASE Prepares \/ Creates \/ Drops
  BY <1>0, <1>2
     DEF Prepares, Creates, Drops, Resumes, Seats, Shaking, Creating, others, Known
<1>3. CASE Fails \/ Takes \/ Seated
  BY <1>0, <1>3 DEF Fails, Takes, Seated, Seats, Shaking, others, Known
<1>4. CASE Answers
  BY <1>0, <1>4 DEF Answers, Seats, Shaking, Known
<1>5. CASE Refuses \/ Turns
  BY <1>0, <1>5 DEF Refuses, Turns, Seats, Shaking, others, Known
<1>6. CASE Serves
  BY <1>0, <1>6 DEF Serves, Seats, Shaking, Known
<1>7. CASE Flushes
  BY <1>0, <1>7 DEF Flushes, Forgets, Seats, Shaking, Known
<1>8. CASE Crashes
  BY <1>0, <1>8 DEF Crashes, Forgets, Seats, Shaking, Known
<1>9. ASSUME NEW c \in Conns, Winds(c) \/ Exits(c) PROVE Seats'
  BY <1>0, <1>9 DEF Winds, Exits, Seats, offer, Known
<1>10. ASSUME NEW c \in Conns, Destroys(c) PROVE Seats'
  BY <1>0, <1>10 DEF Destroys, Forgets, Seats, offer, Known
<1>11. ASSUME NEW c \in Conns, Opens(c) \/ Goes(c) \/ Attaches(c) PROVE Seats'
  <2>1. CASE Opens(c)
    BY <1>0, <2>1 DEF Opens, Seats, offer, Known
  <2>2. CASE Goes(c) \/ Attaches(c)
    <3>1. cpc[c] # "idle" /\ cpc'[c] # "idle"
      BY <2>2 DEF Goes, Attaches, Attaching
    <3>2. UNCHANGED <<acc, guest, peer, thread, sess>>
          /\ \A d \in Conns : d # c => cpc'[d] = cpc[d]
      BY <2>2 DEF Goes, Attaches
    <3> QED BY <3>1, <3>2 DEF Seats, Known
  <2> QED BY <1>11, <2>1, <2>2
<1>12. ASSUME NEW c \in Conns, Releases(c) PROVE Seats'
  BY SMTT(60), <1>0, <1>12 DEF Releases, Forgets, Gone, Seats, offer, Known, Attaching
<1> QED BY <1>1, <1>2, <1>3, <1>4, <1>5, <1>6, <1>7, <1>8, <1>9, <1>10, <1>11, <1>12
           DEF Any, Kind, KindOf

\* An acknowledgement goes with its session.
LEMMA AcksStep ==
    ASSUME Types, Seats, Acks, Any
    PROVE  Acks'
<1>0. NoAck.status = "unsent" /\ NoAck.status # "OK"
  BY Consts
<1>1. CASE Rests \/ Prepares \/ Creates \/ Drops \/ Takes \/ Seated \/ Turns
  BY <1>1
     DEF Rests, Prepares, Creates, Drops, Takes, Seated, Turns, Acks, others, Known, Gone
<1>2. CASE Fails
  BY <1>0, <1>2 DEF Fails, Acks, Unread, others, Known, Gone
<1>3. CASE Answers
  BY SMTT(60), <1>0, <1>3
     DEF Answers, Accepts, Acks, Known, Gone, Types, Scalars, Maps, Statuses
<1>4. CASE Refuses
  BY <1>0, <1>4 DEF Refuses, Acks, others, Known, Gone, Statuses
<1>5. CASE Serves
  BY <1>5 DEF Serves, Acks, Known, Gone
<1>6. CASE Flushes
  BY <1>0, <1>6 DEF Flushes, Forgets, Unread, Acks, Known, Gone
<1>7. CASE Crashes
  BY <1>0, <1>7 DEF Crashes, Forgets, Acks, Known, Gone
<1>8. ASSUME NEW c \in Conns, Winds(c) \/ Exits(c) \/ Goes(c) \/ Attaches(c) \/ Opens(c) PROVE Acks'
  BY <1>0, <1>8
     DEF Winds, Exits, Goes, Attaches, Opens, Unread, Acks, Known, Gone, Attaching
<1>9. ASSUME NEW c \in Conns, Destroys(c) PROVE Acks'
  BY <1>0, <1>9 DEF Destroys, Forgets, Acks, Known, Gone
<1>10. ASSUME NEW c \in Conns, Releases(c) PROVE Acks'
  BY SMTT(60), <1>0, <1>10
     DEF Releases, Forgets, Acks, Known, Gone, Connecting, Attached, Attaching
<1> QED BY <1>1, <1>2, <1>3, <1>4, <1>5, <1>6, <1>7, <1>8, <1>9, <1>10
           DEF Any, Kind, KindOf

\* Only an answer, a new number and a crash change what a session is compared with.
LEMMA Changes ==
    ASSUME Any, NEW c \in Conns
    PROVE  Answers \/ Prepares \/ Crashes \/ Carries(c)
<1>1. CASE Rests
  BY <1>1
     DEF Rests, Carries, Served, Answered, offer, others, Resting, Busy, Creating,
         Accepting
<1>2. CASE Creates \/ Drops
  BY <1>2 DEF Creates, Drops, Resumes, Carries, Served, Answered, others, Busy, Creating
<1>3. CASE Fails \/ Takes \/ Seated \/ Refuses \/ Turns
  BY <1>3
     DEF Fails, Takes, Seated, Refuses, Turns, Carries, Served, Answered, offer, others,
         Busy,
         Creating, Accepting
<1>4. CASE Serves
  BY <1>4 DEF Serves, Carries, Served, Answered, offer, Busy, Creating, Accepting
<1>5. CASE Flushes
  BY <1>5
     DEF Flushes, Forgets, Carries, Served, Answered, offer, Busy, Creating, Accepting
<1>6. ASSUME NEW d \in Conns, Winds(d) \/ Exits(d) \/ Opens(d) \/ Goes(d) \/ Attaches(d) PROVE Carries(c)
  BY <1>6 DEF Winds, Exits, Opens, Goes, Attaches, Carries, Served, Answered, offer
<1>7. ASSUME NEW d \in Conns, Destroys(d) \/ Releases(d) PROVE Carries(c)
  BY <1>7 DEF Destroys, Releases, Forgets, Carries, Served, Answered, offer
<1> QED BY <1>1, <1>2, <1>3, <1>4, <1>5, <1>6, <1>7 DEF Any, Kind, KindOf

\* A client comes to attach from a session it knows, and goes on in it.
LEMMA Advances ==
    ASSUME Any, NEW c \in Conns
    PROVE  \/ cpc'[c] \notin Attaching \cup Attached
           \/ sess'[c] = sess[c] /\ cpc'[c] = cpc[c]
           \/ sess'[c] = sess[c] /\ Moves(c)
           \/ Answers
<1>1. CASE Rests \/ Prepares \/ Creates \/ Drops \/ Fails \/ Takes \/ Seated \/ Refuses \/ Turns \/ Serves
  BY <1>1
     DEF Rests, Prepares, Creates, Drops, Fails, Takes, Seated, Refuses, Turns, Serves,
         others
<1>2. CASE Flushes \/ Crashes
  BY <1>2 DEF Flushes, Crashes, Forgets, Gone, Attaching, Attached
<1>3. ASSUME NEW d \in Conns, Winds(d) \/ Exits(d) \/ Opens(d) \/ Goes(d) \/ Attaches(d)
      PROVE  \/ cpc'[c] \notin Attaching \cup Attached
             \/ sess'[c] = sess[c] /\ (cpc'[c] = cpc[c] \/ Moves(c))
  BY <1>3 DEF Winds, Exits, Opens, Goes, Attaches, Moves, Attaching, Attached
<1>4. ASSUME NEW d \in Conns, Destroys(d) \/ Releases(d)
      PROVE  \/ cpc'[c] \notin Attaching \cup Attached
             \/ sess'[c] = sess[c] /\ (cpc'[c] = cpc[c] \/ Moves(c))
  BY <1>4 DEF Destroys, Releases, Forgets, Moves, Gone, Attaching, Attached
<1> QED BY <1>1, <1>2, <1>3, <1>4 DEF Any, Kind, KindOf

\* A session stays rightful, numbered and current.
LEMMA SessionStep ==
    ASSUME Types, Config, Seats, Any, NEW c \in Conns, SessionOf(c)
    PROVE  SessionOf(c)'
<1>0. /\ NoConn \notin Conns /\ NoSession.gen = 0
      /\ gen \in Nat \ {0} /\ nextId \in Nat \ {0}
      /\ sess[c].gen \in Nat /\ sess[c].ack.id \in Nat
      /\ Rightful(c) /\ Numbered(c) /\ Current(c) /\ Along(c)
  BY Consts, Numbers DEF SessionOf
<1> DEFINE D == Rightful(c)' /\ Numbered(c)' /\ Current(c)'
<1>1. ASSUME Carries(c) PROVE D
  <2>1. CASE sess'[c] = NoSession /\ ~Served(c)' /\ c # peer'
    BY <1>0, <2>1 DEF Rightful, Numbered, Current, Known, Answered
  <2>2. CASE sess'[c] = sess[c]
    <3>1. Rightful(c)' /\ Numbered(c)'
      BY <1>0, <1>1, <2>2 DEF Carries, Rightful, Numbered, Entitled, Known, SessionId
    <3>2. Current(c)'
      BY <1>0, <1>1, <2>2 DEF Carries, Current, Known, SessionId
    <3> QED BY <3>1, <3>2
  <2> QED BY <1>1, <2>1, <2>2 DEF Carries
<1>2. ASSUME Prepares PROVE D
  <2>1. ~Answered(c) /\ ~Answered(c)' /\ sess' = sess /\ thread' = thread /\ gen' = gen
        /\ server' = server /\ nextId' = nextId + 1
    BY <1>2 DEF Prepares, Resumes, Answered, others
  <2>2. sess[c].ack.id < nextId => sess[c].ack.id < nextId' /\ sess[c].ack.id < SessionId'
    BY SMTT(60), <1>0, <2>1 DEF SessionId
  <2>3. Rightful(c)' /\ Numbered(c)'
    BY <1>0, <2>1, <2>2 DEF Rightful, Numbered, Entitled, Known
  <2> QED BY <1>0, <2>1, <2>3 DEF Current, Known, Served
<1>3. ASSUME Crashes PROVE D
  <2>1. sess[c].gen <= gen => sess[c].gen <= gen + 1 /\ sess[c].gen # gen + 1
    BY SMTT(60), <1>0
  <2>2. /\ ~Answered(c)' /\ ~Served(c)' /\ gen' = gen + 1 /\ server' = server
        /\ sess'[c] = sess[c] \/ sess'[c] = NoSession
    BY <1>3 DEF Crashes, Forgets, Answered, Served
  <2> QED BY <1>0, <2>1, <2>2 DEF Rightful, Numbered, Current, Entitled, Known
<1>4. ASSUME Answers PROVE D
  <2>1. CASE c # peer
    <3>1. /\ sess'[c] = sess[c] /\ ~Answered(c) /\ ~Answered(c)' /\ thread' = thread
          /\ UNCHANGED offer /\ acc \in Busy
      BY <1>4, <2>1 DEF Answers, Answered, Busy, Accepting
    <3>2. Rightful(c)' /\ Numbered(c)'
      BY <1>0, <3>1 DEF offer, Rightful, Numbered, Entitled, Known, SessionId
    <3> QED BY <1>0, <3>1, <3>2 DEF offer, Current, Known, Served
  <2>2. CASE c = peer
    <3>1. gen <= gen /\ gen # 0 /\ nextId - 1 < nextId
      BY SMTT(60), <1>0
    <3>2. /\ Accepts(sess'[c]) /\ Answered(c)' /\ UNCHANGED offer
          /\ ProfilesOf(cfg) \subseteq ProfilesOf(server)
          /\ cfg.req = server.req /\ cfg.token = server.token
      BY <1>4, <2>2 DEF Answers, Answered, Config, Busy, Accepting
    <3>3. Rightful(c)' /\ Numbered(c)'
      BY <3>1, <3>2 DEF Accepts, offer, Rightful, Numbered, Entitled, SessionId
    <3> QED BY <3>1, <3>2, <3>3 DEF Accepts, offer, Current, Known, SessionId
  <2> QED BY <2>1, <2>2
<1>5. D
  BY <1>1, <1>2, <1>3, <1>4, Changes
<1>6. Along(c)'
  <2>1. CASE Answers
    <3>1. cpc[c] = cpc'[c] /\ (c # peer => sess'[c] = sess[c]) /\ (c = peer => ~Known(c))
      BY <2>1 DEF Answers, Seats
    <3> QED BY <1>0, <3>1 DEF Along, Known, OverShm, Attaching
  <2>2. CASE cpc'[c] \notin Attaching \cup Attached
    BY <2>2 DEF Along, Attaching
  <2>3. CASE sess'[c] = sess[c] /\ cpc'[c] = cpc[c]
    BY <1>0, <2>3 DEF Along, Known, OverShm
  <2>4. CASE sess'[c] = sess[c] /\ Moves(c)
    BY <1>0, <2>4 DEF Along, Moves, Known, OverShm, Attaching, Attached
  <2> QED BY <2>1, <2>2, <2>3, <2>4, Advances
<1> QED BY <1>5, <1>6 DEF SessionOf

\* Where the sessions come from.
LEMMA Remembered ==
    ASSUME Any
    PROVE  \/ Answers
           \/ \A c \in Conns : sess'[c] = sess[c] \/ sess'[c] = NoSession
<1>1. CASE Rests \/ Prepares \/ Creates \/ Drops \/ Fails \/ Takes \/ Seated \/ Refuses \/ Turns \/ Serves
  BY <1>1
     DEF Rests, Prepares, Creates, Drops, Fails, Takes, Seated, Refuses, Turns, Serves,
         others
<1>2. CASE Flushes \/ Crashes
  BY <1>2 DEF Flushes, Crashes, Forgets
<1>3. ASSUME NEW c \in Conns, KindOf(c)
      PROVE  \A d \in Conns : sess'[d] = sess[d] \/ sess'[d] = NoSession
  BY <1>3 DEF KindOf, Winds, Destroys, Exits, Opens, Goes, Attaches, Releases, Forgets
<1> QED BY <1>1, <1>2, <1>3 DEF Any, Kind

\* The number of an answer is above those of all sessions of the same server.
LEMMA SessionsStep ==
    ASSUME Types, Config, Seats, Sessions, Any
    PROVE  Sessions'
<1>1. \A c \in Conns : SessionOf(c)'
  BY SessionStep DEF Sessions
<1>2. ASSUME NEW c \in Conns, NEW d \in Conns, c # d, Known(c)', Known(d)', sess'[c].gen = sess'[d].gen
      PROVE  sess'[c].ack.id # sess'[d].ack.id
  <2>1. CASE Answers
    <3>1. sess'[peer].ack.id = SessionId /\ sess'[peer].gen = gen /\ acc = "handshake" /\ peer \in Conns
          /\ \A e \in Conns : e # peer => sess'[e] = sess[e]
      BY <2>1 DEF Answers, Accepts, Seats, Shaking
    <3>2. ASSUME NEW e \in Conns, e # peer, Known(e), sess[e].gen = gen
          PROVE  sess[e].ack.id # SessionId
      <4>1. sess[e].ack.id < SessionId
        BY <3>1, <3>2
           DEF Sessions, SessionOf, Rightful, Numbered, Current, Along, Answered, Busy,
               Accepting
      <4>2. sess[e].ack.id \in Nat /\ SessionId \in Nat
        BY Numbers
      <4> QED BY <4>1, <4>2, Below
    <3> QED BY SMTT(60), <1>2, <3>1, <3>2 DEF Sessions, Known
  <2>2. CASE \A e \in Conns : sess'[e] = sess[e] \/ sess'[e] = NoSession
    BY <1>2, <2>2, Consts DEF Sessions, Known
  <2> QED BY <2>1, <2>2, Remembered
<1>3. (\A c, d \in Conns :
         c # d /\ Known(c) /\ Known(d) /\ sess[c].gen = sess[d].gen =>
             sess[c].ack.id # sess[d].ack.id)'
  BY <1>2 DEF Known
<1> QED BY <1>1, <1>3 DEF Sessions

\* Objects come from Create; all else opens or closes.
LEMMA HeldFrom ==
    ASSUME Any
    PROVE  Creates \/ \A h \in held' : \E i \in held : h.obj = i.obj
<1>1. CASE Kind /\ ~Creates
  BY <1>1
     DEF Kind, Rests, Prepares, Drops, Fails, Takes, Seated, Answers, Refuses, Turns,
         Serves, Flushes, Crashes, Clears
<1>2. ASSUME NEW c \in Conns, KindOf(c) PROVE \A h \in held' : \E i \in held : h.obj = i.obj
  BY <1>2 DEF KindOf, Winds, Destroys, Exits, Opens, Goes, Attaches, Releases
<1> QED BY <1>1, <1>2 DEF Any

\* A new object has a name no other has.
LEMMA ObjectiveStep ==
    ASSUME Config, Objective, Any
    PROVE  Objective'
<1>1. CASE \A h \in held' : \E i \in held : h.obj = i.obj
  BY <1>1 DEF Objective
<1>2. CASE Creates
  <2>1. acc \in KindsOf(making)
    BY <1>2 DEF Creates, Config, KindsOf, Kinds, Creating
  <2> DEFINE new == Ours(making, acc)
  <2>2. new.obj.kind = acc /\ new.obj.profile = making
    BY DEF Ours, Object
  <2>3. /\ \A h \in held : ~Namesakes(h.obj, new.obj)
        /\ held' = held \cup {new}
    BY <1>2 DEF Creates
  <2> HIDE DEF new
  <2> QED BY SMTT(60), <2>1, <2>2, <2>3 DEF Objective, Namesakes
<1> QED BY <1>1, <1>2, HeldFrom

\* What is on offer is closed, or handed to the session it was answered with.
LEMMA OwnedStep ==
    ASSUME Types, Config, Seats, Sessions, Owned, Any
    PROVE  Owned'
<1>0. /\ "server" \notin Conns /\ NoConn \notin Conns
      /\ \A h \in held : h.obj.profile \in ShmProfiles /\ h.obj.profile # 0
  BY SMTT(60), Consts DEF Types, Scalars, Handle, Objects, ShmProfiles, Hybrid, Busywait
<1> DEFINE Keeps ==
      /\ gen' = gen /\ server' = server
      /\ \A h \in held' : h.by = "server" => h \in held /\ (Offered(h) => Offered(h)' \/ Stray(h))
      /\ \A c \in Conns : Served(c) => Served(c)' /\ sess'[c] = sess[c]
<1>1. ASSUME Keeps PROVE Owned'
  <2>1. \A h \in held : InUse(h) => InUse(h)'
    BY <1>1 DEF InUse, Of
  <2>2. \A h \in held : Stray(h) => Stray(h)'
    BY <1>1 DEF Stray
  <2> QED BY <1>1, <2>1, <2>2 DEF Owned
<1>2. CASE Rests \/ Takes \/ Seated \/ Refuses
  BY <1>1, <1>2
     DEF Rests, Takes, Seated, Refuses, Offered, Served, Shm, SessionId, offer, others,
         Resting, Busy, Creating, Accepting
<1>3. CASE Prepares
  BY <1>1, <1>3 DEF Prepares, Offered, Served, others, Busy, Creating, Accepting
<1>4. CASE Creates
  <2>1. making \in Shm /\ acc \in Busy /\ acc' \in Busy
    BY <1>4 DEF Creates, Config, Busy, Shm, Resumes, Creating, Accepting
  <2>2. Ours(making, acc).obj.gen = gen /\ Ours(making, acc).obj.id = SessionId /\ Ours(making, acc).obj.profile = making
    BY DEF Ours, Object
  <2> QED BY <1>4, <2>1, <2>2
             DEF Creates, Owned, Offered, InUse, Stray, Of, Served, Shm, SessionId, others
<1>5. CASE Drops
  <2>1. \A h \in held' : h.by = "server" /\ Offered(h) => Offered(h)' \/ Stray(h)
    BY <1>5 DEF Drops, Resumes, Offered, Shm, SessionId, Busy, Creating, Accepting
  <2> QED BY <1>1, <1>5, <2>1 DEF Drops, Served, others
<1>6. CASE Fails \/ Turns
  <2>1. \A h \in held' : h.by = "server" => h \in held /\ ~Offered(h)
    BY <1>0, <1>6 DEF Fails, Turns, Clears, Offered, Shm
  <2> QED BY <1>1, <1>6, <2>1 DEF Fails, Turns, Served, offer, others
<1>7. CASE Answers
  BY <1>1, <1>7
     DEF Answers, Seats, Offered, Served, Shm, SessionId, offer, Busy, Accepting
<1>8. CASE Serves
  <2>1. peer \in Conns /\ sess[peer].gen = gen /\ sess[peer].ack.id = SessionId /\ thread[peer] = "none"
    BY <1>8
       DEF Serves, Seats, Shaking, Sessions, SessionOf, Rightful, Numbered, Current,
           Along, Answered
  <2> QED BY <1>8, <2>1
             DEF Serves, Clears, Owned, Offered, InUse, Stray, Of, Served, Shm, SessionId, offer
<1>9. CASE Flushes
  BY <1>1, <1>9 DEF Flushes, Forgets, Offered, Served, offer, Busy, Creating, Accepting
<1>10. CASE Crashes
  BY <1>10 DEF Crashes, Owned
<1>11. ASSUME NEW c \in Conns, Winds(c) \/ Exits(c) \/ Opens(c) \/ Goes(c) PROVE Owned'
  BY <1>1, <1>11 DEF Winds, Exits, Opens, Goes, Offered, Served, Shm, SessionId, offer
<1>12. ASSUME NEW c \in Conns, Destroys(c) PROVE Owned'
  <2>1. /\ gen' = gen /\ server' = server /\ \A h \in held : Offered(h) => Offered(h)'
        /\ \A h \in held' : h.by = "server" => h \in held /\ ~Of(h.obj, c)
    BY <1>12 DEF Destroys, Offered, Shm, SessionId, offer, Of
  <2>2. \A d \in Conns : d # c /\ Served(d) => Served(d)' /\ sess'[d] = sess[d]
    BY <1>12 DEF Destroys, Forgets, Served
  <2>3. \A h \in held' : h.by = "server" /\ InUse(h) => InUse(h)'
    BY <2>1, <2>2 DEF InUse, Of
  <2>4. \A h \in held : Stray(h) => Stray(h)'
    BY <2>1 DEF Stray
  <2> QED BY <2>1, <2>3, <2>4 DEF Owned
<1>13. ASSUME NEW c \in Conns, Attaches(c) PROVE Owned'
  <2>1. \A h \in held' : h.by = "server" => h \in held
    BY <1>0, <1>13 DEF Attaches
  <2> QED BY <1>1, <1>13, <2>1 DEF Attaches, Offered, Served, Shm, SessionId, offer
<1>14. ASSUME NEW c \in Conns, Releases(c) PROVE Owned'
  BY <1>1, <1>14 DEF Releases, Forgets, Offered, Served, Shm, SessionId, offer
<1> QED BY <1>2, <1>3, <1>4, <1>5, <1>6, <1>7, <1>8, <1>9, <1>10, <1>11, <1>12, <1>13,
           <1>14 DEF Any, Kind, KindOf

\* A client opens by its session's names, and has closed all before it is gone.
LEMMA OpenedStep ==
    ASSUME Types, Seats, Sessions, Opened, Any
    PROVE  Opened'
<1>0. "server" \notin Conns /\ NoSession.gen = 0
  BY Consts
<1>1. CASE Rests \/ Prepares \/ Drops \/ Fails \/ Takes \/ Seated \/ Refuses \/ Turns
  BY <1>1
     DEF Rests, Prepares, Drops, Fails, Takes, Seated, Refuses, Turns, Clears, Opened,
         others
<1>2. CASE Creates
  <2>1. Ours(making, acc).by \notin Conns
    BY <1>0 DEF Ours
  <2>2. \A h \in held' : h.by \in Conns => h \in held
    BY <1>2, <2>1 DEF Creates
  <2> QED BY <1>2, <2>2 DEF Creates, Opened, others
<1>3. CASE Answers
  <2>1. \A h \in held : h.by # peer
    BY <1>3
       DEF Answers, Seats, Shaking, Opened, Sessions, SessionOf, Rightful, Numbered,
           Current, Along
  <2> QED BY <1>3, <2>1 DEF Answers, Opened
<1>4. CASE Serves
  BY <1>4 DEF Serves, Clears, Opened
<1>5. CASE Flushes \/ Crashes
  BY <1>5 DEF Flushes, Crashes, Forgets, Opened, Gone, Attaching, Attached
<1>6. ASSUME NEW c \in Conns, Winds(c) \/ Exits(c) \/ Opens(c) PROVE Opened'
  BY <1>6 DEF Winds, Exits, Opens, Opened, Attaching, Attached
<1>7. ASSUME NEW c \in Conns, Destroys(c) PROVE Opened'
  BY <1>7 DEF Destroys, Forgets, Opened, Gone, Attaching, Attached
<1>8. ASSUME NEW c \in Conns, Goes(c) PROVE Opened'
  BY <1>8 DEF Goes, Opened, Attaching, Attached
<1>9. ASSUME NEW c \in Conns, Attaches(c) PROVE Opened'
  BY <1>9 DEF Attaches, Opened, Attached
<1>10. ASSUME NEW c \in Conns, Releases(c) PROVE Opened'
  BY SMTT(60), <1>10 DEF Releases, Forgets, Opened, Gone, Attaching, Attached
<1> QED BY <1>1, <1>2, <1>3, <1>4, <1>5, <1>6, <1>7, <1>8, <1>9, <1>10
           DEF Any, Kind, KindOf

\* No session served has the number on offer.
LEMMA Distinct ==
    ASSUME Types, Seats, Sessions, acc \in Busy, NEW c \in Conns, Served(c)
    PROVE  sess[c].ack.id # SessionId
<1>1. Known(c) /\ sess[c].gen = gen /\ ~Answered(c)
  BY DEF Sessions, SessionOf, Rightful, Numbered, Current, Along, Seats, Served, Answered
<1>2. sess[c].ack.id < SessionId
  BY <1>1 DEF Sessions, SessionOf, Rightful, Numbered, Current, Along
<1>3. sess[c].ack.id \in Nat /\ SessionId \in Nat
  BY Numbers
<1> QED BY <1>2, <1>3, Below

\* prepare_windows_accept makes the objects in order and closes none that it keeps on offer.
LEMMA ReadyStep ==
    ASSUME Types, Config, Seats, Sessions, Ready, Any
    PROVE  Ready'
<1>0. "server" \notin Conns /\ making \in {0, 2, 4}
  BY Consts DEF Types, Scalars, ShmProfiles, Hybrid, Busywait
<1>1. CASE Prepares
  <2>1. \A q \in Shm' : q \in ShmProfiles
    BY DEF Shm
  <2>2. \A q \in Shm' : acc' = "mapping" /\ ~(q < making')
    BY <1>1, <2>1, Order DEF Prepares, Resumes, Shm
  <2> QED BY <2>2 DEF Ready, Made, Earlier, Creating
<1>2. CASE Creates
  <2>1. \A p \in ShmProfiles, k \in Kinds : Made(p, k)' => Made(p, k) \/ (p = making /\ k = acc)
    <3>1. Shm' = Shm /\ making \in Shm /\ acc \in Creating
      BY <1>2 DEF Creates, Config, Shm
    <3>2. CASE (making = Busywait \/ acc = "resp_event") /\ Resumes(making)
      <4>1. acc' \in Creating => acc' = "mapping" /\ \A p \in Shm : p < making' => p <= making
        BY <3>1, <3>2 DEF Resumes, Creating
      <4>2. \A p \in Shm : acc' \notin Creating /\ acc' \in Busy => p <= making
        BY <3>1, <3>2 DEF Resumes, Creating, Busy, Accepting
      <4>3. \A p \in Shm, k \in Kinds : Made(p, k)' => p <= making
        BY <3>1, <4>1, <4>2 DEF Made, Earlier
      <4>4. \A p \in Shm : p <= making => p < making \/ p = making
        BY <3>1, Order DEF Shm
      <4>5. \A p \in Shm : \A k \in KindsOf(p) : p < making => Made(p, k)
        BY <3>1 DEF Made, Busy
      <4>6. \A k \in KindsOf(making) : Earlier(k) \/ k = acc
        BY <3>1, <3>2, Order DEF KindsOf, Kinds, Earlier, Creating
      <4>7. \A k \in KindsOf(making) : Made(making, k) \/ k = acc
        BY <3>1, <4>6 DEF Made, Busy
      <4>8. \A p, k : Made(p, k)' => p \in Shm /\ k \in KindsOf(p)
        BY <3>1 DEF Made
      <4> QED BY <4>3, <4>4, <4>5, <4>7, <4>8
    <3>3. CASE making' = making /\ ((acc = "mapping" /\ acc' = "req_event")
                                   \/ (acc = "req_event" /\ acc' = "resp_event"))
      BY <3>1, <3>3 DEF Made, Earlier, Creating, Busy
    <3> QED BY <1>2, <3>2, <3>3 DEF Creates
  <2>2. \A p \in ShmProfiles, k \in Kinds : Ours(p, k)' = Ours(p, k)
    BY <1>2 DEF Creates, Ours, SessionId
  <2> QED BY <1>2, <2>1, <2>2 DEF Creates, Ready
<1>3. CASE Drops
  <2>1. \A p \in ShmProfiles, k \in Kinds : Made(p, k)' => Made(p, k) /\ p # making
    <3>1. Shm' = Shm \ {making} /\ making \in Shm /\ acc \in Creating /\ Resumes(making)
      BY <1>3 DEF Drops, Config, Shm
    <3>2. \A p \in Shm' : acc' \in Creating /\ p < making' => p <= making
      BY <3>1 DEF Resumes, Creating
    <3>3. \A p \in Shm' : acc' \in Busy => acc' = "mapping" \/ p <= making
      BY <1>3, <3>1 DEF Resumes, Drops, Shm, Creating, Busy, Accepting
    <3>4. \A p \in Shm' : p <= making => p < making
      BY <3>1, Order DEF Shm
    <3>5. \A p \in Shm : \A k \in KindsOf(p) : p < making => Made(p, k)
      BY <3>1 DEF Made, Busy
    <3>6. \A p, k : Made(p, k)' => p \in Shm' /\ k \in KindsOf(p) /\ p <= making
      BY <3>2, <3>3 DEF Made, Earlier, Creating
    <3> QED BY <3>1, <3>4, <3>5, <3>6
  <2>2. \A p \in ShmProfiles, k \in Kinds : Ours(p, k)' = Ours(p, k) /\ Ours(p, k).obj.profile = p
    BY <1>3 DEF Drops, Ours, SessionId, Object
  <2> QED BY SMTT(60), <1>3, <2>1, <2>2 DEF Drops, Ready
<1>4. CASE Crashes
  BY <1>4 DEF Crashes, Ready, Made, Busy, Creating, Accepting
<1>5. CASE Stays /\ ~Drops
  <2>1. \A p \in ShmProfiles, k \in Kinds : Made(p, k)' => Made(p, k) /\ acc \in Busy
    BY <1>5 DEF Stays, offer, Made, Earlier, Shm, Busy, Creating, Accepting
  <2>2. \A p \in ShmProfiles, k \in Kinds : Ours(p, k)' = Ours(p, k) /\ Ours(p, k).by = "server"
                                            /\ Ours(p, k).obj.id = SessionId
    BY <1>5 DEF Stays, offer, Ours, SessionId, Object
  <2>3. acc' \in Busy /\ acc \in Busy => \A h \in held : h.by = "server" /\ h.obj.id = SessionId => h \in held'
    <3>1. ASSUME NEW c \in Conns, KindOf(c), acc \in Busy, NEW h \in held, h.by = "server", h.obj.id = SessionId
          PROVE  h \in held'
      <4>1. CASE Destroys(c)
        BY <3>1, <4>1, Distinct DEF Destroys, Served
      <4>2. CASE ~Destroys(c)
        BY <1>0, <3>1, <4>2 DEF KindOf, Winds, Exits, Opens, Goes, Attaches, Releases
      <4> QED BY <4>1, <4>2
    <3>2. CASE Kind
      BY <1>5, <3>2
         DEF Kind, Rests, Prepares, Creates, Fails, Takes, Seated, Answers, Refuses,
             Turns, Serves, Flushes, Crashes, Busy, Creating, Accepting
    <3> QED BY <3>1, <3>2 DEF Any
  <2>4. \A p \in ShmProfiles, k \in Kinds : Made(p, k)' => acc' \in Busy
    BY DEF Made
  <2> QED BY <2>1, <2>2, <2>3, <2>4 DEF Ready
<1> QED BY <1>1, <1>2, <1>3, <1>4, <1>5, Kept

\* An answer that names shared memory finds its objects made.
LEMMA Answering ==
    ASSUME Types, Config, Sessions, Ready, NEW c \in Conns, Answered(c), OverShm(c),
           NEW k \in KindsOf(sess[c].ack.profile)
    PROVE  \E h \in held : h.obj.kind = k /\ Backs(h, c)
<1> DEFINE p == sess[c].ack.profile
<1>1. /\ Known(c) /\ sess[c].gen = gen /\ sess[c].ack.id = SessionId
      /\ sess[c].ack.resp = cfg.resp /\ p \in ProfilesOf(cfg)
      /\ sess[c].ack.req <= cfg.req
  BY DEF Sessions, SessionOf, Rightful, Numbered, Current, Along, Entitled, Config
<1>2. p \in Shm /\ p \in ShmProfiles /\ k \in Kinds
  BY <1>1, Offers DEF OverShm, KindsOf, Kinds
<1>3. PICK h \in held : h = Ours(p, k)
  BY <1>2 DEF Ready, Made, Answered, Busy, Creating, Accepting
<1>4. /\ h.by = "server" /\ h.obj.profile = p /\ h.obj.id = SessionId /\ h.obj.gen = gen
      /\ h.obj.kind = k /\ h.obj.limits.req = cfg.req /\ h.obj.limits.resp = cfg.resp
  BY <1>3 DEF Ours, Object
<1>5. cfg.resp \in Nat /\ cfg.req \in Nat /\ sess[c].ack.req \in Nat
  BY DEF Types, Scalars, Maps, ConfigType, SessionType, AckType
<1> QED BY SMTT(60), <1>1, <1>4, <1>5 DEF Backs, Of

\* No step closes an object of a session that is served, but that session's end.
LEMMA BackedStep ==
    ASSUME Types, Config, Seats, Sessions, Ready, Backed, Any
    PROVE  Backed'
<1>0. "server" \notin Conns
  BY Consts
<1> DEFINE Lasts == \A c \in Conns : Served(c)' =>
                        /\ Served(c) /\ sess'[c] = sess[c]
                        /\ \A h \in held : Backs(h, c) => h \in held'
<1>1. ASSUME Lasts PROVE Backed'
  <2>1. ASSUME NEW c \in Conns, Served(c)', OverShm(c)', NEW k \in KindsOf(sess'[c].ack.profile)
        PROVE  \E h \in held' : h.obj.kind = k /\ Backs(h, c)'
    <3>1. Served(c) /\ sess'[c] = sess[c] /\ \A h \in held : Backs(h, c) => h \in held'
      BY <1>1, <2>1
    <3>2. PICK h \in held : h.obj.kind = k /\ Backs(h, c)
      BY <2>1, <3>1 DEF Backed, OverShm
    <3>3. Backs(h, c)'
      BY <3>1, <3>2 DEF Backs, Of
    <3> QED BY <3>1, <3>2, <3>3
  <2> QED BY <2>1 DEF Backed, KindsOf
<1> HIDE DEF Lasts
<1>2. CASE Rests \/ Prepares \/ Creates \/ Takes \/ Seated \/ Refuses
  <2>1. Lasts
    BY <1>2 DEF Rests, Prepares, Creates, Takes, Seated, Refuses, others, Lasts, Served
  <2> QED BY <1>1, <2>1
<1>3. CASE Drops \/ Fails \/ Turns
  <2>1. Lasts
    BY <1>3, Distinct
       DEF Drops, Fails, Turns, Clears, others, Lasts, Served, Backs, Of, Busy, Accepting
  <2> QED BY <1>1, <2>1
<1>4. CASE Answers
  <2>1. Lasts
    BY <1>4 DEF Answers, Seats, Lasts, Served
  <2> QED BY <1>1, <2>1
<1>5. CASE Serves
  <2>1. ASSUME NEW c \in Conns, c # peer, Served(c)', OverShm(c)', NEW k \in KindsOf(sess'[c].ack.profile)
        PROVE  \E h \in held' : h.obj.kind = k /\ Backs(h, c)'
    <3>1. Served(c) /\ sess'[c] = sess[c]
      BY <1>5, <2>1 DEF Serves, Served
    <3>2. PICK h \in held : h.obj.kind = k /\ Backs(h, c)
      BY <2>1, <3>1 DEF Backed, OverShm
    <3>3. sess[c].ack.id # SessionId
      BY <1>5, <3>1, Distinct DEF Serves, Busy, Accepting
    <3>4. h \in held' /\ Backs(h, c)'
      BY <1>5, <3>1, <3>2, <3>3 DEF Serves, Clears, Backs, Of
    <3> QED BY <3>2, <3>4
  <2>2. ASSUME NEW c \in Conns, c = peer, OverShm(c), NEW k \in KindsOf(sess[c].ack.profile)
        PROVE  \E h \in held' : h.obj.kind = k /\ Backs(h, c)'
    <3>1. PICK h \in held : h.obj.kind = k /\ Backs(h, c)
      BY <1>5, <2>2, Answering DEF Serves, Answered
    <3> QED BY <1>5, <2>2, <3>1 DEF Serves, Clears, Backs, Of
  <2>3. \A c \in Conns : sess'[c] = sess[c]
    BY <1>5 DEF Serves
  <2> QED BY <2>1, <2>2, <2>3 DEF Backed, OverShm, KindsOf
<1>6. CASE Flushes \/ Crashes
  <2>1. Lasts
    BY <1>6 DEF Flushes, Crashes, Forgets, Lasts, Served
  <2> QED BY <1>1, <2>1
<1>7. ASSUME NEW c \in Conns, Destroys(c) PROVE Backed'
  <2>1. ASSUME NEW d \in Conns, Served(d)'
        PROVE  d # c /\ Served(d) /\ sess'[d] = sess[d] /\ sess[d].ack.id # sess[c].ack.id
    <3>1. d # c /\ Served(d) /\ sess'[d] = sess[d] /\ Served(c)
      BY <1>7, <2>1 DEF Destroys, Forgets, Served
    <3>2. Known(c) /\ Known(d) /\ sess[c].gen = sess[d].gen
      BY <3>1 DEF Sessions, SessionOf, Rightful, Numbered, Current, Along
    <3> QED BY <3>1, <3>2 DEF Sessions
  <2>2. Lasts
    BY <1>7, <2>1 DEF Destroys, Lasts, Backs, Of
  <2> QED BY <1>1, <2>2
<1>8. ASSUME NEW c \in Conns, Winds(c) \/ Exits(c) \/ Opens(c) \/ Goes(c) \/ Attaches(c) \/ Releases(c)
      PROVE  Backed'
  <2>1. Lasts
    BY <1>0, <1>8
       DEF Winds, Exits, Opens, Goes, Attaches, Releases, Forgets, Lasts, Served, Backs
  <2> QED BY <1>1, <2>1
<1> QED BY <1>2, <1>3, <1>4, <1>5, <1>6, <1>7, <1>8 DEF Any, Kind, KindOf

\* The object of a name the server has made for its offer.
LEMMA OnlyOurs ==
    ASSUME Types, Objective, Ready, NEW i \in held, i.obj.id = SessionId,
           Made(i.obj.profile, i.obj.kind)
    PROVE  i.obj.gen = gen
<1> DEFINE p == i.obj.profile
           k == i.obj.kind
<1>1. p \in ShmProfiles /\ k \in Kinds
  BY DEF Types, Scalars, Handle, Objects
<1>2. PICK h \in held : h = Ours(p, k)
  BY <1>1 DEF Ready
<1>3. h.obj.profile = p /\ h.obj.kind = k /\ h.obj.id = SessionId /\ h.obj.gen = gen
  BY <1>2 DEF Ours, Object
<1> QED BY <1>3 DEF Objective, Namesakes

\* The server makes a mapping before its events, so all names are its own by then.
LEMMA UnmixedStep ==
    ASSUME Types, Config, Seats, Sessions, Objective, Ready, Unmixed, Any
    PROVE  Unmixed'
<1>1. CASE /\ \A c \in Conns : sess'[c] = sess[c] \/ sess'[c] = NoSession
           /\ \A h \in held' : \E i \in held : h.obj = i.obj
  <2>1. ASSUME NEW c \in Conns, Known(c)', NEW h \in held', NEW i \in held', Of(h.obj, c)',
               h.obj.kind = "mapping", i.obj.profile = h.obj.profile, i.obj.id = h.obj.id
        PROVE  i.obj.gen = h.obj.gen
    <3>1. sess'[c] = sess[c] /\ Known(c) /\ Of(h.obj, c)
      BY <1>1, <2>1, Consts DEF Known, Of
    <3>2. PICK g \in held, j \in held : h.obj = g.obj /\ i.obj = j.obj
      BY <1>1
    <3>3. Of(g.obj, c) /\ g.obj.kind = "mapping" /\ j.obj.profile = g.obj.profile /\ j.obj.id = g.obj.id
      BY <2>1, <3>1, <3>2
    <3>4. j.obj.gen = g.obj.gen
      BY <3>1, <3>3 DEF Unmixed
    <3> QED BY <3>2, <3>4
  <2> QED BY <2>1 DEF Unmixed
<1>2. CASE Creates
  <2>1. sess' = sess /\ acc \in Creating /\ held' = held \cup {Ours(making, acc)}
        /\ making \in Shm
    BY <1>2 DEF Creates, others, Config
  <2>2. PICK new : new = Ours(making, acc)
    OBVIOUS
  <2>3. new.obj.profile = making /\ new.obj.id = SessionId /\ new.obj.kind = acc /\ new.obj.gen = gen
    BY <2>2 DEF Ours, Object
  <2>4. ASSUME NEW c \in Conns, Known(c) PROVE ~Of(new.obj, c)
    <3>1. sess[c].ack.id \in Nat /\ SessionId \in Nat
      BY Numbers
    <3>2. sess[c].gen = gen => sess[c].ack.id < SessionId
      BY <2>1, <2>4
         DEF Sessions, SessionOf, Rightful, Numbered, Current, Along, Busy, Answered,
             Creating
    <3> QED BY <2>3, <3>1, <3>2, Below DEF Of
  <2>5. ASSUME NEW h \in held, h.obj.kind = "mapping", h.obj.profile = making, h.obj.id = SessionId
        PROVE  h.obj.gen = gen
    <3>1. acc # "mapping"
      BY <1>2, <2>3, <2>5 DEF Creates, Namesakes, Ours, Object
    <3>2. Made(making, "mapping")
      BY <2>1, <3>1 DEF Made, Earlier, Busy, KindsOf, Kinds
    <3> QED BY <2>5, <3>2, OnlyOurs
  <2>6. ASSUME NEW c \in Conns, Known(c), NEW h \in held', NEW i \in held', Of(h.obj, c),
               h.obj.kind = "mapping", i.obj.profile = h.obj.profile, i.obj.id = h.obj.id
        PROVE  i.obj.gen = h.obj.gen
    <3>1. h \in held
      BY <2>1, <2>2, <2>4, <2>6
    <3>2. CASE i \in held
      BY <2>6, <3>1, <3>2 DEF Unmixed
    <3>3. CASE i = new
      BY <2>3, <2>5, <2>6, <3>1, <3>3
    <3> QED BY <2>1, <2>2, <3>2, <3>3
  <2>7. \A c \in Conns, h \in held' : (Known(c)' <=> Known(c)) /\ (Of(h.obj, c)' <=> Of(h.obj, c))
    BY <2>1 DEF Known, Of
  <2> QED BY <2>6, <2>7 DEF Unmixed
<1>3. CASE Answers
  <2>1. /\ peer \in Conns /\ acc = "handshake" /\ held' = held
        /\ \A c \in Conns : c # peer => sess'[c] = sess[c]
        /\ sess'[peer].ack.id = SessionId /\ sess'[peer].gen = gen
        /\ sess'[peer].ack.profile \in ProfilesOf(cfg)
    BY <1>3 DEF Answers, Accepts, Seats, Shaking
  <2>2. ASSUME NEW i \in held, i.obj.profile \in ProfilesOf(cfg), i.obj.id = SessionId
        PROVE  i.obj.gen = gen
    <3>1. i.obj.profile \in ShmProfiles /\ i.obj.kind \in Kinds /\ i.obj.kind \in KindsOf(i.obj.profile)
      BY DEF Types, Scalars, Handle, Objects, Objective
    <3>2. i.obj.profile \in Shm
      BY <2>2, <3>1, Offers
    <3>3. Made(i.obj.profile, i.obj.kind)
      BY <2>1, <3>1, <3>2 DEF Made, Busy, Accepting, Creating
    <3> QED BY <2>2, <3>3, OnlyOurs
  <2>3. ASSUME NEW c \in Conns, Known(c)', NEW h \in held', NEW i \in held', Of(h.obj, c)',
               h.obj.kind = "mapping", i.obj.profile = h.obj.profile, i.obj.id = h.obj.id
        PROVE  i.obj.gen = h.obj.gen
    <3>1. CASE c = peer
      BY <2>1, <2>2, <2>3, <3>1 DEF Of
    <3>2. CASE c # peer
      <4>1. Known(c) /\ Of(h.obj, c) /\ h \in held /\ i \in held
        BY <2>1, <2>3, <3>2 DEF Known, Of
      <4> QED BY <2>3, <4>1 DEF Unmixed
    <3> QED BY <3>1, <3>2
  <2> QED BY <2>3 DEF Unmixed
<1> QED BY <1>1, <1>2, <1>3, Remembered, HeldFrom

\* A name opened while its session is served is that session's.
LEMMA MatchedStep ==
    ASSUME Types, Config, Seats, Sessions, Objective, Opened, Ready, Backed, Matched, Any
    PROVE  Matched'
<1>0. "server" \notin Conns /\ NoConn \notin Conns
  BY Consts
<1>1. CASE Rests \/ Prepares \/ Drops \/ Fails \/ Takes \/ Seated \/ Refuses \/ Turns
  BY <1>0, <1>1
     DEF Rests, Prepares, Drops, Fails, Takes, Seated, Refuses, Turns, Resumes, Clears,
         Matched, others, Resting,
         Served, Answered, Of
<1>2. CASE Creates
  <2>1. Ours(making, acc).by \notin Conns
    BY <1>0 DEF Ours
  <2>2. \A h \in held' : h.by \in Conns => h \in held
    BY <1>2, <2>1 DEF Creates
  <2>3. acc' # "accepted" /\ thread' = thread /\ sess' = sess
    BY <1>2 DEF Creates, Resumes, others
  <2> QED BY <2>2, <2>3 DEF Matched, Served, Answered, Of
<1>3. CASE Answers
  <2>1. \A h \in held : h.by # peer
    BY <1>3
       DEF Answers, Seats, Shaking, Opened, Sessions, SessionOf, Rightful, Numbered,
           Current, Along
  <2> QED BY <1>3, <2>1 DEF Answers, Matched, Served, Answered, Of
<1>4. CASE Serves
  BY <1>0, <1>4 DEF Serves, Clears, Matched, Served, Answered, Of
<1>5. CASE Flushes \/ Crashes
  BY <1>5 DEF Flushes, Crashes, Forgets, Matched, Served, Answered, Of
<1>6. ASSUME NEW c \in Conns, Winds(c) \/ Exits(c) \/ Opens(c) \/ Goes(c) PROVE Matched'
  BY <1>6 DEF Winds, Exits, Opens, Goes, Matched, Served, Answered, Of
<1>7. ASSUME NEW c \in Conns, Destroys(c) \/ Releases(c) PROVE Matched'
  <2>1. held' \subseteq held
    BY <1>7 DEF Destroys, Releases
  <2>2. \A d \in Conns : (Served(d) \/ Answered(d))' => (Served(d) \/ Answered(d)) /\ sess'[d] = sess[d]
    BY <1>7 DEF Destroys, Releases, Forgets, Served, Answered
  <2> QED BY <2>1, <2>2 DEF Matched, Of
<1>8. ASSUME NEW c \in Conns, Attaches(c) PROVE Matched'
  <2>1. PICK h \in held, new \in Handle :
             /\ h.obj.profile = sess[c].ack.profile /\ h.obj.id = sess[c].ack.id
             /\ new.by = c /\ new.obj = h.obj
             /\ held' = held \cup {new}
    BY <1>8 DEF Attaches
  <2>2. h.obj.profile \in ShmProfiles /\ h.obj.kind \in Kinds /\ h.obj.kind \in KindsOf(h.obj.profile)
    BY DEF Types, Scalars, Handle, Objects, Objective
  <2>3. ASSUME Served(c) PROVE Of(h.obj, c)
    <3>1. PICK i \in held : i.obj.kind = h.obj.kind /\ Backs(i, c)
      BY <2>1, <2>2, <2>3 DEF Backed, OverShm
    <3>2. Of(h.obj, c)
      BY <2>1, <3>1 DEF Backs, Of, Objective, Namesakes
    <3> QED BY <3>2
  <2>4. ASSUME Answered(c) PROVE Of(h.obj, c)
    <3>1. /\ sess[c].gen = gen /\ sess[c].ack.id = SessionId /\ sess[c].ack.profile \in ProfilesOf(cfg)
          /\ acc = "accepted"
      BY <2>4 DEF Sessions, SessionOf, Rightful, Numbered, Current, Along, Answered
    <3>2. Made(h.obj.profile, h.obj.kind)
      BY <2>1, <2>2, <3>1, Offers DEF Made, Busy, Accepting, Creating
    <3>3. Of(h.obj, c)
      BY <2>1, <3>1, <3>2, OnlyOurs DEF Of
    <3> QED BY <3>3
  <2>5. \A d \in Conns : (Served(d)' <=> Served(d)) /\ (Answered(d)' <=> Answered(d)) /\ sess'[d] = sess[d]
    BY <1>8 DEF Attaches, Served, Answered
  <2>6. \A i \in held' : i \in held \/ i = new
    BY <2>1
  <2>7. \A i \in held : i.by \in Conns /\ (Served(i.by) \/ Answered(i.by)) => Of(i.obj, i.by)'
    BY <2>5 DEF Matched, Of
  <2>8. Served(c) \/ Answered(c) => Of(new.obj, c)'
    BY <2>1, <2>3, <2>4, <2>5 DEF Of
  <2> QED BY <2>1, <2>5, <2>6, <2>7, <2>8 DEF Matched
<1> QED BY <1>1, <1>2, <1>3, <1>4, <1>5, <1>6, <1>7, <1>8 DEF Any, Kind, KindOf

\* The running flag is true or false.
LEMMA FlagStep ==
    ASSUME Flag, [Next]_vars
    PROVE  Flag'
<1>1. running' \in {running, TRUE, FALSE}
  <2>1. CASE Acceptor \/ Stop \/ Crash \/ UNCHANGED vars
    BY <2>1
       DEF Acceptor, Bind, SetRunning, Leave, Prepare, Create, Accept, Replace,
           DoHandshake,
           Refuse, Admit, Flush, Join, Stop, Crash, vars, acceptVars
  <2>2. ASSUME NEW c \in Conns,
               \/ Session(c) \/ SeesError(c) \/ Open(c) \/ Client(c) \/ Attach(c) \/ AttachFails(c)
               \/ GiveUp(c) \/ Close(c) \/ Die(c)
        PROVE  running' = running
    BY <2>2
       DEF Session, SeesStop, SeesClose, SeesError, Leaving, Destroy, Exit, Open, Client,
           WriteHello, ReadAck, Closed, Attach, AttachFails, GiveUp, Close, Die, kernelVars,
           serverVars, acceptVars
  <2> QED BY <2>1, <2>2 DEF Next
<1> QED BY <1>1, Zenon DEF Flag

\* The invariant holds at the start and over each step.
LEMMA InvInit == Init => Inv
<1> SUFFICES ASSUME Init PROVE Inv
  OBVIOUS
<1>1. Types
  BY SMTT(60), Consts, BoundsAssumption DEF Init, Types, Scalars, Maps, Places
<1>2. Rest
  BY SMTT(60), Consts DEF Init, Rest, ConfigType
<1>3. Flag
  BY Zenon DEF Init, Flag
<1>4. Config /\ Seats
  BY Consts DEF Init, Config, Seats, Known, Busy, Creating, Accepting, Shaking
<1>5. Acks /\ Sessions
  BY Consts
     DEF Init, Acks, Sessions, SessionOf, Rightful, Numbered, Current, Along, Known,
         Served, Answered, Attaching, Attached
<1>6. Objective /\ Owned /\ Opened /\ Unmixed /\ Matched
  BY DEF Init, Objective, Owned, Opened, Unmixed, Matched
<1>7. Ready /\ Backed
  BY DEF Init, Ready, Made, Busy, Creating, Accepting, Backed, Served
<1> QED BY <1>1, <1>2, <1>3, <1>4, <1>5, <1>6, <1>7 DEF Inv

\* Every step of the system keeps the invariant.
LEMMA InvStep == Inv /\ [Next]_vars => Inv'
<1> SUFFICES ASSUME Inv, [Next]_vars PROVE Inv'
  OBVIOUS
<1> USE DEF Inv
<1>1. Any
  BY AcceptorSteps, ConnSteps DEF Any, Next
<1>2. Types' /\ Rest'
  BY <1>1, ScalarsStep, MapsStep, RestStep DEF Types
<1>3. Flag'
  BY FlagStep
<1>4. Config' /\ Seats' /\ Acks'
  BY <1>1, ConfigStep, SeatsStep, AcksStep
<1>5. Sessions' /\ Objective' /\ Owned' /\ Opened'
  BY <1>1, SessionsStep, ObjectiveStep, OwnedStep, OpenedStep
<1>6. Ready' /\ Backed' /\ Unmixed' /\ Matched'
  BY <1>1, ReadyStep, BackedStep, UnmixedStep, MatchedStep
<1> QED BY <1>2, <1>3, <1>4, <1>5, <1>6

\* The invariant holds in every reachable state of the accept loop, the session
\* threads and the clients, whatever fails, stops or crashes.
THEOREM Inductive == Spec => []Inv
BY InvInit, InvStep, PTL DEF Spec

\* prepare_windows_accept, destroy_all and the end of a session thread between them
\* close every section and event: what the server holds is on offer while it
\* accepts, or belongs to a session that is served.  Only server_create of a
\* service with too long a name for its events leaves hybrid objects behind.
THEOREM NothingLeaks == Spec => []NoObjectLeak
<1>1. Inv => NoObjectLeak
  <2> SUFFICES ASSUME Inv PROVE NoObjectLeak
    OBVIOUS
  <2>1. \A h \in held : h.by \in Conns \cup {"server"} /\ h.obj \in Objects
    BY DEF Inv, Types, Scalars, Handle
  <2>2. {guest, peer} \subseteq Conns \cup {NoConn} /\ cfg.supported \subseteq server.supported
    BY DEF Inv, Types, Scalars, Config
  <2>3. TypeOK
    BY <2>1, <2>2, Zenon DEF TypeOK, Inv, Types, Scalars, Maps, Rest, Flag
  <2>4. ASSUME NEW h \in HeldBy("server")
        PROVE  /\ h.obj.gen = gen
               /\ \/ h \in Prepared /\ acc \in Creating \cup Accepting
                  \/ \E c \in Conns : thread[c] \in {"running", "leaving"} /\ Region(h.obj) = Own(c)
                  \/ server.fits # Kinds /\ h.obj.profile = Hybrid
    <3>1. h \in held /\ h.by = "server"
      BY <2>4 DEF HeldBy
    <3>2. h.obj.gen = gen /\ (Offered(h) \/ InUse(h) \/ Stray(h))
      BY <3>1 DEF Inv, Owned
    <3>3. CASE Offered(h)
      BY <3>1, <3>2, <3>3 DEF Offered, Prepared, OfSession, HeldBy, Shm, Busy
    <3>4. CASE InUse(h)
      BY <3>2, <3>4 DEF InUse, Served, Of, Region, Own
    <3>5. CASE Stray(h)
      BY <3>2, <3>5 DEF Stray
    <3> QED BY <3>2, <3>3, <3>4, <3>5
  <2> QED BY <2>3, <2>4 DEF NoObjectLeak
<1> QED BY <1>1, Inductive, PTL

\* When the server has answered with a profile of shared memory, it holds the
\* section and events of that session, at least as large as the answer says, until
\* the session's thread leaves its loop.
THEOREM AnswersAreBacked == Spec => []AckIsBacked
<1>1. Inv => AckIsBacked
  <2> SUFFICES ASSUME Inv, NEW c \in Conns, OverShm(c), thread[c] = "running" \/ Answered(c),
                      NEW k \in KindsOf(sess[c].ack.profile)
               PROVE  \E h \in HeldBy("server") :
                        /\ Region(h.obj) = Own(c) /\ h.obj.kind = k
                        /\ h.obj.limits.req >= sess[c].ack.req
                        /\ h.obj.limits.resp >= sess[c].ack.resp
    BY DEF AckIsBacked, Answered
  <2>1. \E h \in held : h.obj.kind = k /\ Backs(h, c)
    <3>1. CASE thread[c] = "running"
      BY <3>1 DEF Inv, Backed, Served
    <3>2. CASE Answered(c)
      BY <3>2, Answering DEF Inv
    <3> QED BY <3>1, <3>2
  <2> QED BY <2>1 DEF Backs, Of, Region, Own, HeldBy
<1> QED BY <1>1, Inductive, PTL

\* What clients open by name is their own session's while that is served, never a
\* mixture once their own mapping is open, and never shared within one server,
\* although a server that comes back after a crash uses the same names again.
THEOREM ApartForGood == Spec => []RegionsApart
<1>1. Inv => RegionsApart
  <2> SUFFICES ASSUME Inv PROVE RegionsApart
    OBVIOUS
  <2>1. ASSUME NEW c \in Conns, Served(c) \/ Answered(c), NEW h \in HeldBy(c)
        PROVE  Region(h.obj) = Own(c)
    BY <2>1 DEF Inv, Matched, HeldBy, Of, Region, Own
  <2>2. ASSUME NEW c \in Conns, NEW h \in HeldBy(c)
        PROVE  Known(c) /\ h.obj.profile = sess[c].ack.profile /\ h.obj.id = sess[c].ack.id
    BY <2>2
       DEF Inv, Opened, Sessions, SessionOf, Rightful, Numbered, Current, Along, HeldBy
  <2>3. ASSUME NEW c \in Conns, Own(c) \in MappedBy(c), NEW i \in HeldBy(c)
        PROVE  Region(i.obj) = Own(c)
    <3>1. PICK h \in HeldBy(c) : h.obj.kind = "mapping" /\ Region(h.obj) = Own(c)
      BY <2>3 DEF MappedBy
    <3>2. Of(h.obj, c) /\ h \in held /\ i \in held
      BY <3>1 DEF Region, Own, Of, HeldBy
    <3>3. i.obj.gen = h.obj.gen
      BY <2>2, <2>3, <3>1, <3>2 DEF Inv, Unmixed
    <3> QED BY <2>2, <2>3, <3>2, <3>3 DEF Region, Own, Of
  <2>4. ASSUME NEW c \in Conns, NEW d \in Conns, c # d, MappedBy(c) \cap MappedBy(d) # {}
        PROVE  sess[c].gen # sess[d].gen
    <3>1. PICK h \in HeldBy(c), i \in HeldBy(d) : Region(h.obj) = Region(i.obj)
      BY <2>4 DEF MappedBy
    <3>2. h.obj.id = i.obj.id
      BY <3>1 DEF Region
    <3> QED BY SMTT(60), <2>2, <2>4, <3>2 DEF Inv, Sessions
  <2> QED BY <2>1, <2>3, <2>4 DEF RegionsApart, Served, Answered
<1> QED BY <1>1, Inductive, PTL

\* A client that is ready has the server's token, a profile both sides have, and
\* limits within the server's, since server_handshake checked them.
THEOREM OnlyEntitled == Spec => []ReadyIsEntitled
<1>1. Inv => ReadyIsEntitled
  BY DEF Inv, ReadyIsEntitled, Sessions, SessionOf, Rightful, Numbered, Current, Along,
     Entitled, Attached
<1> QED BY <1>1, Inductive, PTL
=============================================================================
