----------------------------- MODULE RawClient -----------------------------
(***************************************************************************)
(* The Level 2 client context: connection states, one synchronous call with *)
(* its reconnect-and-retry loop, and the payload capacities that client and *)
(* server negotiate at each handshake and learn from each other.            *)
(*                                                                          *)
(* The peer is the managed server seen through the handshake and through    *)
(* one response: its learned capacities, and whether it is there at all.    *)
(* Payload sizes are counted in units in which next_power_of_2_u32's floor  *)
(* of 16 bytes is one.                                                      *)
(***************************************************************************)
EXTENDS Integers, FiniteSetsExt

CONSTANTS
  Default,       \* MAX_PAYLOAD_DEFAULT
  Cap,           \* MAX_PAYLOAD_CAP
  OverflowLimit, \* overflow retries after which a call gives up (8)
  Baseline,      \* does the client's configuration offer the baseline profile
  ReqSizes,      \* sizes of requests the application makes
  RespSizes,     \* sizes of responses the handler produces
  ReqConfig, RespConfig, \* the server's configured maxima, 0 when left unset
  MaxCalls       \* bound: calls the application makes

\* 16 bytes to 2^31 bytes, in units of 16 bytes.
Powers == {1, 2, 4, 8, 16, 32, 64, 128, 256, 512, 1024, 2048, 4096, 8192, 16384,
           32768, 65536, 131072, 262144, 524288, 1048576, 2097152, 4194304,
           8388608, 16777216, 33554432, 67108864, 134217728}

ASSUME SizesAssumption ==
  /\ {Default, Cap, OverflowLimit, MaxCalls, ReqConfig, RespConfig} \subseteq Nat
  /\ ReqSizes \subseteq Nat /\ RespSizes \subseteq Nat
  /\ {Default, Cap} \subseteq Powers /\ Default <= Cap
  /\ 0 < OverflowLimit /\ Baseline \in BOOLEAN

VARIABLES
  state,      \* ClientState
  session,    \* None, or the limits the handshake agreed
  shm,        \* is a region attached
  shmOffered, \* are SHM bits left in transport_config.supported_profiles
  cfgReq, cfgResp,  \* transport_config.max_{request,response}_payload_bytes
  abort,      \* the sticky abort flag
  pc,         \* where the thread is
  call,       \* the call in progress, or the last one
  calls,      \* calls made (bounds the model)
  up,         \* does a server listen on the endpoint
  live,       \* does the session's other end still exist
  learnedReq, learnedResp  \* the server's learned capacities

client == <<state, session, shm, shmOffered, cfgReq, cfgResp>>
server == <<up, live, learnedReq, learnedResp>>
vars   == <<client, abort, pc, call, calls, server>>

None     == [req |-> 0, resp |-> 0]
States   == {"Disconnected", "Connecting", "Ready", "NotFound", "AuthFailed",
             "Incompatible", "Broken"}
GivenUp  == {"Timeout", "Aborted"}

TopPower == 134217728

NextPow2(n) == IF n > TopPower THEN TopPower ELSE Min({p \in Powers : p >= n})

\* ManagedServer::with_workers: a configured maximum is also the ceiling.
ReqCeiling  == IF ReqConfig = 0 THEN Cap ELSE ReqConfig
RespCeiling == IF RespConfig = 0 THEN Cap ELSE RespConfig
OrDefault(n) == IF n = 0 THEN Default ELSE n

\* server_note_payload_capacity and client_note_*_capacity: only ever grow.
Note(current, size, ceiling) == Max({current, Min({NextPow2(size), ceiling})})

SessionReq  == IF session = None THEN cfgReq ELSE session.req
SessionResp == IF session = None THEN cfgResp ELSE session.resp
Limits      == <<SessionReq, SessionResp, cfgReq, cfgResp>>

\* attempts, failures and restarted are history, for the properties.
NoCall == [req |-> 0, resp |-> 0, overflows |-> 0, prev |-> <<0, 0, 0, 0>>,
           err |-> "none", attempts |-> 0, failures |-> 0, restarted |-> FALSE]

Init ==
  /\ state = "Disconnected"
  /\ session = None
  /\ shm = FALSE
  /\ shmOffered \in IF Baseline THEN BOOLEAN ELSE {TRUE}
  /\ cfgReq = 0 /\ cfgResp = 0
  /\ abort = FALSE
  /\ pc = "user"
  /\ call = NoCall
  /\ calls = 0
  /\ up \in BOOLEAN
  /\ live = FALSE
  /\ learnedReq = OrDefault(ReqConfig)
  /\ learnedResp = OrDefault(RespConfig)

-----------------------------------------------------------------------------
(* try_connect.  The thread is at "refresh", "reconnect" or "resize",       *)
(* according to who called it.                                              *)

Connecting == {"refresh", "reconnect", "resize"}

\* Mutant: a reconnection that fails is tried again without end.
ResumeInPlace(s) ==
  /\ state' = s
  /\ pc' = IF pc = "refresh" THEN "user" ELSE IF s # "Ready" THEN pc
           ELSE IF pc = "reconnect" THEN "retry" ELSE "resized"

\* What the caller of try_connect does once it returned state s: refresh and
\* a failed reconnection end there, the others go on with the call.
Resume(s) ==
  /\ state' = s
  /\ pc' = IF pc = "refresh" \/ s # "Ready" THEN "user"
           ELSE IF pc = "reconnect" THEN "retry" ELSE "resized"

Refused(s) ==
  /\ Resume(s)
  /\ UNCHANGED <<session, shm, shmOffered, cfgReq, cfgResp>>

\* Mutant: the handshake grants any proposal.
FitsAlways == TRUE

\* server_handshake grants the proposal or refuses it; it never trims it.
Fits == OrDefault(cfgReq) <= learnedReq

ConnectFails ==
  /\ pc \in Connecting
  /\ \/ ~up /\ Refused("NotFound")
     \/ up /\ Refused("AuthFailed")
     \/ up /\ Refused("Incompatible")
     \/ up /\ Refused("Disconnected")  \* a transport failure, or LIMIT_EXCEEDED
  /\ UNCHANGED <<abort, call, calls, server>>

\* The server may offer SHM or not (prepare_unix_accept strips it when the
\* region cannot be created).  An empty profile set is sent as the baseline.
Connect(attached) ==
  /\ pc \in Connecting
  /\ up /\ Fits
  /\ attached => shmOffered
  /\ ~attached => Baseline \/ ~shmOffered
  /\ session' = [req |-> OrDefault(cfgReq), resp |-> learnedResp]
  /\ shm' = attached
  /\ live' = TRUE
  /\ Resume("Ready")
  /\ UNCHANGED <<shmOffered, cfgReq, cfgResp, abort, call, calls,
                 up, learnedReq, learnedResp>>

\* client_attach kept failing for CLIENT_SHM_ATTACH_RETRY_TIMEOUT_MS: drop the
\* session, never propose SHM again, and start over on the baseline.
AttachFails ==
  /\ pc \in Connecting
  /\ up /\ Fits /\ shmOffered
  /\ shmOffered' = FALSE
  /\ IF Baseline THEN UNCHANGED <<state, pc>> ELSE Resume("Disconnected")
  /\ UNCHANGED <<session, shm, cfgReq, cfgResp, abort, call, calls, server>>

-----------------------------------------------------------------------------
(* The application's calls on the context.                                  *)

Disconnect == session' = None /\ shm' = FALSE

Refresh ==
  /\ pc = "user"
  /\ state \in {"Disconnected", "NotFound", "Broken"}
  /\ IF state = "Broken" THEN Disconnect ELSE UNCHANGED <<session, shm>>
  /\ state' = "Connecting"
  /\ pc' = "refresh"
  /\ UNCHANGED <<shmOffered, cfgReq, cfgResp, abort, call, calls, server>>

Close ==
  /\ pc = "user"
  /\ Disconnect
  /\ state' = "Disconnected"
  /\ abort' = FALSE
  /\ UNCHANGED <<shmOffered, cfgReq, cfgResp, pc, call, calls, server>>

\* From any thread, at any time.
Abort ==
  /\ abort' = TRUE
  /\ UNCHANGED <<client, pc, call, calls, server>>

ClearAbort ==
  /\ abort' = FALSE
  /\ UNCHANGED <<client, pc, call, calls, server>>

\* raw_call_with_retry_timeout up to its loop.
Call(req, resp) ==
  /\ pc = "user"
  /\ calls < MaxCalls
  /\ calls' = calls + 1
  /\ IF state # "Ready"
     THEN /\ call' = [NoCall EXCEPT !.req = req, !.resp = resp, !.err = "NotReady"]
          /\ UNCHANGED <<client, pc>>
     ELSE IF abort
     THEN /\ call' = [NoCall EXCEPT !.req = req, !.resp = resp, !.err = "Aborted"]
          /\ Disconnect
          /\ state' = "Broken"
          /\ UNCHANGED <<shmOffered, cfgReq, cfgResp, pc>>
     ELSE /\ call' = [NoCall EXCEPT !.req = req, !.resp = resp]
          /\ pc' = "loop"
          /\ UNCHANGED client
  /\ UNCHANGED <<abort, server>>

\* Top of the loop: remember the capacities this attempt starts with.
Loop ==
  /\ pc = "loop"
  /\ call' = [call EXCEPT !.prev = Limits]
  /\ pc' = "first"
  /\ UNCHANGED <<client, abort, calls, server>>

-----------------------------------------------------------------------------
(* do_raw_call, and what the loop makes of its result.                      *)

Attempting == {"first", "retry"}
Tried(err) == [call EXCEPT !.attempts = @ + 1, !.err = err]

Succeed ==
  /\ call' = Tried("none")
  /\ pc' = "user"
  /\ UNCHANGED client

\* Timeout and abort, and every error of the second attempt, end the call.
Fail(err) ==
  /\ call' = Tried(err)
  /\ Disconnect
  /\ state' = "Broken"
  /\ pc' = "user"
  /\ UNCHANGED shmOffered

BreakAndReconnect(err, at) ==
  /\ call' = [Tried(err) EXCEPT !.failures = @ + IF err = "Overflow" THEN 0 ELSE 1]
  /\ Disconnect
  /\ state' = "Broken"
  /\ pc' = at
  /\ UNCHANGED shmOffered

Overflowed ==
  IF pc = "first" THEN BreakAndReconnect("Overflow", "resize") ELSE Fail("Overflow")

GiveUp ==
  /\ pc \in Attempting
  /\ \/ call.req <= SessionReq /\ Fail("Timeout")
     \/ abort /\ Fail("Aborted")
  /\ UNCHANGED <<cfgReq, cfgResp, abort, calls, server>>

\* The request is larger than the session allows: nothing is sent.
RequestTooLarge ==
  /\ pc \in Attempting /\ ~abort
  /\ call.req > SessionReq
  /\ cfgReq' = Note(cfgReq, call.req, Cap)
  /\ Overflowed
  /\ UNCHANGED <<cfgResp, abort, calls, server>>

\* Mutant: the second attempt is retried as well.
TransportFailsAgain ==
  /\ pc \in Attempting /\ ~abort
  /\ call.req <= SessionReq
  /\ BreakAndReconnect("Failed", "reconnect")
  /\ UNCHANGED <<cfgReq, cfgResp, abort, calls, server>>

\* The peer vanished, answered with an error status, or answered nonsense.
TransportFails ==
  /\ pc \in Attempting /\ ~abort
  /\ call.req <= SessionReq
  /\ IF pc = "first" THEN BreakAndReconnect("Failed", "reconnect")
                     ELSE Fail("Failed")
  /\ UNCHANGED <<cfgReq, cfgResp, abort, calls, server>>

\* The request reached the session thread, which notes its size.
Served == learnedReq' = Note(learnedReq, call.req, ReqCeiling)

Answered ==
  /\ pc \in Attempting /\ ~abort /\ live
  /\ call.req <= SessionReq
  /\ call.resp <= SessionResp
  /\ Served
  /\ learnedResp' = Note(learnedResp, call.resp, RespCeiling)
  /\ Succeed
  /\ UNCHANGED <<abort, calls, up, live>>

\* The handler's output did not fit: LIMIT_EXCEEDED, and both sides note twice
\* the session's size.
ResponseTooLarge ==
  /\ pc \in Attempting /\ ~abort /\ live
  /\ call.req <= SessionReq
  /\ call.resp > SessionResp
  /\ Served
  /\ learnedResp' = Note(learnedResp, 2 * SessionResp, RespCeiling)
  /\ cfgResp' = Note(cfgResp, 2 * SessionResp, Cap)
  /\ Overflowed
  /\ UNCHANGED <<cfgReq, abort, calls, up, live>>

\* Mutant: only the request capacities count as growth.
GrewRequestOnly == \E i \in {1, 3} : Limits[i] > call.prev[i]

\* After an overflow reconnect: stop without growth or after OverflowLimit.
Grew == \E i \in 1..4 : Limits[i] > call.prev[i]

Resized ==
  /\ pc = "resized"
  /\ IF ~Grew
     THEN /\ Disconnect
          /\ state' = "Broken"
          /\ pc' = "user"
          /\ UNCHANGED call
     ELSE /\ call' = [call EXCEPT !.overflows = @ + 1]
          /\ IF call.overflows + 1 >= OverflowLimit
             THEN Disconnect /\ state' = "Broken" /\ pc' = "user"
             ELSE UNCHANGED <<state, session, shm>> /\ pc' = "loop"
  /\ UNCHANGED <<shmOffered, cfgReq, cfgResp, abort, calls, server>>

-----------------------------------------------------------------------------
(* The peer: it comes and goes with its learned capacities, and its other   *)
(* sessions teach it larger responses.                                      *)

ServerStart ==
  /\ ~up
  /\ up' = TRUE
  /\ learnedReq' = OrDefault(ReqConfig)
  /\ learnedResp' = OrDefault(RespConfig)
  /\ call' = [call EXCEPT !.restarted = TRUE]
  /\ UNCHANGED <<client, abort, pc, calls, live>>

ServerGone ==
  /\ up
  /\ up' = FALSE
  /\ live' = FALSE
  /\ UNCHANGED <<client, abort, pc, call, calls, learnedReq, learnedResp>>

OtherSessionGrows ==
  /\ up
  /\ learnedResp' = Note(learnedResp, 2 * learnedResp, RespCeiling)
  /\ UNCHANGED <<client, abort, pc, call, calls, up, live, learnedReq>>

-----------------------------------------------------------------------------
Step == ConnectFails \/ (\E b \in BOOLEAN : Connect(b)) \/ AttachFails
          \/ Loop \/ GiveUp \/ RequestTooLarge \/ TransportFails
          \/ Answered \/ ResponseTooLarge \/ Resized
User == Refresh \/ Close \/ Abort \/ ClearAbort
          \/ \E q \in ReqSizes, r \in RespSizes : Call(q, r)
Peer == ServerStart \/ ServerGone \/ OtherSessionGrows

Next == Step \/ User \/ Peer

Spec == Init /\ [][Next]_vars

\* A thread inside the library goes on: every system call it blocks in is
\* taken to return.
FairSpec == Spec /\ WF_vars(Step)

-----------------------------------------------------------------------------
(* The context is in a known state and a call fails only with an error of   *)
(* the typed API.                                                           *)
TypeOK ==
  /\ state \in States
  /\ session \in [req : Nat, resp : Nat]
  /\ {shm, shmOffered, abort, up, live} \subseteq BOOLEAN
  /\ {cfgReq, cfgResp, learnedReq, learnedResp, calls} \subseteq Nat
  /\ pc \in {"user", "loop", "resized"} \cup Connecting \cup Attempting
  /\ call.err \in {"none", "NotReady", "Overflow", "Failed"} \cup GivenUp

(* A call makes at most OverflowLimit attempts that end in overflow and one *)
(* more, and retries an ordinary failure once, whatever mixture of          *)
(* overflows, failures and server restarts it meets                         *)
(* (raw_call_with_retry_timeout).  The variables keep their types.          *)
RetryBound ==
  /\ TypeOK
  /\ call.attempts <= OverflowLimit + 1
  /\ call.attempts <= call.overflows + 2
  /\ call.failures <= 1

(* A call that ends in Overflow on a connection that came back had no       *)
(* chance: a payload exceeds what its side may grow to, the retries are     *)
(* used up, the server lost what it had learned, or the overflow struck the *)
(* retry of an ordinary failure.  The no-growth test never stops early.     *)
OverflowIsHopeless ==
  (pc = "user" /\ call.err = "Overflow" /\ state = "Broken") =>
    \/ call.req > Cap
    \/ call.resp > RespCeiling
    \/ call.overflows >= OverflowLimit
    \/ call.restarted
    \/ call.failures = 1

(* One oversized request is final for the context: transport_send_request   *)
(* raises the proposal above what this server accepts, nothing lowers it,   *)
(* and every later handshake is refused.                                    *)
OversizeIsPermanent ==
  [][(session = None /\ OrDefault(cfgReq) > OrDefault(ReqConfig))
       => session' = None]_vars

(* Every refresh and every call returns, as long as each system call does.  *)
CallReturns == pc # "user" ~> pc = "user"
=============================================================================
