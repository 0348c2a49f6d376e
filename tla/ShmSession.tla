---------------------------- MODULE ShmSession ----------------------------
(***************************************************************************)
(* One Level 2 session over the POSIX shared memory transport: the client   *)
(* thread inside do_raw_call and the server thread inside                   *)
(* handle_session_threaded, each using its ShmContext on one shared region. *)
(*                                                                          *)
(* The region holds two one-slot channels.  Both sides run the same code    *)
(* with the roles swapped, so every region word is a function of the actor  *)
(* that WRITES it: lo["client"] and hi["client"] are the halves of the      *)
(* request area, seq["server"] is resp_seq, and so on.  An actor reads the  *)
(* words of its Peer.                                                       *)
(*                                                                          *)
(* A message is its envelope's message_id and transport_status.  The copies *)
(* in and out of the area are not atomic: each is two steps, one per half,  *)
(* so a reader that overlaps a writer would return a mixture.  A stored     *)
(* length is represented by the message it is the length of.                *)
(***************************************************************************)
EXTENDS Integers

CONSTANTS
  SigMod,     \* modulus of the u32 signal words (2^32 in the code)
  MaxCalls    \* bound: calls the client makes on this session

ASSUME SigModAssumption == SigMod \in Nat /\ SigMod >= 3
ASSUME MaxCallsAssumption == MaxCalls \in Nat

VARIABLES
  lo, hi,   \* the two halves of each writer's payload area
  len,      \* req_len / resp_len
  seq,      \* req_seq / resp_seq
  sig,      \* req_signal / resp_signal
  sent,     \* the writer's local_*_seq of its own channel
  rcvd,     \* the reader's local_*_seq of its peer's channel
  out,      \* message being sent
  rxLen, rxLo, rxHi,  \* the length read, and the caller's buffer
  sigVal,   \* signal word read before waiting
  pc,       \* where each thread is
  calls,    \* RawClient.call_count
  result,   \* response the last successful call returned
  running,  \* ManagedServer.running
  expired,  \* the call's deadline has passed, or the caller aborted
  timed     \* do receives carry a timeout (Level 2), or none (timeout_ms = 0)

region == <<lo, hi, len, seq, sig>>
buffer == <<rxLen, rxLo, rxHi>>
locals == <<sent, rcvd, out, buffer, sigVal>>
level2 == <<calls, result, running, expired, timed>>
vars   == <<region, locals, pc, level2>>

Actor    == {"client", "server"}
Peer(a)  == IF a = "client" THEN "server" ELSE "client"
Errors   == {"bad_envelope", "internal_error", "unsupported"}
Answers  == {"ok", "limit_exceeded"} \cup Errors
Message  == [id : Nat, status : Answers \cup {"request", "none"}]
NoMsg    == [id |-> 0, status |-> "none"]

Sending   == {"copy_lo", "copy_hi", "store_len", "publish"}
Notifying == {"signal", "wake"}
Waiting   == {"spin", "load_sig", "load_seq", "wait", "blocked"}
Reading   == {"load_len", "read_lo", "read_hi"}
Ended     == {"closed", "dead"}
Places    == Sending \cup Notifying \cup Waiting \cup Reading
               \cup {"idle", "again", "received"} \cup Ended

Goto(a, p) == pc' = [pc EXCEPT ![a] = p]

Init ==
  /\ lo = [a \in Actor |-> NoMsg]
  /\ hi = [a \in Actor |-> NoMsg]
  /\ len = [a \in Actor |-> NoMsg]
  /\ seq = [a \in Actor |-> 0]
  /\ sig = [a \in Actor |-> 0]
  /\ sent = [a \in Actor |-> 0]
  /\ rcvd = [a \in Actor |-> 0]
  /\ out = [a \in Actor |-> NoMsg]
  /\ rxLen = [a \in Actor |-> NoMsg]
  /\ rxLo = [a \in Actor |-> NoMsg]
  /\ rxHi = [a \in Actor |-> NoMsg]
  /\ sigVal = [a \in Actor |-> 0]
  /\ pc = [a \in Actor |-> IF a = "client" THEN "idle" ELSE "again"]
  /\ calls = 0
  /\ result = NoMsg
  /\ running = TRUE
  /\ expired = FALSE
  /\ timed \in BOOLEAN

-----------------------------------------------------------------------------
(* ShmContext::send: copy, store the length, publish, signal, wake.         *)

CopyLo(a) ==
  /\ pc[a] = "copy_lo"
  /\ lo' = [lo EXCEPT ![a] = out[a]]
  /\ Goto(a, "copy_hi")
  /\ UNCHANGED <<hi, len, seq, sig, locals, level2>>

\* Mutant: publishes without storing the length.
CopyHiSkipsLength(a) ==
  /\ pc[a] = "copy_hi"
  /\ hi' = [hi EXCEPT ![a] = out[a]]
  /\ Goto(a, "publish")
  /\ UNCHANGED <<lo, len, seq, sig, locals, level2>>

CopyHi(a) ==
  /\ pc[a] = "copy_hi"
  /\ hi' = [hi EXCEPT ![a] = out[a]]
  /\ Goto(a, "store_len")
  /\ UNCHANGED <<lo, len, seq, sig, locals, level2>>

StoreLen(a) ==
  /\ pc[a] = "store_len"
  /\ len' = [len EXCEPT ![a] = out[a]]
  /\ Goto(a, "publish")
  /\ UNCHANGED <<lo, hi, seq, sig, locals, level2>>

Publish(a) ==
  /\ pc[a] = "publish"
  /\ seq' = [seq EXCEPT ![a] = @ + 1]
  /\ Goto(a, "signal")
  /\ UNCHANGED <<lo, hi, len, sig, locals, level2>>

\* fetch_add on a u32 wraps.
NextSignal(v) == IF v + 1 = SigMod THEN 0 ELSE v + 1

Signal(a) ==
  /\ pc[a] = "signal"
  /\ sig' = [sig EXCEPT ![a] = NextSignal(@)]
  /\ Goto(a, "wake")
  /\ UNCHANGED <<lo, hi, len, seq, locals, level2>>

\* A session thread that answered LIMIT_EXCEEDED leaves its loop.
AfterSend(a) ==
  IF a = "server" /\ out[a].status = "limit_exceeded" THEN "closed" ELSE "again"

\* Mutant: bumps the signal word and forgets the futex_wake.
WakeNobody(a) ==
  /\ pc[a] = "wake"
  /\ Goto(a, AfterSend(a))
  /\ sent' = [sent EXCEPT ![a] = @ + 1]
  /\ UNCHANGED <<region, rcvd, out, buffer, sigVal, level2>>

Wake(a) ==
  /\ pc[a] = "wake"
  /\ pc' = [b \in Actor |->
              IF b = a THEN AfterSend(a)
              ELSE IF pc[b] = "blocked" THEN "load_sig" ELSE pc[b]]
  /\ sent' = [sent EXCEPT ![a] = @ + 1]
  /\ UNCHANGED <<region, rcvd, out, buffer, sigVal, level2>>

-----------------------------------------------------------------------------
(* ShmContext::receive: spin on the sequence word, then read the signal     *)
(* word, check the sequence again, and sleep in futex_wait.                 *)

\* Mutant: compares with the last sequence number instead of the next.
ArrivedOffByOne(a) == seq[Peer(a)] >= rcvd[a]

Arrived(a) == seq[Peer(a)] >= rcvd[a] + 1

Spin(a) ==
  /\ pc[a] = "spin"
  /\ Goto(a, IF Arrived(a) THEN "load_len" ELSE "load_sig")
  /\ UNCHANGED <<region, locals, level2>>

LoadSig(a) ==
  /\ pc[a] = "load_sig"
  /\ sigVal' = [sigVal EXCEPT ![a] = sig[Peer(a)]]
  /\ Goto(a, "load_seq")
  /\ UNCHANGED <<region, sent, rcvd, out, buffer, level2>>

LoadSeq(a) ==
  /\ pc[a] = "load_seq"
  /\ Goto(a, IF Arrived(a) THEN "load_len" ELSE "wait")
  /\ UNCHANGED <<region, locals, level2>>

\* The kernel compares and sleeps in one step; EAGAIN re-reads the words.
FutexWait(a) ==
  /\ pc[a] = "wait"
  /\ Goto(a, IF sig[Peer(a)] = sigVal[a] THEN "blocked" ELSE "load_sig")
  /\ UNCHANGED <<region, locals, level2>>

Interrupted(a) ==
  /\ pc[a] = "blocked"
  /\ Goto(a, "load_sig")
  /\ UNCHANGED <<region, locals, level2>>

\* now >= deadline before the futex call, or ETIMEDOUT from it.
TimedOut(a) ==
  /\ timed
  /\ pc[a] \in {"wait", "blocked"}
  /\ Goto(a, "again")
  /\ UNCHANGED <<region, locals, level2>>

LoadLen(a) ==
  /\ pc[a] = "load_len"
  /\ rxLen' = [rxLen EXCEPT ![a] = len[Peer(a)]]
  /\ Goto(a, "read_lo")
  /\ UNCHANGED <<region, sent, rcvd, out, rxLo, rxHi, sigVal, level2>>

ReadLo(a) ==
  /\ pc[a] = "read_lo"
  /\ rxLo' = [rxLo EXCEPT ![a] = lo[Peer(a)]]
  /\ Goto(a, "read_hi")
  /\ UNCHANGED <<region, sent, rcvd, out, rxLen, rxHi, sigVal, level2>>

ReadHi(a) ==
  /\ pc[a] = "read_hi"
  /\ rxHi' = [rxHi EXCEPT ![a] = hi[Peer(a)]]
  /\ rcvd' = [rcvd EXCEPT ![a] = @ + 1]
  /\ Goto(a, "received")
  /\ UNCHANGED <<region, sent, out, rxLen, rxLo, sigVal, level2>>

-----------------------------------------------------------------------------
(* The client: do_raw_call and receive_posix_shm_with_control.  A second    *)
(* call starts only when the first has returned; every failure disconnects. *)

StartCall ==
  /\ pc["client"] = "idle"
  /\ calls < MaxCalls
  /\ out' = [out EXCEPT !["client"] = [id |-> calls + 1, status |-> "request"]]
  /\ expired' = FALSE
  /\ Goto("client", "copy_lo")
  /\ UNCHANGED <<region, sent, rcvd, buffer, sigVal, calls, result, running, timed>>

\* Mutant: waits slice after slice without looking at deadline or abort.
WaitSliceForever ==
  /\ pc["client"] = "again"
  /\ Goto("client", "spin")
  /\ UNCHANGED <<region, locals, level2>>

\* receive_wait_slice_ms: before each slice, give up on abort or deadline.
WaitSlice ==
  /\ pc["client"] = "again"
  /\ Goto("client", IF expired THEN "closed" ELSE "spin")
  /\ UNCHANGED <<region, locals, level2>>

Accepted ==
  /\ rxLo["client"].id = calls + 1
  /\ rxLo["client"].status = "ok"

\* Mutant: a successful call does not advance call_count.
ReturnKeepsCount ==
  /\ pc["client"] = "received"
  /\ Accepted
  /\ calls' = calls
  /\ result' = rxLo["client"]
  /\ Goto("client", "idle")
  /\ UNCHANGED <<region, locals, running, expired, timed>>

Return ==
  /\ pc["client"] = "received"
  /\ Accepted
  /\ calls' = calls + 1
  /\ result' = rxLo["client"]
  /\ Goto("client", "idle")
  /\ UNCHANGED <<region, locals, running, expired, timed>>

Reject ==
  /\ pc["client"] = "received"
  /\ ~Accepted
  /\ Goto("client", "closed")
  /\ UNCHANGED <<region, locals, level2>>

Close ==
  /\ pc["client"] = "idle"
  /\ Goto("client", "closed")
  /\ UNCHANGED <<region, locals, level2>>

\* The deadline of the call passes, or another thread sets the abort flag.
Expire ==
  /\ timed
  /\ pc["client"] \notin {"idle"} \cup Ended
  /\ ~expired
  /\ expired' = TRUE
  /\ UNCHANGED <<region, locals, pc, calls, result, running, timed>>

-----------------------------------------------------------------------------
(* The session thread: handle_session_threaded.                             *)

Poll ==
  /\ pc["server"] = "again"
  /\ Goto("server", IF running THEN "spin" ELSE "closed")
  /\ UNCHANGED <<region, locals, level2>>

\* The handler's outcome is free; the answer echoes the request's id.
Handle(st) ==
  /\ pc["server"] = "received"
  /\ IF rxLo["server"].status = "request"
     THEN /\ out' = [out EXCEPT !["server"] =
                       [id |-> rxLo["server"].id, status |-> st]]
          /\ Goto("server", "copy_lo")
     ELSE /\ out' = out
          /\ Goto("server", "closed")
  /\ UNCHANGED <<region, sent, rcvd, buffer, sigVal, level2>>

Stop ==
  /\ running
  /\ running' = FALSE
  /\ UNCHANGED <<region, locals, pc, calls, result, expired, timed>>

\* The process is killed between any two steps; the region stays mapped
\* by the other side.
Crash(a) ==
  /\ pc[a] \notin Ended
  /\ Goto(a, "dead")
  /\ UNCHANGED <<region, locals, level2>>

-----------------------------------------------------------------------------
Send(a)    == CopyLo(a) \/ CopyHi(a) \/ StoreLen(a) \/ Publish(a)
                \/ Signal(a) \/ Wake(a)
Receive(a) == Spin(a) \/ LoadSig(a) \/ LoadSeq(a) \/ FutexWait(a)
                \/ TimedOut(a) \/ LoadLen(a) \/ ReadLo(a) \/ ReadHi(a)
Client     == StartCall \/ WaitSlice \/ Return \/ Reject \/ Close
Server     == Poll \/ \E st \in Answers : Handle(st)

Next ==
  \/ \E a \in Actor : Send(a) \/ Receive(a) \/ Interrupted(a) \/ Crash(a)
  \/ Client \/ Server
  \/ Expire \/ Stop

Spec == Init /\ [][Next]_vars

\* A thread that has a step to take takes it: the code between two system
\* calls does not block, a handler returns, and time passes.
ClientStep == Send("client") \/ Receive("client") \/ WaitSlice
                \/ Return \/ Reject
ServerStep == Send("server") \/ Receive("server") \/ Server
\* The wait of one slice ends however often it is interrupted: its deadline
\* is absolute and is compared before every futex_wait.
ClientFairness ==
  WF_vars(ClientStep) /\ SF_vars(TimedOut("client")) /\ WF_vars(Expire)
\* Where the client has a timeout to fall back on, the server may hang at any
\* step.
FairSpec == Spec /\ ClientFairness /\ WF_vars(~timed /\ ServerStep)

-----------------------------------------------------------------------------
\* Every word of the region, local and program counter has its type.
TypeOK ==
  /\ lo \in [Actor -> Message]
  /\ hi \in [Actor -> Message]
  /\ len \in [Actor -> Message]
  /\ seq \in [Actor -> Nat]
  /\ sig \in [Actor -> 0..(SigMod - 1)]
  /\ sent \in [Actor -> Nat]
  /\ rcvd \in [Actor -> Nat]
  /\ out \in [Actor -> Message]
  /\ rxLen \in [Actor -> Message]
  /\ rxLo \in [Actor -> Message]
  /\ rxHi \in [Actor -> Message]
  /\ sigVal \in [Actor -> 0..(SigMod - 1)]
  /\ pc \in [Actor -> Places]
  /\ calls \in Nat
  /\ result \in Message
  /\ running \in BOOLEAN
  /\ expired \in BOOLEAN
  /\ timed \in BOOLEAN

(* What receive hands to its caller is one whole message, and it is the     *)
(* next one: number rcvd[a] of the peer, never torn, stale or repeated,     *)
(* however the copies, crashes and retried waits interleave                 *)
(* (the copy after the sequence check in ShmContext::receive).              *)
IntactReceive ==
  \A a \in Actor : pc[a] = "received" =>
    /\ rxLo[a] = rxHi[a]
    /\ rxLen[a] = rxLo[a]
    /\ rxLo[a].id = rcvd[a]

(* The two copies are never in progress on the same area: send does not     *)
(* check that the previous message was consumed, the request/response       *)
(* alternation alone keeps the writer away from a copying reader.           *)
NoOverlap ==
  \A a \in Actor : ~(pc[a] \in Sending /\ pc[Peer(a)] \in Reading)

(* A thread asleep in futex_wait while its message is already published has *)
(* a wake-up coming: the sender is between its sequence store and its       *)
(* futex_wake, unless it was killed there.  Reading the signal word before  *)
(* the sequence word is what makes this hold, even when the signal wraps.   *)
NoLostWakeup ==
  \A a \in Actor :
    (pc[a] = "blocked" /\ Arrived(a)) => pc[Peer(a)] \in Notifying \cup {"dead"}

(* A response the client accepts answers the call it made, and the client   *)
(* never has to reject an answer for its message id (do_raw_call compares   *)
(* it): ids repeat across sessions, never within one.                       *)
AnswersThisCall ==
  pc["client"] = "received" =>
    /\ rxLo["client"].id = calls + 1
    /\ rxLo["client"].status \in Answers

(* Every call ends, with an answer or by giving up, whatever the server     *)
(* does: only the client's own scheduling and the passage of time are       *)
(* assumed (receive_posix_shm_with_control re-checks deadline and abort).   *)
CallEnds ==
  (timed /\ pc["client"] # "idle") ~> pc["client"] \in {"idle"} \cup Ended

(* With no timeout to fall back on, futex wake-ups alone bring every        *)
(* published message to its receiver, unless one of the two threads ends.   *)
MessageArrives ==
  \A a \in Actor :
    (~timed /\ Arrived(a)) ~> (~Arrived(a) \/ \E b \in Actor : pc[b] \in Ended)

-----------------------------------------------------------------------------
(* The inductive invariant behind the safety properties, in three parts.    *)

(* The five counters form a chain whose ends differ by at most one, and     *)
(* each thread's place fixes where in the chain it stands: this is the      *)
(* single-in-flight discipline do_raw_call and handle_session_threaded      *)
(* follow, and no word of the region enforces it.                           *)
Turns ==
  LET c == pc["client"]
      s == pc["server"]
  IN
  /\ calls <= rcvd["client"]
  /\ rcvd["client"] <= seq["server"]
  /\ seq["server"] <= rcvd["server"]
  /\ rcvd["server"] <= seq["client"]
  /\ seq["client"] <= calls + 1
  /\ c \in {"idle"} \cup Sending => seq["client"] = calls
  /\ c \in {"again"} \cup Notifying \cup Waiting \cup Reading =>
       seq["client"] = calls + 1 /\ rcvd["client"] = calls
  /\ c \in Reading => seq["server"] = calls + 1
  /\ c = "received" => rcvd["client"] = calls + 1
  /\ s \in {"again"} \cup Notifying \cup Waiting \cup Reading =>
       seq["server"] = rcvd["server"]
  /\ s \in Reading => seq["client"] = rcvd["server"] + 1
  /\ s \in {"received"} \cup Sending => rcvd["server"] = seq["server"] + 1
  /\ s # "idle"

Whole(w) == hi[w] = lo[w] /\ len[w] = lo[w]

(* Every published message that has not been consumed is whole in its area, *)
(* and every partial copy agrees with what it is a copy of.                 *)
Contents ==
  /\ \A a \in Actor :
       /\ pc[a] \in {"copy_hi", "store_len", "publish"} => lo[a] = out[a]
       /\ pc[a] \in {"store_len", "publish"} => hi[a] = out[a]
       /\ pc[a] = "publish" => len[a] = out[a]
       /\ pc[a] \in {"read_lo", "read_hi"} => rxLen[a] = len[Peer(a)]
       /\ pc[a] = "read_hi" => rxLo[a] = lo[Peer(a)]
  /\ pc["client"] \in Sending =>
       out["client"] = [id |-> calls + 1, status |-> "request"]
  /\ seq["client"] > rcvd["server"] =>
       /\ Whole("client")
       /\ lo["client"] = [id |-> seq["client"], status |-> "request"]
  /\ rcvd["server"] > seq["server"] =>
       /\ rxLo["server"] = [id |-> rcvd["server"], status |-> "request"]
       /\ rxHi["server"] = rxLo["server"]
       /\ rxLen["server"] = rxLo["server"]
  /\ pc["server"] \in Sending =>
       out["server"].id = rcvd["server"] /\ out["server"].status \in Answers
  /\ seq["server"] > calls =>
       /\ Whole("server")
       /\ lo["server"].id = seq["server"]
       /\ lo["server"].status \in Answers
  /\ pc["client"] = "received" =>
       /\ rxLo["client"] = lo["server"]
       /\ rxHi["client"] = rxLo["client"]
       /\ rxLen["client"] = rxLo["client"]

(* While a waiter is between reading the signal word and sleeping, its peer *)
(* can signal at most twice: once for a message the waiter had already      *)
(* picked up by spinning, and once for the next.  Hence SigMod >= 3.        *)
Signals ==
  \A a \in Actor :
    LET p    == Peer(a)
        once == NextSignal(sigVal[a])
        late == pc[p] = "signal"
    IN
    /\ (pc[a] \in {"load_seq", "wait"} /\ pc[p] # "dead" /\ ~Arrived(a)) =>
         sig[p] = sigVal[a] \/ (~late /\ sig[p] = once)
    /\ (pc[a] = "wait" /\ pc[p] # "dead" /\ Arrived(a)) =>
         \/ sig[p] = once
         \/ late /\ sig[p] = sigVal[a]
         \/ ~late /\ sig[p] = NextSignal(once)
    /\ (pc[a] = "blocked" /\ Arrived(a)) => pc[p] \in Notifying \cup {"dead"}

IndInv == TypeOK /\ Turns /\ Contents /\ Signals

(* The session implements the abstract channel: a request counts as         *)
(* submitted when its sequence word is stored, as taken when receive has    *)
(* copied it, as answered when the response's sequence word is stored.      *)
Channel == INSTANCE CallChannel WITH
  made     <- seq["client"],
  returned <- calls,
  inbox    <- IF Arrived("server") THEN lo["client"] ELSE NoMsg,
  held     <- IF rcvd["server"] > seq["server"] THEN rxLo["server"] ELSE NoMsg,
  reply    <- IF seq["server"] > calls THEN lo["server"] ELSE NoMsg

(* Refinement of CallChannel by the shared memory session.                  *)
ImplementsCallChannel == Channel!Spec
=============================================================================
