------------------------------- MODULE WinShm -------------------------------
(***************************************************************************)
(* One Level 2 session over the Windows shared memory transport: the client *)
(* thread in do_raw_call and the server thread in                           *)
(* handle_session_win_threaded, each using its WinShmContext on one mapping *)
(* and, in the hybrid profile, two auto-reset events.                       *)
(*                                                                          *)
(* Every region word is a function of the actor that writes it: area, len   *)
(* and seq of the actor's outgoing channel, its waiting flag, its closed    *)
(* flag; event[a] is the event that a waits on.  A copy is two steps on     *)
(* either side, and one that overlaps a write reads Torn.  The context's    *)
(* local sequence number of its own channel is written and never read, and  *)
(* is left out.  A length stands for the message it is the length of: the   *)
(* buffers are as large as the negotiated limits (see WinServer).           *)
(***************************************************************************)
EXTENDS Integers

CONSTANTS
  Profiles,   \* of "hybrid" and "busywait"
  MaxCalls    \* bound: calls the client makes on this session

ASSUME MaxCallsAssumption == MaxCalls \in Nat

VARIABLES
  profile,  \* the selected profile
  timed,    \* do receives carry a timeout and an abort flag (Level 2), or neither
  area, len, seq, waiting, closed,  \* the region
  event,    \* req_event, resp_event
  rcvd,     \* the reader's local_*_seq of its peer's channel
  out,      \* message being sent
  rx,       \* the length read, then the caller's buffer
  overdue,  \* did WaitForSingleObject return WAIT_TIMEOUT
  outcome,  \* has receive reported Disconnected
  pc,
  calls, result   \* RawClient.call_count; the last response returned

region == <<area, len, seq, waiting, closed, event>>
locals == <<rcvd, out, rx, overdue, outcome>>
level2 == <<calls, result>>
config == <<profile, timed>>
vars   == <<config, region, locals, pc, level2>>

Actor    == {"client", "server"}
Peer(a)  == IF a = "client" THEN "server" ELSE "client"
Answers  == {"ok", "limit_exceeded", "error"}
NoMsg    == [id |-> 0, status |-> "none"]
Torn     == [id |-> -1, status |-> "torn"]

Sending  == {"copy", "copied", "store_len", "publish"}
Ended    == {"closed", "dead"}
Places   == Sending \cup Ended
              \cup {"idle", "load_waiting", "set_event", "ready", "again", "spin",
                    "arm", "recheck", "disarm_found", "disarm_late", "wait", "woken",
                    "check", "look", "last", "busy", "load_len", "read", "read_rest",
                    "received", "leave", "close_event"}

Hybrid     == profile = "hybrid"
Goto(a, p) == pc' = [pc EXCEPT ![a] = p]

Init ==
  /\ profile \in Profiles
  /\ timed \in BOOLEAN
  /\ area = [a \in Actor |-> NoMsg]
  /\ len = [a \in Actor |-> NoMsg]
  /\ seq = [a \in Actor |-> 0]
  /\ waiting = [a \in Actor |-> FALSE]
  /\ closed = [a \in Actor |-> FALSE]
  /\ event = [a \in Actor |-> FALSE]
  /\ rcvd = [a \in Actor |-> 0]
  /\ out = [a \in Actor |-> NoMsg]
  /\ rx = [a \in Actor |-> NoMsg]
  /\ overdue = [a \in Actor |-> FALSE]
  /\ outcome = [a \in Actor |-> "none"]
  /\ pc = [a \in Actor |-> IF a = "client" THEN "idle" ELSE "again"]
  /\ calls = 0
  /\ result = NoMsg

-----------------------------------------------------------------------------
(* WinShmContext::send.                                                     *)

Copy(a) ==
  /\ pc[a] = "copy"
  /\ area' = [area EXCEPT ![a] = Torn]
  /\ Goto(a, "copied")
  /\ UNCHANGED <<config, len, seq, waiting, closed, event, locals, level2>>

Copied(a) ==
  /\ pc[a] = "copied"
  /\ area' = [area EXCEPT ![a] = out[a]]
  /\ Goto(a, "store_len")
  /\ UNCHANGED <<config, len, seq, waiting, closed, event, locals, level2>>

StoreLen(a) ==
  /\ pc[a] = "store_len"
  /\ len' = [len EXCEPT ![a] = out[a]]
  /\ Goto(a, "publish")
  /\ UNCHANGED <<config, area, seq, waiting, closed, event, locals, level2>>

\* A session thread that answered LIMIT_EXCEEDED leaves its loop.
AfterSend(a) ==
  IF a = "client" THEN "ready"
  ELSE IF out[a].status = "limit_exceeded" THEN "leave" ELSE "again"

Publish(a) ==
  /\ pc[a] = "publish"
  /\ seq' = [seq EXCEPT ![a] = @ + 1]
  /\ Goto(a, IF Hybrid THEN "load_waiting" ELSE AfterSend(a))
  /\ UNCHANGED <<config, area, len, waiting, closed, event, locals, level2>>

\* Mutant: a server signals its own event.
SetOwnEvent(a) ==
  /\ pc[a] = "set_event"
  /\ event' = [event EXCEPT ![a] = TRUE]
  /\ Goto(a, AfterSend(a))
  /\ UNCHANGED <<config, area, len, seq, waiting, closed, locals, level2>>

LoadWaiting(a) ==
  /\ pc[a] = "load_waiting"
  /\ Goto(a, IF waiting[Peer(a)] THEN "set_event" ELSE AfterSend(a))
  /\ UNCHANGED <<config, region, locals, level2>>

SetEvent(a) ==
  /\ pc[a] = "set_event"
  /\ event' = [event EXCEPT ![Peer(a)] = TRUE]
  /\ Goto(a, AfterSend(a))
  /\ UNCHANGED <<config, area, len, seq, waiting, closed, locals, level2>>

-----------------------------------------------------------------------------
(* WinShmContext::receive, and the spin of receive_ready.                   *)

\* Mutant: compares with the last sequence number instead of the next.
ArrivedOffByOne(a) == seq[Peer(a)] >= rcvd[a]

Arrived(a) == seq[Peer(a)] >= rcvd[a] + 1

\* The client looks for its answer before it computes any deadline.
ReceiveReady ==
  /\ pc["client"] = "ready"
  /\ Goto("client", IF Arrived("client") THEN "load_len" ELSE "again")
  /\ UNCHANGED <<config, region, locals, level2>>

Spin(a) ==
  /\ pc[a] = "spin"
  /\ Goto(a, IF Arrived(a) THEN "load_len" ELSE IF Hybrid THEN "arm" ELSE "busy")
  /\ UNCHANGED <<config, region, locals, level2>>

SetWaiting(a, w) == waiting' = [waiting EXCEPT ![a] = w]

Arm(a) ==
  /\ pc[a] = "arm"
  /\ SetWaiting(a, TRUE)
  /\ Goto(a, "recheck")
  /\ UNCHANGED <<config, area, len, seq, closed, event, locals, level2>>

Recheck(a) ==
  /\ pc[a] = "recheck"
  /\ Goto(a, IF Arrived(a) THEN "disarm_found" ELSE "wait")
  /\ UNCHANGED <<config, region, locals, level2>>

Disarm(a) ==
  /\ pc[a] \in {"disarm_found", "disarm_late", "woken"}
  /\ SetWaiting(a, FALSE)
  /\ Goto(a, CASE pc[a] = "disarm_found" -> "load_len"
               [] pc[a] = "disarm_late"  -> "again"
               [] pc[a] = "woken"        -> "check")
  /\ UNCHANGED <<config, area, len, seq, closed, event, locals, level2>>

\* WaitForSingleObject takes the signal of an auto-reset event with it.
Wait(a) ==
  /\ pc[a] = "wait"
  /\ event[a]
  /\ event' = [event EXCEPT ![a] = FALSE]
  /\ overdue' = [overdue EXCEPT ![a] = FALSE]
  /\ Goto(a, "woken")
  /\ UNCHANGED <<config, area, len, seq, waiting, closed, rcvd, out, rx,
                 outcome, level2>>

Check(a) ==
  /\ pc[a] = "check"
  /\ Goto(a, IF Arrived(a) THEN "load_len" ELSE "look")
  /\ UNCHANGED <<config, region, locals, level2>>

Disconnected(a) ==
  /\ rcvd' = [rcvd EXCEPT ![a] = @ + 1]
  /\ outcome' = [outcome EXCEPT ![a] = "disconnected"]
  /\ Goto(a, "leave")

\* Mutant: the flag alone ends the session.
LookOnce(a) ==
  /\ pc[a] = "look"
  /\ IF closed[Peer(a)] THEN Disconnected(a)
     ELSE /\ Goto(a, IF ~Hybrid THEN "busy" ELSE IF overdue[a] THEN "again" ELSE "arm")
          /\ UNCHANGED <<rcvd, outcome>>
  /\ UNCHANGED <<config, region, out, rx, overdue, level2>>

\* Mutant: a timeout is returned before the flag is looked at.
LookTooLate(a) ==
  /\ pc[a] = "look"
  /\ Goto(a, IF Hybrid /\ overdue[a] THEN "again"
             ELSE IF closed[Peer(a)] THEN "last"
             ELSE IF Hybrid THEN "arm" ELSE "busy")
  /\ UNCHANGED <<config, region, locals, level2>>

Look(a) ==
  /\ pc[a] = "look"
  /\ Goto(a, IF closed[Peer(a)] THEN "last"
             ELSE IF ~Hybrid THEN "busy"
             ELSE IF overdue[a] THEN "again" ELSE "arm")
  /\ UNCHANGED <<config, region, locals, level2>>

\* The peer has closed: whatever it sent before comes first.
Last(a) ==
  /\ pc[a] = "last"
  /\ IF Arrived(a) THEN Goto(a, "load_len") /\ UNCHANGED <<rcvd, outcome>>
     ELSE Disconnected(a)
  /\ UNCHANGED <<config, region, out, rx, overdue, level2>>

Busy(a) ==
  /\ pc[a] = "busy"
  /\ Goto(a, IF Arrived(a) THEN "load_len" ELSE "look")
  /\ UNCHANGED <<config, region, locals, level2>>

\* The wait has lasted long enough: before it, in it, or between two spins.
TimedOut(a) ==
  /\ timed
  /\ ~Arrived(a) \/ pc[a] = "wait"
  /\ \/ pc[a] = "recheck" /\ Goto(a, "disarm_late") /\ UNCHANGED overdue
     \/ pc[a] = "busy" /\ Goto(a, "again") /\ UNCHANGED overdue
     \/ /\ pc[a] = "wait" /\ ~event[a]
        /\ overdue' = [overdue EXCEPT ![a] = TRUE]
        /\ Goto(a, "woken")
  /\ UNCHANGED <<config, region, rcvd, out, rx, outcome, level2>>

LoadLen(a) ==
  /\ pc[a] = "load_len"
  /\ rx' = [rx EXCEPT ![a] = len[Peer(a)]]
  /\ Goto(a, "read")
  /\ UNCHANGED <<config, region, rcvd, out, overdue, outcome, level2>>

\* What was copied so far, and what the area holds now.
Copying(a) == rx' = [rx EXCEPT ![a] = IF @ = area[Peer(a)] THEN @ ELSE Torn]

Read(a) ==
  /\ pc[a] = "read"
  /\ Copying(a)
  /\ Goto(a, "read_rest")
  /\ UNCHANGED <<config, region, rcvd, out, overdue, outcome, level2>>

ReadRest(a) ==
  /\ pc[a] = "read_rest"
  /\ Copying(a)
  /\ rcvd' = [rcvd EXCEPT ![a] = @ + 1]
  /\ Goto(a, "received")
  /\ UNCHANGED <<config, region, out, overdue, outcome, level2>>

-----------------------------------------------------------------------------
(* WinShmContext::close and destroy.                                        *)

Leave(a) ==
  /\ pc[a] = "leave"
  /\ closed' = [closed EXCEPT ![a] = TRUE]
  /\ Goto(a, IF Hybrid THEN "close_event" ELSE "closed")
  /\ UNCHANGED <<config, area, len, seq, waiting, event, locals, level2>>

CloseEvent(a) ==
  /\ pc[a] = "close_event"
  /\ event' = [event EXCEPT ![Peer(a)] = TRUE]
  /\ Goto(a, "closed")
  /\ UNCHANGED <<config, area, len, seq, waiting, closed, locals, level2>>

-----------------------------------------------------------------------------
(* The client: do_raw_call and receive_win_shm_with_control.                *)

StartCall ==
  /\ pc["client"] = "idle"
  /\ calls < MaxCalls
  /\ out' = [out EXCEPT !["client"] = [id |-> calls + 1, status |-> "request"]]
  /\ Goto("client", "copy")
  /\ UNCHANGED <<config, region, rcvd, rx, overdue, outcome, level2>>

WaitSlice ==
  /\ pc["client"] = "again"
  /\ Goto("client", "spin")
  /\ UNCHANGED <<config, region, locals, level2>>

\* The abort flag is up, before the first look or a slice, or the deadline has
\* passed, before a slice.  Both are read nowhere else.
GiveUp ==
  /\ timed
  /\ pc["client"] \in {"ready", "again"}
  /\ Goto("client", "leave")
  /\ UNCHANGED <<config, region, locals, level2>>

Accepted == rx["client"].id = calls + 1 /\ rx["client"].status = "ok"

Return ==
  /\ pc["client"] = "received"
  /\ Accepted
  /\ calls' = calls + 1
  /\ result' = rx["client"]
  /\ Goto("client", "idle")
  /\ UNCHANGED <<config, region, locals>>

Reject ==
  /\ pc["client"] = "received"
  /\ ~Accepted
  /\ Goto("client", "leave")
  /\ UNCHANGED <<config, region, locals, level2>>

Close ==
  /\ pc["client"] = "idle"
  /\ Goto("client", "leave")
  /\ UNCHANGED <<config, region, locals, level2>>

-----------------------------------------------------------------------------
(* The session thread: handle_session_win_threaded.                         *)

\* running is read here and nowhere else, so stop() is the second choice.
Poll ==
  /\ pc["server"] = "again"
  /\ Goto("server", "spin") \/ Goto("server", "leave")
  /\ UNCHANGED <<config, region, locals, level2>>

\* The handler's outcome is free; the answer echoes the request's id.
Handle(st) ==
  /\ pc["server"] = "received"
  /\ IF rx["server"].status = "request"
     THEN /\ out' = [out EXCEPT !["server"] = [id |-> rx["server"].id, status |-> st]]
          /\ Goto("server", "copy")
     ELSE out' = out /\ Goto("server", "leave")
  /\ UNCHANGED <<config, region, rcvd, rx, overdue, outcome, level2>>

\* The process ends between any two steps, without closing its context.
Crash(a) ==
  /\ pc[a] \notin Ended
  /\ Goto(a, "dead")
  /\ UNCHANGED <<config, region, locals, level2>>

-----------------------------------------------------------------------------
Send(a)    == Copy(a) \/ Copied(a) \/ StoreLen(a) \/ Publish(a) \/ LoadWaiting(a)
                \/ SetEvent(a)
Receive(a) == Spin(a) \/ Arm(a) \/ Recheck(a) \/ Disarm(a) \/ Wait(a) \/ Check(a)
                \/ Look(a) \/ Last(a) \/ Busy(a) \/ LoadLen(a) \/ Read(a) \/ ReadRest(a)
Detach(a)  == Leave(a) \/ CloseEvent(a)
Client     == ReceiveReady \/ WaitSlice \/ Return \/ Reject
Server     == Poll \/ \E st \in Answers : Handle(st)

Next ==
  \/ \E a \in Actor : Send(a) \/ Receive(a) \/ TimedOut(a) \/ Detach(a) \/ Crash(a)
  \/ Client \/ GiveUp \/ StartCall \/ Close \/ Server

Spec == Init /\ [][Next]_vars

\* A thread between two system calls goes on, a handler returns, a wait with a
\* timeout ends (it is compared with a start tick in every round), and time
\* passes.  A thread that is never scheduled again is one that crashed.  A slice
\* lasts 100 ms or more, so that not every one is over before its first look.
FairSpec ==
  /\ Spec
  /\ WF_vars(Client \/ Send("client") \/ Receive("client") \/ Detach("client"))
  /\ WF_vars(Server \/ Send("server") \/ Receive("server") \/ Detach("server")
               \/ TimedOut("server"))
  /\ SF_vars(TimedOut("client")) /\ SF_vars(GiveUp)
  /\ SF_vars(Busy("server") \/ Recheck("server"))

-----------------------------------------------------------------------------
(* Every word of the region, local and place has its type; no receive runs  *)
(* more than one message ahead of the calls made.                           *)
TypeOK ==
  LET Message == [id : -1..MaxCalls, status : Answers \cup {"request", "none", "torn"}]
  IN  /\ profile \in Profiles /\ timed \in BOOLEAN
      /\ {area, len, out, rx} \subseteq [Actor -> Message]
      /\ {seq, rcvd} \subseteq [Actor -> 0..MaxCalls + 1]
      /\ {waiting, closed, event, overdue} \subseteq [Actor -> BOOLEAN]
      /\ outcome \in [Actor -> {"none", "disconnected"}]
      /\ pc \in [Actor -> Places]
      /\ calls \in 0..MaxCalls /\ result \in Message

(* A side that is told Disconnected has been given every message its peer   *)
(* published before it closed: the sequence number is read once more after  *)
(* the flag (both waits of receive).  The variables keep their types.       *)
DrainedBeforeDisconnect ==
  /\ TypeOK
  /\ \A a \in Actor : outcome[a] = "disconnected" => seq[Peer(a)] < rcvd[a]

(* With no timeout to fall back on, the events alone (or the spinning)      *)
(* bring every message to its receiver, unless one of the threads ends.     *)
MessageArrives ==
  \A a \in Actor :
    Arrived(a) ~> (~Arrived(a) \/ \E b \in Actor : pc[b] \in Ended)

(* A session thread whose client has closed its context ends and gives its *)
(* worker slot back: the flag is looked at after every wait, so that a      *)
(* close whose event was taken by an earlier message is noticed at the next *)
(* timeout (receive, handle_session_win_threaded).                          *)
CloseIsNoticed ==
  (timed /\ pc["client"] = "closed") ~> pc["server"] \in Ended

(* The session implements the abstract channel.                             *)
Channel == INSTANCE CallChannel WITH
  made     <- seq["client"],
  returned <- calls,
  inbox    <- IF Arrived("server") THEN area["client"] ELSE NoMsg,
  held     <- IF rcvd["server"] > seq["server"] /\ outcome["server"] = "none"
              THEN rx["server"] ELSE NoMsg,
  reply    <- IF seq["server"] > calls THEN area["server"] ELSE NoMsg

(* Every step of the shared memory session, in either profile, is a step of *)
(* the call channel or none.                                                *)
ImplementsCallChannel == Channel!Spec
=============================================================================
