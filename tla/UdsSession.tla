----------------------------- MODULE UdsSession -----------------------------
(***************************************************************************)
(* One established session over a UDS SEQPACKET socket or a Windows named   *)
(* pipe in message mode: logical messages cut into packets and put together *)
(* again, the client's in-flight ids, and the receive that a deadline or an *)
(* abort flag may end in the middle of a message.  UdsSession and NpSession *)
(* send and receive by the same steps; where the system calls below them    *)
(* differ (a buffer too short for a packet, an empty poll, close) each has  *)
(* an action of its own.                                                    *)
(*                                                                          *)
(* A payload is its length and whether its batch directory is consistent.   *)
(* Lengths are in bytes beyond the 32-byte header, so Budget is packet_size *)
(* minus the header.  A byte is known by the message and the place it was   *)
(* cut from, so that a reassembly buffer shows where its contents came from.*)
(* Each side is used by one thread at a time (send and receive take         *)
(* &mut self).                                                              *)
(***************************************************************************)
EXTENDS Integers, Sequences, FiniteSets

CONSTANTS
  Transports, \* kinds of session that occur, of "socket" and "pipe"
  Ids,        \* message ids the client's caller uses, each for one request
  Lens,       \* payload lengths callers send
  Malformed,  \* may a caller send a batch with an inconsistent directory
  Limit,      \* the negotiated payload limit, of both directions
  Budget,     \* payload bytes that fit in a packet
  Rooms,      \* payload bytes that fit in the buffers callers receive into
  QueueCap,   \* packets the kernel queues in one direction
  Pipeline,   \* requests callers keep open at once
  Deadline,   \* the client's timeout_ms in poll slices of 100 ms, 0 for none
  Abortable,  \* does the client's caller pass an abort flag
  Faults      \* may peers close and system calls be interrupted

ASSUME SizesAssumption ==
  /\ Lens \subseteq Nat /\ Rooms \subseteq Nat
  /\ {Limit, Budget, QueueCap, Pipeline, Deadline} \subseteq Nat
  /\ Budget > 0 /\ QueueCap > 0
  /\ {Malformed, Abortable, Faults} \subseteq BOOLEAN
  /\ Transports \subseteq {"socket", "pipe"}
  /\ "none" \notin Ids

Sides   == {"client", "server"}
Peer(s) == IF s = "client" THEN "server" ELSE "client"

VARIABLES
  transport, \* what the session runs over
  open,      \* is the side's fd open
  wire,      \* packets the side sent that its peer has not received
  out,       \* packets of the message being sent that are still to go
  rx,        \* the side's receive: NotReceiving, or its local state
  buf,       \* recv_buf
  left,      \* slices left before the client's deadline
  abort,     \* the abort flag
  inflight,  \* the client's inflight_ids
  used,      \* ids the client's caller has used
  pending,   \* requests the server's caller has received and not answered
  result,    \* what the side's last operation returned
  failed,    \* history: ids that a failed operation of the client gave up
  faults     \* history: whose operations failed, and how

callers == <<used, pending>>
history == <<failed, faults>>
vars == <<transport, open, wire, out, rx, buf, left, abort, inflight, callers, result, history>>

NoMsg == [id |-> "none", len |-> 0, ok |-> TRUE]
Msgs  == [id : Ids, len : Lens, ok : IF Malformed THEN BOOLEAN ELSE {TRUE}]
Controlled(s) == s = "client" /\ (Deadline # 0 \/ Abortable)

\* The locals of receive_with_control: where it is, the header it read, the
\* bytes and chunks it has and expects, and the room in the caller's buffer.
NotReceiving == [at |-> "idle", hdr |-> NoMsg, assembled |-> 0, ci |-> 0,
                 expected |-> 0, room |-> 0]
Waiting(s)   == IF Controlled(s) THEN "check" ELSE "poll"

\* The byte at place i of message m as sent by s.
Byte(s, m, i) == <<s, m.id, i>>

NoResult == [err |-> "none", msg |-> NoMsg, bytes |-> <<>>]
Returned(s, r) == result' = [result EXCEPT ![s] = [NoResult EXCEPT !.err = r]]

Init ==
  /\ transport \in Transports
  /\ open = [s \in Sides |-> TRUE]
  /\ wire = [s \in Sides |-> <<>>]
  /\ out = [s \in Sides |-> <<>>]
  /\ rx = [s \in Sides |-> NotReceiving]
  /\ buf = [s \in Sides |-> <<>>]
  /\ left = 0
  /\ abort = FALSE
  /\ inflight = {}
  /\ used = {}
  /\ pending = {}
  /\ result = [s \in Sides |-> NoResult]
  /\ failed = {}
  /\ faults = {}

-----------------------------------------------------------------------------
(* send                                                                     *)

\* Continuations of a message whose first packet left n bytes to go.
Continuations(n) == IF n > 0 THEN 1 + ((n - 1) \div Budget) ELSE 0

Least(a, b) == IF a < b THEN a ELSE b

\* The k-th of count packets: the first under the message's header, the
\* others under a chunk header.
Packet(m, k, count) ==
  [chunk |-> k > 1, msg |-> m, idx |-> k - 1, count |-> count,
   lo |-> (k - 1) * Budget, hi |-> Least(k * Budget, m.len)]

\* send_inner: the packets of a message, one when it fits.
Packets(m) ==
  LET count == 1 + Continuations(m.len - Least(m.len, Budget))
  IN  [k \in 1..count |-> Packet(m, k, count)]

Idle(s) == open[s] /\ out[s] = <<>> /\ rx[s] = NotReceiving

\* Mutant: the id is not recorded as in flight.
RequestUntracked(m) ==
  /\ Idle("client")
  /\ m.id \notin used
  /\ m.len <= Limit
  /\ used' = used \cup {m.id}
  /\ out' = [out EXCEPT !["client"] = Packets(m)]
  /\ Returned("client", "none")
  /\ UNCHANGED <<transport, open, wire, rx, buf, left, abort, inflight, pending, history>>

\* UdsSession::send up to the first system call.
Request(m) ==
  /\ Idle("client")
  /\ m.id \notin used \/ m.id \in inflight
  /\ Cardinality(inflight) < Pipeline
  /\ IF m.len > Limit
     THEN Returned("client", "LimitExceeded") /\ UNCHANGED <<out, inflight, used>>
     ELSE IF m.id \in inflight
     THEN Returned("client", "DuplicateMsgId") /\ UNCHANGED <<out, inflight, used>>
     ELSE /\ inflight' = inflight \cup {m.id}
          /\ used' = used \cup {m.id}
          /\ out' = [out EXCEPT !["client"] = Packets(m)]
          /\ Returned("client", "none")
  /\ UNCHANGED <<transport, open, wire, rx, buf, left, abort, pending, history>>

\* The server's caller answers requests in any order.
Respond(m) ==
  /\ Idle("server")
  /\ m.id \in pending
  /\ IF m.len > Limit
     THEN Returned("server", "LimitExceeded") /\ UNCHANGED <<out, pending>>
     ELSE /\ pending' = pending \ {m.id}
          /\ out' = [out EXCEPT !["server"] = Packets(m)]
          /\ Returned("server", "none")
  /\ UNCHANGED <<transport, open, wire, rx, buf, left, abort, inflight, used, history>>

\* raw_send_iov, raw_send_msg: blocks while the kernel's queue is full.
PutPacket(s) ==
  /\ out[s] # <<>> /\ open[Peer(s)]
  /\ Len(wire[s]) < QueueCap
  /\ wire' = [wire EXCEPT ![s] = Append(@, Head(out[s]))]
  /\ out' = [out EXCEPT ![s] = Tail(@)]
  /\ UNCHANGED <<transport, open, rx, buf, left, abort, inflight, callers, result, history>>

\* Mutant: a failed operation keeps the ids of the session in flight.
FailAllNever(s) ==
  /\ failed' = IF s = "client" THEN failed \cup inflight ELSE failed
  /\ faults' = faults \cup {<<s, "failed">>}
  /\ UNCHANGED inflight

\* fail_all_inflight
FailAll(s) ==
  /\ failed' = IF s = "client" THEN failed \cup inflight ELSE failed
  /\ inflight' = IF s = "client" THEN {} ELSE inflight
  /\ faults' = faults \cup {<<s, "failed">>}

\* Send or Disconnected: EPIPE once the peer is gone, EINTR, a broken pipe; the
\* packets already sent stay sent.
SendFails(s) ==
  /\ out[s] # <<>>
  /\ Faults
  /\ out' = [out EXCEPT ![s] = <<>>]
  /\ FailAll(s)
  /\ Returned(s, "Send")
  /\ UNCHANGED <<transport, open, wire, rx, buf, left, abort, callers>>

-----------------------------------------------------------------------------
(* receive_with_control                                                     *)

Receive(s, r) ==
  /\ Idle(s)
  /\ IF s = "client" THEN inflight # {} ELSE Cardinality(pending) < Pipeline
  /\ rx' = [rx EXCEPT ![s] = [NotReceiving EXCEPT !.at = Waiting(s), !.room = r]]
  /\ left' = IF s = "client" THEN Deadline ELSE left
  /\ Returned(s, "none")
  /\ UNCHANGED <<transport, open, wire, out, buf, abort, inflight, callers, history>>

\* A wait that fails ends the receive and the requests in flight.
WaitFails(s, err) ==
  /\ rx' = [rx EXCEPT ![s] = NotReceiving]
  /\ Returned(s, err)
  /\ FailAll(s)
  /\ UNCHANGED <<transport, open, wire, out, buf, abort, callers>>

\* ReceiveWait::poll_timeout_ms or wait_slice_ms, before every poll.
CheckWait(s) ==
  /\ rx[s].at = "check"
  /\ IF Abortable /\ abort
     THEN WaitFails(s, "Aborted")
     ELSE IF Deadline # 0 /\ left = 0
     THEN WaitFails(s, "Timeout")
     ELSE /\ rx' = [rx EXCEPT ![s] = [@ EXCEPT !.at = "poll"]]
          /\ UNCHANGED <<transport, open, wire, out, buf, abort, inflight, callers, result, history>>
  /\ UNCHANGED left

\* wait_fd_readable when poll returns 0: with an abort flag a poll lasts one
\* slice, without one it lasts until the deadline.
PollEmpty(s) ==
  /\ transport = "socket"
  /\ rx[s].at = "poll" /\ Controlled(s)
  /\ wire[Peer(s)] = <<>>
  /\ left' = IF Abortable /\ left > 0 THEN left - 1 ELSE 0
  /\ WaitFails(s, IF Abortable /\ abort THEN "Aborted" ELSE "Timeout")

\* raw_recv_with_wait when wait_pipe_readable peeked in vain for its slice:
\* without a deadline it goes on waiting.
PeekEmpty(s) ==
  /\ transport = "pipe"
  /\ rx[s].at = "poll" /\ Controlled(s)
  /\ wire[Peer(s)] = <<>>
  /\ left' = IF Abortable /\ left > 0 THEN left - 1 ELSE 0
  /\ IF Deadline # 0 \/ abort
     THEN WaitFails(s, IF Abortable /\ abort THEN "Aborted" ELSE "Timeout")
     ELSE /\ rx' = [rx EXCEPT ![s] = [@ EXCEPT !.at = "check"]]
          /\ UNCHANGED <<transport, open, wire, out, buf, abort, inflight, callers, result, history>>

\* Recv or Disconnected: the peer closed, or the system call was interrupted.
RecvFails(s) ==
  /\ rx[s].at = "poll"
  /\ Faults
  /\ WaitFails(s, "Recv")
  /\ UNCHANGED left

-----------------------------------------------------------------------------
(* One packet arrived.                                                      *)

\* What the first packet makes of the receive; n payload bytes were read.
FirstVerdict(s, p, n) ==
  IF p.chunk THEN "Protocol"
  ELSE IF p.msg.len > Limit THEN "LimitExceeded"
  ELSE IF s = "client" /\ p.msg.id \notin inflight THEN "UnknownMsgId"
  ELSE IF n > p.msg.len THEN "Protocol"
  ELSE IF n = p.msg.len THEN IF p.msg.ok THEN "Ok" ELSE "Protocol"
  ELSE "More"

\* Mutant: any packet that still fits counts as the next continuation.
NextVerdictUnchecked(s, p, n) ==
  IF rx[s].assembled + n > rx[s].hdr.len THEN "Chunk"
  ELSE IF rx[s].assembled + n = rx[s].hdr.len THEN IF rx[s].hdr.ok THEN "Ok" ELSE "Protocol"
  ELSE "More"

\* The checks on a continuation.
NextVerdict(s, p, n) ==
  IF \/ ~p.chunk
     \/ p.msg.id # rx[s].hdr.id
     \/ p.idx # rx[s].ci
     \/ p.count # rx[s].expected
     \/ p.msg.len # rx[s].hdr.len
     \/ rx[s].assembled + n > rx[s].hdr.len
  THEN "Chunk"
  ELSE IF rx[s].assembled + n = rx[s].hdr.len THEN IF rx[s].hdr.ok THEN "Ok" ELSE "Protocol"
  ELSE "More"

\* The n payload bytes of packet p, copied to place pos of recv_buf, of which
\* size bytes are in use; recv_buf keeps what earlier messages left in it.
Copied(s, p, n, pos, size) ==
  [i \in 1..(IF Len(buf[s]) < size THEN size ELSE Len(buf[s])) |->
     IF i \in (pos + 1)..(pos + n) THEN Byte(Peer(s), p.msg, p.lo + i - pos)
     ELSE IF i <= Len(buf[s]) THEN buf[s][i] ELSE <<>>]

\* Mutant: only an answer in one packet takes its id out of flight.
AnsweredWhole(s, p, v) ==
  IF s = "client" /\ v = "Ok" THEN inflight \ {p.msg.id} ELSE inflight

\* inflight_ids after the first packet: the id goes before the rest is here.
Answered(s, p, v) ==
  IF s = "client" /\ ~p.chunk /\ v # "LimitExceeded"
  THEN inflight \ {p.msg.id} ELSE inflight

Deliver(s, m, bytes) ==
  /\ result' = [result EXCEPT ![s] = [err |-> "Ok", msg |-> m, bytes |-> bytes]]
  /\ rx' = [rx EXCEPT ![s] = NotReceiving]
  /\ pending' = IF s = "server" THEN pending \cup {m.id} ELSE pending
  /\ UNCHANGED faults

\* The message is refused; neither the socket nor inflight_ids is touched.
Violate(s, v) ==
  /\ Returned(s, v)
  /\ rx' = [rx EXCEPT ![s] = NotReceiving]
  /\ faults' = faults \cup {<<s, "refused">>}
  /\ UNCHANGED <<buf, pending>>

\* Wait for the next packet of message m.
Continue(s, m, assembled, ci, expected) ==
  /\ rx' = [rx EXCEPT ![s] = [at |-> Waiting(s), hdr |-> m, assembled |-> assembled,
                              ci |-> ci, expected |-> expected, room |-> 0]]
  /\ UNCHANGED <<pending, result, faults>>

\* Time passes while the client polls.
Waited(s) == IF Controlled(s) THEN left' \in 0..left ELSE UNCHANGED left

\* A first packet is longer than the caller's buffer.
Overruns(s) ==
  rx[s].hdr = NoMsg /\ Head(wire[Peer(s)]).hi - Head(wire[Peer(s)]).lo > rx[s].room

\* What ReadFile leaves of a packet in the pipe after it filled a buffer of r
\* bytes: no header of any kind, so it passes for a chunk nobody expects.
Rest(p, r) == [p EXCEPT !.chunk = TRUE, !.idx = 0, !.lo = @ + r]

\* raw_recv on a pipe: ERROR_MORE_DATA fails the receive and the rest of the
\* packet stays to be read.
ReadOverruns(s) ==
  /\ transport = "pipe"
  /\ rx[s].at = "poll" /\ wire[Peer(s)] # <<>> /\ Overruns(s)
  /\ ~(Controlled(s) /\ Abortable /\ abort)
  /\ wire' = [wire EXCEPT ![Peer(s)] = <<Rest(Head(@), rx[s].room)>> \o Tail(@)]
  /\ Waited(s)
  /\ rx' = [rx EXCEPT ![s] = NotReceiving]
  /\ Returned(s, "Recv")
  /\ FailAll(s)
  /\ UNCHANGED <<transport, open, out, buf, abort, callers>>

\* SEQPACKET cuts what does not fit in the caller's buffer.
TakeFirst(s) ==
  LET p == Head(wire[Peer(s)])
      n == Least(p.hi - p.lo, rx[s].room)
      v == FirstVerdict(s, p, n)
  IN  /\ rx[s].hdr = NoMsg
      /\ inflight' = Answered(s, p, v)
      /\ CASE v = "More" ->
                /\ buf' = [buf EXCEPT ![s] = Copied(s, p, n, 0, p.msg.len)]
                /\ Continue(s, p.msg, n, 1, 1 + Continuations(p.msg.len - n))
           [] v = "Ok" ->
                /\ Deliver(s, p.msg, [i \in 1..p.msg.len |->
                                        IF i <= n THEN Byte(Peer(s), p.msg, i) ELSE <<>>])
                /\ UNCHANGED buf
           [] OTHER -> Violate(s, v)

\* A continuation, read into the session's own packet buffer.
TakeNext(s) ==
  LET p == Head(wire[Peer(s)])
      n == p.hi - p.lo
      v == NextVerdict(s, p, n)
      m == rx[s].hdr
      b == Copied(s, p, n, rx[s].assembled, m.len)
  IN  /\ m # NoMsg
      /\ UNCHANGED inflight
      /\ CASE v = "More" ->
                /\ buf' = [buf EXCEPT ![s] = b]
                /\ Continue(s, m, rx[s].assembled + n, rx[s].ci + 1, rx[s].expected)
           [] v = "Ok" ->
                /\ buf' = [buf EXCEPT ![s] = b]
                /\ Deliver(s, m, SubSeq(b, 1, m.len))
           [] OTHER -> Violate(s, v)

\* The abort flag is looked at once more before the packet is read.
Take(s) ==
  /\ rx[s].at = "poll"
  /\ wire[Peer(s)] # <<>>
  /\ transport = "pipe" => ~Overruns(s)
  /\ ~(Controlled(s) /\ Abortable /\ abort)
  /\ wire' = [wire EXCEPT ![Peer(s)] = Tail(@)]
  /\ Waited(s)
  /\ TakeFirst(s) \/ TakeNext(s)
  /\ UNCHANGED <<transport, open, out, abort, used, failed>>

TakeAborted(s) ==
  /\ rx[s].at = "poll" /\ Controlled(s) /\ Abortable /\ abort
  /\ wire[Peer(s)] # <<>>
  /\ Waited(s)
  /\ WaitFails(s, "Aborted")

-----------------------------------------------------------------------------

\* The flag is raised and cleared from any thread.
Abort ==
  /\ Abortable
  /\ abort' = ~abort
  /\ UNCHANGED <<transport, open, wire, out, rx, buf, left, inflight, callers, result, history>>

\* UdsSession::drop; the thread that drops it is in no other call.
Drop(s) ==
  /\ transport = "socket"
  /\ Idle(s) /\ Faults
  /\ open' = [open EXCEPT ![s] = FALSE]
  /\ faults' = faults \cup {<<s, "closed">>}
  /\ UNCHANGED <<transport, wire, out, rx, buf, left, abort, inflight, callers, result, failed>>

\* NpSession::close: FlushFileBuffers waits until the peer has read everything
\* or is gone.
ClosePipe(s) ==
  /\ transport = "pipe"
  /\ Idle(s) /\ Faults
  /\ wire[s] = <<>> \/ ~open[Peer(s)]
  /\ open' = [open EXCEPT ![s] = FALSE]
  /\ buf' = [buf EXCEPT ![s] = <<>>]
  /\ failed' = IF s = "client" THEN failed \cup inflight ELSE failed
  /\ inflight' = IF s = "client" THEN {} ELSE inflight
  /\ faults' = faults \cup {<<s, "closed">>}
  /\ UNCHANGED <<transport, wire, out, rx, left, abort, callers, result>>

Step(s) ==
  \/ PutPacket(s) \/ SendFails(s) \/ CheckWait(s) \/ PollEmpty(s) \/ PeekEmpty(s)
  \/ RecvFails(s) \/ Take(s) \/ TakeAborted(s) \/ ReadOverruns(s)

Next ==
  \/ \E m \in Msgs : Request(m) \/ Respond(m)
  \/ \E s \in Sides : Step(s) \/ Drop(s) \/ ClosePipe(s) \/ \E r \in Rooms : Receive(s, r)
  \/ Abort

Spec == Init /\ [][Next]_vars

-----------------------------------------------------------------------------
(* Properties.                                                              *)

Errors == {"none", "Ok", "LimitExceeded", "DuplicateMsgId", "Send", "Recv", "Timeout",
           "Aborted", "Protocol", "UnknownMsgId", "Chunk"}

\* The state of both ends has its type, and recv_buf always holds the bytes a
\* receive counted.
TypeOK ==
  /\ transport \in Transports /\ open \in [Sides -> BOOLEAN]
  /\ inflight \subseteq used /\ used \subseteq Ids /\ pending \subseteq Ids
  /\ left \in 0..Deadline /\ abort \in BOOLEAN
  /\ \A s \in Sides :
       /\ Len(wire[s]) <= QueueCap
       /\ rx[s].at \in {"idle", "check", "poll"}
       /\ rx[s].hdr \in Msgs \cup {NoMsg}
       /\ rx[s].assembled \in 0..Len(buf[s])
       /\ rx[s].ci <= rx[s].expected
       /\ result[s].err \in Errors

\* Whatever receive returns is one message its peer sent, byte for byte: no
\* byte of another message, of an abandoned one or of the buffer's past, even
\* after sends and receives that stopped in the middle of a message
\* (receive_with_control's header and chunk checks).  The variables keep their
\* types.
DeliveredIntact ==
  /\ TypeOK
  /\ \A s \in Sides : result[s].err = "Ok" =>
       result[s].bytes = [i \in 1..result[s].msg.len |-> Byte(Peer(s), result[s].msg, i)]

\* A request that a failed send or receive gave up stays failed: its late
\* answer is never handed to the caller as if it were still awaited
\* (fail_all_inflight).
FailedStaysFailed ==
  result["client"].err = "Ok" => result["client"].msg.id \notin failed

\* Where the answer to a request in flight can be.
Coming(id) ==
  \/ \E s \in Sides : \E k \in 1..Len(out[s]) : out[s][k].msg.id = id
  \/ \E s \in Sides : \E k \in 1..Len(wire[s]) : wire[s][k].msg.id = id
  \/ rx["server"].hdr.id = id
  \/ id \in pending

\* Until an end refuses a message or the server fails, every id in
\* inflight_ids has its request or its answer somewhere on the way, also after
\* timeouts, aborts and failures of the client: none is forgotten in the set,
\* where it would keep a caller waiting and refuse the id's next use.
InflightIsComing ==
  faults \subseteq {<<"client", "failed">>} => \A id \in inflight : Coming(id)

Blocked(s) == out[s] # <<>> /\ Len(wire[s]) = QueueCap

\* The two ends never block in send on each other's full queue unless the
\* client pipelines, or sends again on a session where an operation failed:
\* one request at a time cannot deadlock, however small the kernel's queues.
NoMutualBlock ==
  (\A s \in Sides : open[s] /\ Blocked(s)) => (\E i, j \in inflight : i # j) \/ faults # {}

\* receive reports Timeout only once the deadline it was given has passed
\* ("return a distinct timeout error when the deadline expires").
TimeoutIsDeadline ==
  result["client"].err = "Timeout" => Deadline # 0 /\ left = 0
=============================================================================
