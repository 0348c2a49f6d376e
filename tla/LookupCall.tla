----------------------------- MODULE LookupCall -----------------------------
(***************************************************************************)
(* One logical lookup: the client cuts the keys into requests that fit,     *)
(* retries what the server marked PAYLOAD_EXCEEDED, and stitches one        *)
(* response out of the pieces, while the service publishes new generations. *)
(*                                                                          *)
(* A raw call is seen from above (RawClient has its insides): the request   *)
(* reaches the server, is sent once more when the connection broke, or      *)
(* again with a larger response buffer when the response did not fit.       *)
(***************************************************************************)
EXTENDS LookupBuilder

CONSTANTS
  Kinds,         \* the services looked at, of "cgroups" and "apps"
  KeySeqs(_),    \* the sequences of keys a caller of that kind asks for
  Answers,       \* [1..Generations -> [key id -> answer]]: what the service knows
  Generations,   \* bound: generations the service publishes
  Proposal,      \* transport_config.max_request_payload_bytes
  Grants,        \* request limits an acknowledgement carries
  Buffers,       \* response buffers a session starts with
  Ceiling,       \* what the server's response buffer may grow to
  OverflowLimit, \* overflow retries after which a raw call gives up (8)
  MaxItems, MaxSubcalls, MaxBytes   \* LookupLogicalConfig

\* No session grants more than was proposed, and the power of two that
\* client_note_request_capacity rounds a request to is no larger proposal.
ASSUME ProposalAssumption ==
  /\ \E n \in 0..31 : Proposal = 2 ^ n
  /\ \A g \in Grants : g <= Proposal

VARIABLES
  kind, keys,    \* the service, and the caller's keys
  pc, state,     \* where the call is; ClientState
  start, asked, raw, generation, subcalls,  \* the locals of the logical call
  granted,       \* the session's max_request_payload_bytes
  buffer,        \* the session's max_response_payload_bytes
  retried, overflows,  \* the raw call's retries
  wire,          \* the request or the response on its way
  building,      \* the server's builder
  handled,       \* keys the handler has been through
  current,       \* the generation the service has published
  serving,       \* the generation the handler answers from
  abort, late,   \* the abort flag; has the deadline passed
  result         \* what the call returned

caller == <<kind, keys>>
locals == <<start, asked, raw, generation, subcalls>>
raws   == <<retried, overflows>>
server == <<building, handled, serving>>
vars   == <<caller, pc, state, locals, granted, buffer, raws, wire, server,
            current, abort, late, result>>

NoPayload == [dir |-> <<>>, cells |-> {}, len |-> 0]
NoResult  == [err |-> "none", response |-> NoPayload]
NoBuilder == NewBuilder(0, 0, <<>>)

Init ==
  /\ kind \in Kinds
  /\ keys \in KeySeqs(kind)
  /\ pc = "begin"
  /\ state = "Ready"
  /\ start = 0 /\ asked = 0 /\ raw = <<>> /\ generation = 0 /\ subcalls = 0
  /\ granted \in Grants
  /\ buffer \in Buffers
  /\ retried = FALSE /\ overflows = 0
  /\ wire = NoPayload
  /\ building = NoBuilder /\ handled = 0
  /\ current = 1 /\ serving = 0
  /\ abort = FALSE /\ late = FALSE
  /\ result = NoResult

Fail(err) ==
  /\ pc' = "done"
  /\ result' = [NoResult EXCEPT !.err = err]

-----------------------------------------------------------------------------
(* The client, up to the raw call.                                          *)

\* validate, ensure_ready_for_logical_lookup, lookup_deadline.
Begin ==
  /\ pc = "begin"
  /\ IF Len(keys) > MaxItems THEN Fail("Overflow") /\ UNCHANGED state
     ELSE IF abort THEN Fail("Aborted") /\ state' = "Broken"
     ELSE pc' = "plan" /\ UNCHANGED <<state, result>>
  /\ UNCHANGED <<caller, locals, granted, buffer, raws, wire, server, current, abort, late>>

Rest == SubSeq(keys, start + 1, Len(keys))

\* The number of keys the next request carries, 0 for the code's Overflow
\* unless nothing is left.
NextCount == IF kind = "cgroups" THEN CgroupsNextRequestCount(Rest, granted)
                                 ELSE AppsNextRequestCount(Len(Rest), granted)
OneItemSize == IF kind = "cgroups" THEN CgroupsRequestSize(<<Rest[1]>>)
                                   ELSE AppsRequestSize(1)
Planned == Rest = <<>> \/ NextCount > 0

Plan ==
  /\ pc = "plan"
  /\ Planned
  /\ asked' = NextCount
  /\ pc' = "send"
  /\ UNCHANGED <<caller, state, start, raw, generation, subcalls, granted, buffer, raws,
                 wire, server, current, abort, late, result>>

\* Mutant: any reconnection counts as a larger grant.
EnlargeAnyway ==
  /\ pc = "plan"
  /\ ~Planned /\ ~abort
  /\ OneItemSize <= Proposal
  /\ granted' \in Grants
  /\ UNCHANGED <<caller, pc, state, locals, buffer, raws, wire, server, current,
                 abort, late, result>>

\* ensure_lookup_request_capacity on a key that does not fit: give up when it
\* never will, else connect again and insist on a larger grant.
Enlarge ==
  /\ pc = "plan"
  /\ ~Planned
  /\ abort \/ OneItemSize <= Proposal
  /\ \/ /\ abort
        /\ Fail("Aborted") /\ state' = "Broken" /\ UNCHANGED granted
     \/ /\ ~abort   \* try_connect failed
        /\ Fail("Overflow") /\ state' = "Disconnected" /\ UNCHANGED granted
     \/ /\ ~abort
        /\ \E g \in Grants :
             /\ granted' = g
             /\ IF g <= granted \/ g < OneItemSize
                THEN Fail("Overflow") /\ state' = "Broken"
                ELSE UNCHANGED <<pc, state, result>>
  /\ UNCHANGED <<caller, locals, buffer, raws, wire, server, current, abort, late>>

\* A cgroup path no request can carry is answered locally; a pid never is.
TooLong ==
  /\ pc = "plan"
  /\ ~Planned /\ ~abort
  /\ OneItemSize > Proposal
  /\ IF kind = "apps" THEN Fail("Overflow") /\ UNCHANGED <<start, raw>>
     ELSE IF SourceStringInvalid(Rest[1]) THEN Fail("BadLayout") /\ UNCHANGED <<start, raw>>
     ELSE /\ raw' = Append(raw, NonKnownItem("cgroups", "oversized", Rest[1]))
          /\ start' = start + 1
          /\ UNCHANGED <<pc, result>>
  /\ UNCHANGED <<caller, state, asked, generation, subcalls, granted, buffer, raws, wire,
                 server, current, abort, late>>

Asked == SubSeq(keys, start + 1, start + asked)

\* The request, lookup_remaining_timeout, and the count of subcalls.
SendUpTo(limit) ==
  /\ pc = "send"
  /\ IF kind = "cgroups" /\ \E i \in DOMAIN Asked : SourceStringInvalid(Asked[i])
     THEN Fail("BadLayout") /\ UNCHANGED <<wire, subcalls, raws>>
     ELSE IF abort THEN Fail("Aborted") /\ UNCHANGED <<wire, subcalls, raws>>
     ELSE IF late THEN Fail("Timeout") /\ UNCHANGED <<wire, subcalls, raws>>
     ELSE IF subcalls + 1 > limit
          THEN Fail("Overflow") /\ UNCHANGED <<wire, subcalls, raws>>
     ELSE /\ wire' = IF kind = "cgroups" THEN EncodeCgroupsRequest(Asked)
                                         ELSE EncodeAppsRequest(Asked)
          /\ subcalls' = subcalls + 1
          /\ retried' = FALSE /\ overflows' = 0
          /\ pc' = "serve"
          /\ UNCHANGED result
  /\ UNCHANGED <<caller, state, start, asked, raw, generation, granted, buffer, server,
                 current, abort, late>>

Send == SendUpTo(MaxSubcalls)

-----------------------------------------------------------------------------
(* The server: dispatch, the handler's adds, and the reply.                 *)

\* transport_send_request_buf accepts the request.
Sendable == wire.len <= granted

\* The handler answers from the generation it finds.
Serve ==
  /\ pc = "serve" /\ Sendable
  /\ building' = IF kind = "cgroups" THEN DispatchCgroups(wire, buffer)
                                     ELSE DispatchApps(wire, buffer)
  /\ handled' = 0
  /\ serving' = current
  /\ pc' = "handle"
  /\ UNCHANGED <<caller, state, locals, granted, buffer, raws, wire, current,
                 abort, late, result>>

ReadKey == RequestItem(wire, handled + 1)

\* A handler may ignore that an add failed and go on with the next key.
Handle ==
  /\ pc = "handle"
  /\ handled < building.max
  /\ building' = LET a == Answers[serving][ReadKey.id]
                 IN  IF kind = "cgroups" THEN AddCgroups(building, ReadKey, a)
                                         ELSE AddApps(building, ReadKey, a)
  /\ handled' = handled + 1
  /\ UNCHANGED <<caller, pc, state, locals, granted, buffer, raws, wire, serving,
                 current, abort, late, result>>

\* A raw call that failed: its last error, on a broken connection.
RawFail(err) == Fail(err) /\ state' = "Broken"

\* No new session: the raw call returns the error it had.
Unconnected(err) ==
  Fail(err) /\ state' = "Disconnected" /\ UNCHANGED <<granted, buffer, raws>>

\* The raw call sends once more, in a new session.  The server there may have
\* been started in between, with limits of its own.
Again(err) ==
  \/ Unconnected(err)
  \/ /\ pc' = "serve"
     /\ retried' = TRUE
     /\ granted' \in Grants
     /\ buffer' \in {buffer} \cup Buffers
     /\ UNCHANGED <<overflows, state, result>>

\* Another session after an Overflow, where the raw call goes on when a limit
\* has grown.  noted: so may have the response limit the client asks for.
Outgrown(larger, noted) ==
  LET grown == granted' > granted \/ buffer' > buffer
      spent == overflows + 1 >= OverflowLimit
  IN \/ Unconnected("Overflow")
     \/ /\ granted' \in Grants
        /\ buffer' \in {larger} \cup Buffers
        /\ \/ /\ (grown \/ noted) /\ ~spent
              /\ pc' = "serve" /\ overflows' = overflows + 1
              /\ UNCHANGED <<retried, state, result>>
           \/ (~grown \/ spent) /\ RawFail("Overflow") /\ UNCHANGED raws

\* The session a retry got grants less than the request was planned for.
Unsendable ==
  /\ pc = "serve" /\ ~Sendable
  /\ \/ retried /\ RawFail("Overflow") /\ UNCHANGED <<granted, buffer, raws>>
     \/ ~retried /\ Outgrown(buffer, FALSE)
  /\ UNCHANGED <<caller, locals, wire, server, current, abort, late>>

\* The handler returns, fine or not.  LIMIT_EXCEEDED makes both sides grow and
\* the client send again, except in the second attempt after another failure;
\* every other error status is tried once more.
Reply ==
  /\ pc = "handle"
  /\ \E fine \in BOOLEAN :
       /\ fine => handled = building.max
       /\ LET error == HandlerDone(building, fine) IN
          \/ /\ error = "none"
             /\ wire' = FinishLookupResponse(building.dir, building.cells,
                                             building.data, serving)
             /\ pc' = "accept"
             /\ UNCHANGED <<state, granted, buffer, raws, result>>
          \/ /\ error = "Overflow" /\ ~retried
             /\ Outgrown(Min({2 * buffer, Ceiling}), TRUE)
             /\ UNCHANGED wire
          \/ error \notin {"none", "Overflow"} /\ ~retried /\ Again("BadLayout") /\ UNCHANGED wire
          \/ /\ error # "none" /\ retried
             /\ RawFail(IF error = "Overflow" THEN error ELSE "BadLayout")
             /\ UNCHANGED <<granted, buffer, raws, wire>>
  /\ UNCHANGED <<caller, locals, server, current, abort, late>>

\* The connection breaks in the middle of a raw call.
Lost ==
  /\ pc \in {"serve", "handle"} /\ Sendable
  /\ \/ retried /\ RawFail("Truncated") /\ UNCHANGED <<granted, buffer, raws>>
     \/ ~retried /\ Again("Truncated")
  /\ UNCHANGED <<caller, locals, wire, server, current, abort, late>>

GiveUp ==
  /\ pc \in {"serve", "handle"}
  /\ \/ late /\ Sendable /\ RawFail("Timeout")
     \/ abort /\ RawFail("Aborted")
  /\ UNCHANGED <<caller, locals, granted, buffer, raws, wire, server, current, abort, late>>

-----------------------------------------------------------------------------
(* The client, after the raw call.                                          *)

Item(i)   == RawItem(wire, i)
Count     == Len(wire.dir)
\* The first marked item, or one past the last.
FirstMark == Min({i \in 1..Count : Item(i).status = "exceeded"} \cup {Count + 1})

\* Mutant: whatever generation the later pieces come from.
WellFormedAnyGeneration ==
  /\ DecodeResponse(kind, wire)
  /\ Count = asked
  /\ \A i \in 1..Count : Item(i).key = Asked[i]
  /\ \A i \in FirstMark..Count : Item(i).status = "exceeded"
  /\ FirstMark # 1 \/ Count = 0

\* Everything the client insists on before it uses a piece.  The last conjunct
\* is the Overflow of a response that settles nothing.
WellFormed ==
  /\ DecodeResponse(kind, wire)
  /\ generation \in {0, wire.generation}
  /\ Count = asked
  /\ \A i \in 1..Count : Item(i).key = Asked[i]
  /\ \A i \in FirstMark..Count : Item(i).status = "exceeded"
  /\ FirstMark # 1 \/ Count = 0

Settled == raw \o [i \in 1..FirstMark - 1 |-> Item(i)]

Accept ==
  /\ pc = "accept" /\ WellFormed
  /\ generation' = wire.generation
  /\ raw' = Settled
  /\ start' = start + FirstMark - 1
  /\ start' < Len(keys)
  /\ pc' = "plan"
  /\ UNCHANGED <<caller, state, asked, subcalls, granted, buffer, raws, wire, server,
                 current, abort, late, result>>

\* The last piece: stitch, unless the pieces do not add up.
Stitch ==
  /\ pc = "accept" /\ WellFormed
  /\ start + FirstMark - 1 >= Len(keys)
  /\ IF Len(Settled) # Len(keys) THEN Fail("BadItemCount")
     ELSE IF RawResponseSize(Settled) > MaxBytes THEN Fail("Overflow")
     ELSE /\ pc' = "done"
          /\ result' = [err |-> "none",
                        response |-> EncodeRawResponse(Settled, wire.generation)]
  /\ generation' = wire.generation
  /\ raw' = Settled
  /\ start' = start + Count
  /\ UNCHANGED <<caller, state, asked, subcalls, granted, buffer, raws, wire, server,
                 current, abort, late>>

Reject ==
  /\ pc = "accept" /\ ~WellFormed
  /\ Fail("Rejected")
  /\ UNCHANGED <<caller, state, locals, granted, buffer, raws, wire, server,
                 current, abort, late>>

-----------------------------------------------------------------------------
Step == Lost \/ GiveUp \/ Unsendable \/ Begin \/ Plan \/ Enlarge \/ TooLong \/ Send \/ Serve
          \/ Handle \/ Reply \/ Accept \/ Stitch \/ Reject

\* The service's own updates, the caller's other threads, and the clock.
Publish ==
  /\ current < Generations
  /\ current' = current + 1
  /\ UNCHANGED <<caller, pc, state, locals, granted, buffer, raws, wire, server,
                 abort, late, result>>

Abort ==
  /\ pc # "done" /\ ~abort /\ abort' = TRUE
  /\ UNCHANGED <<caller, pc, state, locals, granted, buffer, raws, wire, server,
                 current, late, result>>

Expire ==
  /\ pc \notin {"begin", "done"} /\ ~late /\ late' = TRUE
  /\ UNCHANGED <<caller, pc, state, locals, granted, buffer, raws, wire, server,
                 current, abort, result>>

Next == Step \/ Publish \/ Abort \/ Expire

Spec == Init /\ [][Next]_vars

\* The threads of client and server go on; nothing is assumed of the rest.
FairSpec == Spec /\ WF_vars(Step)

-----------------------------------------------------------------------------
(* The caller's keys, the call's place and its counters are in their sets,  *)
(* the subcalls and retries within their limits (LookupLogicalConfig).      *)
TypeOK ==
  /\ kind \in Kinds /\ keys \in KeySeqs(kind)
  /\ pc \in {"begin", "plan", "send", "serve", "handle", "accept", "done"}
  /\ state \in {"Ready", "Disconnected", "Broken"}
  /\ {start, asked} \subseteq 0..Len(keys) /\ Len(raw) <= Len(keys)
  /\ {generation, current, serving} \subseteq 0..Generations
  /\ subcalls \in 0..MaxSubcalls
  /\ granted \in Grants /\ buffer \in Nat
  /\ {retried, abort, late} \subseteq BOOLEAN /\ overflows < OverflowLimit
  /\ handled \in 0..building.max
  /\ Len(building.dir) <= building.max

(* A call that succeeds returns one item per key, in the caller's order,    *)
(* none of them left to retry, and each is what one published generation    *)
(* says of that key or a final OVERSIZED_ITEM: cutting, retrying, stitching *)
(* and re-encoding lose, repeat, swap and mix nothing, whatever the service *)
(* publishes in between (call_cgroups_lookup, call_apps_lookup).            *)
AnswersEveryKey ==
  (pc = "done" /\ result.err = "none") =>
    LET r == result.response
    IN  /\ DecodeResponse(kind, r)
        /\ Len(r.dir) = Len(keys)
        /\ \A i \in DOMAIN keys :
             LET item == RawItem(r, i)
                 a    == Answers[r.generation][keys[i].id]
             IN  /\ item.key = keys[i]
                 /\ \/ item = KnownItem(kind, keys[i], a)
                    \/ item = NonKnownItem(kind, "oversized", keys[i])

(* A response of this server is refused only for its generation: what the   *)
(* builders write the decoders accept, the marked items are a suffix, and   *)
(* the first item is always settled, so that the Overflow for a piece that  *)
(* settles nothing is never returned (note_item_overflow, decode).          *)
RefusedForGenerationOnly ==
  pc = "accept" => WellFormed \/ generation \notin {0, wire.generation}

(* Once a builder holds a known item it never runs out of room: the bytes   *)
(* kept back for the marks of the items that follow, padding included, are  *)
(* enough (payload_exceeded_suffix_fits and its fixed-size variant).  The   *)
(* variables keep their types.                                              *)
ReserveHolds ==
  /\ TypeOK
  /\ (\E c \in building.cells : c.item.status = "known") => building.error # "Overflow"

(* The binary search over aligned path sizes finds the longest prefix that  *)
(* fits: no shorter piece than necessary, and none the session refuses      *)
(* (cgroups_lookup_next_request_count).                                     *)
LongestPrefix ==
  (pc = "plan" /\ kind = "cgroups") =>
    NextCount = Max({0} \cup {c \in 1..Len(Rest) :
                              EncodeCgroupsRequest(SubSeq(Rest, 1, c)).len <= granted})

(* Every logical lookup returns, whatever is published, aborted, lost or    *)
(* outgrown meanwhile: each raw call settles a key or ends the call.        *)
CallReturns == <>(pc = "done")
=============================================================================
