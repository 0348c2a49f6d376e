---------------------------- MODULE CallChannel ----------------------------
(***************************************************************************)
(* What a session promises its two users, whatever carries it: a request    *)
(* the client submits is taken by the server at most once and unchanged,    *)
(* the server answers the request it took, and the client collects that     *)
(* answer and no other before it may submit again.  Either side may walk    *)
(* away at any time, which is a behaviour that takes no further step.       *)
(***************************************************************************)
EXTENDS Integers

CONSTANT Answers     \* statuses an answer can carry

VARIABLES
  made,      \* requests submitted
  returned,  \* calls that returned successfully
  inbox,     \* the request submitted and not yet taken
  held,      \* the request taken and not yet answered
  reply,     \* the answer given and not yet collected
  result     \* what the last successful call returned

vars == <<made, returned, inbox, held, reply, result>>

NoMsg == [id |-> 0, status |-> "none"]

Init ==
  /\ made = 0 /\ returned = 0
  /\ inbox = NoMsg /\ held = NoMsg /\ reply = NoMsg /\ result = NoMsg

Submit ==
  /\ made = returned
  /\ made' = made + 1
  /\ inbox' = [id |-> made + 1, status |-> "request"]
  /\ UNCHANGED <<returned, held, reply, result>>

Take ==
  /\ inbox # NoMsg
  /\ held' = inbox
  /\ inbox' = NoMsg
  /\ UNCHANGED <<made, returned, reply, result>>

Answer(st) ==
  /\ held # NoMsg
  /\ reply' = [id |-> held.id, status |-> st]
  /\ held' = NoMsg
  /\ UNCHANGED <<made, returned, inbox, result>>

\* An answer other than "ok" is never collected: the client hangs up on it.
Collect ==
  /\ reply # NoMsg
  /\ reply.status = "ok"
  /\ result' = reply
  /\ reply' = NoMsg
  /\ returned' = returned + 1
  /\ UNCHANGED <<made, inbox, held>>

Next == Submit \/ Take \/ (\E st \in Answers : Answer(st)) \/ Collect

Spec == Init /\ [][Next]_vars
=============================================================================
