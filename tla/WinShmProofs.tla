---------------------------- MODULE WinShmProofs ----------------------------
(* Proofs about WinShm for every number of calls, both profiles and both    *)
(* kinds of receive.                                                         *)
EXTENDS WinShm, TLAPS

USE ZenonT(60)

USE MaxCallsAssumption
USE DEF Actor, Peer, Answers, Places, Sending, Ended, region, locals, level2,
        config, Goto

Message == [id : -1..MaxCalls, status : Answers \cup {"request", "none", "torn"}]

\* Places of a thread that looks for a message, and of one that has seen it.
Looking == {"load_waiting", "set_event", "ready", "again", "spin", "arm", "recheck",
            "disarm_late", "wait", "woken", "check", "look", "last", "busy"}
Reading == {"disarm_found", "load_len", "read", "read_rest"}
Gone    == {"leave", "close_event"} \cup Ended

Types ==
  /\ area \in [Actor -> Message] /\ len \in [Actor -> Message]
  /\ out \in [Actor -> Message] /\ rx \in [Actor -> Message]
  /\ seq \in [Actor -> Nat] /\ rcvd \in [Actor -> Nat]
  /\ outcome \in [Actor -> {"none", "disconnected"}]
  /\ pc \in [Actor -> Places]
  /\ calls \in 0..MaxCalls /\ result \in Message

Flags ==
  /\ profile \in Profiles /\ timed \in BOOLEAN
  /\ waiting \in [Actor -> BOOLEAN] /\ closed \in [Actor -> BOOLEAN]
  /\ event \in [Actor -> BOOLEAN] /\ overdue \in [Actor -> BOOLEAN]

\* Messages received: a receive that reports Disconnected counts one it did
\* not get.
Got(a) == IF outcome[a] = "disconnected" THEN rcvd[a] - 1 ELSE rcvd[a]

\* A thread is told Disconnected only after its peer has set its flag, and a
\* thread that has set its flag sends nothing more.
Closing ==
  \A a \in Actor :
    /\ closed[a] => pc[a] \in {"close_event"} \cup Ended
    /\ pc[a] = "last" => closed[Peer(a)]
    /\ outcome[a] = "disconnected" =>
         pc[a] \in Gone /\ closed[Peer(a)] /\ seq[Peer(a)] < rcvd[a]

\* The counters form a chain, and each thread's place says where it is in it.
Turns ==
  LET c == pc["client"]
      s == pc["server"]
  IN
  /\ calls <= Got("client")
  /\ Got("client") <= seq["server"]
  /\ seq["server"] <= Got("server")
  /\ Got("server") <= seq["client"]
  /\ seq["client"] <= calls + 1
  /\ seq["client"] <= MaxCalls
  /\ c \in {"idle"} \cup Sending => seq["client"] = calls
  /\ c \in Sending => calls < MaxCalls
  /\ c \in Looking \cup Reading => seq["client"] = calls + 1 /\ rcvd["client"] = calls
  /\ c \in Reading => seq["server"] = calls + 1
  /\ c = "received" => rcvd["client"] = calls + 1
  /\ s \in Looking \cup Reading => seq["server"] = rcvd["server"]
  /\ s \in Reading => seq["client"] = rcvd["server"] + 1
  /\ s \in {"received"} \cup Sending => rcvd["server"] = seq["server"] + 1
  /\ s # "idle"

\* Every published message that has not been consumed is whole in its area,
\* and every copy agrees with what it is a copy of.
Contents ==
  /\ \A a \in Actor :
       /\ pc[a] \in {"store_len", "publish"} => area[a] = out[a]
       /\ pc[a] = "publish" => len[a] = out[a]
       /\ pc[a] \in {"read", "read_rest"} => rx[a] = len[Peer(a)]
  /\ pc["client"] \in Sending =>
       out["client"] = [id |-> calls + 1, status |-> "request"]
  /\ seq["client"] > Got("server") =>
       /\ len["client"] = area["client"]
       /\ area["client"] = [id |-> seq["client"], status |-> "request"]
  /\ Got("server") > seq["server"] =>
       rx["server"] = [id |-> Got("server"), status |-> "request"]
  /\ pc["server"] \in Sending =>
       out["server"].id = rcvd["server"] /\ out["server"].status \in Answers
  /\ seq["server"] > calls =>
       /\ len["server"] = area["server"]
       /\ area["server"].id = seq["server"]
       /\ area["server"].status \in Answers
  /\ pc["client"] = "received" => rx["client"] = area["server"]

\* The inductive invariant.
Inv == Types /\ Flags /\ Closing /\ Turns /\ Contents

-----------------------------------------------------------------------------
(* Setting one flag of a function of flags gives a function of flags.       *)
LEMMA SetFlag ==
  ASSUME NEW f \in [Actor -> BOOLEAN], NEW a \in Actor, NEW b \in BOOLEAN
  PROVE  [f EXCEPT ![a] = b] \in [Actor -> BOOLEAN]
BY Zenon

(* The flags of the region and of the threads stay Boolean.                 *)
LEMMA FlagsStep == Flags /\ [Next]_vars => Flags'
<1> SUFFICES ASSUME Flags, [Next]_vars PROVE Flags'
  OBVIOUS
<1> TRUE \in BOOLEAN /\ FALSE \in BOOLEAN
  BY Zenon
<1> USE DEF Flags
<1>1. CASE UNCHANGED vars
  BY <1>1 DEF vars
<1>2. ASSUME NEW a \in Actor, Send(a) PROVE Flags'
  <2>1. CASE Copy(a) BY <2>1 DEF Copy
  <2>2. CASE Copied(a) BY <2>2 DEF Copied
  <2>3. CASE StoreLen(a) BY <2>3 DEF StoreLen
  <2>4. CASE Publish(a) BY <2>4 DEF Publish
  <2>5. CASE LoadWaiting(a) BY <2>5 DEF LoadWaiting
  <2>6. CASE SetEvent(a) BY SetFlag, <2>6 DEF SetEvent
  <2> QED BY <1>2, <2>1, <2>2, <2>3, <2>4, <2>5, <2>6 DEF Send
<1>3. ASSUME NEW a \in Actor, Receive(a) PROVE Flags'
  <2>1. CASE Spin(a) BY <2>1 DEF Spin
  <2>2. CASE Arm(a) BY SetFlag, <2>2 DEF Arm, SetWaiting
  <2>3. CASE Recheck(a) BY <2>3 DEF Recheck
  <2>4. CASE Disarm(a) BY SetFlag, <2>4 DEF Disarm, SetWaiting
  <2>5. CASE Wait(a) BY SetFlag, <2>5 DEF Wait
  <2>6. CASE Check(a) BY <2>6 DEF Check
  <2>7. CASE Look(a) BY <2>7 DEF Look
  <2>8. CASE Last(a) BY <2>8 DEF Last
  <2>9. CASE Busy(a) BY <2>9 DEF Busy
  <2>10. CASE LoadLen(a) BY <2>10 DEF LoadLen
  <2>11. CASE Read(a) BY <2>11 DEF Read
  <2>12. CASE ReadRest(a) BY <2>12 DEF ReadRest
  <2> QED BY <1>3, <2>1, <2>2, <2>3, <2>4, <2>5, <2>6, <2>7, <2>8, <2>9,
             <2>10, <2>11, <2>12 DEF Receive
<1>4. ASSUME NEW a \in Actor, TimedOut(a) PROVE Flags'
  BY SetFlag, <1>4 DEF TimedOut
<1>5. ASSUME NEW a \in Actor, Detach(a) PROVE Flags'
  BY SetFlag, <1>5 DEF Detach, Leave, CloseEvent
<1>6. ASSUME NEW a \in Actor, Crash(a) PROVE Flags'
  BY <1>6 DEF Crash
<1>7. CASE Client \/ GiveUp \/ StartCall \/ Close \/ Server
  BY <1>7 DEF Client, ReceiveReady, WaitSlice, Return, Reject, GiveUp,
     StartCall, Close, Server, Poll, Handle
<1> QED BY <1>1, <1>2, <1>3, <1>4, <1>5, <1>6, <1>7 DEF Next

(* A thread that has not left counts exactly the messages it got.           *)
LEMMA Connected ==
  ASSUME Types, Closing, NEW a \in Actor, pc[a] \notin Gone
  PROVE  outcome[a] = "none" /\ Got(a) = rcvd[a]
BY DEF Types, Closing, Got

(* Messages, counters and places keep their types.                          *)
LEMMA TypesStep == Types /\ Closing /\ Turns /\ [Next]_vars => Types'
<1> SUFFICES ASSUME Types, Closing, Turns, [Next]_vars PROVE Types'
  OBVIOUS
<1> USE DEF Types
<1>m. Torn \in Message
  BY SMTT(60) DEF Torn, Message
<1>1. CASE UNCHANGED vars
  BY <1>1 DEF vars
<1>2. ASSUME NEW a \in Actor, Send(a) PROVE Types'
  <2>1. CASE Copy(a) BY <1>m, <2>1 DEF Copy
  <2>2. CASE Copied(a) BY <2>2 DEF Copied
  <2>3. CASE StoreLen(a) BY <2>3 DEF StoreLen
  <2>4. CASE Publish(a) BY SMTT(60), <2>4 DEF Publish, AfterSend
  <2>5. CASE LoadWaiting(a) BY <2>5 DEF LoadWaiting, AfterSend
  <2>6. CASE SetEvent(a) BY <2>6 DEF SetEvent, AfterSend
  <2> QED BY <1>2, <2>1, <2>2, <2>3, <2>4, <2>5, <2>6 DEF Send
<1>3. ASSUME NEW a \in Actor, Receive(a) PROVE Types'
  <2>1. CASE Spin(a) BY <2>1 DEF Spin
  <2>2. CASE Arm(a) BY <2>2 DEF Arm
  <2>3. CASE Recheck(a) BY <2>3 DEF Recheck
  <2>4. CASE Disarm(a) BY <2>4 DEF Disarm
  <2>5. CASE Wait(a) BY <2>5 DEF Wait
  <2>6. CASE Check(a) BY <2>6 DEF Check
  <2>7. CASE Look(a) BY <2>7 DEF Look
  <2>8. CASE Last(a) BY SMTT(60), <2>8 DEF Last, Disconnected
  <2>9. CASE Busy(a) BY <2>9 DEF Busy
  <2>10. CASE LoadLen(a) BY <2>10 DEF LoadLen
  <2>11. CASE Read(a) BY <1>m, <2>11 DEF Read, Copying
  <2>12. CASE ReadRest(a) BY SMTT(60), <1>m, <2>12 DEF ReadRest, Copying
  <2> QED BY <1>3, <2>1, <2>2, <2>3, <2>4, <2>5, <2>6, <2>7, <2>8, <2>9,
             <2>10, <2>11, <2>12 DEF Receive
<1>4. ASSUME NEW a \in Actor, TimedOut(a) \/ Detach(a) \/ Crash(a) PROVE Types'
  BY SMTT(60), <1>4 DEF TimedOut, Detach, Leave, CloseEvent, Crash
<1>5. CASE StartCall
  <2>1. [id |-> calls + 1, status |-> "request"] \in Message
    BY SMTT(60), <1>5 DEF StartCall, Message
  <2> QED BY <1>5, <2>1 DEF StartCall
<1>6. CASE Return
  <2>1. calls + 1 \in 0..MaxCalls
    BY SMTT(60), <1>6 DEF Return, Closing, Turns, Got, Gone
  <2> QED BY <1>6, <2>1 DEF Return
<1>7. CASE ReceiveReady \/ WaitSlice \/ Reject \/ GiveUp \/ Close \/ Poll
  BY SMTT(60), <1>7 DEF ReceiveReady, WaitSlice, Reject, GiveUp, Close, Poll
<1>8. ASSUME NEW st \in Answers, Handle(st) PROVE Types'
  BY SMTT(60), <1>8 DEF Handle, Message
<1> QED BY <1>1, <1>2, <1>3, <1>4, <1>5, <1>6, <1>7, <1>8 DEF Next, Client, Server

(* What Closing says of one thread.                                         *)
Shut(a) ==
  /\ closed[a] => pc[a] \in {"close_event"} \cup Ended
  /\ pc[a] = "last" => closed[Peer(a)]
  /\ outcome[a] = "disconnected" =>
       pc[a] \in Gone /\ closed[Peer(a)] /\ seq[Peer(a)] < rcvd[a]

(* Closing after a step, from the two threads.                              *)
LEMMA ShutNext ==
  ASSUME NEW a \in Actor, Shut(a)', Shut(Peer(a))' PROVE Closing'
<1>1. \A b \in Actor : Shut(b)' OBVIOUS
<1> QED BY <1>1 DEF Closing, Shut

(* A thread that is not leaving has not set its flag, so that its peer has  *)
(* not been told of it; a thread that leaves changes nothing but its flag.  *)
Working(a) ==
  /\ pc[a] \notin Gone /\ pc'[a] # "last"
  /\ pc'[Peer(a)] = pc[Peer(a)] /\ closed' = closed /\ outcome' = outcome

Leaving(a) ==
  /\ pc'[a] \in {"close_event"} \cup Ended
  /\ pc'[Peer(a)] = pc[Peer(a)]
  /\ closed[a] => closed'[a]
  /\ closed'[Peer(a)] = closed[Peer(a)]
  /\ seq' = seq /\ rcvd' = rcvd /\ outcome' = outcome

(* The step of a thread that is not leaving keeps Closing.                  *)
LEMMA WorkingKeeps ==
  ASSUME Types, Closing, NEW a \in Actor, Working(a) PROVE Closing'
<1>1. Shut(a) /\ Shut(Peer(a)) BY DEF Closing, Shut
<1>2. ~closed[a] /\ outcome[a] # "disconnected" BY <1>1 DEF Shut, Working, Gone
<1>3. Shut(a)' BY <1>2 DEF Shut, Working
<1>4. Shut(Peer(a))' BY <1>1, <1>2 DEF Shut, Working
<1> QED BY <1>3, <1>4, ShutNext

(* The step of a thread that leaves keeps Closing.                          *)
LEMMA LeavingKeeps ==
  ASSUME Types, Closing, NEW a \in Actor, Leaving(a) PROVE Closing'
<1>1. Shut(a) /\ Shut(Peer(a)) BY DEF Closing, Shut
<1>2. Shut(a)' BY <1>1 DEF Shut, Leaving, Gone
<1>3. Shut(Peer(a))' BY <1>1 DEF Shut, Leaving
<1> QED BY <1>2, <1>3, ShutNext

(* A flag once set stays set, and its owner stays away from sending.        *)
LEMMA ClosingStep == Types /\ Flags /\ Closing /\ [Next]_vars => Closing'
<1> SUFFICES ASSUME Types, Flags, Closing, [Next]_vars PROVE Closing'
  OBVIOUS
<1>t. /\ pc \in [Actor -> Places] /\ closed \in [Actor -> BOOLEAN]
      /\ seq \in [Actor -> Nat] /\ rcvd \in [Actor -> Nat]
      /\ outcome \in [Actor -> {"none", "disconnected"}]
  BY DEF Types, Flags
<1>1. CASE UNCHANGED vars
  BY <1>1 DEF vars, Closing
<1>2. ASSUME NEW a \in Actor, Send(a) PROVE Closing'
  <2>1. CASE Copy(a) \/ Copied(a) \/ StoreLen(a)
    <3>1. Working(a) BY <1>t, <2>1 DEF Copy, Copied, StoreLen, Working, Gone
    <3> QED BY <3>1, WorkingKeeps
  <2>2. CASE Publish(a) \/ LoadWaiting(a) \/ SetEvent(a)
    <3>1. Working(a)
      BY <1>t, <2>2 DEF Publish, LoadWaiting, SetEvent, AfterSend, Working, Gone
    <3> QED BY <3>1, WorkingKeeps
  <2> QED BY <1>2, <2>1, <2>2 DEF Send
<1>3. ASSUME NEW a \in Actor, Receive(a) PROVE Closing'
  <2>1. CASE Spin(a) \/ Recheck(a) \/ Check(a) \/ Busy(a)
    <3>1. Working(a) BY <1>t, <2>1 DEF Spin, Recheck, Check, Busy, Working, Gone
    <3> QED BY <3>1, WorkingKeeps
  <2>2. CASE Arm(a) \/ Wait(a)
    <3>1. Working(a) BY <1>t, <2>2 DEF Arm, Wait, Working, Gone
    <3> QED BY <3>1, WorkingKeeps
  <2>3. CASE Disarm(a)
    <3>1. Working(a) BY <1>t, <2>3 DEF Disarm, Working, Gone
    <3> QED BY <3>1, WorkingKeeps
  <2>4. CASE Look(a)
    <3>1. CASE ~closed[Peer(a)]
      <4>1. Working(a) BY <1>t, <2>4, <3>1 DEF Look, Working, Gone
      <4> QED BY <4>1, WorkingKeeps
    <3>2. CASE closed[Peer(a)]
      <4>1. /\ pc[a] = "look" /\ pc'[a] = "last" /\ pc'[Peer(a)] = pc[Peer(a)]
            /\ closed' = closed /\ outcome' = outcome /\ seq' = seq /\ rcvd' = rcvd
        BY <1>t, <2>4, <3>2 DEF Look
      <4>2. Shut(a) /\ Shut(Peer(a)) BY DEF Closing, Shut
      <4>3. Shut(a)' BY <3>2, <4>1, <4>2 DEF Shut, Gone
      <4>4. Shut(Peer(a))' BY <4>1, <4>2 DEF Shut
      <4> QED BY <4>3, <4>4, ShutNext
    <3> QED BY <3>1, <3>2
  <2>5. CASE Last(a)
    <3>1. CASE Arrived(a)
      <4>1. Working(a) BY <1>t, <2>5, <3>1 DEF Last, Working, Gone
      <4> QED BY <4>1, WorkingKeeps
    <3>2. CASE ~Arrived(a)
      <4>1. /\ pc[a] = "last" /\ pc'[a] = "leave" /\ pc'[Peer(a)] = pc[Peer(a)]
            /\ closed' = closed /\ seq' = seq
            /\ rcvd'[a] = rcvd[a] + 1 /\ rcvd'[Peer(a)] = rcvd[Peer(a)]
            /\ outcome'[Peer(a)] = outcome[Peer(a)]
        BY <1>t, <2>5, <3>2 DEF Last, Disconnected
      <4>2. Shut(a) /\ Shut(Peer(a)) BY DEF Closing, Shut
      <4>3. ~closed[a] /\ closed[Peer(a)] BY <4>1, <4>2 DEF Shut
      <4>4. seq'[Peer(a)] < rcvd'[a] BY SMTT(60), <1>t, <3>2, <4>1 DEF Arrived
      <4>5. Shut(a)' BY <4>1, <4>3, <4>4 DEF Shut, Gone
      <4>6. Shut(Peer(a))' BY <4>1, <4>2, <4>3 DEF Shut
      <4> QED BY <4>5, <4>6, ShutNext
    <3> QED BY <3>1, <3>2
  <2>6. CASE LoadLen(a) \/ Read(a) \/ ReadRest(a)
    <3>1. Working(a) BY <1>t, <2>6 DEF LoadLen, Read, ReadRest, Working, Gone
    <3> QED BY <3>1, WorkingKeeps
  <2> QED BY <1>3, <2>1, <2>2, <2>3, <2>4, <2>5, <2>6 DEF Receive
<1>4. ASSUME NEW a \in Actor, TimedOut(a) PROVE Closing'
  <2>1. Working(a) BY <1>t, <1>4 DEF TimedOut, Working, Gone
  <2> QED BY <2>1, WorkingKeeps
<1>5. ASSUME NEW a \in Actor, Detach(a) \/ Crash(a) PROVE Closing'
  <2>1. CASE Leave(a)
    <3>1. Leaving(a) BY <1>t, <2>1 DEF Leave, Leaving
    <3> QED BY <3>1, LeavingKeeps
  <2>2. CASE CloseEvent(a) \/ Crash(a)
    <3>1. Leaving(a) BY <1>t, <2>2 DEF CloseEvent, Crash, Leaving
    <3> QED BY <3>1, LeavingKeeps
  <2> QED BY <1>5, <2>1, <2>2 DEF Detach
<1>6. CASE StartCall \/ Return \/ ReceiveReady \/ WaitSlice \/ Reject \/ GiveUp \/ Close
  <2>1. Working("client")
    BY <1>t, <1>6 DEF StartCall, Return, ReceiveReady, WaitSlice, Reject, GiveUp, Close,
       Working, Gone
  <2> QED BY <2>1, WorkingKeeps
<1>7. CASE Server
  <2>1. Working("server") BY <1>t, <1>7 DEF Server, Poll, Handle, Working, Gone
  <2> QED BY <2>1, WorkingKeeps
<1> QED BY <1>1, <1>2, <1>3, <1>4, <1>5, <1>6, <1>7 DEF Next, Client

(* Where each thread stays in its stretch of the code, or leaves, and where *)
(* one that was looking finds its message, the counters keep their places.  *)
Steady(a) ==
  \/ pc'[a] = pc[a] \/ pc'[a] \in Gone
  \/ pc[a] \in Sending /\ pc'[a] \in Sending
  \/ pc[a] \in Looking /\ pc'[a] \in Looking
  \/ pc[a] \in Reading /\ pc'[a] \in Reading
  \/ pc[a] \in Looking /\ pc'[a] \in Reading /\ Arrived(a)

(* What the counters and places are, and where a disconnected thread is.     *)
Counted ==
  /\ seq \in [Actor -> Nat] /\ rcvd \in [Actor -> Nat] /\ calls \in 0..MaxCalls
  /\ pc \in [Actor -> Places] /\ outcome \in [Actor -> {"none", "disconnected"}]
  /\ \A a \in Actor : outcome[a] = "disconnected" => pc[a] \in Gone

(* Steady steps keep the chain of the counters.                             *)
LEMMA SteadyKeeps ==
  ASSUME Counted, Turns, UNCHANGED <<seq, rcvd, outcome, calls>>,
         \A a \in Actor : Steady(a)
  PROVE  Turns'
<1>1. Got("client")' = Got("client") /\ Got("server")' = Got("server")
  BY DEF Got
<1>2. \A a \in Actor :
        /\ pc'[a] \in {"idle"} \cup Sending => pc[a] \in {"idle"} \cup Sending
        /\ pc'[a] \in Sending => pc[a] \in Sending
        /\ pc'[a] \in Looking \cup Reading => pc[a] \in Looking \cup Reading
        /\ pc'[a] \in Reading => pc[a] \in Reading \/ (pc[a] \in Looking /\ Arrived(a))
        /\ pc'[a] \in {"received"} \cup Sending => pc[a] \in {"received"} \cup Sending
        /\ pc'[a] = "received" => pc[a] = "received"
        /\ pc'[a] = "idle" => pc[a] = "idle"
  <2> SUFFICES ASSUME NEW a \in Actor
      PROVE  /\ pc'[a] \in {"idle"} \cup Sending => pc[a] \in {"idle"} \cup Sending
             /\ pc'[a] \in Sending => pc[a] \in Sending
             /\ pc'[a] \in Looking \cup Reading => pc[a] \in Looking \cup Reading
             /\ pc'[a] \in Reading => pc[a] \in Reading \/ (pc[a] \in Looking /\ Arrived(a))
             /\ pc'[a] \in {"received"} \cup Sending => pc[a] \in {"received"} \cup Sending
             /\ pc'[a] = "received" => pc[a] = "received"
             /\ pc'[a] = "idle" => pc[a] = "idle"
    OBVIOUS
  <2>1. CASE pc'[a] = pc[a] BY <2>1
  <2>2. CASE pc'[a] \in Gone BY <2>2 DEF Gone, Looking, Reading
  <2>3. CASE pc[a] \in Sending /\ pc'[a] \in Sending BY <2>3 DEF Looking, Reading
  <2>4. CASE pc[a] \in Looking /\ pc'[a] \in Looking
    <3>1. pc'[a] \notin {"idle", "received"} \cup Sending \cup Reading
      BY <2>4 DEF Looking, Reading
    <3> QED BY <2>4, <3>1
  <2>5. CASE pc'[a] \in Reading /\ (pc[a] \in Reading \/ (pc[a] \in Looking /\ Arrived(a)))
    <3>1. pc'[a] \notin {"idle", "received"} \cup Sending
      BY <2>5 DEF Reading
    <3> QED BY <2>5, <3>1
  <2> QED BY <2>1, <2>2, <2>3, <2>4, <2>5 DEF Steady
<1>3. /\ pc["client"] \in Looking \cup Reading => Got("client") = rcvd["client"]
      /\ pc["server"] \in Looking \cup Reading => Got("server") = rcvd["server"]
  BY DEF Counted, Got, Gone, Looking, Reading
<1> HIDE DEF Sending
<1>4. /\ pc["client"] \in Looking /\ Arrived("client") => seq["server"] = calls + 1
      /\ pc["server"] \in Looking /\ Arrived("server") => seq["client"] = rcvd["server"] + 1
  <2> DEFINE gc == Got("client")
             gs == Got("server")
  <2>1. /\ calls <= gc /\ gc <= seq["server"] /\ seq["server"] <= gs /\ gs <= seq["client"]
        /\ seq["client"] <= calls + 1
        /\ pc["server"] \in Looking => seq["server"] = rcvd["server"]
        /\ pc["client"] \in Looking => rcvd["client"] = calls
    BY DEF Turns
  <2>2. gc \in Int /\ gs \in Int /\ seq["client"] \in Int /\ seq["server"] \in Int
        /\ rcvd["client"] \in Int /\ rcvd["server"] \in Int /\ calls \in Int
    BY SMTT(60) DEF Counted, Got
  <2> HIDE DEF gc, gs
  <2> QED BY SMTT(60), <2>1, <2>2 DEF Arrived
<1>5. pc'["server"] # "idle" BY <1>2 DEF Turns
<1> QED BY <1>1, <1>2, <1>4, <1>5 DEF Turns

(* The counters keep their chain, and each thread its place in it.          *)
LEMMA TurnsStep == Types /\ Closing /\ Turns /\ [Next]_vars => Turns'
<1> SUFFICES ASSUME Types, Closing, Turns, [Next]_vars PROVE Turns'
  OBVIOUS
<1>0. Counted
  BY DEF Types, Closing, Counted
<1>t. pc \in [Actor -> Places]
  BY DEF Types
<1>s. ASSUME NEW a \in Actor, Steady(a), pc'[Peer(a)] = pc[Peer(a)],
             UNCHANGED <<seq, rcvd, outcome, calls>>
      PROVE  Turns'
  <2>1. \A b \in Actor : Steady(b) BY <1>s DEF Steady
  <2> QED BY <1>0, <1>s, <2>1, SteadyKeeps
<1>1. CASE UNCHANGED vars
  BY <1>0, <1>1, SteadyKeeps DEF vars, Steady
<1>2. ASSUME NEW a \in Actor, Send(a) PROVE Turns'
  <2>1. CASE Copy(a) \/ Copied(a) \/ StoreLen(a)
    <3>1. Steady(a) BY <1>t, <2>1 DEF Copy, Copied, StoreLen, Steady
    <3>2. pc'[Peer(a)] = pc[Peer(a)] /\ UNCHANGED <<seq, rcvd, outcome, calls>>
      BY <1>t, <2>1 DEF Copy, Copied, StoreLen
    <3> QED BY <1>s, <3>1, <3>2
  <2>2. CASE Publish(a)
    <3>1. /\ pc[a] = "publish" /\ pc'[Peer(a)] = pc[Peer(a)]
          /\ pc'[a] \in {"load_waiting", "leave"}
                      \cup (IF a = "client" THEN {"ready"} ELSE {"again"})
          /\ seq' = [seq EXCEPT ![a] = @ + 1]
          /\ UNCHANGED <<rcvd, outcome, calls>>
      BY <1>t, <2>2 DEF Publish, AfterSend
    <3> QED BY SMTT(60), <1>0, <3>1 DEF Counted, Turns, Got, Looking, Reading, Gone
  <2>3. CASE LoadWaiting(a) \/ SetEvent(a)
    <3>1. Steady(a)
      BY <1>t, <2>3 DEF LoadWaiting, SetEvent, AfterSend, Steady, Looking, Gone
    <3>2. pc'[Peer(a)] = pc[Peer(a)] /\ UNCHANGED <<seq, rcvd, outcome, calls>>
      BY <1>t, <2>3 DEF LoadWaiting, SetEvent
    <3> QED BY <1>s, <3>1, <3>2
  <2> QED BY <1>2, <2>1, <2>2, <2>3 DEF Send
<1>3. ASSUME NEW a \in Actor, Receive(a) PROVE Turns'
  <2>1. CASE Spin(a) \/ Recheck(a) \/ Check(a) \/ Busy(a)
    <3>1. Steady(a)
      BY <1>t, <2>1 DEF Spin, Recheck, Check, Busy, Steady, Looking, Reading
    <3>2. pc'[Peer(a)] = pc[Peer(a)] /\ UNCHANGED <<seq, rcvd, outcome, calls>>
      BY <1>t, <2>1 DEF Spin, Recheck, Check, Busy
    <3> QED BY <1>s, <3>1, <3>2
  <2>2. CASE Arm(a) \/ Wait(a) \/ Look(a)
    <3>1. Steady(a) BY <1>t, <2>2 DEF Arm, Wait, Look, Steady, Looking
    <3>2. pc'[Peer(a)] = pc[Peer(a)] /\ UNCHANGED <<seq, rcvd, outcome, calls>>
      BY <1>t, <2>2 DEF Arm, Wait, Look
    <3> QED BY <1>s, <3>1, <3>2
  <2>3. CASE Disarm(a)
    <3>1. Steady(a) BY <1>t, <2>3 DEF Disarm, Steady, Looking, Reading
    <3>2. pc'[Peer(a)] = pc[Peer(a)] /\ UNCHANGED <<seq, rcvd, outcome, calls>>
      BY <1>t, <2>3 DEF Disarm
    <3> QED BY <1>s, <3>1, <3>2
  <2>4. CASE Last(a)
    <3>1. CASE Arrived(a)
      <4>1. Steady(a) BY <1>t, <2>4, <3>1 DEF Last, Steady, Looking, Reading
      <4>2. pc'[Peer(a)] = pc[Peer(a)] /\ UNCHANGED <<seq, rcvd, outcome, calls>>
        BY <1>t, <2>4, <3>1 DEF Last
      <4> QED BY <1>s, <4>1, <4>2
    <3>2. CASE ~Arrived(a)
      <4>1. /\ pc[a] = "last" /\ pc'[a] = "leave" /\ pc'[Peer(a)] = pc[Peer(a)]
            /\ rcvd' = [rcvd EXCEPT ![a] = @ + 1]
            /\ outcome' = [outcome EXCEPT ![a] = "disconnected"]
            /\ seq' = seq /\ calls' = calls
        BY <1>t, <2>4, <3>2 DEF Last, Disconnected
      <4> QED BY SMTT(60), <1>0, <4>1 DEF Counted, Turns, Got, Looking, Reading, Gone
    <3> QED BY <3>1, <3>2
  <2>5. CASE LoadLen(a) \/ Read(a)
    <3>1. Steady(a) BY <1>t, <2>5 DEF LoadLen, Read, Steady, Reading
    <3>2. pc'[Peer(a)] = pc[Peer(a)] /\ UNCHANGED <<seq, rcvd, outcome, calls>>
      BY <1>t, <2>5 DEF LoadLen, Read
    <3> QED BY <1>s, <3>1, <3>2
  <2>6. CASE ReadRest(a)
    <3>1. /\ pc[a] = "read_rest" /\ pc'[a] = "received" /\ pc'[Peer(a)] = pc[Peer(a)]
          /\ rcvd' = [rcvd EXCEPT ![a] = @ + 1]
          /\ UNCHANGED <<seq, outcome, calls>>
      BY <1>t, <2>6 DEF ReadRest
    <3> QED BY SMTT(60), <1>0, <3>1 DEF Counted, Turns, Got, Looking, Reading, Gone
  <2> QED BY <1>3, <2>1, <2>2, <2>3, <2>4, <2>5, <2>6 DEF Receive
<1>4. ASSUME NEW a \in Actor, TimedOut(a) PROVE Turns'
  <2>1. Steady(a) BY <1>t, <1>4 DEF TimedOut, Steady, Looking
  <2>2. pc'[Peer(a)] = pc[Peer(a)] /\ UNCHANGED <<seq, rcvd, outcome, calls>>
    BY <1>t, <1>4 DEF TimedOut
  <2> QED BY <1>s, <2>1, <2>2
<1>5. ASSUME NEW a \in Actor, Detach(a) \/ Crash(a) PROVE Turns'
  <2>1. Steady(a) BY <1>t, <1>5 DEF Detach, Leave, CloseEvent, Crash, Steady, Gone
  <2>2. pc'[Peer(a)] = pc[Peer(a)] /\ UNCHANGED <<seq, rcvd, outcome, calls>>
    BY <1>t, <1>5 DEF Detach, Leave, CloseEvent, Crash
  <2> QED BY <1>s, <2>1, <2>2
<1>6. CASE StartCall
  <2>1. /\ pc["client"] = "idle" /\ calls < MaxCalls
        /\ pc'["client"] = "copy" /\ pc'["server"] = pc["server"]
        /\ UNCHANGED <<seq, rcvd, outcome, calls>>
    BY <1>t, <1>6 DEF StartCall
  <2> QED BY SMTT(60), <1>0, <2>1 DEF Counted, Turns, Got, Looking, Reading
<1>7. CASE ReceiveReady \/ WaitSlice \/ Reject \/ GiveUp \/ Close
  <2>1. Steady("client")
    BY <1>t, <1>7 DEF ReceiveReady, WaitSlice, Reject, GiveUp, Close, Steady, Looking,
       Reading, Gone
  <2>2. pc'["server"] = pc["server"] /\ UNCHANGED <<seq, rcvd, outcome, calls>>
    BY <1>t, <1>7 DEF ReceiveReady, WaitSlice, Reject, GiveUp, Close
  <2> QED BY <1>s, <2>1, <2>2
<1>8. CASE Return
  <2>1. /\ pc["client"] = "received"
        /\ pc'["client"] = "idle" /\ pc'["server"] = pc["server"]
        /\ calls' = calls + 1 /\ UNCHANGED <<seq, rcvd, outcome>>
    BY <1>t, <1>8 DEF Return
  <2> QED BY SMTT(60), <1>0, <2>1 DEF Counted, Turns, Got, Looking, Reading, Gone
<1>9. CASE Server
  <2>1. CASE Poll
    <3>1. Steady("server") BY <1>t, <2>1 DEF Poll, Steady, Looking, Gone
    <3>2. pc'["client"] = pc["client"] /\ UNCHANGED <<seq, rcvd, outcome, calls>>
      BY <1>t, <2>1 DEF Poll
    <3> QED BY <1>s, <3>1, <3>2
  <2>2. ASSUME NEW st \in Answers, Handle(st) PROVE Turns'
    <3>1. /\ pc["server"] = "received" /\ pc'["server"] \in {"copy", "leave"}
          /\ pc'["client"] = pc["client"] /\ UNCHANGED <<seq, rcvd, outcome, calls>>
      BY <1>t, <2>2 DEF Handle
    <3> QED BY SMTT(60), <1>0, <3>1 DEF Counted, Turns, Got, Looking, Reading, Gone
  <2> QED BY <1>9, <2>1, <2>2 DEF Server
<1> QED BY <1>1, <1>2, <1>3, <1>4, <1>5, <1>6, <1>7, <1>8, <1>9 DEF Next, Client

(* Where a thread stands says which messages are under way.                 *)
LEMMA Standing ==
  ASSUME Types, Closing, Turns
  PROVE  /\ pc["client"] \in Sending =>
              /\ seq["client"] = calls
              /\ ~(seq["client"] > Got("server")) /\ pc["server"] \notin Reading
         /\ pc["client"] \in Reading => seq["server"] > calls
         /\ pc["client"] = "received" => seq["server"] = calls + 1 /\ seq["server"] > calls
         /\ pc["server"] \in Sending =>
              /\ Got("server") = rcvd["server"] /\ rcvd["server"] = seq["server"] + 1
              /\ Got("server") > seq["server"]
              /\ ~(seq["server"] > calls)
              /\ pc["client"] \notin Reading \cup {"received"}
         /\ pc["server"] \in Reading =>
              /\ Got("server") = rcvd["server"] /\ seq["client"] = rcvd["server"] + 1
              /\ seq["client"] > Got("server") /\ ~(Got("server") > seq["server"])
         /\ pc["server"] = "received" =>
              Got("server") = rcvd["server"] /\ Got("server") > seq["server"]
<1> DEFINE gc == Got("client")
           gs == Got("server")
<1>1. /\ seq["client"] \in Int /\ seq["server"] \in Int /\ calls \in Int
      /\ rcvd["client"] \in Int /\ rcvd["server"] \in Int
  BY SMTT(60) DEF Types
<1>2. gc \in Int /\ gs \in Int
  BY SMTT(60), <1>1 DEF Got
<1>3. \A a \in Actor : pc[a] \in {"received"} \cup Sending \cup Reading => Got(a) = rcvd[a]
  BY Connected DEF Reading, Gone
<1>4. /\ pc["client"] \in {"received"} \cup Sending \cup Reading => gc = rcvd["client"]
      /\ pc["server"] \in {"received"} \cup Sending \cup Reading => gs = rcvd["server"]
  BY <1>3
<1>5. /\ calls <= gc /\ gc <= seq["server"] /\ seq["server"] <= gs /\ gs <= seq["client"]
      /\ seq["client"] <= calls + 1
      /\ pc["client"] \in Sending => seq["client"] = calls
      /\ pc["client"] \in Reading => seq["server"] = calls + 1
      /\ pc["client"] = "received" => rcvd["client"] = calls + 1
      /\ pc["server"] \in Reading =>
           seq["server"] = rcvd["server"] /\ seq["client"] = rcvd["server"] + 1
      /\ pc["server"] \in {"received"} \cup Sending => rcvd["server"] = seq["server"] + 1
  BY DEF Turns
<1> HIDE DEF gc, gs, Sending
<1>6. /\ pc["client"] \in Sending =>
           /\ seq["client"] = calls
           /\ ~(seq["client"] > gs) /\ pc["server"] \notin Reading
      /\ pc["client"] \in Reading => seq["server"] > calls
      /\ pc["client"] = "received" => seq["server"] = calls + 1 /\ seq["server"] > calls
      /\ pc["server"] \in Sending =>
           /\ gs = rcvd["server"] /\ rcvd["server"] = seq["server"] + 1
           /\ gs > seq["server"]
           /\ ~(seq["server"] > calls)
           /\ pc["client"] \notin Reading \cup {"received"}
      /\ pc["server"] \in Reading =>
           /\ gs = rcvd["server"] /\ seq["client"] = rcvd["server"] + 1
           /\ seq["client"] > gs /\ ~(gs > seq["server"])
      /\ pc["server"] = "received" => gs = rcvd["server"] /\ gs > seq["server"]
  BY SMTT(60), <1>1, <1>2, <1>4, <1>5
<1> QED BY <1>6 DEF gs

(* The parts of Contents: the copies a thread is making, the request while  *)
(* it is sent, in its area and at the server, and the answer likewise.      *)
Partial(a) ==
  /\ pc[a] \in {"store_len", "publish"} => area[a] = out[a]
  /\ pc[a] = "publish" => len[a] = out[a]
  /\ pc[a] \in {"read", "read_rest"} => rx[a] = len[Peer(a)]

Asking == pc["client"] \in Sending =>
            out["client"] = [id |-> calls + 1, status |-> "request"]
Posted == seq["client"] > Got("server") =>
            /\ len["client"] = area["client"]
            /\ area["client"] = [id |-> seq["client"], status |-> "request"]
Held == Got("server") > seq["server"] =>
          rx["server"] = [id |-> Got("server"), status |-> "request"]
Answering == pc["server"] \in Sending =>
               out["server"].id = rcvd["server"] /\ out["server"].status \in Answers
Replied == seq["server"] > calls =>
             /\ len["server"] = area["server"]
             /\ area["server"].id = seq["server"]
             /\ area["server"].status \in Answers
Taken == pc["client"] = "received" => rx["client"] = area["server"]

(* Contents is the conjunction of its parts, now and after a step.          *)
LEMMA Parts ==
  Contents <=> /\ \A a \in Actor : Partial(a)
               /\ Asking /\ Posted /\ Held /\ Answering /\ Replied /\ Taken
BY DEF Contents, Partial, Asking, Posted, Held, Answering, Replied, Taken

(* The same after a step of thread a.                                       *)
LEMMA PartsNext ==
  ASSUME NEW a \in Actor, Partial(a)', Partial(Peer(a))',
         Asking', Posted', Held', Answering', Replied', Taken'
  PROVE  Contents'
<1>1. \A b \in Actor : Partial(b)' OBVIOUS
<1> QED BY <1>1 DEF Contents, Partial, Asking, Posted, Held, Answering, Replied, Taken

(* Steps that copy nothing and end no call; steps of a sender inside its    *)
(* area; steps of a receiver inside its buffer.                             *)
Still(a) ==
  /\ pc'[Peer(a)] = pc[Peer(a)]
  /\ pc'[a] \notin Sending \cup {"read", "read_rest", "received"}
  /\ UNCHANGED <<area, len, seq, out, rx, calls>>
  /\ rcvd'[Peer(a)] = rcvd[Peer(a)] /\ Got("server")' = Got("server")

Copies(a) ==
  /\ pc[a] \in Sending /\ pc'[a] \in Sending
  /\ pc'[Peer(a)] = pc[Peer(a)]
  /\ area'[Peer(a)] = area[Peer(a)] /\ len'[Peer(a)] = len[Peer(a)]
  /\ UNCHANGED <<seq, out, rx, calls, rcvd>> /\ Got("server")' = Got("server")

Reads(a) ==
  /\ pc[a] \in Reading /\ pc'[a] \in Reading
  /\ pc'[Peer(a)] = pc[Peer(a)] /\ rx'[Peer(a)] = rx[Peer(a)]
  /\ UNCHANGED <<area, len, seq, out, calls, rcvd>> /\ Got("server")' = Got("server")

(* A step that copies nothing leaves the messages whole.                    *)
LEMMA StillKeeps ==
  ASSUME Contents, NEW a \in Actor, Still(a)
  PROVE  Contents'
<1>0. Partial(Peer(a)) BY Parts
<1>1. Partial(a)' BY DEF Partial, Still
<1>2. Partial(Peer(a))' BY <1>0 DEF Partial, Still
<1>3. Asking' BY Parts DEF Asking, Still
<1>4. Answering'
  <2>1. CASE a = "client" BY Parts, <2>1 DEF Answering, Still
  <2>2. CASE a = "server" BY <2>2 DEF Answering, Still
  <2> QED BY <2>1, <2>2
<1>5. Taken' BY Parts DEF Taken, Still
<1>6. Posted' /\ Held' /\ Replied'
  BY Parts DEF Posted, Held, Replied, Still
<1> QED BY <1>1, <1>2, <1>3, <1>4, <1>5, <1>6, PartsNext

(* A sender's copies touch no message that is published.                    *)
LEMMA CopiesKeep ==
  ASSUME Types, Closing, Turns, Contents, NEW a \in Actor, Copies(a), Partial(a)'
  PROVE  Contents'
<1>0. Partial(Peer(a)) BY Parts
<1>1. Partial(Peer(a))'
  <2>1. pc[Peer(a)] \notin Reading BY Standing DEF Copies
  <2> QED BY <1>0, <2>1 DEF Partial, Copies, Reading
<1>3. Asking' /\ Answering'
  BY Parts DEF Asking, Answering, Copies
<1>4. Held' /\ Taken'
  BY Parts, Standing DEF Held, Taken, Copies
<1>5. Posted' /\ Replied'
  BY Parts, Standing DEF Posted, Replied, Copies
<1> QED BY <1>1, <1>3, <1>4, <1>5, PartsNext

(* A receiver's copies touch no message that is held.                       *)
LEMMA ReadsKeep ==
  ASSUME Types, Closing, Turns, Contents, NEW a \in Actor, Reads(a), Partial(a)'
  PROVE  Contents'
<1>1. Partial(Peer(a))'
  BY Parts DEF Partial, Reads
<1>3. Asking' /\ Answering'
  BY Parts DEF Asking, Answering, Reads, Reading
<1>4. Held' /\ Taken'
  BY Parts, Standing DEF Held, Taken, Reads, Reading
<1>5. Posted' /\ Replied'
  BY Parts DEF Posted, Replied, Reads
<1> QED BY <1>1, <1>3, <1>4, <1>5, PartsNext

(* A number is not above itself.                                            *)
LEMMA Irreflexive == \A n \in Nat : ~(n > n)
BY SMTT(60)

(* Messages stay whole from the store of their sequence word until they are *)
(* consumed.                                                                *)
LEMMA ContentsStep ==
  Types /\ Closing /\ Turns /\ Contents /\ [Next]_vars => Contents'
<1> SUFFICES ASSUME Types, Closing, Turns, Contents, [Next]_vars PROVE Contents'
  OBVIOUS
<1>t. /\ pc \in [Actor -> Places]
      /\ seq \in [Actor -> Nat] /\ rcvd \in [Actor -> Nat]
      /\ area \in [Actor -> Message] /\ len \in [Actor -> Message]
      /\ out \in [Actor -> Message] /\ rx \in [Actor -> Message]
      /\ outcome \in [Actor -> {"none", "disconnected"}]
  BY DEF Types
<1>p. /\ \A a \in Actor : Partial(a)
      /\ Asking /\ Posted /\ Held /\ Answering /\ Replied /\ Taken
  BY Parts
<1>g. ASSUME rcvd' = rcvd, outcome' = outcome PROVE Got("server")' = Got("server")
  BY <1>g DEF Got
<1>s. ASSUME NEW a \in Actor, NEW p \in Places, Goto(a, p),
             p \notin Sending \cup {"read", "read_rest", "received"},
             UNCHANGED <<area, len, seq, rcvd, out, rx, outcome, calls>>
      PROVE  Contents'
  <2>1. Still(a) BY <1>t, <1>s, <1>g DEF Still
  <2> QED BY <2>1, StillKeeps
<1>1. CASE UNCHANGED vars
  BY <1>1 DEF vars, Contents, Got
<1>2. ASSUME NEW a \in Actor, Send(a) PROVE Contents'
  <2>1. CASE Copy(a)
    <3>1. Copies(a) BY <1>t, <1>g, <2>1 DEF Copy, Copies
    <3>2. Partial(a)' BY <1>t, <2>1 DEF Copy, Partial
    <3> QED BY <3>1, <3>2, CopiesKeep
  <2>2. CASE Copied(a)
    <3>1. Copies(a) BY <1>t, <1>g, <2>2 DEF Copied, Copies
    <3>2. Partial(a)' BY <1>t, <1>p, <2>2 DEF Copied, Partial
    <3> QED BY <3>1, <3>2, CopiesKeep
  <2>3. CASE StoreLen(a)
    <3>1. Copies(a) BY <1>t, <1>g, <2>3 DEF StoreLen, Copies
    <3>2. Partial(a)' BY <1>t, <1>p, <2>3 DEF StoreLen, Partial
    <3> QED BY <3>1, <3>2, CopiesKeep
  <2>4. CASE Publish(a)
    <3>1. /\ pc[a] = "publish" /\ pc'[Peer(a)] = pc[Peer(a)]
          /\ pc'[a] \in {"load_waiting", "ready", "again", "leave"}
          /\ seq'[a] = seq[a] + 1 /\ seq'[Peer(a)] = seq[Peer(a)]
          /\ UNCHANGED <<area, len, rcvd, out, rx, calls, outcome>>
      BY <1>t, <2>4 DEF Publish, AfterSend
    <3>g. Got("server")' = Got("server")
      BY <1>g, <3>1
    <3>2. area[a] = out[a] /\ len[a] = area[a]
      BY <1>p, <3>1 DEF Partial
    <3>3. Partial(a)' BY <3>1 DEF Partial
    <3>4. Partial(Peer(a))' BY <1>p, <3>1 DEF Partial
    <3>5. Asking' /\ Answering' /\ Taken'
      BY <1>p, <3>1 DEF Asking, Answering, Taken
    <3>6. Posted'
      <4>1. CASE a = "client"
        BY <1>p, <3>1, <3>2, <4>1, Standing DEF Posted, Asking
      <4>2. CASE a = "server" BY <1>p, <3>1, <3>g, <4>2 DEF Posted
      <4> QED BY <4>1, <4>2
    <3>7. Held'
      <4>1. CASE a = "client" BY <1>p, <3>1, <3>g, <4>1 DEF Held
      <4>2. CASE a = "server"
        <5>1. Got("server")' = seq'["server"] /\ Got("server")' \in Nat
          BY <1>t, <3>1, <3>g, <4>2, Standing
        <5> QED BY <5>1, Irreflexive DEF Held
      <4> QED BY <4>1, <4>2
    <3>8. Replied'
      <4>1. CASE a = "client" BY <1>p, <3>1, <4>1 DEF Replied
      <4>2. CASE a = "server"
        BY <1>p, <3>1, <3>2, <4>2, Standing DEF Replied, Answering
      <4> QED BY <4>1, <4>2
    <3> QED BY <3>3, <3>4, <3>5, <3>6, <3>7, <3>8, PartsNext
  <2>5. CASE LoadWaiting(a) \/ SetEvent(a)
    <3>1. UNCHANGED <<area, len, seq, rcvd, out, rx, outcome, calls>>
      BY <2>5 DEF LoadWaiting, SetEvent
    <3>2. \E p \in Places \ (Sending \cup {"read", "read_rest", "received"}) : Goto(a, p)
      BY <2>5 DEF LoadWaiting, SetEvent, AfterSend
    <3> QED BY <1>s, <3>1, <3>2
  <2> QED BY <1>2, <2>1, <2>2, <2>3, <2>4, <2>5 DEF Send
<1>3. ASSUME NEW a \in Actor, Receive(a) PROVE Contents'
  <2>1. CASE \/ Arm(a) \/ Disarm(a) \/ Wait(a) \/ Look(a)
             \/ Spin(a) \/ Recheck(a) \/ Check(a) \/ Busy(a)
    <3>1. UNCHANGED <<area, len, seq, rcvd, out, rx, outcome, calls>>
      BY <2>1 DEF Arm, Disarm, Wait, Look, Spin, Recheck, Check, Busy
    <3>2. \E p \in Places \ (Sending \cup {"read", "read_rest", "received"}) : Goto(a, p)
      BY <2>1 DEF Arm, Disarm, Wait, Look, Spin, Recheck, Check, Busy
    <3> QED BY <1>s, <3>1, <3>2
  <2>2. CASE Last(a)
    <3>1. CASE Arrived(a)
      <4>1. Goto(a, "load_len") /\ UNCHANGED <<area, len, seq, rcvd, out, rx, outcome, calls>>
        BY <2>2, <3>1 DEF Last
      <4> QED BY <1>s, <4>1
    <3>2. CASE ~Arrived(a)
      <4>1. /\ pc[a] = "last" /\ pc'[a] = "leave" /\ pc'[Peer(a)] = pc[Peer(a)]
            /\ rcvd' = [rcvd EXCEPT ![a] = @ + 1]
            /\ outcome' = [outcome EXCEPT ![a] = "disconnected"]
            /\ UNCHANGED <<area, len, seq, out, rx, calls>>
        BY <1>t, <2>2, <3>2 DEF Last, Disconnected
      <4>2. Got(a) = rcvd[a] BY <4>1, Connected DEF Gone
      <4>3. Got("server")' = Got("server")
        BY SMTT(60), <1>t, <4>1, <4>2 DEF Got
      <4>4. rcvd'[Peer(a)] = rcvd[Peer(a)] BY <1>t, <4>1
      <4>5. Still(a) BY <4>1, <4>3, <4>4 DEF Still
      <4> QED BY <4>5, StillKeeps
    <3> QED BY <3>1, <3>2
  <2>w. pc[a] \in Reading => area[Peer(a)] = len[Peer(a)]
    BY <1>p, Standing DEF Posted, Replied
  <2>3. CASE LoadLen(a)
    <3>1. Reads(a) BY <1>t, <1>g, <2>3 DEF LoadLen, Reads, Reading
    <3>2. Partial(a)' BY <1>t, <2>3 DEF LoadLen, Partial
    <3> QED BY <3>1, <3>2, ReadsKeep
  <2>4. CASE Read(a)
    <3>1. rx' = rx
      BY <1>t, <1>p, <2>4, <2>w DEF Read, Copying, Partial, Reading
    <3>2. Reads(a) BY <1>t, <1>g, <2>4, <3>1 DEF Read, Reads, Reading
    <3>3. Partial(a)' BY <1>t, <1>p, <2>4, <3>1 DEF Read, Partial
    <3> QED BY <3>2, <3>3, ReadsKeep
  <2>5. CASE ReadRest(a)
    <3>0. rx' = rx /\ rx[a] = area[Peer(a)]
      BY <1>t, <1>p, <2>5, <2>w DEF ReadRest, Copying, Partial, Reading
    <3>1. /\ pc[a] = "read_rest" /\ pc'[a] = "received" /\ pc'[Peer(a)] = pc[Peer(a)]
          /\ rcvd'[a] = rcvd[a] + 1 /\ rcvd'[Peer(a)] = rcvd[Peer(a)]
          /\ UNCHANGED <<area, len, seq, out, rx, calls, outcome>>
      BY <1>t, <2>5, <3>0 DEF ReadRest
    <3>g. outcome[a] = "none" BY <3>1, Connected DEF Gone
    <3>2. Partial(a)' BY <3>1 DEF Partial
    <3>3. Partial(Peer(a))' BY <1>p, <3>1 DEF Partial
    <3>4. Taken' BY <1>p, <3>0, <3>1 DEF Taken
    <3>5. Replied' BY <1>p, <3>1 DEF Replied
    <3>6. CASE a = "client"
      <4>1. Got("server")' = Got("server") BY <3>1, <3>6 DEF Got
      <4>2. Asking' /\ Answering' BY <1>p, <3>1, <3>6 DEF Asking, Answering
      <4>3. Posted' /\ Held' BY <1>p, <3>1, <4>1 DEF Posted, Held
      <4> QED BY <3>2, <3>3, <3>4, <3>5, <4>2, <4>3, PartsNext
    <3>7. CASE a = "server"
      <4>1. Got("server")' = seq["client"] /\ seq["client"] \in Nat
        BY <1>t, <3>1, <3>g, <3>7, Standing DEF Got, Reading
      <4>2. Asking' /\ Answering' BY <1>p, <3>1, <3>7 DEF Asking, Answering
      <4>3. Posted' BY <3>1, <4>1, Irreflexive DEF Posted
      <4>4. area["client"] = [id |-> seq["client"], status |-> "request"]
        BY <1>p, <3>1, <3>7, Standing DEF Posted, Reading
      <4>5. Held' BY <3>0, <3>1, <3>7, <4>1, <4>4 DEF Held
      <4> QED BY <3>2, <3>3, <3>4, <3>5, <4>2, <4>3, <4>5, PartsNext
    <3> QED BY <3>6, <3>7
  <2> QED BY <1>3, <2>1, <2>2, <2>3, <2>4, <2>5 DEF Receive
<1>4. ASSUME NEW a \in Actor, TimedOut(a) \/ Detach(a) \/ Crash(a) PROVE Contents'
  <2>1. UNCHANGED <<area, len, seq, rcvd, out, rx, outcome, calls>>
    BY <1>4 DEF TimedOut, Detach, Leave, CloseEvent, Crash
  <2>2. \E p \in Places \ (Sending \cup {"read", "read_rest", "received"}) : Goto(a, p)
    BY <1>4 DEF TimedOut, Detach, Leave, CloseEvent, Crash
  <2> QED BY <1>s, <2>1, <2>2
<1>5. CASE StartCall
  <2>1. /\ pc'["client"] = "copy" /\ pc'["server"] = pc["server"]
        /\ out'["client"] = [id |-> calls + 1, status |-> "request"]
        /\ out'["server"] = out["server"]
        /\ UNCHANGED <<area, len, seq, rcvd, rx, calls, outcome>>
    BY <1>t, <1>5 DEF StartCall
  <2>2. Got("server")' = Got("server") BY <1>g, <2>1
  <2>3. Partial("client")' BY <2>1 DEF Partial
  <2>4. Partial("server")' BY <1>p, <2>1 DEF Partial
  <2>5. Asking' /\ Answering' /\ Taken'
    BY <1>p, <2>1 DEF Asking, Answering, Taken
  <2>6. Posted' /\ Held' /\ Replied'
    BY <1>p, <2>1, <2>2 DEF Posted, Held, Replied
  <2> QED BY <2>3, <2>4, <2>5, <2>6, PartsNext
<1>6. CASE ReceiveReady \/ WaitSlice \/ Reject \/ GiveUp \/ Close \/ Poll
  <2>1. UNCHANGED <<area, len, seq, rcvd, out, rx, outcome, calls>>
    BY <1>6 DEF ReceiveReady, WaitSlice, Reject, GiveUp, Close, Poll
  <2>2. \E a \in Actor, p \in Places \ (Sending \cup {"read", "read_rest", "received"}) :
          Goto(a, p)
    BY <1>6 DEF ReceiveReady, WaitSlice, Reject, GiveUp, Close, Poll
  <2> QED BY <1>s, <2>1, <2>2
<1>7. CASE Return
  <2>1. /\ pc["client"] = "received"
        /\ pc'["client"] = "idle" /\ pc'["server"] = pc["server"]
        /\ calls' = calls + 1
        /\ UNCHANGED <<area, len, seq, rcvd, out, rx, outcome>>
    BY <1>t, <1>7 DEF Return
  <2>2. Got("server")' = Got("server") BY <1>g, <2>1
  <2>3. Partial("client")' BY <2>1 DEF Partial
  <2>4. Partial("server")' BY <1>p, <2>1 DEF Partial
  <2>5. Asking' /\ Answering' /\ Taken'
    BY <1>p, <2>1 DEF Asking, Answering, Taken
  <2>6. Posted' /\ Held'
    BY <1>p, <2>1, <2>2 DEF Posted, Held
  <2>7. Replied'
    BY <1>t, <2>1, Standing, Irreflexive DEF Replied
  <2> QED BY <2>3, <2>4, <2>5, <2>6, <2>7, PartsNext
<1>8. ASSUME NEW st \in Answers, Handle(st) PROVE Contents'
  <2>1. CASE rx["server"].status # "request"
    <3>1. Goto("server", "leave") /\ UNCHANGED <<area, len, seq, rcvd, out, rx, outcome, calls>>
      BY <1>8, <2>1 DEF Handle
    <3> QED BY <1>s, <3>1
  <2>2. CASE rx["server"].status = "request"
    <3>1. /\ pc["server"] = "received"
          /\ pc'["server"] = "copy" /\ pc'["client"] = pc["client"]
          /\ out'["server"] = [id |-> rx["server"].id, status |-> st]
          /\ out'["client"] = out["client"]
          /\ UNCHANGED <<area, len, seq, rcvd, rx, calls, outcome>>
      BY <1>t, <1>8, <2>2 DEF Handle
    <3>g. Got("server")' = Got("server") BY <1>g, <3>1
    <3>2. Partial("server")' BY <3>1 DEF Partial
    <3>3. Partial("client")' BY <1>p, <3>1 DEF Partial
    <3>4. rx["server"] = [id |-> rcvd["server"], status |-> "request"]
      BY <1>p, <3>1, Standing DEF Held
    <3>5. out'["server"].id = rcvd'["server"] /\ out'["server"].status \in Answers
      BY SMTT(60), <3>1, <3>4
    <3>6. Asking' /\ Answering' /\ Taken'
      BY <1>p, <3>1, <3>5 DEF Asking, Answering, Taken
    <3>7. Posted' /\ Held' /\ Replied'
      BY <1>p, <3>1, <3>g DEF Posted, Held, Replied
    <3> QED BY <3>2, <3>3, <3>6, <3>7, PartsNext
  <2> QED BY <2>1, <2>2
<1> QED BY <1>1, <1>2, <1>3, <1>4, <1>5, <1>6, <1>7, <1>8
        DEF Next, Client, Server

-----------------------------------------------------------------------------
(* The inductive invariant holds: flags, counters, places and messages of   *)
(* the two threads stay in step.                                            *)
THEOREM Inductive == Spec => []Inv
<1>1. Init => Inv
  <2> SUFFICES ASSUME Init PROVE Inv
    OBVIOUS
  <2>1. Types
    <3>1. NoMsg \in Message BY SMTT(60) DEF NoMsg, Message
    <3> QED BY SMTT(60), <3>1 DEF Init, Types
  <2>2. Flags BY DEF Init, Flags
  <2>3. Closing BY DEF Init, Closing
  <2>4. Turns BY SMTT(60) DEF Init, Turns, Got, Looking, Reading
  <2>5. Contents BY SMTT(60) DEF Init, Contents, Got
  <2> QED BY <2>1, <2>2, <2>3, <2>4, <2>5 DEF Inv
<1>2. Inv /\ [Next]_vars => Inv'
  BY TypesStep, FlagsStep, ClosingStep, TurnsStep, ContentsStep DEF Inv
<1> QED BY <1>1, <1>2, PTL DEF Spec

(* A side that is told Disconnected has been given every message its peer   *)
(* published before it closed (the second look of receive), for any number  *)
(* of calls and any interleaving of the two threads and their crashes.      *)
THEOREM DisconnectIsDrained == Spec => []DrainedBeforeDisconnect
<1>1. Inv => DrainedBeforeDisconnect
  <2> SUFFICES ASSUME Inv PROVE DrainedBeforeDisconnect
    OBVIOUS
  <2>1. Types /\ Flags /\ Closing /\ Turns
    BY DEF Inv
  <2>2. \A a \in Actor : outcome[a] = "disconnected" => seq[Peer(a)] < rcvd[a]
    BY <2>1 DEF Closing
  <2>3. \A a \in Actor : seq[a] \in 0..MaxCalls + 1 /\ rcvd[a] \in 0..MaxCalls + 1
    BY SMTT(60), <2>1 DEF Types, Turns, Got
  <2>4. {seq, rcvd} \subseteq [Actor -> 0..MaxCalls + 1]
    BY <2>1, <2>3 DEF Types
  <2>5. {waiting, closed, event, overdue} \subseteq [Actor -> BOOLEAN]
    BY <2>1 DEF Flags
  <2>6. {area, len, out, rx} \subseteq [Actor -> Message]
    BY <2>1 DEF Types
  <2>7. profile \in Profiles /\ timed \in BOOLEAN
    BY <2>1 DEF Flags
  <2>8. TypeOK
    BY <2>1, <2>4, <2>5, <2>6, <2>7 DEF TypeOK, Types, Message
  <2> QED BY <2>2, <2>8 DEF DrainedBeforeDisconnect
<1> QED BY <1>1, Inductive, PTL

(* The Windows shared memory session implements CallChannel in both         *)
(* profiles: every step of the two threads is a step of the abstract        *)
(* channel or leaves it unchanged.                                          *)
THEOREM SessionRefinesChannel == Spec => ImplementsCallChannel
<1>1. Init => Channel!Init
  BY SMTT(60) DEF Init, Channel!Init, NoMsg, Channel!NoMsg, Arrived
<1>2. Inv /\ [Next]_vars => [Channel!Next]_Channel!vars
  <2> SUFFICES ASSUME Inv, [Next]_vars PROVE [Channel!Next]_Channel!vars
    OBVIOUS
  <2>a. Types /\ Closing /\ Turns /\ Contents
    BY DEF Inv
  <2>b. /\ seq \in [Actor -> Nat] /\ rcvd \in [Actor -> Nat] /\ calls \in Nat
        /\ area \in [Actor -> Message] /\ rx \in [Actor -> Message]
        /\ outcome \in [Actor -> {"none", "disconnected"}]
    BY SMTT(60), <2>a DEF Types
  <2>k. ASSUME UNCHANGED <<area, seq, rcvd, rx, outcome, calls, result>>
        PROVE  UNCHANGED Channel!vars
    BY <2>k DEF Channel!vars, Arrived
  <2> USE DEF Arrived, Channel!vars, NoMsg
  <2>1. CASE UNCHANGED vars
    BY <2>1, <2>k DEF vars
  <2>2. ASSUME NEW a \in Actor, Send(a) PROVE [Channel!Next]_Channel!vars
    <3>1. CASE StoreLen(a) \/ LoadWaiting(a) \/ SetEvent(a)
      BY <3>1, <2>k DEF StoreLen, LoadWaiting, SetEvent
    <3>2. CASE Copy(a) \/ Copied(a)
      <4>1. UNCHANGED <<seq, rcvd, rx, outcome, calls, result>>
        BY <3>2 DEF Copy, Copied
      <4>2. CASE a = "client"
        <5>1. ~Arrived("server") /\ area'["server"] = area["server"]
          BY SMTT(60), <2>a, <2>b, <3>2, <4>2 DEF Copy, Copied, Turns, Got
        <5> QED BY <4>1, <5>1
      <4>3. CASE a = "server"
        <5>1. ~(seq["server"] > calls) /\ area'["client"] = area["client"]
          BY SMTT(60), <2>a, <2>b, <3>2, <4>3 DEF Copy, Copied, Turns, Got, Closing, Gone
        <5> QED BY <4>1, <5>1
      <4> QED BY <4>2, <4>3
    <3>3. CASE Publish("client")
      <4>1. /\ seq' = [seq EXCEPT !["client"] = @ + 1]
            /\ UNCHANGED <<area, rcvd, rx, outcome, calls, result>>
        BY <3>3 DEF Publish
      <4>2. seq["client"] = calls /\ ~Arrived("server")
        BY SMTT(60), <2>a, <2>b, <3>3 DEF Publish, Turns, Got
      <4>3. seq["client"] + 1 >= rcvd["server"] + 1
        BY SMTT(60), <2>a, <2>b, <3>3 DEF Publish, Turns, Got, Closing
      <4>4. area["client"] = [id |-> calls + 1, status |-> "request"]
        BY <2>a, <3>3 DEF Publish, Contents
      <4>5. Channel!Submit
        BY <2>b, <4>1, <4>2, <4>3, <4>4 DEF Channel!Submit
      <4> QED BY <4>5 DEF Channel!Next
    <3>4. CASE Publish("server")
      <4> DEFINE st == area["server"].status
      <4>1. /\ seq' = [seq EXCEPT !["server"] = @ + 1]
            /\ UNCHANGED <<area, rcvd, rx, outcome, calls, result>>
        BY <3>4 DEF Publish
      <4>0. pc["server"] = "publish" /\ outcome["server"] = "none" /\ Got("server") = rcvd["server"]
        BY <2>a, <3>4, Connected DEF Publish, Gone
      <4>2. rcvd["server"] = seq["server"] + 1 /\ seq["server"] = calls
        BY SMTT(60), <2>a, <2>b, <4>0 DEF Turns, Got
      <4>3. area["server"] = [id |-> rcvd["server"], status |-> st]
        BY <2>a, <2>b, <4>0 DEF Contents, Message
      <4>4. rx["server"] = [id |-> rcvd["server"], status |-> "request"]
        BY SMTT(60), <2>a, <2>b, <4>0, <4>2 DEF Contents
      <4>5. st \in Answers
        BY <2>a, <4>0 DEF Contents
      <4> HIDE DEF st
      <4>6. Channel!Answer(st)
        BY SMTT(60), <2>b, <4>0, <4>1, <4>2, <4>3, <4>4 DEF Channel!Answer, Channel!NoMsg
      <4> QED BY <4>5, <4>6 DEF Channel!Next
    <3> QED BY <2>2, <3>1, <3>2, <3>3, <3>4 DEF Send
  <2>3. ASSUME NEW a \in Actor, Receive(a) PROVE [Channel!Next]_Channel!vars
    <3>1. CASE \/ Spin(a) \/ Arm(a) \/ Recheck(a) \/ Disarm(a) \/ Wait(a)
               \/ Check(a) \/ Look(a) \/ Busy(a)
      BY <3>1, <2>k DEF Spin, Arm, Recheck, Disarm, Wait, Check, Look, Busy
    <3>2. CASE Last(a)
      <4>1. CASE Arrived(a)
        BY <3>2, <4>1, <2>k DEF Last
      <4>2. CASE ~Arrived(a)
        <5>1. /\ rcvd' = [rcvd EXCEPT ![a] = @ + 1]
              /\ outcome' = [outcome EXCEPT ![a] = "disconnected"]
              /\ UNCHANGED <<area, seq, rx, calls, result>>
          BY <3>2, <4>2 DEF Last, Disconnected
        <5>2. CASE a = "client" BY <2>b, <5>1, <5>2
        <5>3. CASE a = "server"
          <6>1. seq["server"] = rcvd["server"]
            BY <2>a, <3>2, <5>3 DEF Last, Turns, Looking
          <6> QED BY SMTT(60), <2>b, <4>2, <5>1, <5>3, <6>1
        <5> QED BY <5>2, <5>3
      <4> QED BY <4>1, <4>2
    <3>3. CASE LoadLen(a) \/ Read(a)
      <4>1. UNCHANGED <<area, seq, rcvd, outcome, calls, result>>
        BY <3>3 DEF LoadLen, Read
      <4>2. CASE a = "client"
        <5>1. rx'["server"] = rx["server"]
          BY <2>b, <3>3, <4>2 DEF LoadLen, Read, Copying
        <5> QED BY <4>1, <5>1
      <4>3. CASE a = "server"
        <5>1. seq["server"] = rcvd["server"]
          BY <2>a, <3>3, <4>3 DEF LoadLen, Read, Turns, Reading
        <5> QED BY SMTT(60), <2>b, <4>1, <5>1
      <4> QED BY <4>2, <4>3
    <3>4. CASE ReadRest("client")
      BY <2>b, <3>4 DEF ReadRest, Copying
    <3>5. CASE ReadRest("server")
      <4>0. pc["server"] = "read_rest" /\ outcome["server"] = "none"
            /\ Got("server") = rcvd["server"]
        BY <2>a, <3>5, Connected DEF ReadRest, Gone
      <4>1. seq["server"] = rcvd["server"] /\ seq["client"] = rcvd["server"] + 1
        BY <2>a, <4>0 DEF Turns, Reading
      <4>2. /\ area["client"] = [id |-> seq["client"], status |-> "request"]
            /\ rx["server"] = area["client"]
        BY SMTT(60), <2>a, <2>b, <4>0, <4>1 DEF Contents
      <4>3. /\ rcvd' = [rcvd EXCEPT !["server"] = @ + 1]
            /\ rx'["server"] = area["client"]
            /\ UNCHANGED <<area, seq, outcome, calls, result>>
        BY <2>b, <3>5, <4>2 DEF ReadRest, Copying
      <4>4. Channel!Take
        BY SMTT(60), <2>b, <4>0, <4>1, <4>2, <4>3 DEF Channel!Take, Channel!NoMsg
      <4> QED BY <4>4 DEF Channel!Next
    <3> QED BY <2>3, <3>1, <3>2, <3>3, <3>4, <3>5 DEF Receive
  <2>4. ASSUME NEW a \in Actor, TimedOut(a) \/ Detach(a) \/ Crash(a)
        PROVE  [Channel!Next]_Channel!vars
    BY <2>4, <2>k DEF TimedOut, Detach, Leave, CloseEvent, Crash
  <2>5. CASE StartCall \/ ReceiveReady \/ WaitSlice \/ Reject \/ GiveUp \/ Close
    BY <2>5, <2>k DEF StartCall, ReceiveReady, WaitSlice, Reject, GiveUp, Close
  <2>6. CASE Return
    <3>1. /\ calls' = calls + 1
          /\ result' = rx["client"]
          /\ UNCHANGED <<area, seq, rcvd, rx, outcome>>
      BY <2>6 DEF Return
    <3>0. pc["client"] = "received" /\ Got("client") = rcvd["client"]
      BY <2>a, <2>6, Connected DEF Return, Gone
    <3>2. seq["server"] = calls + 1
      BY SMTT(60), <2>a, <2>b, <3>0 DEF Turns, Got
    <3>3. rx["client"] = area["server"]
      BY <2>a, <3>0 DEF Contents
    <3>4. area["server"].status = "ok"
      BY <2>6, <3>3 DEF Return, Accepted
    <3>5. area["server"] # [id |-> 0, status |-> "none"]
      BY SMTT(60), <3>4
    <3>6. Channel!Collect
      BY SMTT(60), <2>b, <3>1, <3>2, <3>3, <3>4, <3>5 DEF Channel!Collect, Channel!NoMsg
    <3> QED BY <3>6 DEF Channel!Next
  <2>7. CASE Server
    BY <2>7, <2>k DEF Server, Poll, Handle
  <2> QED BY <2>1, <2>2, <2>3, <2>4, <2>5, <2>6, <2>7 DEF Next, Client
<1> QED BY <1>1, <1>2, Inductive, PTL DEF Spec, ImplementsCallChannel, Channel!Spec
=============================================================================
