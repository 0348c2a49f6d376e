-------------------------- MODULE ShmSessionProofs --------------------------
(* Proofs about ShmSession for every SigMod >= 3, every number of calls and *)
(* both kinds of receive.                                                    *)
EXTENDS ShmSession, TLAPS

USE ZenonT(60)

USE SigModAssumption, MaxCallsAssumption
USE DEF Actor, Peer, Answers, Errors, Places, Sending, Notifying, Waiting,
        Reading, Ended, region, buffer, locals, level2, Goto

(* The initial region and thread state have their types.                    *)
LEMMA TypeInit == Init => TypeOK
<1>1. NoMsg \in Message
  BY DEF NoMsg, Message
<1> SUFFICES ASSUME Init PROVE TypeOK
  OBVIOUS
<1>2. pc \in [Actor -> Places]
  BY DEF Init
<1>3. sig \in [Actor -> 0..(SigMod - 1)] /\ sigVal \in [Actor -> 0..(SigMod - 1)]
  BY SMTT(60) DEF Init
<1>4. /\ seq \in [Actor -> Nat] /\ sent \in [Actor -> Nat]
      /\ rcvd \in [Actor -> Nat] /\ calls \in Nat
  BY DEF Init
<1>5. /\ lo \in [Actor -> Message] /\ hi \in [Actor -> Message]
      /\ len \in [Actor -> Message] /\ out \in [Actor -> Message]
      /\ rxLen \in [Actor -> Message] /\ rxLo \in [Actor -> Message]
      /\ rxHi \in [Actor -> Message] /\ result \in Message
  BY <1>1 DEF Init
<1>6. running \in BOOLEAN /\ expired \in BOOLEAN /\ timed \in BOOLEAN
  BY DEF Init
<1> QED BY <1>2, <1>3, <1>4, <1>5, <1>6 DEF TypeOK

(* Every step of either thread keeps the types: in particular the signal    *)
(* words stay within their modulus when fetch_add wraps them.               *)
LEMMA TypeStep == TypeOK /\ [Next]_vars => TypeOK'
<1> SUFFICES ASSUME TypeOK, [Next]_vars PROVE TypeOK'
  OBVIOUS
<1> USE DEF TypeOK
<1>1. CASE UNCHANGED vars
  BY <1>1 DEF vars
<1>2. ASSUME NEW a \in Actor, Send(a) PROVE TypeOK'
  <2>1. CASE CopyLo(a) BY <2>1 DEF CopyLo
  <2>2. CASE CopyHi(a) BY <2>2 DEF CopyHi
  <2>3. CASE StoreLen(a) BY <2>3 DEF StoreLen
  <2>4. CASE Publish(a) BY SMTT(60), <2>4 DEF Publish
  <2>5. CASE Signal(a) BY SMTT(60), <2>5 DEF Signal, NextSignal
  <2>6. CASE Wake(a) BY SMTT(60), <2>6 DEF Wake, AfterSend
  <2> QED BY <1>2, <2>1, <2>2, <2>3, <2>4, <2>5, <2>6 DEF Send
<1>3. ASSUME NEW a \in Actor, Receive(a) PROVE TypeOK'
  <2>1. CASE Spin(a) BY <2>1 DEF Spin
  <2>2. CASE LoadSig(a) BY <2>2 DEF LoadSig
  <2>3. CASE LoadSeq(a) BY <2>3 DEF LoadSeq
  <2>4. CASE FutexWait(a) BY <2>4 DEF FutexWait
  <2>5. CASE TimedOut(a) BY <2>5 DEF TimedOut
  <2>6. CASE LoadLen(a) BY <2>6 DEF LoadLen
  <2>7. CASE ReadLo(a) BY <2>7 DEF ReadLo
  <2>8. CASE ReadHi(a) BY SMTT(60), <2>8 DEF ReadHi
  <2> QED BY <1>3, <2>1, <2>2, <2>3, <2>4, <2>5, <2>6, <2>7, <2>8 DEF Receive
<1>4. ASSUME NEW a \in Actor, Interrupted(a) \/ Crash(a) PROVE TypeOK'
  BY SMTT(60), <1>4 DEF Interrupted, Crash
<1>5. CASE Client
  <2>1. CASE StartCall
    <3>1. [id |-> calls + 1, status |-> "request"] \in Message
      BY SMTT(60) DEF Message
    <3> QED BY <2>1, <3>1 DEF StartCall
  <2>2. CASE WaitSlice BY <2>2 DEF WaitSlice
  <2>3. CASE Return BY SMTT(60), <2>3 DEF Return
  <2>4. CASE Reject BY <2>4 DEF Reject
  <2>5. CASE Close BY <2>5 DEF Close
  <2> QED BY <1>5, <2>1, <2>2, <2>3, <2>4, <2>5 DEF Client
<1>6. CASE Server
  <2>1. CASE Poll BY <2>1 DEF Poll
  <2>2. ASSUME NEW st \in Answers, Handle(st) PROVE TypeOK'
    BY SMTT(60), <2>2 DEF Handle, Message
  <2> QED BY <1>6, <2>1, <2>2 DEF Server
<1>7. CASE Expire \/ Stop
  BY <1>7 DEF Expire, Stop
<1> QED BY <1>1, <1>2, <1>3, <1>4, <1>5, <1>6, <1>7 DEF Next

(* The counters keep their chain, and each thread its place in it.          *)
LEMMA TurnsStep == TypeOK /\ Turns /\ [Next]_vars => Turns'
<1> SUFFICES ASSUME TypeOK, Turns, [Next]_vars PROVE Turns'
  OBVIOUS
<1>0. /\ seq \in [Actor -> Nat] /\ rcvd \in [Actor -> Nat] /\ calls \in Nat
      /\ pc \in [Actor -> Places]
  BY DEF TypeOK
<1> USE <1>0 DEF Turns
<1>1. CASE UNCHANGED vars
  BY <1>1 DEF vars
<1>2. ASSUME NEW a \in Actor, Send(a) PROVE Turns'
  <2>1. CASE CopyLo(a) \/ CopyHi(a) \/ StoreLen(a) \/ Signal(a)
    BY SMTT(60), <2>1 DEF CopyLo, CopyHi, StoreLen, Signal
  <2>2. CASE Publish(a)
    BY SMTT(60), <2>2 DEF Publish
  <2>3. CASE Wake(a)
    BY <2>3 DEF Wake, AfterSend
  <2> QED BY <1>2, <2>1, <2>2, <2>3 DEF Send
<1>3. ASSUME NEW a \in Actor, Receive(a) PROVE Turns'
  <2>1. CASE Spin(a) \/ LoadSeq(a)
    BY SMTT(60), <2>1 DEF Spin, LoadSeq, Arrived
  <2>2. CASE LoadSig(a) \/ FutexWait(a) \/ TimedOut(a)
    BY SMTT(60), <2>2 DEF LoadSig, FutexWait, TimedOut
  <2>3. CASE LoadLen(a) \/ ReadLo(a)
    BY SMTT(60), <2>3 DEF LoadLen, ReadLo
  <2>4. CASE ReadHi(a)
    BY SMTT(60), <2>4 DEF ReadHi
  <2> QED BY <1>3, <2>1, <2>2, <2>3, <2>4 DEF Receive
<1>4. ASSUME NEW a \in Actor, Interrupted(a) \/ Crash(a) PROVE Turns'
  BY SMTT(60), <1>4 DEF Interrupted, Crash
<1>5. CASE Client
  <2>1. CASE StartCall \/ WaitSlice
    BY SMTT(60), <2>1 DEF StartCall, WaitSlice
  <2>2. CASE Return
    BY SMTT(60), <2>2 DEF Return
  <2>3. CASE Reject \/ Close
    BY SMTT(60), <2>3 DEF Reject, Close
  <2> QED BY <1>5, <2>1, <2>2, <2>3 DEF Client
<1>6. CASE Server
  BY SMTT(60), <1>6 DEF Server, Poll, Handle
<1>7. CASE Expire \/ Stop
  BY SMTT(60), <1>7 DEF Expire, Stop
<1> QED BY <1>1, <1>2, <1>3, <1>4, <1>5, <1>6, <1>7 DEF Next

(* Where the threads stand decides which messages are under way, so that a  *)
(* copy in and a copy out of one area exclude each other.                   *)
LEMMA Standing ==
  ASSUME TypeOK, Turns
  PROVE  /\ pc["client"] \in Sending =>
              /\ seq["client"] = calls
              /\ ~(seq["client"] > rcvd["server"]) /\ pc["server"] \notin Reading
         /\ pc["client"] \in Reading => seq["server"] > calls
         /\ pc["client"] = "received" => seq["server"] = calls + 1 /\ seq["server"] > calls
         /\ pc["server"] \in Sending =>
              /\ rcvd["server"] = seq["server"] + 1
              /\ rcvd["server"] > seq["server"]
              /\ ~(seq["server"] > calls)
              /\ pc["client"] \notin Reading \cup {"received"}
         /\ pc["server"] \in Reading =>
              /\ seq["client"] = rcvd["server"] + 1
              /\ seq["client"] > rcvd["server"] /\ ~(rcvd["server"] > seq["server"])
         /\ pc["server"] = "received" => rcvd["server"] > seq["server"]
<1>1. /\ seq \in [Actor -> Nat] /\ rcvd \in [Actor -> Nat] /\ calls \in Nat
      /\ pc \in [Actor -> Places]
  BY DEF TypeOK
<1> QED BY SMTT(60), <1>1 DEF Turns

(* The parts of Contents: the copies a thread is making, the request while  *)
(* it is sent, in its area and at the server, and the answer likewise.      *)
Partial(a) ==
  /\ pc[a] \in {"copy_hi", "store_len", "publish"} => lo[a] = out[a]
  /\ pc[a] \in {"store_len", "publish"} => hi[a] = out[a]
  /\ pc[a] = "publish" => len[a] = out[a]
  /\ pc[a] \in {"read_lo", "read_hi"} => rxLen[a] = len[Peer(a)]
  /\ pc[a] = "read_hi" => rxLo[a] = lo[Peer(a)]

Asking == pc["client"] \in Sending =>
            out["client"] = [id |-> calls + 1, status |-> "request"]
Posted == seq["client"] > rcvd["server"] =>
            /\ Whole("client")
            /\ lo["client"] = [id |-> seq["client"], status |-> "request"]
Held == rcvd["server"] > seq["server"] =>
          /\ rxLo["server"] = [id |-> rcvd["server"], status |-> "request"]
          /\ rxHi["server"] = rxLo["server"]
          /\ rxLen["server"] = rxLo["server"]
Answering == pc["server"] \in Sending =>
               out["server"].id = rcvd["server"] /\ out["server"].status \in Answers
Replied == seq["server"] > calls =>
             /\ Whole("server")
             /\ lo["server"].id = seq["server"]
             /\ lo["server"].status \in Answers
Taken == pc["client"] = "received" =>
           /\ rxLo["client"] = lo["server"]
           /\ rxHi["client"] = rxLo["client"]
           /\ rxLen["client"] = rxLo["client"]

(* Contents is the conjunction of its parts.                                *)
LEMMA Parts ==
  Contents <=> /\ \A a \in Actor : Partial(a)
               /\ Asking /\ Posted /\ Held /\ Answering /\ Replied /\ Taken
BY DEF Contents, Partial, Asking, Posted, Held, Answering, Replied, Taken

(* The same after a step.                                                   *)
LEMMA PartsNext ==
  ASSUME \A a \in Actor : Partial(a)',
         Asking', Posted', Held', Answering', Replied', Taken'
  PROVE  Contents'
BY DEF Contents, Partial, Asking, Posted, Held, Answering, Replied, Taken

(* Steps that copy nothing and end no call; steps of a sender inside its    *)
(* area; steps of a receiver inside its buffer.                             *)
Still ==
  /\ UNCHANGED <<lo, hi, len, seq, rcvd, out, rxLen, rxLo, rxHi, calls>>
  /\ \A a \in Actor : pc'[a] # pc[a] =>
       pc'[a] \notin Sending \cup Reading \cup {"received"} \/ pc'[a] = "load_len"

Copies(a) ==
  /\ pc[a] \in Sending /\ pc'[a] \in Sending
  /\ pc'[Peer(a)] = pc[Peer(a)]
  /\ lo'[Peer(a)] = lo[Peer(a)] /\ hi'[Peer(a)] = hi[Peer(a)]
  /\ len'[Peer(a)] = len[Peer(a)]
  /\ UNCHANGED <<seq, rcvd, out, rxLen, rxLo, rxHi, calls>>

Reads(a) ==
  /\ pc[a] \in Reading /\ pc'[a] \in Reading
  /\ pc'[Peer(a)] = pc[Peer(a)]
  /\ rxLen'[Peer(a)] = rxLen[Peer(a)] /\ rxLo'[Peer(a)] = rxLo[Peer(a)]
  /\ rxHi'[Peer(a)] = rxHi[Peer(a)]
  /\ UNCHANGED <<lo, hi, len, seq, rcvd, out, calls>>

(* A step that copies nothing leaves the messages whole.                    *)
LEMMA StillKeeps == Contents /\ Still => Contents'
<1> SUFFICES ASSUME Contents, Still PROVE Contents'
  OBVIOUS
<1>1. \A a \in Actor : Partial(a)'
  <2> SUFFICES ASSUME NEW a \in Actor PROVE Partial(a)'
    OBVIOUS
  <2>1. Partial(a) BY Parts
  <2> QED BY <2>1 DEF Partial, Still
<1>2. Asking' /\ Answering' /\ Taken'
  BY Parts DEF Asking, Answering, Taken, Still
<1>3. Posted' /\ Held' /\ Replied'
  BY Parts DEF Posted, Held, Replied, Still, Whole
<1> QED BY <1>1, <1>2, <1>3, PartsNext

(* A sender's copies touch no message that is published.                    *)
LEMMA CopiesKeep ==
  ASSUME TypeOK, Turns, Contents, NEW a \in Actor, Copies(a), Partial(a)'
  PROVE  Contents'
<1>0. Partial(Peer(a)) BY Parts
<1>1. Partial(Peer(a))'
  <2>1. pc[Peer(a)] \notin Reading BY Standing DEF Copies
  <2> QED BY <1>0, <2>1 DEF Partial, Copies
<1>2. \A b \in Actor : Partial(b)'
  BY <1>1
<1>3. Asking' /\ Answering'
  BY Parts DEF Asking, Answering, Copies
<1>4. Held' /\ Taken'
  BY Parts, Standing DEF Held, Taken, Copies
<1>5. Posted' /\ Replied'
  BY Parts, Standing DEF Posted, Replied, Copies, Whole
<1> QED BY <1>2, <1>3, <1>4, <1>5, PartsNext

(* A receiver's copies touch no message that is held.                       *)
LEMMA ReadsKeep ==
  ASSUME TypeOK, Turns, Contents, NEW a \in Actor, Reads(a), Partial(a)'
  PROVE  Contents'
<1>1. Partial(Peer(a))'
  BY Parts DEF Partial, Reads
<1>2. \A b \in Actor : Partial(b)'
  BY <1>1
<1>3. Asking' /\ Answering'
  BY Parts DEF Asking, Answering, Reads
<1>4. Held' /\ Taken'
  BY Parts, Standing DEF Held, Taken, Reads
<1>5. Posted' /\ Replied'
  BY Parts DEF Posted, Replied, Reads, Whole
<1> QED BY <1>2, <1>3, <1>4, <1>5, PartsNext

(* A number is not above itself.                                            *)
LEMMA Irreflexive == \A n \in Nat : ~(n > n)
BY SMTT(60)

(* Messages stay whole from the store of their sequence word until they are *)
(* consumed: no copy in or out runs while the other side writes.            *)
LEMMA ContentsStep == TypeOK /\ Turns /\ Contents /\ [Next]_vars => Contents'
<1> SUFFICES ASSUME TypeOK, Turns, Contents, [Next]_vars PROVE Contents'
  OBVIOUS
<1>t. /\ pc \in [Actor -> Places]
      /\ seq \in [Actor -> Nat] /\ rcvd \in [Actor -> Nat] /\ calls \in Nat
      /\ lo \in [Actor -> Message] /\ hi \in [Actor -> Message]
      /\ len \in [Actor -> Message] /\ out \in [Actor -> Message]
      /\ rxLen \in [Actor -> Message] /\ rxLo \in [Actor -> Message]
      /\ rxHi \in [Actor -> Message]
  BY DEF TypeOK
<1>p. /\ \A a \in Actor : Partial(a)
      /\ Asking /\ Posted /\ Held /\ Answering /\ Replied /\ Taken
  BY Parts
<1>1. CASE UNCHANGED vars
  BY <1>1, StillKeeps DEF vars, Still
<1>2. ASSUME NEW a \in Actor, Send(a) PROVE Contents'
  <2>1. CASE CopyLo(a)
    <3>1. Copies(a) BY <1>t, <2>1 DEF CopyLo, Copies
    <3>2. Partial(a)' BY <1>t, <2>1 DEF CopyLo, Partial
    <3> QED BY <3>1, <3>2, CopiesKeep
  <2>2. CASE CopyHi(a)
    <3>1. Copies(a) BY <1>t, <2>2 DEF CopyHi, Copies
    <3>2. Partial(a)' BY <1>t, <1>p, <2>2 DEF CopyHi, Partial
    <3> QED BY <3>1, <3>2, CopiesKeep
  <2>3. CASE StoreLen(a)
    <3>1. Copies(a) BY <1>t, <2>3 DEF StoreLen, Copies
    <3>2. Partial(a)' BY <1>t, <1>p, <2>3 DEF StoreLen, Partial
    <3> QED BY <3>1, <3>2, CopiesKeep
  <2>4. CASE Publish(a)
    <3>1. /\ pc[a] = "publish" /\ pc'[a] = "signal" /\ pc'[Peer(a)] = pc[Peer(a)]
          /\ seq'[a] = seq[a] + 1 /\ seq'[Peer(a)] = seq[Peer(a)]
          /\ UNCHANGED <<lo, hi, len, rcvd, out, rxLen, rxLo, rxHi, calls>>
      BY <1>t, <2>4 DEF Publish
    <3>2. lo[a] = out[a] /\ Whole(a)
      BY <1>p, <3>1 DEF Partial, Whole
    <3>3. \A b \in Actor : Partial(b)'
      <4>1. Partial(a)' BY <3>1 DEF Partial
      <4>2. Partial(Peer(a))' BY <1>p, <3>1 DEF Partial
      <4> QED BY <4>1, <4>2
    <3>4. Asking' /\ Answering' /\ Taken'
      BY <1>p, <3>1 DEF Asking, Answering, Taken
    <3>5. Posted'
      BY <1>p, <3>1, <3>2, Standing DEF Posted, Asking, Whole
    <3>6. Held'
      <4>1. CASE a = "client" BY <1>p, <3>1, <4>1 DEF Held
      <4>2. CASE a = "server"
        BY <1>t, <3>1, <4>2, Standing, Irreflexive DEF Held
      <4> QED BY <4>1, <4>2
    <3>7. Replied'
      <4>1. CASE a = "client" BY <1>p, <3>1, <4>1 DEF Replied, Whole
      <4>2. CASE a = "server"
        BY <1>p, <3>1, <3>2, <4>2, Standing DEF Replied, Answering, Whole
      <4> QED BY <4>1, <4>2
    <3> QED BY <3>3, <3>4, <3>5, <3>6, <3>7, PartsNext
  <2>5. CASE Signal(a)
    BY <1>t, <2>5, StillKeeps DEF Signal, Still
  <2>6. CASE Wake(a)
    BY <1>t, <2>6, StillKeeps DEF Wake, AfterSend, Still
  <2> QED BY <1>2, <2>1, <2>2, <2>3, <2>4, <2>5, <2>6 DEF Send
<1>3. ASSUME NEW a \in Actor, Receive(a) PROVE Contents'
  <2>1. CASE Spin(a) \/ LoadSeq(a) \/ LoadSig(a) \/ FutexWait(a) \/ TimedOut(a)
    <3>1. Still
      BY <1>t, <2>1 DEF Spin, LoadSeq, LoadSig, FutexWait, TimedOut, Still
    <3> QED BY <3>1, StillKeeps
  <2>2. CASE LoadLen(a)
    <3>1. Reads(a) BY <1>t, <2>2 DEF LoadLen, Reads
    <3>2. Partial(a)' BY <1>t, <2>2 DEF LoadLen, Partial
    <3> QED BY <3>1, <3>2, ReadsKeep
  <2>3. CASE ReadLo(a)
    <3>1. Reads(a) BY <1>t, <2>3 DEF ReadLo, Reads
    <3>2. Partial(a)' BY <1>t, <1>p, <2>3 DEF ReadLo, Partial
    <3> QED BY <3>1, <3>2, ReadsKeep
  <2>4. CASE ReadHi(a)
    <3>1. /\ pc[a] = "read_hi" /\ pc'[a] = "received" /\ pc'[Peer(a)] = pc[Peer(a)]
          /\ rcvd'[a] = rcvd[a] + 1 /\ rcvd'[Peer(a)] = rcvd[Peer(a)]
          /\ rxHi'[a] = hi[Peer(a)] /\ rxHi'[Peer(a)] = rxHi[Peer(a)]
          /\ UNCHANGED <<lo, hi, len, seq, out, rxLen, rxLo, calls>>
      BY <1>t, <2>4 DEF ReadHi
    <3>2. \A b \in Actor : Partial(b)'
      <4>1. Partial(a)' BY <3>1 DEF Partial
      <4>2. Partial(Peer(a))' BY <1>p, <3>1 DEF Partial
      <4> QED BY <4>1, <4>2
    <3>3. rxLo[a] = lo[Peer(a)] /\ rxLen[a] = len[Peer(a)]
      BY <1>p, <3>1 DEF Partial
    <3>4. Whole(Peer(a))
      BY <1>p, <3>1, Standing DEF Posted, Replied
    <3>5. Asking' /\ Answering'
      BY <1>p, <3>1 DEF Asking, Answering
    <3>6. Posted'
      <4>1. CASE a = "client" BY <1>p, <3>1, <4>1 DEF Posted, Whole
      <4>2. CASE a = "server"
        BY <1>t, <3>1, <4>2, Standing, Irreflexive DEF Posted
      <4> QED BY <4>1, <4>2
    <3>7. Held'
      <4>1. CASE a = "client" BY <1>p, <3>1, <4>1 DEF Held
      <4>2. CASE a = "server"
        BY <1>p, <3>1, <3>3, <3>4, <4>2, Standing DEF Held, Posted, Whole
      <4> QED BY <4>1, <4>2
    <3>8. Replied'
      BY <1>p, <3>1 DEF Replied, Whole
    <3>9. Taken'
      BY <1>p, <3>1, <3>3, <3>4 DEF Taken, Whole
    <3> QED BY <3>2, <3>5, <3>6, <3>7, <3>8, <3>9, PartsNext
  <2> QED BY <1>3, <2>1, <2>2, <2>3, <2>4 DEF Receive
<1>4. ASSUME NEW a \in Actor, Interrupted(a) \/ Crash(a) PROVE Contents'
  BY <1>t, <1>4, StillKeeps DEF Interrupted, Crash, Still
<1>5. CASE Client
  <2>1. CASE StartCall
    <3>1. /\ pc'["client"] = "copy_lo" /\ pc'["server"] = pc["server"]
          /\ out'["client"] = [id |-> calls + 1, status |-> "request"]
          /\ out'["server"] = out["server"]
          /\ UNCHANGED <<lo, hi, len, seq, rcvd, rxLen, rxLo, rxHi, calls>>
      BY <1>t, <2>1 DEF StartCall
    <3>2. \A b \in Actor : Partial(b)'
      <4>1. Partial("client")' BY <3>1 DEF Partial
      <4>2. Partial("server")' BY <1>p, <3>1 DEF Partial
      <4> QED BY <4>1, <4>2
    <3>3. Asking' /\ Answering' /\ Taken'
      BY <1>p, <3>1 DEF Asking, Answering, Taken
    <3>4. Posted' /\ Held' /\ Replied'
      BY <1>p, <3>1 DEF Posted, Held, Replied, Whole
    <3> QED BY <3>2, <3>3, <3>4, PartsNext
  <2>2. CASE WaitSlice \/ Reject \/ Close
    BY <1>t, <2>2, StillKeeps DEF WaitSlice, Reject, Close, Still
  <2>3. CASE Return
    <3>1. /\ pc["client"] = "received"
          /\ pc'["client"] = "idle" /\ pc'["server"] = pc["server"]
          /\ calls' = calls + 1
          /\ UNCHANGED <<lo, hi, len, seq, rcvd, out, rxLen, rxLo, rxHi>>
      BY <1>t, <2>3 DEF Return
    <3>2. \A b \in Actor : Partial(b)'
      <4>1. Partial("client")' BY <3>1 DEF Partial
      <4>2. Partial("server")' BY <1>p, <3>1 DEF Partial
      <4> QED BY <4>1, <4>2
    <3>3. Asking' /\ Answering' /\ Taken'
      BY <1>p, <3>1 DEF Asking, Answering, Taken
    <3>4. Posted' /\ Held'
      BY <1>p, <3>1 DEF Posted, Held, Whole
    <3>5. Replied'
      BY <1>t, <3>1, Standing, Irreflexive DEF Replied
    <3> QED BY <3>2, <3>3, <3>4, <3>5, PartsNext
  <2> QED BY <1>5, <2>1, <2>2, <2>3 DEF Client
<1>6. CASE Server
  <2>1. CASE Poll
    BY <1>t, <2>1, StillKeeps DEF Poll, Still
  <2>2. ASSUME NEW st \in Answers, Handle(st) PROVE Contents'
    <3>1. CASE rxLo["server"].status # "request"
      <4>1. /\ pc' = [pc EXCEPT !["server"] = "closed"]
            /\ UNCHANGED <<lo, hi, len, seq, rcvd, out, rxLen, rxLo, rxHi, calls>>
        BY <2>2, <3>1 DEF Handle
      <4> QED BY <1>t, <4>1, StillKeeps DEF Still
    <3>2. CASE rxLo["server"].status = "request"
      <4>1. /\ pc["server"] = "received"
            /\ pc'["server"] = "copy_lo" /\ pc'["client"] = pc["client"]
            /\ out'["server"] = [id |-> rxLo["server"].id, status |-> st]
            /\ out'["client"] = out["client"]
            /\ UNCHANGED <<lo, hi, len, seq, rcvd, rxLen, rxLo, rxHi, calls>>
        BY <1>t, <2>2, <3>2 DEF Handle
      <4>2. \A b \in Actor : Partial(b)'
        <5>1. Partial("server")' BY <4>1 DEF Partial
        <5>2. Partial("client")' BY <1>p, <4>1 DEF Partial
        <5> QED BY <5>1, <5>2
      <4>3. rxLo["server"] = [id |-> rcvd["server"], status |-> "request"]
        BY <1>p, <4>1, Standing DEF Held
      <4>4. out'["server"].id = rcvd'["server"] /\ out'["server"].status \in Answers
        BY SMTT(60), <4>1, <4>3
      <4>6. Asking' /\ Answering' /\ Taken'
        BY <1>p, <4>1, <4>4 DEF Asking, Answering, Taken
      <4>5. Posted' /\ Held' /\ Replied'
        BY <1>p, <4>1 DEF Posted, Held, Replied, Whole
      <4> QED BY <4>2, <4>5, <4>6, PartsNext
    <3> QED BY <3>1, <3>2
  <2> QED BY <1>6, <2>1, <2>2 DEF Server
<1>7. CASE Expire \/ Stop
  BY <1>7, StillKeeps DEF Expire, Stop, Still
<1> QED BY <1>1, <1>2, <1>3, <1>4, <1>5, <1>6, <1>7 DEF Next

(* Two signals are not enough to bring a signal word back to its old value. *)
LEMMA NextSignalFact ==
  ASSUME NEW v \in 0..(SigMod - 1)
  PROVE  /\ NextSignal(v) \in 0..(SigMod - 1)
         /\ NextSignal(v) # v
         /\ NextSignal(NextSignal(v)) # v
BY SMTT(60) DEF NextSignal

(* A sender publishes what its peer has not yet, one message ahead.         *)
LEMMA Ahead ==
  ASSUME TypeOK, Turns, NEW a \in Actor, pc[a] = "publish", seq'[a] = seq[a] + 1,
         rcvd' = rcvd
  PROVE  ~Arrived(Peer(a)) /\ Arrived(Peer(a))'
<1>1. /\ seq \in [Actor -> Nat] /\ rcvd \in [Actor -> Nat] /\ calls \in Nat
      /\ pc \in [Actor -> Places]
  BY DEF TypeOK
<1> QED BY SMTT(60), <1>1 DEF Turns, Arrived

(* Signals for one waiter.  It goes on holding when the waiter moves away   *)
(* from its wait, and when nothing it is about changes: Calm.               *)
Noticed(a) ==
  LET p    == Peer(a)
      once == NextSignal(sigVal[a])
      late == pc[p] = "signal"
  IN
  /\ (pc[a] \in {"load_seq", "wait"} /\ pc[p] # "dead" /\ ~Arrived(a)) =>
       sig[p] = sigVal[a] \/ (~late /\ sig[p] = once)
  /\ (pc[a] = "wait" /\ pc[p] # "dead" /\ Arrived(a)) =>
       \/ sig[p] = once
       \/ late /\ sig[p] = sigVal[a]
       \/ ~late /\ sig[p] = NextSignal(once)
  /\ (pc[a] = "blocked" /\ Arrived(a)) => pc[p] \in Notifying \cup {"dead"}

Away(a) == pc'[a] \notin {"load_seq", "wait", "blocked"}

Calm(a) ==
  /\ sig'[Peer(a)] = sig[Peer(a)] /\ sigVal'[a] = sigVal[a]
  /\ seq'[Peer(a)] = seq[Peer(a)] /\ rcvd'[a] = rcvd[a]
  /\ pc'[a] = pc[a] \/ Away(a)
  /\ \/ pc'[Peer(a)] = "dead"
     \/ /\ pc[Peer(a)] # "dead"
        /\ pc'[Peer(a)] = "signal" <=> pc[Peer(a)] = "signal"
        /\ pc[Peer(a)] \in Notifying /\ pc'[a] = "blocked" => pc'[Peer(a)] \in Notifying

(* A waiter away from its wait has nothing to notice.                       *)
LEMMA AwayKeeps == ASSUME NEW a \in Actor, Away(a) PROVE Noticed(a)'
BY DEF Away, Noticed

(* A step that leaves what a waiter looks at leaves it its signal.          *)
LEMMA CalmKeeps == ASSUME NEW a \in Actor, Noticed(a), Calm(a) PROVE Noticed(a)'
<1>1. CASE Away(a) BY <1>1, AwayKeeps
<1>2. CASE ~Away(a)
  <2>1. Arrived(a)' <=> Arrived(a) BY DEF Calm, Arrived
  <2> QED BY <1>2, <2>1 DEF Noticed, Calm
<1> QED BY <1>1, <1>2

(* Signals after a step, from the two waiters.                              *)
LEMMA SignalsNext ==
  ASSUME NEW a \in Actor, Noticed(a)', Noticed(Peer(a))'
  PROVE  Signals'
<1>1. \A b \in Actor : Noticed(b)' OBVIOUS
<1> QED BY <1>1 DEF Signals, Noticed

(* A waiter that goes to sleep on the value it read has missed no signal.   *)
LEMMA SignalsStep == TypeOK /\ Turns /\ Signals /\ [Next]_vars => Signals'
<1> SUFFICES ASSUME TypeOK, Turns, Signals, [Next]_vars PROVE Signals'
  OBVIOUS
<1>t. /\ seq \in [Actor -> Nat] /\ rcvd \in [Actor -> Nat]
      /\ sig \in [Actor -> 0..(SigMod - 1)]
      /\ sigVal \in [Actor -> 0..(SigMod - 1)]
      /\ pc \in [Actor -> Places]
  BY DEF TypeOK
<1>n. \A a \in Actor : Noticed(a)
  BY DEF Signals, Noticed
<1>k. ASSUME NEW a \in Actor, Away(a), Calm(Peer(a)) PROVE Signals'
  BY <1>k, <1>n, AwayKeeps, CalmKeeps, SignalsNext
<1>1. CASE UNCHANGED vars
  <2>1. \A a \in Actor : Calm(a) BY <1>1 DEF vars, Calm
  <2> QED BY <1>n, <2>1, CalmKeeps, SignalsNext
<1>2. ASSUME NEW a \in Actor, Send(a) PROVE Signals'
  <2>1. CASE CopyLo(a) \/ CopyHi(a) \/ StoreLen(a)
    <3>1. Away(a) BY <1>t, <2>1 DEF CopyLo, CopyHi, StoreLen, Away
    <3>2. Calm(Peer(a)) BY <1>t, <2>1 DEF CopyLo, CopyHi, StoreLen, Calm
    <3> QED BY <1>k, <3>1, <3>2
  <2>2. CASE Publish(a)
    <3>1. /\ pc[a] = "publish" /\ pc'[a] = "signal" /\ pc'[Peer(a)] = pc[Peer(a)]
          /\ seq'[a] = seq[a] + 1 /\ rcvd' = rcvd /\ sig' = sig /\ sigVal' = sigVal
      BY <1>t, <2>2 DEF Publish
    <3>2. Noticed(a)' BY <3>1, AwayKeeps DEF Away
    <3>3. ~Arrived(Peer(a)) /\ Arrived(Peer(a))' BY <3>1, Ahead
    <3>4. Noticed(Peer(a))' BY <1>n, <3>1, <3>3 DEF Noticed
    <3> QED BY <3>2, <3>4, SignalsNext
  <2>3. CASE Signal(a)
    <3>1. /\ pc[a] = "signal" /\ pc'[a] = "wake" /\ pc'[Peer(a)] = pc[Peer(a)]
          /\ sig'[a] = NextSignal(sig[a])
          /\ seq' = seq /\ rcvd' = rcvd /\ sigVal' = sigVal
      BY <1>t, <2>3 DEF Signal
    <3>2. Noticed(a)' BY <3>1, AwayKeeps DEF Away
    <3>3. Arrived(Peer(a))' <=> Arrived(Peer(a)) BY <3>1 DEF Arrived
    <3>4. Noticed(Peer(a))' BY <1>n, <3>1, <3>3 DEF Noticed
    <3> QED BY <3>2, <3>4, SignalsNext
  <2>4. CASE Wake(a)
    <3>1. Away(a) BY <1>t, <2>4 DEF Wake, AfterSend, Away
    <3>2. /\ pc[a] = "wake" /\ pc'[a] # "signal"
          /\ pc'[Peer(a)] = IF pc[Peer(a)] = "blocked" THEN "load_sig" ELSE pc[Peer(a)]
          /\ sig' = sig /\ sigVal' = sigVal /\ seq' = seq /\ rcvd' = rcvd
      BY <1>t, <2>4 DEF Wake, AfterSend
    <3>3. Calm(Peer(a)) BY SMTT(60), <3>2 DEF Calm, Away
    <3> QED BY <1>k, <3>1, <3>3
  <2> QED BY <1>2, <2>1, <2>2, <2>3, <2>4 DEF Send
<1>3. ASSUME NEW a \in Actor, Receive(a) PROVE Signals'
  <2>1. CASE Spin(a) \/ TimedOut(a) \/ LoadLen(a) \/ ReadLo(a) \/ ReadHi(a)
    <3>1. Away(a) BY <1>t, <2>1 DEF Spin, TimedOut, LoadLen, ReadLo, ReadHi, Away
    <3>2. Calm(Peer(a)) BY <1>t, <2>1 DEF Spin, TimedOut, LoadLen, ReadLo, ReadHi, Calm
    <3> QED BY <1>k, <3>1, <3>2
  <2>2. CASE LoadSig(a)
    <3>1. pc'[a] = "load_seq" /\ sigVal'[a] = sig'[Peer(a)] BY <1>t, <2>2 DEF LoadSig
    <3>2. Noticed(a)' BY <3>1 DEF Noticed
    <3>3. Calm(Peer(a)) BY <1>t, <2>2 DEF LoadSig, Calm
    <3> QED BY <1>n, <3>2, <3>3, CalmKeeps, SignalsNext
  <2>3. CASE LoadSeq(a)
    <3>1. /\ pc[a] = "load_seq" /\ pc'[Peer(a)] = pc[Peer(a)]
          /\ pc'[a] = IF Arrived(a) THEN "load_len" ELSE "wait"
          /\ seq' = seq /\ rcvd' = rcvd /\ sig' = sig /\ sigVal' = sigVal
      BY <1>t, <2>3 DEF LoadSeq
    <3>2. Arrived(a)' <=> Arrived(a) BY <3>1 DEF Arrived
    <3>3. Noticed(a)' BY <1>n, <3>1, <3>2 DEF Noticed
    <3>4. Calm(Peer(a)) BY <3>1 DEF Calm
    <3> QED BY <1>n, <3>3, <3>4, CalmKeeps, SignalsNext
  <2>4. CASE FutexWait(a)
    <3>1. /\ pc[a] = "wait" /\ pc'[Peer(a)] = pc[Peer(a)]
          /\ pc'[a] = IF sig[Peer(a)] = sigVal[a] THEN "blocked" ELSE "load_sig"
          /\ seq' = seq /\ rcvd' = rcvd /\ sig' = sig /\ sigVal' = sigVal
      BY <1>t, <2>4 DEF FutexWait
    <3>2. Arrived(a)' <=> Arrived(a) BY <3>1 DEF Arrived
    <3>3. sigVal[a] # NextSignal(sigVal[a]) /\ sigVal[a] # NextSignal(NextSignal(sigVal[a]))
      BY <1>t, NextSignalFact
    <3>4. Noticed(a)' BY <1>n, <3>1, <3>2, <3>3 DEF Noticed
    <3>5. Calm(Peer(a)) BY <3>1 DEF Calm
    <3> QED BY <1>n, <3>4, <3>5, CalmKeeps, SignalsNext
  <2> QED BY <1>3, <2>1, <2>2, <2>3, <2>4 DEF Receive
<1>4. ASSUME NEW a \in Actor, Interrupted(a) \/ Crash(a) PROVE Signals'
  <2>1. Away(a) BY <1>t, <1>4 DEF Interrupted, Crash, Away
  <2>2. Calm(Peer(a)) BY <1>t, <1>4 DEF Interrupted, Crash, Calm
  <2> QED BY <1>k, <2>1, <2>2
<1>5. CASE Client
  <2>1. Away("client")
    BY <1>t, <1>5 DEF Client, StartCall, WaitSlice, Return, Reject, Close, Away
  <2>2. Calm("server")
    BY <1>t, <1>5 DEF Client, StartCall, WaitSlice, Return, Reject, Close, Calm
  <2> QED BY <1>k, <2>1, <2>2
<1>6. CASE Server
  <2>1. Away("server") BY <1>t, <1>6 DEF Server, Poll, Handle, Away
  <2>2. Calm("client") BY <1>t, <1>6 DEF Server, Poll, Handle, Calm
  <2> QED BY <1>k, <2>1, <2>2
<1>7. CASE Expire \/ Stop
  <2>1. \A a \in Actor : Calm(a) BY <1>7 DEF Expire, Stop, Calm
  <2> QED BY <1>n, <2>1, CalmKeeps, SignalsNext
<1> QED BY <1>1, <1>2, <1>3, <1>4, <1>5, <1>6, <1>7 DEF Next

-----------------------------------------------------------------------------
(* The inductive invariant holds: the counters of the two threads stay in   *)
(* step, messages stay whole, and no signal is missed.                      *)
THEOREM Inductive == Spec => []IndInv
<1>1. Init => IndInv
  <2> SUFFICES ASSUME Init PROVE IndInv
    OBVIOUS
  <2>1. TypeOK BY TypeInit
  <2>2. Turns BY SMTT(60) DEF Init, Turns
  <2>3. Contents BY SMTT(60) DEF Init, Contents, Whole
  <2>4. Signals BY DEF Init, Signals
  <2> QED BY <2>1, <2>2, <2>3, <2>4 DEF IndInv
<1>2. IndInv /\ [Next]_vars => IndInv'
  BY TypeStep, TurnsStep, ContentsStep, SignalsStep DEF IndInv
<1> QED BY <1>1, <1>2, PTL DEF Spec

(* The state of both threads and of the region is always well typed.        *)
THEOREM TypeCorrect == Spec => []TypeOK
<1>1. IndInv => TypeOK
  BY DEF IndInv
<1> QED BY <1>1, Inductive, PTL

(* receive never hands out a torn, stale or repeated message, for any       *)
(* number of calls and any interleaving of the two threads and their        *)
(* crashes.                                                                 *)
THEOREM ReceiveIsIntact == Spec => []IntactReceive
<1>1. IndInv => IntactReceive
  <2> SUFFICES ASSUME IndInv, NEW a \in Actor, pc[a] = "received"
               PROVE  /\ rxLo[a] = rxHi[a]
                      /\ rxLen[a] = rxLo[a]
                      /\ rxLo[a].id = rcvd[a]
    BY DEF IntactReceive
  <2>1. CASE a = "server"
    <3>1. /\ rxLo[a] = [id |-> rcvd[a], status |-> "request"]
          /\ rxHi[a] = rxLo[a] /\ rxLen[a] = rxLo[a]
      BY <2>1, Standing, Parts DEF IndInv, Held
    <3> QED BY SMTT(60), <3>1
  <2>2. CASE a = "client"
    <3>1. rxLo[a] = lo["server"] /\ rxHi[a] = rxLo[a] /\ rxLen[a] = rxLo[a]
      BY <2>2, Parts DEF IndInv, Taken
    <3>2. lo["server"].id = seq["server"] /\ seq["server"] = calls + 1
      BY <2>2, Standing, Parts DEF IndInv, Replied
    <3>3. rcvd[a] = calls + 1
      BY <2>2 DEF IndInv, Turns
    <3> QED BY <3>1, <3>2, <3>3
  <2> QED BY <2>1, <2>2
<1> QED BY <1>1, Inductive, PTL

(* The alternation of requests and responses keeps every copy into an area  *)
(* apart from every copy out of it.                                         *)
THEOREM CopiesNeverOverlap == Spec => []NoOverlap
<1>1. IndInv => NoOverlap
  BY SMTT(60) DEF IndInv, TypeOK, Turns, NoOverlap
<1> QED BY <1>1, Inductive, PTL

(* No wake-up is lost for any width of the signal word from three values    *)
(* up, hence for the 2^32 values of the code.                               *)
THEOREM WakeupsAreNotLost == Spec => []NoLostWakeup
<1>1. IndInv => NoLostWakeup
  BY DEF IndInv, Signals, NoLostWakeup
<1> QED BY <1>1, Inductive, PTL

(* The client only ever reads the answer to the call it is making, so the   *)
(* message-id comparison of do_raw_call never fails on this transport.      *)
THEOREM AnswersMatchCalls == Spec => []AnswersThisCall
<1>1. IndInv => AnswersThisCall
  BY Standing, Parts DEF IndInv, Taken, Replied, AnswersThisCall
<1> QED BY <1>1, Inductive, PTL

(* The shared memory session implements CallChannel: every step of the two  *)
(* threads is a step of the abstract channel or leaves it unchanged.        *)
THEOREM SessionRefinesChannel == Spec => ImplementsCallChannel
<1>1. Init => Channel!Init
  BY SMTT(60) DEF Init, Channel!Init, NoMsg, Channel!NoMsg, Arrived
<1>2. IndInv /\ [Next]_vars => [Channel!Next]_Channel!vars
  <2> SUFFICES ASSUME IndInv, [Next]_vars PROVE [Channel!Next]_Channel!vars
    OBVIOUS
  <2>a. TypeOK /\ Turns /\ Contents
    BY DEF IndInv
  <2> USE DEF Arrived, Channel!vars, NoMsg
  <2>1. CASE UNCHANGED vars
    BY <2>1 DEF vars
  <2>2. ASSUME NEW a \in Actor, Send(a) PROVE [Channel!Next]_Channel!vars
    <3>1. CASE StoreLen(a) \/ Signal(a) \/ Wake(a)
      <4>1. UNCHANGED <<lo, seq, rcvd, rxLo, calls, result>>
        BY <3>1 DEF StoreLen, Signal, Wake
      <4> QED BY <4>1
    <3>2. CASE CopyLo(a) \/ CopyHi(a)
      <4>1. UNCHANGED <<seq, rcvd, rxLo, calls, result>>
        BY <3>2 DEF CopyLo, CopyHi
      <4>2. CASE a = "client"
        <5>1. seq["client"] = rcvd["server"]
          BY SMTT(60), <2>a, <3>2, <4>2 DEF CopyLo, CopyHi, TypeOK, Turns
        <5>2. lo'["server"] = lo["server"]
          BY <2>a, <3>2, <4>2 DEF CopyLo, CopyHi, TypeOK
        <5>3. rcvd["server"] \in Nat
          BY <2>a DEF TypeOK
        <5> QED BY SMTT(60), <4>1, <5>1, <5>2, <5>3
      <4>3. CASE a = "server"
        <5>1. seq["server"] <= calls
          BY SMTT(60), <2>a, <3>2, <4>3 DEF CopyLo, CopyHi, TypeOK, Turns
        <5>2. lo'["client"] = lo["client"]
          BY <2>a, <3>2, <4>3 DEF CopyLo, CopyHi, TypeOK
        <5>3. seq["server"] \in Nat /\ calls \in Nat
          BY <2>a DEF TypeOK
        <5> QED BY SMTT(60), <4>1, <5>1, <5>2, <5>3
      <4> QED BY <4>2, <4>3
    <3>3. CASE Publish("client")
      <4>1. /\ seq' = [seq EXCEPT !["client"] = @ + 1]
            /\ UNCHANGED <<lo, rcvd, rxLo, calls, result>>
        BY <3>3 DEF Publish
      <4>2. /\ seq \in [Actor -> Nat] /\ rcvd \in [Actor -> Nat]
            /\ calls \in Nat
            /\ seq["client"] = calls /\ rcvd["server"] = calls
        BY SMTT(60), <2>a, <3>3 DEF Publish, TypeOK, Turns
      <4>3. lo["client"] = [id |-> calls + 1, status |-> "request"]
        BY <2>a, <3>3 DEF Publish, Contents
      <4>4. Channel!Submit
        BY SMTT(60), <4>1, <4>2, <4>3 DEF Channel!Submit
      <4> QED BY <4>4 DEF Channel!Next
    <3>4. CASE Publish("server")
      <4> DEFINE st == lo["server"].status
      <4>1. /\ seq' = [seq EXCEPT !["server"] = @ + 1]
            /\ UNCHANGED <<lo, rcvd, rxLo, calls, result>>
        BY <3>4 DEF Publish
      <4>2. /\ seq \in [Actor -> Nat] /\ rcvd \in [Actor -> Nat]
            /\ calls \in Nat
            /\ rcvd["server"] = seq["server"] + 1
            /\ seq["server"] = calls
        BY SMTT(60), <2>a, <3>4 DEF Publish, TypeOK, Turns
      <4>3. lo["server"] = [id |-> rcvd["server"], status |-> st]
        BY <2>a, <3>4 DEF Publish, Contents, TypeOK, Message
      <4>4. rxLo["server"] = [id |-> rcvd["server"], status |-> "request"]
        BY SMTT(60), <2>a, <4>2 DEF Contents
      <4>5. st \in Answers
        BY <2>a, <3>4 DEF Publish, Contents
      <4> HIDE DEF st
      <4>6. Channel!Answer(st)
        BY SMTT(60), <4>1, <4>2, <4>3, <4>4 DEF Channel!Answer, Channel!NoMsg
      <4> QED BY <4>5, <4>6 DEF Channel!Next
    <3> QED BY <2>2, <3>1, <3>2, <3>3, <3>4 DEF Send
  <2>3. ASSUME NEW a \in Actor, Receive(a) PROVE [Channel!Next]_Channel!vars
    <3>1. CASE Spin(a) \/ LoadSig(a) \/ LoadSeq(a) \/ FutexWait(a)
                 \/ TimedOut(a) \/ LoadLen(a)
      <4>1. UNCHANGED <<lo, seq, rcvd, rxLo, calls, result>>
        BY <3>1 DEF Spin, LoadSig, LoadSeq, FutexWait, TimedOut, LoadLen
      <4> QED BY <4>1
    <3>2. CASE ReadLo("client")
      BY <2>a, <3>2 DEF ReadLo, TypeOK
    <3>3. CASE ReadLo("server")
      <4>1. UNCHANGED <<lo, seq, rcvd, calls, result>>
        BY <3>3 DEF ReadLo
      <4>2. seq["server"] = rcvd["server"] /\ rcvd["server"] \in Nat
        BY <2>a, <3>3 DEF ReadLo, TypeOK, Turns
      <4> QED BY SMTT(60), <4>1, <4>2
    <3>4. CASE ReadHi("client")
      BY <2>a, <3>4 DEF ReadHi, TypeOK
    <3>5. CASE ReadHi("server")
      <4>1. /\ rcvd' = [rcvd EXCEPT !["server"] = @ + 1]
            /\ UNCHANGED <<lo, seq, rxLo, calls, result>>
        BY <3>5 DEF ReadHi
      <4>2. /\ seq \in [Actor -> Nat] /\ rcvd \in [Actor -> Nat]
            /\ seq["server"] = rcvd["server"]
            /\ seq["client"] = rcvd["server"] + 1
        BY <2>a, <3>5 DEF ReadHi, TypeOK, Turns
      <4>3. rxLo["server"] = lo["client"]
        BY <2>a, <3>5 DEF ReadHi, Contents
      <4>4. lo["client"] = [id |-> seq["client"], status |-> "request"]
        BY SMTT(60), <2>a, <4>2 DEF Contents
      <4>5. Channel!Take
        BY SMTT(60), <4>1, <4>2, <4>3, <4>4 DEF Channel!Take, Channel!NoMsg
      <4> QED BY <4>5 DEF Channel!Next
    <3> QED BY <2>3, <3>1, <3>2, <3>3, <3>4, <3>5 DEF Receive
  <2>4. ASSUME NEW a \in Actor, Interrupted(a) \/ Crash(a)
        PROVE  [Channel!Next]_Channel!vars
    BY <2>4 DEF Interrupted, Crash
  <2>5. CASE Client
    <3>1. CASE StartCall \/ WaitSlice \/ Reject \/ Close
      BY <3>1 DEF StartCall, WaitSlice, Reject, Close
    <3>2. CASE Return
      <4>1. /\ calls' = calls + 1
            /\ result' = rxLo["client"]
            /\ UNCHANGED <<lo, seq, rcvd, rxLo>>
        BY <3>2 DEF Return
      <4>2. /\ seq["server"] \in Nat /\ calls \in Nat
            /\ seq["server"] = calls + 1
        BY SMTT(60), <2>a, <3>2 DEF Return, TypeOK, Turns
      <4>3. rxLo["client"] = lo["server"]
        BY <2>a, <3>2 DEF Return, Contents
      <4>4. lo["server"].status = "ok"
        BY <3>2, <4>3 DEF Return, Accepted
      <4>5. lo["server"] # [id |-> 0, status |-> "none"]
        BY SMTT(60), <4>4
      <4>6. Channel!Collect
        BY SMTT(60), <4>1, <4>2, <4>3, <4>4, <4>5 DEF Channel!Collect, Channel!NoMsg
      <4> QED BY <4>6 DEF Channel!Next
    <3> QED BY <2>5, <3>1, <3>2 DEF Client
  <2>6. CASE Server
    BY <2>6 DEF Server, Poll, Handle
  <2>7. CASE Expire \/ Stop
    BY <2>7 DEF Expire, Stop
  <2> QED BY <2>1, <2>2, <2>3, <2>4, <2>5, <2>6, <2>7 DEF Next
<1> QED BY <1>1, <1>2, Inductive, PTL DEF Spec, ImplementsCallChannel, Channel!Spec
=============================================================================
