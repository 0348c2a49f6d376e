-------------------------- MODULE UdsSessionProofs --------------------------
(***************************************************************************)
(* One session, for every packet size, queue length, deadline, number of   *)
(* requests and mixture of failures: what receive returns, what becomes of *)
(* the requests in flight, and why the two ends do not block each other.   *)
(***************************************************************************)
EXTENDS UdsSession, TLAPS

USE ZenonT(60)

(* Packets, the bytes they carry, the receive under way and what it         *)
(* returned.                                                                *)
PacketType == [chunk : BOOLEAN, msg : Msgs, idx : Nat, count : Nat, lo : Nat, hi : Nat]

(* The packets send_inner cuts, and what an overrun read leaves of one.     *)
Cuts == {p \in PacketType :
           /\ p.chunk <=> p.idx > 0
           /\ p.idx < p.count
           /\ p.lo = p.idx * Budget
           /\ p.hi = Least(p.lo + Budget, p.msg.len)
           /\ p.lo <= p.hi
           /\ p.idx > 0 => p.lo < p.msg.len}

Rests == {p \in PacketType : p.chunk /\ p.idx = 0}

Bytes == {<<>>} \cup (Sides \X Ids \X Nat)

RxType == [at : {"idle", "check", "poll"}, hdr : Msgs \cup {NoMsg}, assembled : Nat, ci : Nat,
           expected : Nat, room : Nat]

ResultType == [err : Errors, msg : Msgs \cup {NoMsg}, bytes : Seq(Bytes)]

Types ==
  /\ transport \in Transports
  /\ wire \in [Sides -> Seq(Cuts \cup Rests)]
  /\ out \in [Sides -> Seq(Cuts)]
  /\ rx \in [Sides -> RxType]
  /\ buf \in [Sides -> Seq(Bytes)]
  /\ left \in 0..Deadline
  /\ inflight \subseteq used /\ used \subseteq Ids /\ pending \subseteq Ids
  /\ result \in [Sides -> ResultType]
  /\ \A s \in Sides : Len(wire[s]) <= QueueCap
  /\ \A s \in Sides : out[s] # <<>> => rx[s] = NotReceiving

Flags == open \in [Sides -> BOOLEAN] /\ abort \in BOOLEAN

(* A receive in the middle of a message has counted whole packets, and then *)
(* holds their bytes, or a first packet that its caller's buffer cut, and   *)
(* then it is behind its chunk index for good.                              *)
Holds(b, s, n, m) == \A i \in 1..n : b[i] = Byte(Peer(s), m, i)

Gathered(s) ==
  /\ rx[s].assembled <= Len(buf[s])
  /\ rx[s].ci <= rx[s].expected
  /\ rx[s].hdr = NoMsg => rx[s].assembled = 0 /\ rx[s].ci = 0
  /\ rx[s].hdr # NoMsg =>
       /\ rx[s].ci > 0
       /\ rx[s].assembled <= rx[s].ci * Budget
       /\ rx[s].assembled = rx[s].ci * Budget =>
            Holds(buf[s], s, rx[s].assembled, rx[s].hdr)

Reassembly == \A s \in Sides : Gathered(s)

(* Message m as its peer sent it to s.                                      *)
AsSent(s, m) == [i \in 1..m.len |-> Byte(Peer(s), m, i)]

Intact ==
  \A s \in Sides : result[s].err = "Ok" =>
    result[s].msg \in Msgs /\ result[s].bytes = AsSent(s, result[s].msg)

(* An id that left the set of those in flight never comes back to it.       *)
Settled ==
  /\ failed \subseteq used /\ failed \cap inflight = {}
  /\ rx["client"].hdr # NoMsg => rx["client"].hdr.id \in used \ (inflight \cup failed)
  /\ result["client"].err = "Ok" => result["client"].msg.id \in used \ (inflight \cup failed)

-----------------------------------------------------------------------------
(* The session without faults.  Line(s) is what s has still to get to its   *)
(* peer, in order.                                                          *)
Has(line, id) == \E k \in 1..Len(line) : line[k].msg.id = id

Sorted(line) ==
  /\ line \in Seq(Cuts)
  /\ \A j, k \in 1..Len(line) : j < k /\ line[j].msg.id = line[k].msg.id =>
       line[j].msg = line[k].msg /\ line[j].idx < line[k].idx

(* The packets of m on the line are those from index ci on.                 *)
Trails(line, m, ci) ==
  \A k \in 1..Len(line) : line[k].msg.id = m.id => line[k].msg = m /\ line[k].idx >= ci

Line(s) == wire[s] \o out[s]

Remaining(s) == rx[s].hdr # NoMsg => Trails(Line(Peer(s)), rx[s].hdr, rx[s].ci)

(* Every id in flight is in one place.                                      *)
OnePlace ==
  /\ \A id \in Ids : Has(Line("client"), id) =>
       id \in inflight \ pending /\ ~Has(Line("server"), id)
  /\ rx["server"].hdr # NoMsg => /\ rx["server"].hdr.id \in inflight \ pending
                                 /\ ~Has(Line("server"), rx["server"].hdr.id)
  /\ pending \subseteq inflight
  /\ \A id \in Ids : Has(Line("server"), id) =>
       id \notin pending /\ (id \in inflight \/ rx["client"].hdr.id = id)

Faultless == faults = {} => /\ \A s \in Sides : Sorted(Line(s)) /\ Remaining(s)
                            /\ OnePlace

Inv == Types /\ Flags /\ Reassembly /\ Intact /\ Settled /\ InflightIsComing /\ Faultless

-----------------------------------------------------------------------------
(* The assumption on the sizes, with the bytes a packet has room for.       *)
LEMMA Sizes ==
  /\ Lens \subseteq Nat /\ Rooms \subseteq Nat
  /\ Limit \in Nat /\ Budget \in Nat /\ QueueCap \in Nat /\ Deadline \in Nat
  /\ Budget > 0 /\ QueueCap > 0 /\ "none" \notin Ids
BY SizesAssumption

(* Sums, and what is left of a comparison that fails.                       *)
LEMMA Sums ==
  /\ \A a, b \in Nat : a + b \in Nat
  /\ \A k \in Nat : ~(k > 0) => k = 0
  /\ \A k \in Nat : k > 0 => k # 0
  /\ \A k \in Nat : k + 1 > 0
  /\ \A l \in 0..Deadline : 0..l \subseteq 0..Deadline
  /\ 0 * Budget = 0 /\ 0 <= 0
BY SMTT(60), Sizes

(* The empty queue, and a deadline that has run out.                        *)
LEMMA Nothing ==
  /\ Len(<<>>) = 0 /\ 1..Len(<<>>) = {} /\ <<>> \o <<>> = <<>>
  /\ 0 \in 0..Deadline /\ 0 <= QueueCap
BY SMTT(60), Sizes

(* What a packet adds ends within its budget of where it began.             *)
LEMMA Spans ==
  ASSUME NEW a \in Nat, NEW n \in Nat, NEW lo \in Nat, NEW hi \in Nat,
         a <= lo, n <= hi - lo, hi <= lo + Budget
  PROVE  a + n <= lo + Budget
BY SMTT(60), Sizes

(* A function on 1..k is a sequence.                                        *)
LEMMA Listed ==
  ASSUME NEW S, NEW k \in Nat, NEW f \in [1..k -> S]
  PROVE  f \in Seq(S)
BY SMTT(60)

(* A count that is neither over nor at a length is short of it.             *)
LEMMA NotAll ==
  ASSUME NEW a \in Nat, NEW n \in Nat, NEW k \in Nat, ~(a + n > k), a + n # k
  PROVE  a + n < k
BY SMTT(60)

(* The packet at the head of a queue, and the queue without it.             *)
LEMMA Popped ==
  ASSUME NEW S, NEW w \in Seq(S), w # <<>>
  PROVE  Head(w) \in S /\ Tail(w) \in Seq(S)
BY SMTT(60)

(* A queue with room takes one packet more.                                 *)
LEMMA Pushed ==
  ASSUME NEW S, NEW w \in Seq(S), NEW e \in S, Len(w) < QueueCap
  PROVE  Append(w, e) \in Seq(S) /\ Len(Append(w, e)) <= QueueCap
BY SMTT(60), Sizes

(* A queue within its bound is within it without its head.                  *)
LEMMA Shorter ==
  ASSUME NEW S, NEW w \in Seq(S), w # <<>>, Len(w) <= QueueCap
  PROVE  Len(Tail(w)) <= QueueCap
BY SMTT(60), Sizes

(* A session that is not receiving is idle.                                 *)
LEMMA NotPolling == NotReceiving.at = "idle"
BY DEF NotReceiving

(* A packet starts a budget on from the one before it, and no later one     *)
(* starts earlier.                                                          *)
LEMMA NextPlace ==
  ASSUME NEW k \in Nat
  PROVE  /\ k * Budget \in Nat
         /\ (k + 1) * Budget = k * Budget + Budget
         /\ \A j \in Nat : j > k => j * Budget >= k * Budget + Budget
<1>1. k * Budget \in Nat /\ (k + 1) * Budget = k * Budget + Budget
  BY SMTT(60), Sizes
<1>2. ASSUME NEW j \in Nat, j > k PROVE j * Budget >= k * Budget + Budget
  <2> DEFINE d == j - k - 1
  <2>1. d \in Nat /\ j = k + 1 + d
    BY SMTT(60), <1>2
  <2> HIDE DEF d
  <2>2. (k + 1 + d) * Budget = k * Budget + Budget + d * Budget /\ d * Budget \in Nat
    BY SMTT(60), <2>1, Sizes
  <2> QED BY SMTT(60), <2>1, <2>2, <1>1, Sizes
<1> QED BY <1>1, <1>2

(* A copy that ends a packet's length on from where its packet starts began *)
(* there, with a whole packet.                                              *)
LEMMA Filled ==
  ASSUME NEW a \in Nat, NEW n \in Nat, NEW lo \in Nat, NEW hi \in Nat, NEW len \in Nat,
         a <= lo, n <= hi - lo, hi <= lo + Budget, a + n = lo + Budget, a + n < len
  PROVE  a = lo /\ a + n <= len
BY SMTT(60), Sizes

(* The quotient that the count of packets in send_inner is rounded up from. *)
LEMMA Quotient ==
  ASSUME NEW n \in Nat
  PROVE  n \div Budget \in Nat /\ (n \div Budget) * Budget <= n
BY SMTT(60), Sizes

(* A message that is cut has at least one packet more.                      *)
LEMMA Continued ==
  ASSUME NEW r \in Nat, r > 0, (r - 1) \div Budget \in Nat
  PROVE  1 + Continuations(r) \in Nat /\ 1 <= 1 + Continuations(r)
<1> DEFINE q == (r - 1) \div Budget
<1>1. Continuations(r) = 1 + q /\ q \in Nat
  BY DEF Continuations
<1> HIDE DEF q
<1> QED BY SMTT(60), <1>1

(* A message has an id that NoMsg has not, a length, and is well formed or  *)
(* not.                                                                     *)
LEMMA MsgTypes ==
  ASSUME NEW m \in Msgs
  PROVE  /\ m.id \in Ids /\ m.len \in Nat /\ m.ok \in BOOLEAN
         /\ m # NoMsg /\ m.id # "none" /\ m.id # NoMsg.id
<1> DEFINE K == IF Malformed THEN BOOLEAN ELSE {TRUE}
<1>1. K \subseteq BOOLEAN /\ m \in [id : Ids, len : Lens, ok : K]
  BY DEF Msgs
<1> HIDE DEF K
<1>2. m.id \in Ids /\ m.len \in Lens /\ m.ok \in K
  BY <1>1
<1>3. m.ok \in BOOLEAN
  BY <1>1, <1>2
<1>4. m.id # "none" /\ NoMsg.id = "none"
  BY <1>2, Sizes DEF NoMsg
<1> QED BY <1>2, <1>3, <1>4, Sizes

(* send_inner cuts every message into well-formed packets.                  *)
LEMMA PacketsCut ==
  ASSUME NEW m \in Msgs
  PROVE  /\ Packets(m) \in Seq(Cuts)
         /\ Len(Packets(m)) >= 1
         /\ \A k \in 1..Len(Packets(m)) : /\ Packets(m)[k].msg = m
                                          /\ Packets(m)[k].idx = k - 1
<1> DEFINE n == m.len - Least(m.len, Budget)
           q == (n - 1) \div Budget
           count == 1 + Continuations(n)
<1>1. m.len \in Nat /\ n \in Nat /\ (n > 0 => m.len = Budget + n)
  BY SMTT(60), MsgTypes, Sizes DEF Least
<1>2. count = IF n > 0 THEN 2 + q ELSE 1
  <2> HIDE DEF n, q
  <2>1. Continuations(n) = IF n > 0 THEN 1 + q ELSE 0
    BY DEF Continuations, q
  <2>2. n > 0 => q \in Nat
    BY SMTT(60), <1>1, Quotient DEF q
  <2> QED BY SMTT(60), <1>1, <2>1, <2>2
<1>3. n > 0 => q \in Nat /\ q * Budget <= n - 1
  <2> HIDE DEF n
  <2> QED BY SMTT(60), <1>1, Quotient
<1> HIDE DEF n, q, count
<1>4. count \in Nat /\ count >= 1
  BY SMTT(60), <1>1, <1>2, <1>3
<1>5. ASSUME NEW k \in 1..count, k > 1 PROVE (k - 1) * Budget < m.len
  <2>1. n > 0 /\ k - 1 <= q + 1 /\ k - 1 \in Nat /\ q \in Nat
    BY SMTT(60), <1>1, <1>2, <1>3, <1>5
  <2>2. (q + 1) * Budget = q * Budget + Budget
    BY <2>1, NextPlace
  <2>3. (k - 1) * Budget <= (q + 1) * Budget
    <3>1. q + 1 > k - 1 => (q + 1) * Budget >= (k - 1) * Budget + Budget
      BY SMTT(60), <2>1, NextPlace
    <3> QED BY SMTT(60), <2>1, <3>1, NextPlace, Sizes
  <2> QED BY SMTT(60), <1>1, <1>3, <2>1, <2>2, <2>3, NextPlace, Sizes
<1>6. ASSUME NEW k \in 1..count PROVE Packet(m, k, count) \in Cuts
  <2> DEFINE p == Packet(m, k, count)
             lo == (k - 1) * Budget
  <2>0. p.chunk <=> k > 1
    BY DEF Packet
  <2>1. /\ p.msg = m /\ p.idx = k - 1 /\ p.count = count
        /\ p.lo = lo /\ p.hi = Least(k * Budget, m.len)
    BY DEF Packet
  <2>2. k - 1 \in Nat /\ lo \in Nat /\ k * Budget = lo + Budget /\ (k > 1 => lo < m.len)
    <3>1. k - 1 \in Nat /\ k = (k - 1) + 1
      BY SMTT(60), <1>4
    <3> QED BY <1>5, <3>1, NextPlace
  <2>3. k = 1 => lo = 0
    BY SMTT(60), Sizes
  <2>4. p \in [chunk : BOOLEAN, msg : Msgs, idx : {p.idx}, count : {p.count}, lo : {p.lo}, hi : {p.hi}]
    BY SMTT(60) DEF Packet
  <2> HIDE DEF p, lo
  <2>5. p.hi \in Nat /\ p.lo <= p.hi /\ p.hi = Least(p.lo + Budget, m.len)
    BY SMTT(60), <1>1, <2>1, <2>2, <2>3, Sizes DEF Least
  <2>6. p \in PacketType
    BY <1>4, <2>1, <2>2, <2>4, <2>5 DEF PacketType
  <2>7. p.chunk <=> p.idx > 0
    <3>1. (k > 1) <=> (p.idx > 0)
      BY SMTT(60), <2>1, <2>2
    <3> QED BY <2>0, <3>1
  <2>8. p.idx < p.count /\ p.lo = p.idx * Budget /\ (p.idx > 0 => p.lo < p.msg.len)
    BY SMTT(60), <1>4, <2>1, <2>2 DEF lo
  <2> QED BY <2>1, <2>5, <2>6, <2>7, <2>8 DEF Cuts, p
<1>7. Packets(m) = [k \in 1..count |-> Packet(m, k, count)]
  BY DEF Packets, count, n
<1>8. Packets(m) \in Seq(Cuts) /\ Len(Packets(m)) = count
  BY SMTT(60), <1>4, <1>6, <1>7
<1>9. ASSUME NEW k \in 1..count PROVE Packets(m)[k].msg = m /\ Packets(m)[k].idx = k - 1
  BY SMTT(60), <1>7 DEF Packet
<1> QED BY <1>4, <1>8, <1>9

(* What a packet says of its message.                                       *)
LEMMA CutFacts ==
  ASSUME NEW p \in Cuts
  PROVE  /\ p \in PacketType /\ p.msg \in Msgs /\ p.msg.len \in Nat /\ p.msg.id \in Ids
         /\ p.idx \in Nat /\ p.count \in Nat /\ p.lo \in Nat /\ p.hi \in Nat
         /\ p.idx < p.count /\ p.lo = p.idx * Budget
         /\ p.lo <= p.hi /\ p.hi <= p.lo + Budget /\ p.hi <= p.msg.len
         /\ p.idx > 0 => p.lo < p.msg.len
<1>1. /\ p \in PacketType /\ p.msg \in Msgs /\ p.idx \in Nat /\ p.count \in Nat
      /\ p.lo \in Nat /\ p.hi \in Nat
  BY DEF Cuts, PacketType
<1>2. p.msg.len \in Nat /\ p.msg.id \in Ids
  BY <1>1, MsgTypes
<1>3. /\ p.idx < p.count /\ p.lo = p.idx * Budget /\ p.lo <= p.hi
      /\ p.hi = Least(p.lo + Budget, p.msg.len) /\ (p.idx > 0 => p.lo < p.msg.len)
  BY DEF Cuts
<1>4. ASSUME NEW a \in Nat, NEW b \in Nat PROVE Least(a, b) <= a /\ Least(a, b) <= b
  BY SMTT(60) DEF Least
<1>5. p.lo + Budget \in Nat
  BY SMTT(60), <1>1, Sizes
<1>6. p.hi <= p.lo + Budget /\ p.hi <= p.msg.len
  BY <1>2, <1>3, <1>4, <1>5
<1> QED BY <1>1, <1>2, <1>3, <1>6

(* The types of what one side has.                                          *)
LEMMA RxFacts ==
  ASSUME Types, NEW s \in Sides
  PROVE  /\ rx[s] \in RxType /\ rx[s].at \in {"idle", "check", "poll"}
         /\ rx[s].hdr \in Msgs \cup {NoMsg}
         /\ rx[s].assembled \in Nat /\ rx[s].ci \in Nat /\ rx[s].expected \in Nat
         /\ rx[s].room \in Nat
         /\ buf[s] \in Seq(Bytes) /\ wire[s] \in Seq(Cuts \cup Rests) /\ out[s] \in Seq(Cuts)
         /\ result[s] \in ResultType /\ Len(wire[s]) <= QueueCap
         /\ Peer(s) \in Sides /\ Peer(s) # s /\ Peer(Peer(s)) = s
<1>1. Peer(s) \in Sides /\ Peer(s) # s /\ Peer(Peer(s)) = s
  BY DEF Sides, Peer
<1>2. rx[s] \in RxType
  BY DEF Types
<1> QED BY <1>1, <1>2 DEF Types, RxType

-----------------------------------------------------------------------------
(* What is on the line.                                                     *)
LEMMA Within ==
  ASSUME NEW S, NEW q \in Seq(S), NEW n \in Nat, n <= Len(q)
  PROVE  n \in 0..Len(q)
BY SMTT(60)

(* Facts about sequences that the provers find once and use below.          *)
LEMMA First ==
  ASSUME NEW S, NEW q \in Seq(S), q # <<>>
  PROVE  1 \in 1..Len(q) /\ q[1] \in S
BY SMTT(60)

(* A sequence and its tail, entry by entry.                                 *)
LEMMA TailFacts ==
  ASSUME NEW S, NEW l \in Seq(S), l # <<>>
  PROVE  /\ Len(l) \in Nat /\ Len(l) >= 1 /\ Head(l) = l[1] /\ Head(l) \in S
         /\ Tail(l) \in Seq(S) /\ Len(Tail(l)) = Len(l) - 1
         /\ \A k \in 1..Len(Tail(l)) : Tail(l)[k] = l[k + 1]
BY SMTT(60)

(* A concatenation, entry by entry.                                         *)
LEMMA ConcatFacts ==
  ASSUME NEW S, NEW l \in Seq(S), NEW r \in Seq(S)
  PROVE  /\ l \o r \in Seq(S) /\ Len(l \o r) = Len(l) + Len(r)
         /\ Len(l) \in Nat /\ Len(r) \in Nat
         /\ \A k \in 1..Len(l) : (l \o r)[k] = l[k]
         /\ \A k \in 1..Len(r) : (l \o r)[Len(l) + k] = r[k]
         /\ \A k \in 1..Len(l \o r) : \/ k \in 1..Len(l) /\ (l \o r)[k] = l[k]
                                      \/ k - Len(l) \in 1..Len(r) /\ (l \o r)[k] = r[k - Len(l)]
<1>1. /\ l \o r \in Seq(S) /\ Len(l \o r) = Len(l) + Len(r)
      /\ Len(l) \in Nat /\ Len(r) \in Nat
  BY SMTT(60)
<1>2. \A k \in 1..Len(l) : (l \o r)[k] = l[k]
  BY SMTT(60)
<1>3. ASSUME NEW k \in 1..Len(r) PROVE (l \o r)[Len(l) + k] = r[k]
  <2>1. Len(l) + k \in 1..Len(l) + Len(r) /\ ~(Len(l) + k <= Len(l)) /\ Len(l) + k - Len(l) = k
    BY SMTT(60), <1>1
  <2> QED BY SMTT(60), <2>1
<1>4. ASSUME NEW k \in 1..Len(l \o r), k \notin 1..Len(l)
      PROVE  k - Len(l) \in 1..Len(r) /\ (l \o r)[k] = r[k - Len(l)]
  <2>1. k - Len(l) \in 1..Len(r) /\ Len(l) + (k - Len(l)) = k
    BY SMTT(60), <1>1, <1>4
  <2>2. (l \o r)[Len(l) + (k - Len(l))] = r[k - Len(l)]
    BY <1>3, <2>1
  <2> QED BY <2>1, <2>2
<1> QED BY <1>1, <1>2, <1>3, <1>4

(* A packet that moves from one queue to the next leaves the line as it is. *)
LEMMA Shift ==
  ASSUME NEW S, NEW w \in Seq(S), NEW o \in Seq(S), o # <<>>
  PROVE  Append(w, Head(o)) \o Tail(o) = w \o o
<1>1. o = <<Head(o)>> \o Tail(o) /\ Head(o) \in S /\ Tail(o) \in Seq(S)
  BY SMTT(60)
<1>2. Append(w, Head(o)) = w \o <<Head(o)>>
  BY SMTT(60), <1>1
<1>3. (w \o <<Head(o)>>) \o Tail(o) = w \o (<<Head(o)>> \o Tail(o))
  BY SMTT(60), <1>1
<1> QED BY <1>1, <1>2, <1>3

(* The head of a line is the head of its first queue.                       *)
LEMMA TailConcat ==
  ASSUME NEW S, NEW w \in Seq(S), NEW o \in Seq(S), w # <<>>
  PROVE  Tail(w) \o o = Tail(w \o o) /\ Head(w \o o) = Head(w) /\ w \o o # <<>>
<1>1. w \o o # <<>> /\ Head(w \o o) = Head(w)
  BY SMTT(60)
<1>2. Tail(w) \o o = Tail(w \o o)
  BY SMTT(60)
<1> QED BY <1>1, <1>2

(* Whether an id is on the line, without its head and on two lines joined.  *)
LEMMA HasTail ==
  ASSUME NEW S, NEW l \in Seq(S), l # <<>>, NEW id
  PROVE  Has(l, id) <=> Head(l).msg.id = id \/ Has(Tail(l), id)
<1>1. ASSUME Has(l, id), Head(l).msg.id # id PROVE Has(Tail(l), id)
  <2>1. PICK k \in 1..Len(l) : l[k].msg.id = id
    BY <1>1 DEF Has
  <2>2. k # 1
    BY <1>1, <2>1, TailFacts
  <2>3. k - 1 \in 1..Len(Tail(l)) /\ Tail(l)[k - 1] = l[k]
    BY SMTT(60), <2>2, TailFacts
  <2> QED BY <2>1, <2>3 DEF Has
<1>2. ASSUME Has(Tail(l), id) PROVE Has(l, id)
  <2>1. PICK k \in 1..Len(Tail(l)) : Tail(l)[k].msg.id = id
    BY <1>2 DEF Has
  <2>2. k + 1 \in 1..Len(l) /\ l[k + 1] = Tail(l)[k]
    BY SMTT(60), TailFacts
  <2> QED BY <2>1, <2>2 DEF Has
<1>3. Head(l).msg.id = id => Has(l, id)
  <2>1. 1 \in 1..Len(l) /\ Head(l) = l[1]
    BY SMTT(60), TailFacts
  <2> QED BY <2>1 DEF Has
<1> QED BY <1>1, <1>2, <1>3

(* An id is on a line if it is on one of its two queues.                    *)
LEMMA HasConcat ==
  ASSUME NEW S, NEW l \in Seq(S), NEW r \in Seq(S), NEW id
  PROVE  Has(l \o r, id) <=> Has(l, id) \/ Has(r, id)
<1>1. ASSUME Has(l \o r, id) PROVE Has(l, id) \/ Has(r, id)
  <2>1. PICK k \in 1..Len(l \o r) : (l \o r)[k].msg.id = id
    BY <1>1 DEF Has
  <2> QED BY SMTT(60), <2>1, ConcatFacts DEF Has
<1>2. ASSUME Has(l, id) PROVE Has(l \o r, id)
  <2>1. PICK k \in 1..Len(l) : l[k].msg.id = id
    BY <1>2 DEF Has
  <2>2. k \in 1..Len(l \o r) /\ (l \o r)[k] = l[k]
    BY SMTT(60), ConcatFacts
  <2> QED BY <2>1, <2>2 DEF Has
<1>3. ASSUME Has(r, id) PROVE Has(l \o r, id)
  <2>1. PICK k \in 1..Len(r) : r[k].msg.id = id
    BY <1>3 DEF Has
  <2>2. Len(l) + k \in 1..Len(l \o r) /\ (l \o r)[Len(l) + k] = r[k]
    BY SMTT(60), ConcatFacts
  <2> QED BY <2>1, <2>2 DEF Has
<1> QED BY <1>1, <1>2, <1>3

(* The packets of a message are on the line.                                *)
LEMMA HasPackets ==
  ASSUME NEW m \in Msgs, NEW id
  PROVE  Has(Packets(m), id) <=> id = m.id
<1>1. 1 \in 1..Len(Packets(m))
  BY SMTT(60), PacketsCut
<1> QED BY <1>1, PacketsCut DEF Has

(* The head of a sorted line is followed by later packets only, and by none *)
(* of its message if it ends it.                                            *)
LEMMA SortedTail ==
  ASSUME NEW l, Sorted(l), l # <<>>
  PROVE  /\ Sorted(Tail(l))
         /\ Trails(Tail(l), Head(l).msg, Head(l).idx + 1)
         /\ Head(l).hi = Head(l).msg.len => ~Has(Tail(l), Head(l).msg.id)
         /\ \A m, ci : Trails(l, m, ci) => /\ Trails(Tail(l), m, ci)
                                           /\ Head(l).msg.id = m.id => Head(l).msg = m
<1>0. l \in Seq(Cuts)
  BY DEF Sorted
<1>1. /\ Len(l) \in Nat /\ Len(l) >= 1 /\ Head(l) = l[1] /\ Head(l) \in Cuts
      /\ Tail(l) \in Seq(Cuts) /\ Len(Tail(l)) = Len(l) - 1
      /\ \A k \in 1..Len(Tail(l)) : Tail(l)[k] = l[k + 1]
  BY <1>0, TailFacts
<1>2. \A k \in 1..Len(Tail(l)) : k + 1 \in 1..Len(l) /\ 1 < k + 1 /\ Tail(l)[k] \in Cuts
  BY SMTT(60), <1>1
<1>3. Sorted(Tail(l))
  <2>1. ASSUME NEW j \in 1..Len(Tail(l)), NEW k \in 1..Len(Tail(l)), j < k,
               Tail(l)[j].msg.id = Tail(l)[k].msg.id
        PROVE  Tail(l)[j].msg = Tail(l)[k].msg /\ Tail(l)[j].idx < Tail(l)[k].idx
    <3>1. j + 1 < k + 1
      BY SMTT(60), <2>1, <1>1
    <3> QED BY SMTT(60), <1>1, <1>2, <2>1, <3>1 DEF Sorted
  <2> QED BY <1>1, <2>1 DEF Sorted
<1>4. ASSUME NEW k \in 1..Len(Tail(l)), Tail(l)[k].msg.id = Head(l).msg.id
      PROVE  Tail(l)[k].msg = Head(l).msg /\ Head(l).idx < Tail(l)[k].idx
  <2>1. 1 \in 1..Len(l)
    BY SMTT(60), <1>1
  <2> QED BY SMTT(60), <1>1, <1>2, <1>4, <2>1 DEF Sorted
<1>5. Trails(Tail(l), Head(l).msg, Head(l).idx + 1)
  <2>1. ASSUME NEW k \in 1..Len(Tail(l)), Tail(l)[k].msg.id = Head(l).msg.id
        PROVE  Tail(l)[k].msg = Head(l).msg /\ Tail(l)[k].idx >= Head(l).idx + 1
    <3>1. Tail(l)[k].idx \in Nat /\ Head(l).idx \in Nat
      BY <1>1, <1>2, CutFacts
    <3> QED BY SMTT(60), <1>4, <2>1, <3>1
  <2> QED BY <2>1 DEF Trails
<1>6. ASSUME Head(l).hi = Head(l).msg.len, Has(Tail(l), Head(l).msg.id) PROVE FALSE
  <2> DEFINE h == Head(l)
  <2>1. PICK k \in 1..Len(Tail(l)) : Tail(l)[k].msg.id = h.msg.id
    BY <1>6 DEF Has
  <2> DEFINE q == Tail(l)[k]
  <2>2. q \in Cuts /\ h \in Cuts /\ q.msg = h.msg /\ h.idx < q.idx
    BY <1>1, <1>2, <1>4, <2>1
  <2>3. h.hi = h.msg.len
    BY <1>6
  <2> HIDE DEF q, h
  <2>4. /\ h.idx \in Nat /\ h.lo = h.idx * Budget /\ h.hi <= h.lo + Budget /\ h.msg.len \in Nat
        /\ h.lo \in Nat
    BY <2>2, CutFacts
  <2>5. q.idx \in Nat /\ q.lo = q.idx * Budget /\ (q.idx > 0 => q.lo < q.msg.len) /\ q.lo \in Nat
    BY <2>2, CutFacts
  <2>6. q.lo < h.msg.len
    BY SMTT(60), <2>2, <2>4, <2>5
  <2>7. q.lo >= h.lo + Budget
    BY <2>2, <2>4, <2>5, NextPlace
  <2>8. h.msg.len <= h.lo + Budget /\ h.lo + Budget \in Nat
    BY SMTT(60), <2>3, <2>4, Sizes
  <2> QED BY SMTT(60), <2>4, <2>5, <2>6, <2>7, <2>8
<1>7. ASSUME NEW m, NEW ci, Trails(l, m, ci)
      PROVE  Trails(Tail(l), m, ci) /\ (Head(l).msg.id = m.id => Head(l).msg = m)
  <2>1. 1 \in 1..Len(l)
    BY SMTT(60), <1>1
  <2> QED BY <1>1, <1>2, <1>7, <2>1 DEF Trails
<1> QED BY <1>3, <1>5, <1>6, <1>7

(* A message of its own goes to the end of a line.                          *)
LEMMA SortedConcat ==
  ASSUME NEW l, Sorted(l), NEW m \in Msgs, ~Has(l, m.id)
  PROVE  /\ Sorted(l \o Packets(m))
         /\ \A h, ci : Trails(l, h, ci) /\ h.id # m.id => Trails(l \o Packets(m), h, ci)
<1> DEFINE r == Packets(m)
<1>0. l \in Seq(Cuts) /\ r \in Seq(Cuts)
  BY PacketsCut DEF Sorted
<1>1. \A k \in 1..Len(r) : r[k].msg = m /\ r[k].idx = k - 1
  BY PacketsCut
<1> HIDE DEF r
<1>2. \A k \in 1..Len(l) : l[k].msg.id # m.id
  BY DEF Has
<1>3. \A k \in 1..Len(l \o r) : \/ k \in 1..Len(l) /\ (l \o r)[k] = l[k]
                                \/ k - Len(l) \in 1..Len(r) /\ (l \o r)[k] = r[k - Len(l)]
  BY <1>0, ConcatFacts
<1>4. l \o r \in Seq(Cuts) /\ Len(l) \in Nat /\ Len(l \o r) \in Nat
  BY <1>0, ConcatFacts
<1>5. ASSUME NEW j \in 1..Len(l \o r), NEW k \in 1..Len(l \o r), j < k,
             (l \o r)[j].msg.id = (l \o r)[k].msg.id
      PROVE  (l \o r)[j].msg = (l \o r)[k].msg /\ (l \o r)[j].idx < (l \o r)[k].idx
  <2>1. CASE k \in 1..Len(l) /\ (l \o r)[k] = l[k]
    <3>1. j \in 1..Len(l) /\ (l \o r)[j] = l[j]
      <4>1. ~(j - Len(l) \in 1..Len(r))
        BY SMTT(60), <1>4, <1>5, <2>1
      <4> QED BY <1>3, <4>1
    <3> QED BY <1>5, <2>1, <3>1 DEF Sorted
  <2>2. CASE k - Len(l) \in 1..Len(r) /\ (l \o r)[k] = r[k - Len(l)]
    <3>1. (l \o r)[k].msg = m /\ (l \o r)[k].idx = k - Len(l) - 1
      BY <1>1, <2>2
    <3>2. j - Len(l) \in 1..Len(r) /\ (l \o r)[j] = r[j - Len(l)]
      BY <1>2, <1>3, <1>5, <3>1
    <3>3. (l \o r)[j].msg = m /\ (l \o r)[j].idx = j - Len(l) - 1
      BY <1>1, <3>2
    <3>4. j - Len(l) - 1 < k - Len(l) - 1
      BY SMTT(60), <1>4, <1>5
    <3> QED BY <3>1, <3>3, <3>4
  <2> QED BY <1>3, <2>1, <2>2
<1>6. Sorted(l \o r)
  BY <1>4, <1>5 DEF Sorted
<1>7. ASSUME NEW h, NEW ci, Trails(l, h, ci), h.id # m.id PROVE Trails(l \o r, h, ci)
  BY <1>1, <1>3, <1>7 DEF Trails
<1> QED BY <1>6, <1>7 DEF r

(* The line of a side is what it has on the wire and has still to send.     *)
LEMMA Lines ==
  ASSUME Types, NEW s \in Sides
  PROVE  /\ Line(s) \in Seq(Cuts \cup Rests)
         /\ wire[s] \in Seq(Cuts \cup Rests) /\ out[s] \in Seq(Cuts \cup Rests)
         /\ \A id : Has(Line(s), id) <=> Has(wire[s], id) \/ Has(out[s], id)
<1>1. wire[s] \in Seq(Cuts \cup Rests) /\ out[s] \in Seq(Cuts \cup Rests)
  <2>1. out[s] \in Seq(Cuts)
    BY RxFacts
  <2>2. Seq(Cuts) \subseteq Seq(Cuts \cup Rests)
    BY SMTT(60)
  <2> QED BY <2>1, <2>2, RxFacts
<1>2. \A id : Has(Line(s), id) <=> Has(wire[s], id) \/ Has(out[s], id)
  BY <1>1, HasConcat DEF Line
<1> QED BY SMTT(60), <1>1, <1>2 DEF Line

(* A send puts the packets of its message behind all others; putting one on *)
(* the wire moves none; a receive takes the foremost.                       *)
LEMMA LineSent ==
  ASSUME Types, NEW s \in Sides, NEW m \in Msgs, out[s] = <<>>, wire' = wire,
         out' = [out EXCEPT ![s] = Packets(m)]
  PROVE  /\ Line(s)' = Line(s) \o Packets(m)
         /\ \A t \in Sides : t # s => Line(t)' = Line(t)
         /\ \A id : Has(Line(s)', id) <=> Has(Line(s), id) \/ id = m.id
<1>1. Line(s) = wire[s]
  BY SMTT(60), Lines DEF Line
<1>2. Line(s)' = Line(s) \o Packets(m)
  BY <1>1 DEF Line, Types
<1>3. \A t \in Sides : t # s => Line(t)' = Line(t)
  BY DEF Line, Types
<1>4. Packets(m) \in Seq(Cuts \cup Rests)
  <2>1. Seq(Cuts) \subseteq Seq(Cuts \cup Rests)
    BY SMTT(60)
  <2> QED BY <2>1, PacketsCut
<1>5. \A id : Has(Line(s) \o Packets(m), id) <=> Has(Line(s), id) \/ Has(Packets(m), id)
  BY <1>4, Lines, HasConcat
<1>6. \A id : Has(Packets(m), id) <=> id = m.id
  BY HasPackets
<1> QED BY <1>2, <1>3, <1>5, <1>6

(* Sending a packet moves it along its line and changes no line.            *)
LEMMA LinePut ==
  ASSUME Types, NEW s \in Sides, PutPacket(s)
  PROVE  \A t \in Sides : Line(t)' = Line(t)
<1> DEFINE w == wire[s]
           o == out[s]
<1>1. w \in Seq(Cuts \cup Rests) /\ o \in Seq(Cuts \cup Rests) /\ o # <<>>
  BY Lines DEF PutPacket
<1>2. wire'[s] = Append(w, Head(o)) /\ out'[s] = Tail(o)
  BY DEF PutPacket, Types
<1>3. \A t \in Sides : t # s => wire'[t] = wire[t] /\ out'[t] = out[t]
  BY DEF PutPacket, Types
<1> HIDE DEF w, o
<1>4. Append(w, Head(o)) \o Tail(o) = w \o o
  BY <1>1, Shift
<1> QED BY <1>2, <1>3, <1>4 DEF Line, w, o

(* Reading a packet takes the head off the peer's line and off no other.    *)
LEMMA LineTake ==
  ASSUME Types, NEW s \in Sides, wire[s] # <<>>, out' = out,
         wire' = [wire EXCEPT ![s] = Tail(wire[s])]
  PROVE  /\ Line(s) # <<>> /\ Head(Line(s)) = Head(wire[s]) /\ Line(s)' = Tail(Line(s))
         /\ \A t \in Sides : t # s => Line(t)' = Line(t)
         /\ \A id : Has(Line(s), id) <=> Head(wire[s]).msg.id = id \/ Has(Line(s)', id)
<1> DEFINE w == wire[s]
           o == out[s]
<1>1. w \in Seq(Cuts \cup Rests) /\ o \in Seq(Cuts \cup Rests) /\ w # <<>>
  BY Lines
<1>2. Line(s) = w \o o /\ Line(s)' = Tail(w) \o o
  BY DEF Line, Types
<1>3. \A t \in Sides : t # s => Line(t)' = Line(t)
  BY DEF Line, Types
<1>4. Head(wire[s]) = Head(w)
  OBVIOUS
<1> HIDE DEF w, o
<1>5. Tail(w) \o o = Tail(w \o o) /\ Head(w \o o) = Head(w) /\ w \o o # <<>>
  BY <1>1, TailConcat
<1>6. w \o o \in Seq(Cuts \cup Rests)
  BY SMTT(60), <1>1
<1>7. \A id : Has(w \o o, id) <=> Head(w \o o).msg.id = id \/ Has(Tail(w \o o), id)
  BY <1>5, <1>6, HasTail
<1> QED BY <1>2, <1>3, <1>4, <1>5, <1>7

-----------------------------------------------------------------------------
(* The values the steps write.                                              *)
LEMMA IdleTypes == NotReceiving \in RxType /\ NotReceiving.hdr = NoMsg
                   /\ NotReceiving.assembled = 0 /\ NotReceiving.ci = 0
                   /\ NotReceiving.expected = 0
BY DEF NotReceiving, RxType

(* What an operation returns, and what it has copied, keep their types.     *)
LEMMA ReturnedTypes ==
  ASSUME Types, NEW s \in Sides, NEW err \in Errors, Returned(s, err)
  PROVE  /\ result' \in [Sides -> ResultType] /\ result'[s].err = err
         /\ \A t \in Sides : t # s => result'[t] = result[t]
<1> DEFINE r == [NoResult EXCEPT !.err = err]
<1>1. r = [err |-> err, msg |-> NoMsg, bytes |-> <<>>]
  BY SMTT(60) DEF NoResult
<1>2. <<>> \in Seq(Bytes)
  BY SMTT(60)
<1>3. r \in ResultType /\ r.err = err
  BY <1>1, <1>2 DEF ResultType
<1>4. result' = [result EXCEPT ![s] = r]
  BY DEF Returned
<1> HIDE DEF r
<1> QED BY <1>3, <1>4 DEF Types

(* What receive copies into its buffer fits the buffer it made.             *)
LEMMA CopiedTypes ==
  ASSUME Types, NEW s \in Sides, NEW p \in Cuts, NEW n \in Nat, NEW a \in Nat, NEW size \in Nat
  PROVE  /\ Copied(s, p, n, a, size) \in Seq(Bytes)
         /\ Len(Copied(s, p, n, a, size)) >= size
<1> DEFINE b == Copied(s, p, n, a, size)
           top == IF Len(buf[s]) < size THEN size ELSE Len(buf[s])
           F(i) == IF i \in (a + 1)..(a + n) THEN Byte(Peer(s), p.msg, p.lo + i - a)
                   ELSE IF i <= Len(buf[s]) THEN buf[s][i] ELSE <<>>
<1>1. buf[s] \in Seq(Bytes) /\ Len(buf[s]) \in Nat /\ Peer(s) \in Sides
  BY SMTT(60), RxFacts
<1>2. top \in Nat /\ top >= size
  BY SMTT(60), <1>1
<1>3. b = [i \in 1..top |-> F(i)]
  BY DEF Copied
<1>4. ASSUME NEW i \in 1..top PROVE F(i) \in Bytes
  <2>1. CASE i \in (a + 1)..(a + n)
    <3>1. p.msg.id \in Ids /\ p.lo \in Nat
      BY CutFacts
    <3>2. p.lo + i - a \in Nat
      BY SMTT(60), <2>1, <3>1
    <3> QED BY <1>1, <2>1, <3>1, <3>2 DEF Byte, Bytes
  <2>2. CASE i \notin (a + 1)..(a + n) /\ i <= Len(buf[s])
    <3>1. buf[s][i] \in Bytes
      BY SMTT(60), <1>1, <1>2, <2>2
    <3> QED BY <2>2, <3>1
  <2>3. CASE i \notin (a + 1)..(a + n) /\ ~(i <= Len(buf[s]))
    BY <2>3 DEF Bytes
  <2> QED BY <2>1, <2>2, <2>3
<1> HIDE DEF b, top, F
<1>5. b \in Seq(Bytes) /\ Len(b) = top
  BY SMTT(60), <1>2, <1>3, <1>4
<1> QED BY <1>2, <1>5 DEF b

(* A packet that continues a prefix of m makes a longer one.                *)
LEMMA LongerPrefix ==
  ASSUME Types, NEW s \in Sides, NEW p \in Cuts, NEW n \in Nat, NEW a \in Nat, NEW m \in Msgs,
         p.msg.id = m.id, p.lo = a, a <= Len(buf[s]), a + n <= m.len,
         Holds(buf[s], s, a, m)
  PROVE  Holds(Copied(s, p, n, a, m.len), s, a + n, m)
<1> DEFINE b == Copied(s, p, n, a, m.len)
           size == m.len
           top == IF Len(buf[s]) < size THEN size ELSE Len(buf[s])
<1> SUFFICES ASSUME NEW i \in 1..(a + n) PROVE b[i] = Byte(Peer(s), m, i)
  BY DEF Holds
<1>1. buf[s] \in Seq(Bytes) /\ Len(buf[s]) \in Nat /\ size \in Nat /\ a + n <= size
  BY SMTT(60), RxFacts, MsgTypes
<1>2. b = [k \in 1..top |-> IF k \in (a + 1)..(a + n) THEN Byte(Peer(s), p.msg, p.lo + k - a)
                            ELSE IF k <= Len(buf[s]) THEN buf[s][k] ELSE <<>>]
  BY DEF Copied
<1> HIDE DEF b, size
<1>3. i \in 1..top
  BY SMTT(60), <1>1
<1> HIDE DEF top
<1>4. CASE i <= a
  <2>1. i \notin (a + 1)..(a + n) /\ i <= Len(buf[s]) /\ i \in 1..a
    BY SMTT(60), <1>1, <1>4
  <2> QED BY <1>2, <1>3, <2>1 DEF Holds
<1>5. CASE ~(i <= a)
  <2>1. i \in (a + 1)..(a + n) /\ p.lo + i - a = i
    BY SMTT(60), <1>5
  <2> QED BY <1>2, <1>3, <2>1 DEF Byte
<1> QED BY <1>4, <1>5

-----------------------------------------------------------------------------
(* The steps, as far as the invariant can tell them apart.  A message is    *)
(* handed to send.                                                          *)
Asks(m) ==
  /\ Idle("client") /\ m.id \notin used
  /\ inflight' = inflight \cup {m.id} /\ used' = used \cup {m.id}
  /\ out' = [out EXCEPT !["client"] = Packets(m)]
  /\ Returned("client", "none")
  /\ UNCHANGED <<transport, wire, rx, buf, left, pending, history>>

Answers(m) ==
  /\ Idle("server") /\ m.id \in pending
  /\ pending' = pending \ {m.id}
  /\ out' = [out EXCEPT !["server"] = Packets(m)]
  /\ Returned("server", "none")
  /\ UNCHANGED <<transport, wire, rx, buf, left, inflight, used, history>>

(* A packet moves to the wire, a receive begins or waits, or an operation   *)
(* is refused at once: no message gains or loses anything.                  *)
Calm ==
  /\ Types'
  /\ \A t \in Sides :
       /\ Line(t)' = Line(t)
       /\ rx'[t].hdr = rx[t].hdr /\ rx'[t].assembled = rx[t].assembled
       /\ rx'[t].ci = rx[t].ci /\ rx'[t].expected = rx[t].expected
       /\ buf'[t] = buf[t]
       /\ result'[t] = result[t] \/ result'[t].err # "Ok"
  /\ UNCHANGED <<inflight, used, pending, failed, faults>>

(* An operation of s fails, or s closes.                                    *)
Ends(s) ==
  /\ rx' = [rx EXCEPT ![s] = NotReceiving]
  /\ wire' \in [Sides -> Seq(Cuts \cup Rests)] /\ \A t \in Sides : Len(wire'[t]) <= QueueCap
  /\ out' = out \/ out' = [out EXCEPT ![s] = <<>>]
  /\ buf' = buf \/ buf' = [buf EXCEPT ![s] = <<>>]
  /\ left' \in 0..Deadline
  /\ result' = result \/ \E err \in Errors \ {"Ok"} : Returned(s, err)
  /\ inflight' \subseteq inflight
  /\ failed' = failed \/ (failed' = failed \cup inflight /\ inflight' = {})
  /\ \E f : /\ faults' = faults \cup {f}
            /\ f = <<"client", "failed">> => inflight' = {}
  /\ UNCHANGED <<transport, callers>>

(* n bytes of packet p become part of message m, which goes on or is whole. *)
Accepts(s, p, m, n) ==
  /\ wire[Peer(s)] # <<>> /\ p = Head(wire[Peer(s)])
  /\ wire' = [wire EXCEPT ![Peer(s)] = Tail(wire[Peer(s)])]
  /\ rx[s].at = "poll"
  /\ left' \in 0..Deadline
  /\ p.msg.id = m.id /\ p.msg.len = m.len /\ p.idx = rx[s].ci
  /\ n <= p.hi - p.lo
  /\ IF rx[s].hdr = NoMsg THEN m = p.msg /\ (s = "client" => m.id \in inflight)
     ELSE m = rx[s].hdr /\ n = p.hi - p.lo
  /\ inflight' = IF s = "client" /\ rx[s].hdr = NoMsg THEN inflight \ {m.id} ELSE inflight
  /\ UNCHANGED <<transport, out, used, history>>

More(s, p, m, n) ==
  /\ Accepts(s, p, m, n)
  /\ rx[s].assembled + n < m.len
  /\ buf' = [buf EXCEPT ![s] = Copied(s, p, n, rx[s].assembled, m.len)]
  /\ \E at \in {"check", "poll"}, e \in Nat :
       /\ rx[s].ci + 1 <= e
       /\ rx' = [rx EXCEPT ![s] = [at |-> at, hdr |-> m, assembled |-> rx[s].assembled + n,
                                   ci |-> rx[s].ci + 1, expected |-> e, room |-> 0]]
  /\ UNCHANGED <<pending, result>>

Whole(s, p, m, n) ==
  /\ Accepts(s, p, m, n)
  /\ p.hi = m.len
  /\ buf' = buf \/ buf' = [buf EXCEPT ![s] = Copied(s, p, n, rx[s].assembled, m.len)]
  /\ Deliver(s, m, AsSent(s, m))

Takings(s) == \E p \in Cuts, m \in Msgs, n \in Nat : More(s, p, m, n) \/ Whole(s, p, m, n)

(* The steps that change no message: a packet put on the wire, a wait, the  *)
(* start of a receive.                                                      *)
LEMMA PutCalm ==
  ASSUME Types, NEW s \in Sides, PutPacket(s)
  PROVE  Calm
<1> DEFINE w == wire[s]
           o == out[s]
<1>1. w \in Seq(Cuts \cup Rests) /\ o \in Seq(Cuts) /\ o # <<>> /\ Len(w) < QueueCap
  BY RxFacts DEF PutPacket
<1>2. wire' = [wire EXCEPT ![s] = Append(w, Head(o))] /\ out' = [out EXCEPT ![s] = Tail(o)]
  BY DEF PutPacket
<1>3. rx[s] = NotReceiving
  BY DEF PutPacket, Types
<1> HIDE DEF w, o
<1>4. Tail(o) \in Seq(Cuts) /\ Head(o) \in Cuts
  BY <1>1, Popped
<1>5. Append(w, Head(o)) \in Seq(Cuts \cup Rests) /\ Len(Append(w, Head(o))) <= QueueCap
  BY <1>1, <1>4, Pushed
<1>6. Types'
  <2>1. wire' \in [Sides -> Seq(Cuts \cup Rests)] /\ \A u \in Sides : Len(wire'[u]) <= QueueCap
    BY <1>2, <1>5 DEF Types
  <2>2. out' \in [Sides -> Seq(Cuts)] /\ \A u \in Sides : out'[u] # <<>> => rx'[u] = NotReceiving
    BY <1>2, <1>3, <1>4 DEF PutPacket, Types
  <2> QED BY <2>1, <2>2 DEF PutPacket, Types, callers
<1> QED BY <1>6, LinePut DEF PutPacket, Calm, callers, history

(* A wait goes on.                                                          *)
LEMMA WaitCalm ==
  ASSUME Types, NEW s \in Sides, rx[s].at # "idle", NEW at \in {"check", "poll"},
         rx' = [rx EXCEPT ![s] = [rx[s] EXCEPT !.at = at]], left' \in 0..Deadline,
         UNCHANGED <<transport, open, wire, out, buf, abort, inflight, callers, result, history>>
  PROVE  Calm
<1> DEFINE r == rx[s]
           q == [r EXCEPT !.at = at]
<1>1. r \in RxType /\ out[s] = <<>> /\ rx' = [rx EXCEPT ![s] = q]
  BY SMTT(60) DEF Types, NotReceiving
<1> HIDE DEF r
<1>2. /\ q \in RxType /\ q.hdr = r.hdr /\ q.assembled = r.assembled
      /\ q.ci = r.ci /\ q.expected = r.expected
  BY <1>1 DEF RxType
<1> HIDE DEF q
<1>3. Types'
  BY <1>1, <1>2 DEF Types, callers
<1> QED BY <1>1, <1>2, <1>3 DEF Calm, callers, history, Types, Line, r

(* A receive that begins changes neither a line nor what is in flight.      *)
LEMMA ReceiveCalm ==
  ASSUME Types, NEW s \in Sides, NEW r \in Rooms, Receive(s, r)
  PROVE  Calm
<1> DEFINE k == NotReceiving
           i == [k EXCEPT !.at = Waiting(s)]
           j == [i EXCEPT !.room = r]
<1>1. rx' = [rx EXCEPT ![s] = j] /\ rx[s] = k /\ out[s] = <<>> /\ out' = out
  BY DEF Receive, Idle
<1>2. Waiting(s) \in {"idle", "check", "poll"} /\ r \in Nat /\ "none" \in Errors /\ "none" # "Ok"
  BY Sizes DEF Waiting, Errors
<1>3. k \in RxType
  BY IdleTypes
<1> HIDE DEF k
<1>4. i \in RxType /\ i.hdr = k.hdr /\ i.assembled = k.assembled /\ i.ci = k.ci /\ i.expected = k.expected
  BY <1>2, <1>3 DEF RxType
<1> HIDE DEF i
<1>5. j \in RxType /\ j.hdr = k.hdr /\ j.assembled = k.assembled /\ j.ci = k.ci /\ j.expected = k.expected
  BY <1>2, <1>4 DEF RxType
<1> HIDE DEF j
<1>6. /\ result' \in [Sides -> ResultType]
      /\ \A t \in Sides : result'[t] = result[t] \/ result'[t].err # "Ok"
  BY <1>2, ReturnedTypes DEF Receive
<1>7. left' \in 0..Deadline
  BY SMTT(60), Sizes DEF Receive, Types
<1>8. Types'
  BY <1>1, <1>5, <1>6, <1>7 DEF Receive, Types, callers
<1> QED BY <1>1, <1>5, <1>6, <1>8 DEF Receive, Calm, Types, Line, callers, history

(* An operation is refused, or nothing but the abort flag changes.          *)
LEMMA QuietCalm ==
  ASSUME Types,
         result' = result \/ \E s \in Sides : \E err \in Errors \ {"Ok"} : Returned(s, err),
         UNCHANGED <<transport, wire, out, rx, buf, left, inflight, callers, history>>
  PROVE  Calm
<1>1. /\ result' \in [Sides -> ResultType]
      /\ \A t \in Sides : result'[t] = result[t] \/ result'[t].err # "Ok"
  BY ReturnedTypes DEF Types
<1>2. Types'
  BY <1>1 DEF Types, callers
<1> QED BY <1>1, <1>2 DEF Calm, Line, callers, history

(* The steps that fail an operation: fail_all_inflight, a wait that ends, a *)
(* read that overruns the caller's buffer.                                  *)
LEMMA FailAllEnds ==
  ASSUME NEW s \in Sides, FailAll(s)
  PROVE  /\ inflight' \subseteq inflight
         /\ failed' = failed \/ (failed' = failed \cup inflight /\ inflight' = {})
         /\ \E f : /\ faults' = faults \cup {f}
                   /\ f = <<"client", "failed">> => inflight' = {}
<1>1. <<s, "failed">> = <<"client", "failed">> => s = "client"
  OBVIOUS
<1>2. faults' = faults \cup {<<s, "failed">>} /\ (s = "client" => inflight' = {})
  BY DEF FailAll
<1> QED BY <1>1, <1>2 DEF FailAll

(* Waiting for a packet goes on, or ends the receive.                       *)
LEMMA Waits ==
  ASSUME Types, NEW s \in Sides,
         CheckWait(s) \/ PollEmpty(s) \/ PeekEmpty(s) \/ RecvFails(s) \/ TakeAborted(s)
  PROVE  Calm \/ Ends(s)
<1>0. left \in 0..Deadline /\ Deadline \in Nat
  BY Sizes DEF Types
<1>1. ASSUME NEW err \in {"Aborted", "Timeout", "Recv"}, WaitFails(s, err), left' \in 0..Deadline
      PROVE  Ends(s)
  BY <1>1, FailAllEnds DEF WaitFails, Ends, Types, Errors, callers
<1>2. CASE CheckWait(s)
  BY <1>0, <1>1, <1>2, WaitCalm DEF CheckWait
<1>3. (IF Abortable /\ left > 0 THEN left - 1 ELSE 0) \in 0..Deadline
  BY SMTT(60), <1>0
<1>4. CASE PollEmpty(s)
  BY <1>1, <1>3, <1>4 DEF PollEmpty
<1>5. CASE PeekEmpty(s)
  BY <1>1, <1>3, <1>5, WaitCalm DEF PeekEmpty
<1>6. CASE RecvFails(s) \/ TakeAborted(s)
  BY SMTT(60), <1>0, <1>1, <1>6 DEF RecvFails, TakeAborted, Waited
<1> QED BY <1>2, <1>4, <1>5, <1>6

(* A first packet larger than the caller's buffer ends the receive.         *)
LEMMA OverrunEnds ==
  ASSUME Types, NEW s \in Sides, ReadOverruns(s)
  PROVE  Ends(s)
<1> DEFINE t == Peer(s)
           w == wire[t]
           h == Head(w)
           r1 == [h EXCEPT !.chunk = TRUE]
           r2 == [r1 EXCEPT !.idx = 0]
           r == [r2 EXCEPT !.lo = r2.lo + rx[s].room]
           q == <<r>> \o Tail(w)
<1>1. /\ t \in Sides /\ w \in Seq(Cuts \cup Rests) /\ w # <<>> /\ Len(w) <= QueueCap
      /\ rx[s].room \in Nat /\ wire' = [wire EXCEPT ![t] = q]
  BY RxFacts DEF ReadOverruns, Rest
<1> HIDE DEF w, t
<1>2. h \in PacketType /\ Tail(w) \in Seq(Cuts \cup Rests) /\ Len(Tail(w)) = Len(w) - 1
  BY SMTT(60), <1>1 DEF Cuts, Rests
<1> HIDE DEF h
<1>3. r1 \in PacketType /\ r1.chunk
  BY <1>2 DEF PacketType
<1> HIDE DEF r1
<1>4. r2 \in PacketType /\ r2.chunk /\ r2.idx = 0
  BY <1>3 DEF PacketType
<1> HIDE DEF r2
<1>5. r \in Rests
  <2>1. r2.lo \in Nat /\ r2.lo + rx[s].room \in Nat
    BY <1>1, <1>4, Sums DEF PacketType
  <2>2. r \in PacketType /\ r.chunk /\ r.idx = 0
    BY <1>4, <2>1 DEF PacketType
  <2> QED BY <2>2 DEF Rests
<1> HIDE DEF r
<1>6. q \in Seq(Cuts \cup Rests) /\ Len(q) = Len(w)
  BY SMTT(60), <1>1, <1>2, <1>5
<1> HIDE DEF q
<1>7. wire' \in [Sides -> Seq(Cuts \cup Rests)] /\ \A u \in Sides : Len(wire'[u]) <= QueueCap
  BY <1>1, <1>6 DEF Types
<1>8. left' \in 0..Deadline
  BY SMTT(60), Sizes DEF ReadOverruns, Waited, Types
<1> QED BY <1>7, <1>8, FailAllEnds DEF ReadOverruns, Ends, callers, Errors

(* A packet that was taken: refused, the next part of a message, or its end.*)
LEMMA RefusedEnds ==
  ASSUME Types, NEW s \in Sides, Take(s), left' \in 0..Deadline,
         NEW v \in Errors \ {"Ok"}, Violate(s, v), inflight' \subseteq inflight
  PROVE  Ends(s)
<1> DEFINE t == Peer(s)
           w == wire[t]
<1>1. /\ t \in Sides /\ w \in Seq(Cuts \cup Rests) /\ w # <<>> /\ Len(w) <= QueueCap
      /\ wire' = [wire EXCEPT ![t] = Tail(w)]
  BY RxFacts DEF Take
<1> HIDE DEF t, w
<1>2. Tail(w) \in Seq(Cuts \cup Rests) /\ Len(Tail(w)) <= QueueCap
  BY SMTT(60), <1>1, Sizes
<1>3. wire' \in [Sides -> Seq(Cuts \cup Rests)] /\ \A u \in Sides : Len(wire'[u]) <= QueueCap
  BY <1>1, <1>2 DEF Types
<1>4. <<s, "refused">> # <<"client", "failed">>
  OBVIOUS
<1> QED BY <1>3, <1>4 DEF Violate, Take, Ends, callers

(* The first packet of a message is refused, is the whole of it, or begins  *)
(* it.                                                                      *)
LEMMA FirstTaken ==
  ASSUME Types, Reassembly, NEW s \in Sides, Take(s), left' \in 0..Deadline,
         NEW p \in Cuts \cup Rests, p = Head(wire[Peer(s)]), TakeFirst(s)
  PROVE  Ends(s) \/ Takings(s)
<1> DEFINE n == Least(p.hi - p.lo, rx[s].room)
           v == FirstVerdict(s, p, n)
           m == p.msg
<1>1. /\ rx[s].hdr = NoMsg
      /\ inflight' = Answered(s, p, v)
      /\ v = "More" => /\ buf' = [buf EXCEPT ![s] = Copied(s, p, n, 0, m.len)]
                       /\ Continue(s, m, n, 1, 1 + Continuations(m.len - n))
      /\ v = "Ok" => /\ Deliver(s, m, [i \in 1..m.len |->
                                         IF i <= n THEN Byte(Peer(s), m, i) ELSE <<>>])
                     /\ UNCHANGED buf
      /\ v # "More" /\ v # "Ok" => Violate(s, v)
  BY DEF TakeFirst
<1>2. rx[s].assembled = 0 /\ rx[s].ci = 0 /\ rx[s].room \in Nat
  BY <1>1, RxFacts DEF Reassembly, Gathered
<1> HIDE DEF v
<1>3. CASE v \notin {"Ok", "More"}
  <2>1. v \in Errors \ {"Ok"}
    BY <1>3 DEF v, FirstVerdict, Errors
  <2> QED BY <1>1, <1>3, <2>1, RefusedEnds DEF Answered
<1>4. CASE v \in {"Ok", "More"}
  <2>1. /\ ~p.chunk /\ ~(n > m.len) /\ (s = "client" => m.id \in inflight)
        /\ IF v = "Ok" THEN n = m.len ELSE n # m.len
    BY <1>4 DEF v, FirstVerdict
  <2>2. p \in Cuts
    BY <2>1 DEF Rests
  <2>a. p.idx = 0
    BY <2>1, <2>2, CutFacts, Sums DEF Cuts
  <2>3. p.lo = 0 /\ p.hi \in Nat /\ m \in Msgs /\ m.len \in Nat /\ p.hi <= m.len
    BY <2>2, <2>a, CutFacts, Sums
  <2>4. n \in Nat /\ n <= p.hi - p.lo
    BY SMTT(60), <1>2, <2>3 DEF Least
  <2>5. inflight' = IF s = "client" /\ rx[s].hdr = NoMsg THEN inflight \ {m.id} ELSE inflight
    BY <1>1, <1>4, <2>1 DEF Answered
  <2>6. UNCHANGED faults
    BY <1>1, <1>4 DEF Deliver, Continue
  <2> HIDE DEF n
  <2>7. Accepts(s, p, m, n)
    BY <1>1, <1>2, <2>1, <2>a, <2>3, <2>4, <2>5, <2>6 DEF Take, Accepts, history
  <2>8. CASE v = "More"
    <3> DEFINE d == m.len - n - 1
               e == 1 + Continuations(m.len - n)
    <3>1. /\ d \in Nat /\ m.len - n > 0 /\ (m.len - n) - 1 = d /\ m.len - n \in Nat
          /\ n < m.len /\ 0 + n = n /\ 0 + 1 = 1
      BY SMTT(60), <2>1, <2>3, <2>4, <2>8
    <3>2. d \div Budget \in Nat
      BY <3>1, Quotient
    <3>3. e \in Nat /\ 1 <= e
      BY <3>1, <3>2, Continued
    <3>4. Waiting(s) \in {"check", "poll"}
      BY DEF Waiting
    <3> HIDE DEF d, e
    <3>a. /\ rx' = [rx EXCEPT ![s] = [at |-> Waiting(s), hdr |-> m, assembled |-> n,
                                      ci |-> 1, expected |-> e, room |-> 0]]
          /\ UNCHANGED <<pending, result>>
      BY <1>1, <2>8 DEF Continue, e
    <3>5. More(s, p, m, n)
      BY <1>1, <1>2, <2>7, <2>8, <3>1, <3>3, <3>4, <3>a DEF More
    <3> QED BY <2>2, <2>3, <2>4, <3>5 DEF Takings
  <2>9. CASE v = "Ok"
    <3>1. n = m.len /\ p.hi = m.len
      BY SMTT(60), <2>1, <2>3, <2>4, <2>9
    <3>2. [i \in 1..m.len |-> IF i <= n THEN Byte(Peer(s), m, i) ELSE <<>>]
            = AsSent(s, m)
      BY SMTT(60), <2>3, <3>1 DEF AsSent
    <3>3. Whole(s, p, m, n)
      BY <1>1, <2>7, <2>9, <3>1, <3>2 DEF Whole
    <3> QED BY <2>2, <2>3, <2>4, <3>3 DEF Takings
  <2> QED BY <1>4, <2>8, <2>9
<1> QED BY <1>3, <1>4

(* When the last packet has come in its place, the bytes are the sender's.  *)
LEMMA Complete ==
  ASSUME Types, Reassembly, NEW s \in Sides, NEW p \in Cuts, NEW m \in Msgs, NEW n \in Nat,
         rx[s].hdr = m, m # NoMsg, p.msg.id = m.id, p.msg.len = m.len, p.idx = rx[s].ci,
         n = p.hi - p.lo, rx[s].assembled + n = m.len
  PROVE  /\ p.hi = m.len
         /\ SubSeq(Copied(s, p, n, rx[s].assembled, m.len), 1, m.len) = AsSent(s, m)
<1> DEFINE a == rx[s].assembled
           b == Copied(s, p, n, a, m.len)
<1>0. /\ a \in Nat /\ m.len \in Nat /\ a <= Len(buf[s])
      /\ rx[s].ci \in Nat /\ a <= rx[s].ci * Budget
  BY RxFacts, MsgTypes DEF Reassembly, Gathered
<1>1. a = p.lo /\ p.hi = m.len
  <2>1. p.lo = rx[s].ci * Budget /\ p.lo \in Nat /\ p.hi \in Nat /\ p.hi <= m.len
    BY CutFacts
  <2>2. /\ a \in Nat /\ n \in Nat /\ p.lo \in Nat /\ p.hi \in Nat /\ m.len \in Nat
        /\ a + n = m.len /\ n = p.hi - p.lo /\ a <= p.lo /\ p.hi <= m.len
    BY <1>0, <2>1
  <2> HIDE DEF a
  <2> QED BY SMTT(60), <2>2
<1>2. Holds(buf[s], s, a, m)
  BY <1>1, CutFacts DEF Reassembly, Gathered
<1>3. a + n = m.len /\ a + n <= m.len
  BY SMTT(60), <1>0
<1> HIDE DEF a
<1>4. Holds(b, s, m.len, m)
  BY <1>0, <1>1, <1>2, <1>3, LongerPrefix
<1>5. b \in Seq(Bytes) /\ Len(b) >= m.len
  BY <1>0, CopiedTypes
<1> HIDE DEF b
<1>6. SubSeq(b, 1, m.len) = [i \in 1..m.len |-> b[1 + i - 1]]
  BY SMTT(60), <1>0, <1>5
<1>7. SubSeq(b, 1, m.len) = [i \in 1..m.len |-> b[i]]
  BY SMTT(60), <1>0, <1>6
<1> QED BY <1>1, <1>4, <1>7 DEF a, b, AsSent, Holds

(* A later packet is refused, completes the message, or goes on with it.    *)
LEMMA NextTaken ==
  ASSUME Types, Reassembly, NEW s \in Sides, Take(s), left' \in 0..Deadline,
         NEW p \in Cuts \cup Rests, p = Head(wire[Peer(s)]), TakeNext(s)
  PROVE  Ends(s) \/ Takings(s)
<1> DEFINE n == p.hi - p.lo
           v == NextVerdict(s, p, n)
           m == rx[s].hdr
           b == Copied(s, p, n, rx[s].assembled, m.len)
<1>1. /\ m # NoMsg
      /\ UNCHANGED inflight
      /\ v = "More" => /\ buf' = [buf EXCEPT ![s] = b]
                       /\ Continue(s, m, rx[s].assembled + n, rx[s].ci + 1, rx[s].expected)
      /\ v = "Ok" => /\ buf' = [buf EXCEPT ![s] = b]
                     /\ Deliver(s, m, SubSeq(b, 1, m.len))
      /\ v # "More" /\ v # "Ok" => Violate(s, v)
  BY DEF TakeNext
<1> HIDE DEF v
<1>2. CASE v \notin {"Ok", "More"}
  <2>1. v \in Errors \ {"Ok"}
    BY <1>2 DEF v, NextVerdict, Errors
  <2> QED BY <1>1, <1>2, <2>1, RefusedEnds
<1>3. CASE v \in {"Ok", "More"}
  <2>1. /\ p.msg.id = m.id /\ p.idx = rx[s].ci /\ p.count = rx[s].expected
        /\ p.msg.len = m.len /\ ~(rx[s].assembled + n > m.len)
        /\ IF v = "Ok" THEN rx[s].assembled + n = m.len ELSE rx[s].assembled + n # m.len
    BY <1>3 DEF v, NextVerdict
  <2>2. p.idx > 0
    BY <1>1, <2>1 DEF Reassembly, Gathered
  <2>3. p \in Cuts
    BY <2>2, Sums DEF Rests
  <2>c. m \in Msgs /\ rx[s].assembled \in Nat /\ rx[s].expected \in Nat
    BY <1>1, RxFacts
  <2>d. n \in Nat /\ n <= p.hi - p.lo
    BY SMTT(60), <2>3, CutFacts
  <2>4. /\ n \in Nat /\ n <= p.hi - p.lo /\ m \in Msgs /\ m.len \in Nat
        /\ rx[s].assembled \in Nat /\ rx[s].expected \in Nat
    BY <2>c, <2>d, MsgTypes
  <2>a. rx[s].ci + 1 <= rx[s].expected
    BY SMTT(60), <2>1, <2>3, CutFacts
  <2>5. UNCHANGED faults
    BY <1>1, <1>3 DEF Deliver, Continue
  <2>6. Accepts(s, p, m, n)
    BY <1>1, <2>1, <2>4, <2>5 DEF Take, Accepts, history
  <2>b. n = p.hi - p.lo /\ rx[s].hdr = m /\ b = Copied(s, p, n, rx[s].assembled, m.len)
    OBVIOUS
  <2> HIDE DEF n, m, b
  <2>7. CASE v = "More"
    <3>1. rx[s].assembled + n < m.len
      BY <2>1, <2>4, <2>7, NotAll
    <3>2. Waiting(s) \in {"check", "poll"}
      BY DEF Waiting
    <3>a. /\ rx' = [rx EXCEPT ![s] = [at |-> Waiting(s), hdr |-> m,
                                      assembled |-> rx[s].assembled + n, ci |-> rx[s].ci + 1,
                                      expected |-> rx[s].expected, room |-> 0]]
          /\ buf' = [buf EXCEPT ![s] = b] /\ UNCHANGED <<pending, result>>
      BY <1>1, <2>7 DEF Continue
    <3>3. More(s, p, m, n)
      BY <2>4, <2>a, <2>b, <2>6, <3>1, <3>2, <3>a DEF More
    <3> QED BY <2>3, <2>4, <3>3 DEF Takings
  <2>8. CASE v = "Ok"
    <3>0. rx[s].assembled + n = m.len
      BY <2>1, <2>8
    <3>1. p.hi = m.len /\ SubSeq(b, 1, m.len) = AsSent(s, m)
      <4>1. rx[s].hdr = m /\ m # NoMsg /\ m \in Msgs /\ n \in Nat /\ n = p.hi - p.lo
        BY <1>1, <2>4, <2>b
      <4>2. p.msg.id = m.id /\ p.msg.len = m.len /\ p.idx = rx[s].ci
        BY <2>1
      <4>3. p.hi = m.len
        BY <2>3, <3>0, <4>1, <4>2, Complete
      <4> QED
        BY <2>3, <3>0, <4>1, <4>2, <2>b, Complete
    <3>2. Whole(s, p, m, n)
      BY <1>1, <2>b, <2>6, <2>8, <3>1 DEF Whole
    <3> QED BY <2>3, <2>4, <3>2 DEF Takings
  <2> QED BY <1>3, <2>7, <2>8
<1> QED BY <1>2, <1>3

(* Every step of the session is one of these.                               *)
LEMMA Steps ==
  ASSUME Types, Reassembly, [Next]_vars
  PROVE  \/ \E m \in Msgs : Asks(m) \/ Answers(m)
         \/ \E s \in Sides : Ends(s) \/ Takings(s)
         \/ Calm
<1>1. ASSUME NEW m \in Msgs, Request(m) PROVE Asks(m) \/ Calm
  BY <1>1, QuietCalm DEF Request, Asks, callers, history, Errors, Sides
<1>2. ASSUME NEW m \in Msgs, Respond(m) PROVE Answers(m) \/ Calm
  BY <1>2, QuietCalm DEF Respond, Answers, callers, history, Errors, Sides
<1>3. ASSUME NEW s \in Sides, SendFails(s) \/ Drop(s) \/ ClosePipe(s) PROVE Ends(s)
  <2>1. rx[s] = NotReceiving
    BY <1>3 DEF SendFails, Types, Drop, ClosePipe, Idle
  <2>2. rx = [rx EXCEPT ![s] = NotReceiving]
    BY <2>1 DEF Types
  <2>3. <<s, "closed">> # <<"client", "failed">>
    OBVIOUS
  <2>4. CASE SendFails(s)
    BY <2>2, <2>4, FailAllEnds DEF SendFails, Ends, Types, callers, Errors
  <2>5. CASE Drop(s)
    BY <2>2, <2>3, <2>5 DEF Drop, Ends, Types, callers
  <2>6. CASE ClosePipe(s)
    BY <2>2, <2>3, <2>6 DEF ClosePipe, Ends, Types, callers
  <2> QED BY <1>3, <2>4, <2>5, <2>6
<1>4. ASSUME NEW s \in Sides, Take(s) PROVE Ends(s) \/ Takings(s)
  <2>1. left' \in 0..Deadline /\ Head(wire[Peer(s)]) \in Cuts \cup Rests
    <3>1. Head(wire[Peer(s)]) \in Cuts \cup Rests
      BY <1>4, RxFacts, Popped DEF Take
    <3>2. left \in 0..Deadline /\ (left' = left \/ left' \in 0..left)
      BY <1>4 DEF Take, Waited, Types
    <3>3. left' \in 0..Deadline
      BY <3>2, Sums
    <3> QED BY <3>1, <3>3
  <2> QED BY <1>4, <2>1, FirstTaken, NextTaken DEF Take
<1>5. ASSUME NEW s \in Sides, Step(s) PROVE Calm \/ Ends(s) \/ Takings(s)
  BY <1>3, <1>4, <1>5, PutCalm, Waits, OverrunEnds DEF Step
<1>6. CASE Abort \/ UNCHANGED vars
  BY <1>6, QuietCalm DEF Abort, vars, callers, history
<1> QED BY <1>1, <1>2, <1>3, <1>5, <1>6, ReceiveCalm DEF Next

-----------------------------------------------------------------------------
(* Each conjunct of the invariant is preserved.                             *)
(* What a receive that wants another packet has counted.                    *)
Counted(s, m, n) ==
  /\ rx'[s].hdr = m /\ rx'[s].assembled = rx[s].assembled + n
  /\ rx'[s].ci = rx[s].ci + 1 /\ rx[s].ci + 1 <= rx'[s].expected
Alone(s) ==
  /\ \A t \in Sides : t # s => rx'[t] = rx[t] /\ buf'[t] = buf[t]
  /\ result' = result /\ pending' = pending

(* What a receive has counted after a packet that is not the last.          *)
LEMMA MoreFacts ==
  ASSUME Types, NEW s \in Sides, NEW p, NEW m \in Msgs, NEW n \in Nat, More(s, p, m, n)
  PROVE  /\ rx' \in [Sides -> RxType] /\ Counted(s, m, n) /\ Alone(s)
         /\ buf'[s] = Copied(s, p, n, rx[s].assembled, m.len)
<1> DEFINE a == rx[s].assembled + n
           ci == rx[s].ci + 1
<1>1. a \in Nat /\ ci \in Nat
  BY RxFacts, Sums
<1> HIDE DEF a, ci
<1>2. PICK at \in {"check", "poll"}, e \in Nat :
         /\ ci <= e
         /\ rx' = [rx EXCEPT ![s] = [at |-> at, hdr |-> m, assembled |-> a, ci |-> ci,
                                     expected |-> e, room |-> 0]]
  BY DEF More, a, ci
<1> DEFINE new == [at |-> at, hdr |-> m, assembled |-> a, ci |-> ci, expected |-> e, room |-> 0]
<1>3. new \in RxType
  BY SMTT(60), <1>1 DEF RxType
<1>4. new.hdr = m /\ new.assembled = a /\ new.ci = ci /\ new.expected = e
  OBVIOUS
<1>5. rx' = [rx EXCEPT ![s] = new]
  BY <1>2
<1> HIDE DEF new
<1>6. /\ rx' \in [Sides -> RxType] /\ rx'[s] = new
      /\ \A t \in Sides : t # s => rx'[t] = rx[t]
  BY <1>3, <1>5 DEF Types
<1>7. /\ buf'[s] = Copied(s, p, n, rx[s].assembled, m.len)
      /\ \A t \in Sides : t # s => buf'[t] = buf[t]
      /\ result' = result /\ pending' = pending
  BY DEF More, Types
<1>8. Counted(s, m, n)
  BY <1>2, <1>4, <1>6 DEF Counted, a, ci
<1>9. Alone(s)
  BY <1>6, <1>7 DEF Alone
<1> QED BY <1>6, <1>7, <1>8, <1>9

(* Each step keeps the types.                                               *)
LEMMA TypesStep == Types /\ Reassembly /\ [Next]_vars => Types'
<1> SUFFICES ASSUME Types, Reassembly, [Next]_vars PROVE Types'
  OBVIOUS
<1>0. "none" \in Errors /\ "Ok" \in Errors /\ "client" \in Sides /\ "server" \in Sides
  BY DEF Errors, Sides
<1>1. ASSUME NEW m \in Msgs, NEW s \in Sides, Idle(s), Returned(s, "none"),
             out' = [out EXCEPT ![s] = Packets(m)]
      PROVE  /\ result' \in [Sides -> ResultType] /\ out' \in [Sides -> Seq(Cuts)]
             /\ \A t \in Sides : out'[t] # <<>> => rx[t] = NotReceiving
  BY <1>0, <1>1, ReturnedTypes, PacketsCut DEF Idle, Types
<1>2. ASSUME NEW m \in Msgs, Asks(m) PROVE Types'
  BY <1>0, <1>1, <1>2, MsgTypes DEF Asks, Types
<1>3. ASSUME NEW m \in Msgs, Answers(m) PROVE Types'
  BY <1>0, <1>1, <1>3 DEF Answers, Types
<1>4. ASSUME NEW s \in Sides, Ends(s) PROVE Types'
  <2>1. result' \in [Sides -> ResultType]
    BY <1>4, ReturnedTypes DEF Ends, Types
  <2>2. rx' \in [Sides -> RxType] /\ rx'[s] = NotReceiving /\ \A t \in Sides : t # s => rx'[t] = rx[t]
    BY <1>4, IdleTypes DEF Ends, Types
  <2>3. <<>> \in Seq(Cuts) /\ <<>> \in Seq(Bytes)
    BY SMTT(60)
  <2>4. /\ out' \in [Sides -> Seq(Cuts)] /\ \A t \in Sides : t # s => out'[t] = out[t]
        /\ buf' \in [Sides -> Seq(Bytes)]
    BY <1>4, <2>3 DEF Ends, Types
  <2> QED BY <1>4, <2>1, <2>2, <2>4 DEF Ends, Types, callers
<1>5. ASSUME NEW s \in Sides, NEW p \in Cuts, NEW m \in Msgs, NEW n \in Nat, Accepts(s, p, m, n),
             rx' \in [Sides -> RxType], \A t \in Sides : t # s => rx'[t] = rx[t],
             buf' = buf \/ buf' = [buf EXCEPT ![s] = Copied(s, p, n, rx[s].assembled, m.len)],
             result' \in [Sides -> ResultType], pending' \subseteq Ids
      PROVE  Types'
  <2> DEFINE t == Peer(s)
             w == wire[t]
             b == Copied(s, p, n, rx[s].assembled, m.len)
  <2>1. /\ t \in Sides /\ w \in Seq(Cuts \cup Rests) /\ w # <<>> /\ Len(w) <= QueueCap
        /\ wire' = [wire EXCEPT ![t] = Tail(w)]
    BY <1>5, RxFacts DEF Accepts
  <2>2. b \in Seq(Bytes)
    BY MsgTypes, CopiedTypes, RxFacts
  <2> HIDE DEF t, w, b
  <2>3. Tail(w) \in Seq(Cuts \cup Rests) /\ Len(Tail(w)) <= QueueCap
    BY <2>1, Popped, Shorter
  <2>4. wire' \in [Sides -> Seq(Cuts \cup Rests)] /\ \A u \in Sides : Len(wire'[u]) <= QueueCap
    BY <2>1, <2>3 DEF Types
  <2>5. buf' \in [Sides -> Seq(Bytes)]
    BY <1>5, <2>2 DEF Types, b
  <2>6. out' = out /\ \A u \in Sides : out'[u] # <<>> => rx'[u] = NotReceiving
    <3>1. out[s] = <<>> /\ out' = out
      <4>1. rx[s].at = "poll" /\ out' = out
        BY <1>5 DEF Accepts
      <4>2. rx[s] # NotReceiving
        BY <4>1, NotPolling
      <4> QED BY <4>1, <4>2 DEF Types
    <3> QED BY <1>5, <3>1 DEF Types
  <2> QED BY <1>5, <2>4, <2>5, <2>6 DEF Accepts, Types
<1>6. ASSUME NEW s \in Sides, NEW p \in Cuts, NEW m \in Msgs, NEW n \in Nat, More(s, p, m, n)
      PROVE  Types'
  <2>2. rx' \in [Sides -> RxType] /\ \A t \in Sides : t # s => rx'[t] = rx[t]
    BY <1>6, MoreFacts DEF Alone
  <2> QED BY <1>5, <1>6, <2>2 DEF More, Types
<1>7. ASSUME NEW s \in Sides, NEW p \in Cuts, NEW m \in Msgs, NEW n \in Nat, Whole(s, p, m, n)
      PROVE  Types'
  <2> DEFINE b == AsSent(s, m)
  <2>1. b \in Seq(Bytes)
    <3>1. m.len \in Nat /\ \A i \in 1..m.len : Byte(Peer(s), m, i) \in Bytes
      BY SMTT(60), RxFacts, MsgTypes DEF Byte, Bytes
    <3>2. b \in [1..m.len -> Bytes]
      BY <3>1 DEF AsSent
    <3> QED BY <3>1, <3>2, Listed
  <2>2. /\ Accepts(s, p, m, n)
        /\ buf' = buf \/ buf' = [buf EXCEPT ![s] = Copied(s, p, n, rx[s].assembled, m.len)]
        /\ Deliver(s, m, b)
    BY <1>7 DEF Whole
  <2> HIDE DEF b
  <2>3. rx' \in [Sides -> RxType] /\ \A t \in Sides : t # s => rx'[t] = rx[t]
    BY <2>2, IdleTypes DEF Deliver, Types
  <2>4. pending' \subseteq Ids
    BY <2>2, MsgTypes DEF Deliver, Types
  <2>5. result' \in [Sides -> ResultType]
    BY <1>0, <2>1, <2>2 DEF Deliver, Types, ResultType
  <2> QED BY <1>5, <2>2, <2>3, <2>4, <2>5
<1> QED BY <1>2, <1>3, <1>4, <1>6, <1>7, Steps DEF Takings, Calm

(* And those of the two flags.                                              *)
LEMMA FlagsStep == Flags /\ [Next]_vars => Flags'
<1> SUFFICES ASSUME Flags, [Next]_vars PROVE Flags'
  OBVIOUS
<1>1. CASE abort' = abort /\ (open' = open \/ \E s \in Sides : open' = [open EXCEPT ![s] = FALSE])
  BY <1>1 DEF Flags
<1>2. CASE abort' = ~abort /\ open' = open
  BY <1>2 DEF Flags
<1>3. ASSUME NEW m \in Msgs, Request(m) \/ Respond(m) PROVE abort' = abort /\ open' = open
  BY <1>3 DEF Request, Respond
<1>4. ASSUME NEW s \in Sides, Step(s) PROVE abort' = abort /\ open' = open
  BY <1>4, ZenonT(60)
     DEF Step, PutPacket, SendFails, CheckWait, PollEmpty, PeekEmpty, RecvFails,
     Take, TakeAborted, ReadOverruns, WaitFails
<1>5. ASSUME NEW s \in Sides, Drop(s) \/ ClosePipe(s)
      PROVE  abort' = abort /\ open' = [open EXCEPT ![s] = FALSE]
  BY <1>5 DEF Drop, ClosePipe
<1>6. ASSUME NEW s \in Sides, NEW r \in Rooms, Receive(s, r) PROVE abort' = abort /\ open' = open
  BY <1>6 DEF Receive
<1>7. ASSUME Abort PROVE abort' = ~abort /\ open' = open
  BY <1>7 DEF Abort
<1>8. ASSUME UNCHANGED vars PROVE abort' = abort /\ open' = open
  BY <1>8 DEF vars
<1> QED BY <1>1, <1>2, <1>3, <1>4, <1>5, <1>6, <1>7, <1>8, ZenonT(60) DEF Next

(* What a step leaves of the other side's receive, and of its own.          *)
LEMMA Apart ==
  ASSUME Types, NEW s \in Sides, NEW t \in Sides, t # s,
         Ends(s) \/ \E p \in Cuts, m \in Msgs, n \in Nat : More(s, p, m, n) \/ Whole(s, p, m, n)
  PROVE  rx'[t] = rx[t] /\ buf'[t] = buf[t] /\ result'[t] = result[t]
<1>1. CASE Ends(s)
  BY <1>1, ReturnedTypes DEF Ends, Types
<1>2. ASSUME NEW p \in Cuts, NEW m \in Msgs, NEW n \in Nat, More(s, p, m, n) \/ Whole(s, p, m, n)
      PROVE  rx'[t] = rx[t] /\ buf'[t] = buf[t] /\ result'[t] = result[t]
  <2>1. CASE More(s, p, m, n)
    <3>1. Alone(s)
      BY <2>1, MoreFacts
    <3> QED BY <3>1 DEF Alone
  <2>2. CASE Whole(s, p, m, n)
    BY <2>2 DEF Whole, Deliver, Types
  <2> QED BY <1>2, <2>1, <2>2
<1> QED BY <1>1, <1>2

(* A receive that is over holds no part of a message.                       *)
LEMMA Ended ==
  ASSUME Types, NEW s \in Sides,
         Ends(s) \/ \E p \in Cuts, m \in Msgs, n \in Nat : Whole(s, p, m, n)
  PROVE  rx'[s].hdr = NoMsg /\ rx'[s].assembled = 0 /\ rx'[s].ci = 0
BY IdleTypes DEF Ends, Whole, Deliver, Types

(* A receive that is whole returns its message, byte for byte.              *)
LEMMA Delivered ==
  ASSUME Types, NEW s \in Sides, NEW p \in Cuts, NEW m \in Msgs, NEW n \in Nat, Whole(s, p, m, n)
  PROVE  result'[s].msg = m /\ result'[s].bytes = AsSent(s, m)
BY DEF Whole, Deliver, Types

(* An operation other than a whole receive reports no message.              *)
LEMMA Unreported ==
  ASSUME Types, NEW t \in Sides,
         \/ \E m \in Msgs : Asks(m) \/ Answers(m)
         \/ \E s \in Sides : Ends(s)
         \/ Calm
         \/ \E s \in Sides, p \in Cuts, m \in Msgs, n \in Nat : More(s, p, m, n)
  PROVE  result'[t] = result[t] \/ result'[t].err # "Ok"
<1>1. ASSUME NEW s \in Sides, NEW err \in Errors \ {"Ok"}, Returned(s, err)
      PROVE  result'[t] = result[t] \/ result'[t].err # "Ok"
  BY <1>1, ReturnedTypes
<1>2. "none" \in Errors \ {"Ok"} /\ "client" \in Sides /\ "server" \in Sides
  BY DEF Errors, Sides
<1> QED BY <1>1, <1>2 DEF Asks, Answers, Ends, Calm, More

(* A receive under way has the bytes of its message, or is behind its chunk *)
(* index for good.                                                          *)
LEMMA ReassemblyStep == Types /\ Reassembly /\ [Next]_vars => Reassembly'
<1> SUFFICES ASSUME Types, Reassembly, [Next]_vars, NEW t \in Sides PROVE Gathered(t)'
  BY DEF Reassembly
<1>0. Gathered(t) /\ Types'
  BY TypesStep DEF Reassembly
<1>1. buf'[t] \in Seq(Bytes) /\ rx'[t].expected \in Nat
  BY <1>0 DEF Types, RxType
<1>2. ASSUME rx'[t].hdr = rx[t].hdr, rx'[t].assembled = rx[t].assembled, rx'[t].ci = rx[t].ci,
             rx'[t].expected = rx[t].expected, buf'[t] = buf[t]
      PROVE  Gathered(t)'
  BY <1>0, <1>2 DEF Gathered, Holds, Byte
<1>3. ASSUME rx'[t].hdr = NoMsg, rx'[t].assembled = 0, rx'[t].ci = 0
      PROVE  Gathered(t)'
  BY SMTT(60), <1>1, <1>3 DEF Gathered
<1>4. CASE Calm \/ \E m \in Msgs : Asks(m) \/ Answers(m)
  BY <1>2, <1>4 DEF Asks, Answers, Calm
<1>5. ASSUME NEW s \in Sides, Ends(s) \/ Takings(s), t # s PROVE Gathered(t)'
  BY <1>2, <1>5, Apart DEF Takings
<1>6. ASSUME NEW p \in Cuts, NEW m \in Msgs, NEW n \in Nat, More(t, p, m, n)
      PROVE  Gathered(t)'
  <2> DEFINE a == rx[t].assembled
             ci == rx[t].ci
             b == Copied(t, p, n, a, m.len)
  <2>0. /\ a \in Nat /\ ci \in Nat /\ m.len \in Nat /\ m # NoMsg
        /\ buf[t] \in Seq(Bytes) /\ a <= Len(buf[t])
    BY <1>0, RxFacts, MsgTypes DEF Gathered
  <2>1. /\ rx'[t].hdr = m /\ rx'[t].assembled = a + n /\ rx'[t].ci = ci + 1
        /\ ci + 1 <= rx'[t].expected /\ buf'[t] = b /\ a + n < m.len
    <3>1. a + n < m.len
      BY <1>6 DEF More
    <3>2. Counted(t, m, n) /\ buf'[t] = b
      BY <1>6, MoreFacts
    <3> QED BY <3>1, <3>2 DEF Counted
  <2>a. p.idx = ci /\ n <= p.hi - p.lo /\ p.msg.id = m.id
    BY <1>6 DEF More, Accepts
  <2>b. p.lo = ci * Budget
    BY <2>a, CutFacts
  <2>2. /\ p.hi <= p.lo + Budget /\ n <= p.hi - p.lo
        /\ p.lo \in Nat /\ p.hi \in Nat /\ p.msg.id = m.id
    BY <2>a, CutFacts
  <2>3. a <= p.lo
    BY SMTT(60), <1>0, <2>0, <2>b, Sizes DEF Gathered
  <2> HIDE DEF a
  <2>4. b \in Seq(Bytes) /\ Len(b) >= m.len
    BY <2>0, CopiedTypes
  <2>5. (ci + 1) * Budget = p.lo + Budget
    BY <2>0, <2>b, NextPlace
  <2>6. a = p.lo => Holds(buf[t], t, a, m)
    <3>1. CASE rx[t].hdr = NoMsg
      BY SMTT(60), <1>0, <3>1 DEF Gathered, Holds, a
    <3>2. CASE rx[t].hdr # NoMsg
      <4>1. m = rx[t].hdr
        BY <1>6, <3>2 DEF More, Accepts
      <4> QED BY <1>0, <2>b, <3>2, <4>1 DEF Gathered, a
    <3> QED BY <3>1, <3>2
  <2>10. Len(b) \in Nat /\ a + n <= Len(b)
    BY SMTT(60), <2>0, <2>1, <2>4
  <2> HIDE DEF ci, b
  <2>7. ASSUME a + n = p.lo + Budget PROVE Holds(b, t, a + n, m)
    <3>1. a = p.lo /\ a + n <= m.len
      BY <2>0, <2>1, <2>2, <2>3, <2>7, Filled
    <3> QED BY <2>0, <2>2, <2>6, <3>1, LongerPrefix DEF b
  <2>8. ci + 1 > 0 /\ a + n <= p.lo + Budget
    <3>1. ci + 1 > 0
      BY <2>0, Sums
    <3>2. a + n <= p.lo + Budget
      BY <2>0, <2>2, <2>3, Spans
    <3> QED BY <3>1, <3>2
  <2> QED BY <2>0, <2>1, <2>5, <2>7, <2>8, <2>10 DEF Gathered, Holds, Byte
<1>7. CASE Ends(t) \/ \E p \in Cuts, m \in Msgs, n \in Nat : Whole(t, p, m, n)
  BY <1>3, <1>7, Ended
<1> QED BY <1>4, <1>5, <1>6, <1>7, Steps DEF Takings

(* What has been returned stays as it was sent.                             *)
LEMMA IntactStep == Types /\ Reassembly /\ Intact /\ [Next]_vars => Intact'
<1> SUFFICES ASSUME Types, Reassembly, Intact, [Next]_vars, NEW t \in Sides, result'[t].err = "Ok"
             PROVE  result'[t].msg \in Msgs /\ result'[t].bytes = AsSent(t, result'[t].msg)
  BY DEF Intact, AsSent, Byte
<1>1. CASE result'[t] = result[t]
  BY <1>1 DEF Intact
<1>2. ASSUME NEW p \in Cuts, NEW m \in Msgs, NEW n \in Nat, Whole(t, p, m, n)
      PROVE  result'[t].msg \in Msgs /\ result'[t].bytes = AsSent(t, result'[t].msg)
  BY <1>2, Delivered
<1>3. CASE result'[t] # result[t]
  BY <1>2, <1>3, Steps, Unreported, Apart DEF Takings
<1> QED BY <1>1, <1>3

(* An id given up or answered is never in flight again.                     *)
LEMMA SettledStep == Types /\ Reassembly /\ Settled /\ [Next]_vars => Settled'
<1> SUFFICES ASSUME Types, Reassembly, Settled, [Next]_vars PROVE Settled'
  OBVIOUS
<1> DEFINE c == "client"
           Free(m) == m.id \in used \ (inflight \cup failed)
           Kept == /\ rx'[c].hdr \in {rx[c].hdr, NoMsg}
                   /\ result'[c] = result[c] \/ result'[c].err # "Ok"
<1>0. /\ c \in Sides /\ inflight \subseteq used
      /\ failed \subseteq used /\ failed \cap inflight = {}
      /\ rx[c].hdr # NoMsg => Free(rx[c].hdr)
      /\ result[c].err = "Ok" => Free(result[c].msg)
  BY DEF Settled, Types, Sides
<1>1. ASSUME Kept, UNCHANGED <<inflight, used, failed>> PROVE Settled'
  BY <1>0, <1>1 DEF Settled
<1>2. ASSUME NEW m \in Msgs, Asks(m) PROVE Settled'
  <2>1. Kept
    BY <1>0, <1>2, Unreported DEF Asks
  <2> QED BY <1>0, <1>2, <2>1 DEF Asks, Settled, history
<1>3. ASSUME NEW m \in Msgs, Answers(m) PROVE Settled'
  BY <1>0, <1>1, <1>3, Unreported DEF Answers, history
<1>4. CASE Calm
  BY <1>0, <1>1, <1>4 DEF Calm
<1>5. ASSUME NEW s \in Sides, Ends(s) PROVE Settled'
  <2>1. Kept
    BY <1>0, <1>5, Unreported, Ended, Apart
  <2>2. /\ used' = used /\ inflight' \subseteq inflight
        /\ failed' = failed \/ (failed' = failed \cup inflight /\ inflight' = {})
    BY <1>5 DEF Ends, callers
  <2>3. failed' \subseteq used' /\ failed' \cap inflight' = {}
    BY <1>0, <2>2
  <2>4. \A m : Free(m) => m.id \in used' \ (inflight' \cup failed')
    BY <2>2
  <2> HIDE DEF Free
  <2> QED BY <1>0, <2>1, <2>3, <2>4 DEF Settled
<1>6. ASSUME NEW p \in Cuts, NEW m \in Msgs, NEW n \in Nat, Accepts(c, p, m, n)
      PROVE  /\ m.id \in used' \ (inflight' \cup failed') /\ used' = used /\ failed' = failed
             /\ inflight' \subseteq inflight
  BY <1>0, <1>6 DEF Accepts, history
<1>7. ASSUME NEW p \in Cuts, NEW m \in Msgs, NEW n \in Nat, More(c, p, m, n)
      PROVE  Settled'
  <2>1. Accepts(c, p, m, n) /\ result' = result /\ rx'[c].hdr = m
    <3>1. Accepts(c, p, m, n)
      BY <1>7 DEF More
    <3>2. Counted(c, m, n) /\ Alone(c)
      BY <1>0, <1>7, MoreFacts
    <3> QED BY <3>1, <3>2 DEF Counted, Alone
  <2> QED BY <1>0, <1>6, <2>1 DEF Settled
<1>8. ASSUME NEW p \in Cuts, NEW m \in Msgs, NEW n \in Nat, Whole(c, p, m, n)
      PROVE  Settled'
  <2>1. Accepts(c, p, m, n) /\ result'[c].msg = m /\ rx'[c].hdr = NoMsg
    <3>1. Accepts(c, p, m, n)
      BY <1>8 DEF Whole
    <3>2. result'[c].msg = m
      BY <1>0, <1>8, Delivered
    <3>3. rx'[c].hdr = NoMsg
      BY <1>0, <1>8, Ended
    <3> QED BY <3>1, <3>2, <3>3
  <2> QED BY <1>0, <1>6, <2>1 DEF Settled
<1>9. ASSUME NEW s \in Sides, Takings(s), s # c PROVE Settled'
  <2>1. UNCHANGED <<inflight, used, failed>>
    <3>1. PICK p \in Cuts, m \in Msgs, n \in Nat : Accepts(s, p, m, n)
      BY <1>9 DEF Takings, More, Whole
    <3> QED BY <1>9, <3>1 DEF Accepts, history
  <2> QED BY <1>0, <1>1, <1>9, <2>1, Apart DEF Takings
<1> QED BY <1>2, <1>3, <1>4, <1>5, <1>7, <1>8, <1>9, Steps DEF Takings

(* As long as nothing but a failure of the client happens, a request in     *)
(* flight is on its way, at the server, or its answer is on its way.        *)
LEMMA ComingStep ==
  Types /\ Reassembly /\ Settled /\ InflightIsComing /\ [Next]_vars => InflightIsComing'
<1> SUFFICES ASSUME Types, Reassembly, Settled, InflightIsComing, [Next]_vars,
                    faults' \subseteq {<<"client", "failed">>}, NEW id \in inflight'
             PROVE  Coming(id)'
  BY DEF InflightIsComing
<1> DEFINE c == "client"
           v == "server"
           Here == \/ Has(Line(c), id) \/ Has(Line(v), id)
                   \/ rx[v].hdr.id = id \/ id \in pending
           There == \/ Has(Line(c)', id) \/ Has(Line(v)', id)
                    \/ rx'[v].hdr.id = id \/ id \in pending'
<1>0. c \in Sides /\ v \in Sides /\ c # v /\ Peer(c) = v /\ Peer(v) = c /\ \A t \in Sides : t = c \/ t = v
  BY DEF Sides, Peer
<1>1. Types' /\ id # "none"
  BY TypesStep, Sizes DEF Types
<1>2. SUFFICES There
  <2>1. ASSUME NEW t \in Sides PROVE Has(Line(t)', id) => Has(wire'[t], id) \/ Has(out'[t], id)
    <3>1. wire'[t] \in Seq(Cuts \cup Rests) /\ out'[t] \in Seq(Cuts)
      BY <1>1 DEF Types
    <3>2. Seq(Cuts) \subseteq Seq(Cuts \cup Rests)
      BY SMTT(60)
    <3> QED BY <3>1, <3>2, HasConcat DEF Line
  <2> QED BY <1>0, <2>1 DEF Coming, Has
<1>3. ASSUME faults' = faults, id \in inflight PROVE Here
  <2>1. Coming(id)
    BY <1>3 DEF InflightIsComing
  <2>2. \/ \E t \in Sides : Has(wire[t], id) \/ Has(out[t], id)
        \/ rx[v].hdr.id = id \/ id \in pending
    BY <2>1 DEF Coming, Has
  <2> QED BY <1>0, <2>2, Lines
<1> HIDE DEF Here
<1>4. ASSUME NEW m \in Msgs, Asks(m) PROVE There
  <2>1. (Has(Line(c)', id) <=> Has(Line(c), id) \/ id = m.id) /\ Line(v)' = Line(v)
    BY <1>0, <1>4, LineSent DEF Asks, Idle
  <2> QED BY <1>3, <1>4, <2>1 DEF Asks, Here, history
<1>5. ASSUME NEW m \in Msgs, Answers(m) PROVE There
  <2>1. (Has(Line(v)', id) <=> Has(Line(v), id) \/ id = m.id) /\ Line(c)' = Line(c)
    BY <1>0, <1>5, LineSent DEF Answers, Idle
  <2> QED BY <1>3, <1>5, <2>1 DEF Answers, Here, history
<1>6. CASE Calm
  BY <1>0, <1>3, <1>6 DEF Calm, Here
<1>7. ASSUME NEW s \in Sides, Ends(s) PROVE There
  <2>1. PICK f : faults' = faults \cup {f} /\ (f = <<"client", "failed">> => inflight' = {})
    BY <1>7 DEF Ends
  <2> QED BY <2>1
<1>8. ASSUME NEW s \in Sides, NEW p \in Cuts, NEW m \in Msgs, NEW n \in Nat, Accepts(s, p, m, n)
      PROVE  /\ Here
             /\ Line(s)' = Line(s)
             /\ Has(Line(Peer(s)), id) => id = m.id \/ Has(Line(Peer(s))', id)
             /\ rx[s].hdr.id = id => id = m.id
             /\ s = c => id # m.id
  <2>1. Here
    BY <1>3, <1>8 DEF Accepts, history
  <2>2. /\ Line(s)' = Line(s)
        /\ Has(Line(Peer(s)), id) => id = m.id \/ Has(Line(Peer(s))', id)
    BY <1>8, RxFacts, LineTake DEF Accepts
  <2>3. rx[s].hdr.id = id => id = m.id
    <3>1. NoMsg.id = "none"
      BY DEF NoMsg
    <3> QED BY <1>1, <1>8, <3>1 DEF Accepts
  <2>4. s = c => id # m.id
    BY <1>1, <1>8 DEF Accepts, Settled
  <2> QED BY <2>1, <2>2, <2>3, <2>4
<1>9. ASSUME NEW s \in Sides, NEW p \in Cuts, NEW m \in Msgs, NEW n \in Nat,
             More(s, p, m, n) \/ Whole(s, p, m, n)
      PROVE  There
  <2>1. /\ Accepts(s, p, m, n) /\ \A t \in Sides : t # s => rx'[t] = rx[t]
        /\ s # v => pending' = pending
        /\ s = v => \/ pending' = pending /\ rx'[v].hdr = m
                    \/ pending' = pending \cup {m.id}
    <3>1. CASE More(s, p, m, n)
      <4>1. Accepts(s, p, m, n)
        BY <3>1 DEF More
      <4>2. Counted(s, m, n) /\ Alone(s)
        BY <3>1, MoreFacts
      <4> QED BY <4>1, <4>2 DEF Counted, Alone
    <3>2. CASE Whole(s, p, m, n)
      BY <3>2 DEF Whole, Deliver, Types
    <3> QED BY <1>9, <3>1, <3>2
  <2>2. CASE s = c
    BY <1>0, <1>8, <2>1, <2>2 DEF Here
  <2>3. CASE s = v
    BY <1>0, <1>8, <2>1, <2>3 DEF Here
  <2> QED BY <1>0, <2>2, <2>3
<1> QED BY <1>4, <1>5, <1>6, <1>7, <1>9, Steps DEF Takings

(* As long as nothing fails, messages stay in order on each line, and an id *)
(* is in one place.                                                         *)
LEMMA FaultlessStep ==
  Types /\ Reassembly /\ Settled /\ Faultless /\ [Next]_vars => Faultless'
<1> SUFFICES ASSUME Types, Reassembly, Settled, Faultless, [Next]_vars, faults' = {}
             PROVE  (\A t \in Sides : Sorted(Line(t)') /\ Remaining(t)') /\ OnePlace'
  BY DEF Faultless, Sorted
<1> DEFINE c == "client"
           v == "server"
           LC == Line(c)
           LV == Line(v)
           LC1 == Line(c)'
           LV1 == Line(v)'
           hc == rx[c].hdr
           hv == rx[v].hdr
           hc1 == rx'[c].hdr
           hv1 == rx'[v].hdr
<1> DEFINE Good ==
             /\ Sorted(LC) /\ Sorted(LV)
             /\ hc # NoMsg => Trails(LV, hc, rx[c].ci)
             /\ hv # NoMsg => Trails(LC, hv, rx[v].ci)
             /\ \A id \in Ids : Has(LC, id) => id \in inflight \ pending /\ ~Has(LV, id)
             /\ hv # NoMsg => hv.id \in inflight \ pending /\ ~Has(LV, hv.id)
             /\ pending \subseteq inflight
             /\ \A id \in Ids : Has(LV, id) => id \notin pending /\ (id \in inflight \/ hc.id = id)
           Goal ==
             /\ Sorted(LC1) /\ Sorted(LV1)
             /\ hc1 # NoMsg => Trails(LV1, hc1, rx'[c].ci)
             /\ hv1 # NoMsg => Trails(LC1, hv1, rx'[v].ci)
             /\ \A id \in Ids : Has(LC1, id) => id \in inflight' \ pending' /\ ~Has(LV1, id)
             /\ hv1 # NoMsg => hv1.id \in inflight' \ pending' /\ ~Has(LV1, hv1.id)
             /\ pending' \subseteq inflight'
             /\ \A id \in Ids : Has(LV1, id) =>
                  id \notin pending' /\ (id \in inflight' \/ hc1.id = id)
<1>0. c \in Sides /\ v \in Sides /\ c # v /\ Peer(c) = v /\ Peer(v) = c /\ \A t \in Sides : t = c \/ t = v
  BY DEF Sides, Peer
<1>1. SUFFICES Goal
  <2>1. ASSUME Goal PROVE Remaining(c)' /\ Remaining(v)'
    BY <1>0, <2>1 DEF Remaining, Trails
  <2>2. ASSUME Goal PROVE OnePlace'
    BY <1>0, <2>2 DEF OnePlace, Has
  <2>3. ASSUME Goal PROVE \A t \in Sides : Sorted(Line(t)')
    BY <1>0, <2>3
  <2>4. ASSUME Goal PROVE \A t \in Sides : Remaining(t)'
    BY <1>0, <2>1, <2>4
  <2> QED BY <2>2, <2>3, <2>4
<1>2. faults = {} => Good
  BY <1>0 DEF Faultless, Remaining, OnePlace
<1>3. /\ NoMsg.id = "none" /\ "none" \notin Ids
      /\ inflight \subseteq used /\ used \subseteq Ids /\ pending \subseteq Ids
      /\ hc \in Msgs \cup {NoMsg} /\ hv \in Msgs \cup {NoMsg}
      /\ hc # NoMsg => hc.id \notin inflight
  BY <1>0, RxFacts, Sizes DEF Types, NoMsg, Settled
<1>4. \A m \in Msgs : m.id \in Ids /\ m.id # "none" /\ m # NoMsg
  BY MsgTypes
<1> HIDE DEF LC, LV, LC1, LV1, hc, hv, hc1, hv1
<1> DEFINE Kept == /\ LC1 = LC /\ LV1 = LV /\ hc1 = hc /\ hv1 = hv
                   /\ rx'[c].ci = rx[c].ci /\ rx'[v].ci = rx[v].ci
                   /\ UNCHANGED <<inflight, pending, faults>>
<1>5. ASSUME Kept PROVE Goal
  BY <1>2, <1>5
<1>6. ASSUME NEW m \in Msgs, Asks(m) PROVE Goal
  <2>1. /\ LC1 = LC \o Packets(m) /\ LV1 = LV
        /\ \A id : Has(LC1, id) <=> Has(LC, id) \/ id = m.id
    BY <1>0, <1>6, LineSent DEF Asks, Idle, LC, LV, LC1, LV1
  <2>2. /\ hc = NoMsg /\ hc1 = hc /\ hv1 = hv /\ rx' = rx /\ m.id \notin used
        /\ inflight' = inflight \cup {m.id} /\ pending' = pending
    BY <1>6, IdleTypes DEF Asks, Idle, hc, hv, hc1, hv1
  <2>3. Good
    BY <1>2, <1>6 DEF Asks, history
  <2>4. ~Has(LC, m.id) /\ ~Has(LV, m.id) /\ m.id \notin pending /\ (hv # NoMsg => hv.id # m.id)
    BY <1>3, <1>4, <2>2, <2>3
  <2>5. Sorted(LC1) /\ (hv # NoMsg => Trails(LC1, hv, rx[v].ci))
    BY <2>1, <2>3, <2>4, SortedConcat
  <2> QED BY <2>1, <2>2, <2>3, <2>4, <2>5
<1>7. ASSUME NEW m \in Msgs, Answers(m) PROVE Goal
  <2>1. /\ LV1 = LV \o Packets(m) /\ LC1 = LC
        /\ \A id : Has(LV1, id) <=> Has(LV, id) \/ id = m.id
    BY <1>0, <1>7, LineSent DEF Answers, Idle, LC, LV, LC1, LV1
  <2>2. /\ hv = NoMsg /\ hc1 = hc /\ hv1 = hv /\ rx' = rx /\ m.id \in pending
        /\ pending' = pending \ {m.id} /\ inflight' = inflight
    BY <1>7, IdleTypes DEF Answers, Idle, hc, hv, hc1, hv1
  <2>3. Good
    BY <1>2, <1>7 DEF Answers, history
  <2>4. ~Has(LC, m.id) /\ ~Has(LV, m.id) /\ m.id \in inflight /\ (hc # NoMsg => hc.id # m.id)
    BY <1>3, <1>4, <2>2, <2>3
  <2>5. Sorted(LV1) /\ (hc # NoMsg => Trails(LV1, hc, rx[c].ci))
    BY <2>1, <2>3, <2>4, SortedConcat
  <2> QED BY <2>1, <2>2, <2>3, <2>4, <2>5
<1>8. CASE Calm
  <2>1. Kept
    BY <1>0, <1>8 DEF Calm, LC, LV, LC1, LV1, hc, hv, hc1, hv1
  <2> QED BY <1>5, <2>1
<1>10. ASSUME NEW s \in Sides, Ends(s) PROVE Goal
  <2>1. PICK f : faults' = faults \cup {f}
    BY <1>10 DEF Ends
  <2> QED BY <2>1
<1>13. ASSUME NEW s \in Sides, NEW p \in Cuts, NEW m \in Msgs, NEW n \in Nat, Accepts(s, p, m, n)
       PROVE  /\ Good /\ m.id \in Ids
              /\ m = p.msg /\ p.idx = rx[s].ci
              /\ Line(s)' = Line(s) /\ Sorted(Line(Peer(s))')
              /\ Trails(Line(Peer(s))', m, rx[s].ci + 1)
              /\ p.hi = m.len => ~Has(Line(Peer(s))', m.id)
              /\ \A id : Has(Line(Peer(s)), id) <=> id = m.id \/ Has(Line(Peer(s))', id)
  <2> DEFINE l == Line(Peer(s))
  <2>1. /\ Line(s)' = Line(s) /\ l # <<>> /\ Head(l) = p /\ l' = Tail(l)
        /\ \A id : Has(l, id) <=> p.msg.id = id \/ Has(l', id)
    BY <1>13, RxFacts, LineTake DEF Accepts
  <2>2. Good /\ faults = {}
    BY <1>2, <1>13 DEF Accepts, history
  <2>3. Sorted(l) /\ (rx[s].hdr # NoMsg => Trails(l, rx[s].hdr, rx[s].ci))
    BY <1>13, <2>2, RxFacts DEF Faultless, Remaining
  <2>4. p.msg.id = m.id /\ p.idx = rx[s].ci /\ (rx[s].hdr = NoMsg => m = p.msg)
        /\ (rx[s].hdr # NoMsg => m = rx[s].hdr)
    BY <1>13 DEF Accepts
  <2> HIDE DEF l
  <2>5. m = p.msg
    BY <2>1, <2>3, <2>4, SortedTail
  <2>6. Sorted(l') /\ Trails(l', m, rx[s].ci + 1) /\ (p.hi = m.len => ~Has(l', m.id))
    BY <2>1, <2>3, <2>4, <2>5, SortedTail
  <2> QED BY <1>4, <2>1, <2>2, <2>4, <2>5, <2>6 DEF l
<1>14. ASSUME NEW p \in Cuts, NEW m \in Msgs, NEW n \in Nat, Accepts(c, p, m, n)
       PROVE  /\ LC1 = LC /\ Sorted(LV1) /\ Trails(LV1, m, rx[c].ci + 1)
              /\ p.hi = m.len => ~Has(LV1, m.id)
              /\ \A id : Has(LV, id) <=> id = m.id \/ Has(LV1, id)
              /\ inflight' = IF hc = NoMsg THEN inflight \ {m.id} ELSE inflight
              /\ hc # NoMsg => hc = m
  <2>1. /\ Line(c)' = Line(c) /\ Sorted(Line(Peer(c))')
        /\ Trails(Line(Peer(c))', m, rx[c].ci + 1)
        /\ p.hi = m.len => ~Has(Line(Peer(c))', m.id)
        /\ \A id : Has(Line(Peer(c)), id) <=> id = m.id \/ Has(Line(Peer(c))', id)
    BY <1>0, <1>13, <1>14
  <2>2. /\ LC1 = Line(c)' /\ LC = Line(c)
        /\ LV1 = Line(Peer(c))' /\ LV = Line(Peer(c))
    BY <1>0 DEF Line, LC, LC1, LV, LV1
  <2>3. inflight' = IF c = "client" /\ rx[c].hdr = NoMsg THEN inflight \ {m.id} ELSE inflight
    BY <1>14 DEF Accepts
  <2>4. rx[c].hdr # NoMsg => rx[c].hdr = m
    BY <1>14 DEF Accepts
  <2> QED BY <2>1, <2>2, <2>3, <2>4 DEF hc
<1>15. ASSUME NEW p \in Cuts, NEW m \in Msgs, NEW n \in Nat, Accepts(v, p, m, n)
       PROVE  /\ LV1 = LV /\ Sorted(LC1) /\ Trails(LC1, m, rx[v].ci + 1)
              /\ p.hi = m.len => ~Has(LC1, m.id)
              /\ \A id : Has(LC, id) <=> id = m.id \/ Has(LC1, id)
              /\ inflight' = inflight
  <2>1. /\ Line(v)' = Line(v) /\ Sorted(Line(Peer(v))')
        /\ Trails(Line(Peer(v))', m, rx[v].ci + 1)
        /\ p.hi = m.len => ~Has(Line(Peer(v))', m.id)
        /\ \A id : Has(Line(Peer(v)), id) <=> id = m.id \/ Has(Line(Peer(v))', id)
    BY <1>0, <1>13, <1>15
  <2>2. /\ LV1 = Line(v)' /\ LV = Line(v)
        /\ LC1 = Line(Peer(v))' /\ LC = Line(Peer(v))
    BY <1>0 DEF Line, LC, LC1, LV, LV1
  <2>3. inflight' = IF v = "client" /\ rx[v].hdr = NoMsg THEN inflight \ {m.id} ELSE inflight
    BY <1>15 DEF Accepts
  <2>4. rx[v].hdr # NoMsg => rx[v].hdr = m
    BY <1>15 DEF Accepts
  <2> QED BY <2>1, <2>2, <2>3, <2>4
<1>16. ASSUME NEW p \in Cuts, NEW m \in Msgs, NEW n \in Nat, More(c, p, m, n) PROVE Goal
  <2>0. Accepts(c, p, m, n) /\ pending' = pending
    BY <1>16 DEF More
  <2>1. hc1 = m /\ rx'[c].ci = rx[c].ci + 1 /\ hv1 = hv /\ rx'[v] = rx[v]
    <3>1. Counted(c, m, n) /\ Alone(c)
      BY <1>0, <1>16, MoreFacts
    <3> QED BY <1>0, <3>1 DEF Counted, Alone, hc1, hv1, hv
  <2>2. Good /\ m.id \in Ids
    BY <1>0, <1>13, <2>0
  <2>3. Has(LV, m.id) /\ m.id \notin pending /\ ~Has(LC, m.id) /\ (hv # NoMsg => hv.id # m.id)
    BY <1>14, <2>0, <2>2
  <2>4. /\ LC1 = LC /\ Sorted(LV1) /\ Trails(LV1, m, rx[c].ci + 1)
        /\ \A id : Has(LV, id) <=> id = m.id \/ Has(LV1, id)
        /\ inflight \ {m.id} \subseteq inflight' /\ inflight' \subseteq inflight
        /\ hc # NoMsg => hc.id = m.id
    BY <1>14, <2>0
  <2>5. /\ \A id \in Ids : Has(LC1, id) => id \in inflight' \ pending' /\ ~Has(LV1, id)
        /\ hv1 # NoMsg => hv1.id \in inflight' \ pending' /\ ~Has(LV1, hv1.id)
        /\ pending' \subseteq inflight'
    BY <2>0, <2>1, <2>2, <2>3, <2>4
  <2>6. ASSUME NEW id \in Ids, Has(LV1, id)
        PROVE  id \notin pending' /\ (id \in inflight' \/ id = m.id)
    <3>1. id \notin pending /\ (id \in inflight \/ hc.id = id)
      BY <2>2, <2>4, <2>6
    <3>2. hc.id = id => id = m.id
      BY <1>3, <2>4
    <3> QED BY <2>0, <2>4, <3>1, <3>2
  <2> QED BY <2>1, <2>2, <2>4, <2>5, <2>6
<1>17. ASSUME NEW p \in Cuts, NEW m \in Msgs, NEW n \in Nat, More(v, p, m, n) PROVE Goal
  <2>0. Accepts(v, p, m, n) /\ pending' = pending
    BY <1>17 DEF More
  <2>1. hv1 = m /\ rx'[v].ci = rx[v].ci + 1 /\ hc1 = hc /\ rx'[c] = rx[c]
    <3>1. Counted(v, m, n) /\ Alone(v)
      BY <1>0, <1>17, MoreFacts
    <3> QED BY <1>0, <3>1 DEF Counted, Alone, hc1, hv1, hc
  <2>2. Good /\ m.id \in Ids
    BY <1>0, <1>13, <2>0
  <2>3. Has(LC, m.id) /\ m.id \in inflight \ pending /\ ~Has(LV, m.id)
    BY <1>15, <2>0, <2>2
  <2> QED BY <1>15, <2>0, <2>1, <2>2, <2>3
<1>18. ASSUME NEW p \in Cuts, NEW m \in Msgs, NEW n \in Nat, Whole(c, p, m, n) PROVE Goal
  <2>0. Accepts(c, p, m, n) /\ pending' = pending /\ p.hi = m.len
    BY <1>18 DEF Whole, Deliver
  <2>1. hc1 = NoMsg /\ hv1 = hv /\ rx'[v] = rx[v]
    BY <1>0, <1>18, IdleTypes DEF Whole, Deliver, Types, hc1, hv1, hv
  <2>2. Good /\ m.id \in Ids
    BY <1>0, <1>13, <2>0
  <2>3. Has(LV, m.id) /\ m.id \notin pending /\ ~Has(LC, m.id) /\ (hv # NoMsg => hv.id # m.id)
    BY <1>14, <2>0, <2>2
  <2>4. /\ LC1 = LC /\ Sorted(LV1) /\ ~Has(LV1, m.id)
        /\ \A id : Has(LV, id) <=> id = m.id \/ Has(LV1, id)
        /\ inflight \ {m.id} \subseteq inflight' /\ inflight' \subseteq inflight
        /\ hc # NoMsg => hc.id = m.id
    BY <1>14, <2>0
  <2>5. /\ \A id \in Ids : Has(LC1, id) => id \in inflight' \ pending' /\ ~Has(LV1, id)
        /\ hv1 # NoMsg => hv1.id \in inflight' \ pending' /\ ~Has(LV1, hv1.id)
        /\ pending' \subseteq inflight'
    BY <2>0, <2>1, <2>2, <2>3, <2>4
  <2>6. ASSUME NEW id \in Ids, Has(LV1, id)
        PROVE  id \notin pending' /\ id \in inflight'
    <3>1. id \notin pending /\ (id \in inflight \/ hc.id = id) /\ id # m.id
      BY <2>2, <2>4, <2>6
    <3>2. hc.id # id
      BY <1>3, <2>4, <3>1
    <3> QED BY <2>0, <2>4, <3>1, <3>2
  <2> QED BY <2>1, <2>2, <2>4, <2>5, <2>6
<1>19. ASSUME NEW p \in Cuts, NEW m \in Msgs, NEW n \in Nat, Whole(v, p, m, n) PROVE Goal
  <2>0. Accepts(v, p, m, n) /\ pending' = pending \cup {m.id} /\ p.hi = m.len
    BY <1>19 DEF Whole, Deliver
  <2>1. hv1 = NoMsg /\ hc1 = hc /\ rx'[c] = rx[c]
    BY <1>0, <1>19, IdleTypes DEF Whole, Deliver, Types, hc1, hv1, hc
  <2>2. Good /\ m.id \in Ids
    BY <1>0, <1>13, <2>0
  <2>3. Has(LC, m.id) /\ m.id \in inflight \ pending /\ ~Has(LV, m.id)
    BY <1>15, <2>0, <2>2
  <2> QED BY <1>15, <2>0, <2>1, <2>2, <2>3
<1>20. ASSUME NEW s \in Sides, Takings(s) PROVE Goal
  BY <1>0, <1>16, <1>17, <1>18, <1>19, <1>20 DEF Takings
<1> HIDE DEF Goal
<1> QED BY <1>6, <1>7, <1>8, <1>10, <1>20, Steps

-----------------------------------------------------------------------------
(* The theorems.                                                            *)
LEMMA InitInv == Init => Inv
<1> SUFFICES ASSUME Init PROVE Inv
  OBVIOUS
<1>1. <<>> \in Seq(Cuts) /\ <<>> \in Seq(Bytes) /\ <<>> \in Seq(Cuts \cup Rests) /\ Len(<<>>) = 0
  BY SMTT(60)
<1>2. NoResult \in ResultType /\ NoResult.err = "none"
  BY <1>1 DEF NoResult, ResultType, Errors
<1>4. \A s \in Sides : wire[s] = <<>> /\ out[s] = <<>> /\ rx[s] = NotReceiving /\ buf[s] = <<>>
                       /\ result[s] = NoResult
  BY DEF Init
<1>5. Types
  <2>1. 0 \in 0..Deadline /\ \A s \in Sides : Len(wire[s]) <= QueueCap
    BY <1>4, Nothing
  <2> QED BY <1>1, <1>2, <2>1, <1>4, IdleTypes DEF Init, Types
<1>6. Flags
  BY DEF Init, Flags
<1>7. Reassembly
  <2>1. ASSUME NEW s \in Sides PROVE Gathered(s)
    <3>1. /\ rx[s].hdr = NoMsg /\ rx[s].assembled = 0 /\ rx[s].ci = 0 /\ rx[s].expected = 0
          /\ Len(buf[s]) = 0
      BY <1>1, <1>4, IdleTypes
    <3> QED BY <3>1, Sums DEF Gathered
  <2> QED BY <2>1 DEF Reassembly
<1>8. Intact /\ Settled
  BY <1>2, <1>4, IdleTypes DEF Init, Intact, Settled, Sides
<1>9. InflightIsComing
  BY DEF Init, InflightIsComing
<1>10. ASSUME NEW s \in Sides PROVE Line(s) = <<>>
  BY <1>4, Nothing DEF Line
<1>11. Faultless
  <2>1. \A s \in Sides : Sorted(Line(s)) /\ \A id : ~Has(Line(s), id)
    <3>1. 1..Len(<<>>) = {}
      BY Nothing
    <3>2. Sorted(<<>>)
      BY <1>1, <3>1 DEF Sorted
    <3>3. \A id : ~Has(<<>>, id)
      BY <3>1 DEF Has
    <3> QED BY <1>10, <3>2, <3>3
  <2>2. \A s \in Sides : Remaining(s)
    BY <1>4, IdleTypes DEF Remaining
  <2>3. OnePlace
    BY <1>4, <2>1, IdleTypes DEF OnePlace, Init, Sides
  <2> QED BY <2>1, <2>2, <2>3 DEF Faultless
<1> QED BY <1>5, <1>6, <1>7, <1>8, <1>9, <1>11 DEF Inv

(* Inv holds in every reachable state, whatever fails and whenever.         *)
THEOREM Inductive == Spec => []Inv
<1>1. Inv /\ [Next]_vars => Inv'
  BY TypesStep, FlagsStep, ReassemblyStep, IntactStep, SettledStep, ComingStep,
     FaultlessStep
     DEF Inv
<1> QED BY <1>1, InitInv, PTL DEF Spec

(* Whatever receive returns is one message of its peer, byte for byte, after *)
(* any sends and receives that stopped in the middle of a message            *)
(* (receive_with_control).                                                   *)
THEOREM ReceivesIntact == Spec => []DeliveredIntact
<1>1. Inv => DeliveredIntact
  <2> SUFFICES ASSUME Inv PROVE DeliveredIntact
    OBVIOUS
  <2>0. Types /\ Flags /\ Reassembly /\ Intact
    BY DEF Inv
  <2>1. open \in [Sides -> BOOLEAN] /\ abort \in BOOLEAN
    BY <2>0 DEF Flags
  <2>2. ASSUME NEW s \in Sides
        PROVE  /\ Len(wire[s]) <= QueueCap
               /\ rx[s].at \in {"idle", "check", "poll"}
               /\ rx[s].hdr \in Msgs \cup {NoMsg}
               /\ rx[s].assembled \in 0..Len(buf[s])
               /\ rx[s].ci <= rx[s].expected
               /\ result[s].err \in Errors
    <3>1. rx[s].assembled <= Len(buf[s]) /\ rx[s].ci <= rx[s].expected
      BY <2>0 DEF Reassembly, Gathered
    <3>2. rx[s].assembled \in 0..Len(buf[s])
      BY <2>0, <3>1, RxFacts, Within
    <3>3. result[s].err \in Errors
      BY <2>0, RxFacts DEF ResultType
    <3> QED BY <2>0, <3>1, <3>2, <3>3, RxFacts
  <2>3. /\ transport \in Transports /\ inflight \subseteq used /\ used \subseteq Ids
        /\ pending \subseteq Ids /\ left \in 0..Deadline
    BY <2>0 DEF Types
  <2>4. TypeOK
    BY <2>1, <2>2, <2>3 DEF TypeOK
  <2> QED BY <2>0, <2>4 DEF DeliveredIntact, Intact, AsSent
<1> QED BY <1>1, Inductive, PTL

(* A request that a failed operation gave up never gets its answer handed to *)
(* the caller (fail_all_inflight).                                           *)
THEOREM GivenUpForGood == Spec => []FailedStaysFailed
<1>1. Inv => FailedStaysFailed
  BY DEF Inv, Settled, FailedStaysFailed
<1> QED BY <1>1, Inductive, PTL

(* Every id in inflight_ids has its request or its answer on the way, until  *)
(* an end refuses a message or the server fails (send, receive_with_control, *)
(* fail_all_inflight).                                                       *)
THEOREM NoneForgotten == Spec => []InflightIsComing
<1>1. Inv => InflightIsComing
  BY DEF Inv
<1> QED BY <1>1, Inductive, PTL

(* One request at a time cannot block both ends in send, however short the   *)
(* kernel's queues and however long the messages (raw_send_iov,              *)
(* raw_send_msg).                                                            *)
THEOREM NeverBothBlocked == Spec => []NoMutualBlock
<1>1. Inv => NoMutualBlock
  <2> SUFFICES ASSUME Inv, \A s \in Sides : Blocked(s), faults = {}
               PROVE  \E i, j \in inflight : i # j
    BY DEF NoMutualBlock
  <2> DEFINE c == "client"
             v == "server"
             a == out[c][1].msg.id
             b == out[v][1].msg.id
  <2>0. Types /\ OnePlace /\ c \in Sides /\ v \in Sides
    BY DEF Inv, Faultless, Sides
  <2>1. out[c] # <<>> /\ out[v] # <<>> /\ rx[c].hdr = NoMsg
    BY <2>0, IdleTypes DEF Blocked, Types
  <2>2. /\ 1 \in 1..Len(out[c]) /\ 1 \in 1..Len(out[v])
        /\ out[c][1] \in Cuts /\ out[v][1] \in Cuts
    <3>1. out[c] \in Seq(Cuts) /\ out[v] \in Seq(Cuts)
      BY <2>0, RxFacts
    <3> QED BY <2>1, <3>1, First
  <2>3. a \in Ids /\ b \in Ids
    BY <2>2, CutFacts
  <2>4. Has(out[c], a) /\ Has(out[v], b)
    BY <2>2 DEF Has
  <2>5. Has(Line(c), a) /\ Has(Line(v), b)
    BY <2>0, <2>4, Lines
  <2> HIDE DEF a, b
  <2>6. a \in inflight /\ b \in inflight /\ a # b
    <3>1. NoMsg.id = "none"
      BY DEF NoMsg
    <3>2. rx[c].hdr.id = "none"
      BY <2>1, <3>1
    <3> QED BY <2>0, <2>3, <2>5, <3>2, Sizes DEF OnePlace
  <2> QED BY <2>6
<1> QED BY <1>1, Inductive, PTL
=============================================================================
