-------------------------- MODULE RawClientProofs --------------------------
(***************************************************************************)
(* The retry loop of a Level 2 call, for every limit, every capacity the   *)
(* server may be configured with and every size of request and response:   *)
(* how often it may try, when it may give up with an overflow, and why an  *)
(* oversized request is final for the context.                             *)
(***************************************************************************)
EXTENDS RawClient, WellFoundedInduction, TLAPS

USE ZenonT(60)

Errors == {"none", "NotReady", "Overflow", "Failed"} \cup GivenUp

Calls == [req : Nat, resp : Nat, overflows : Nat, prev : Nat \X Nat \X Nat \X Nat,
          err : Errors, attempts : Nat, failures : Nat, restarted : BOOLEAN]

Types ==
  /\ state \in States
  /\ session \in [req : Nat, resp : Nat]
  /\ cfgReq \in Nat /\ cfgResp \in Nat /\ calls \in Nat
  /\ learnedReq \in Nat /\ learnedResp \in Nat
  /\ pc \in {"user", "loop", "resized"} \cup Connecting \cup Attempting
  /\ call \in Calls

Flags ==
  /\ shm \in BOOLEAN /\ shmOffered \in BOOLEAN /\ abort \in BOOLEAN
  /\ up \in BOOLEAN /\ live \in BOOLEAN

(* Where the loop stands, its counters agree: one attempt per overflow      *)
(* before the one under way, one more once that has failed.                 *)
Counting ==
  /\ pc \in {"loop", "first"} => /\ call.attempts = call.overflows
                                 /\ call.failures = 0
  /\ pc \in {"reconnect", "retry"} => /\ call.attempts = call.overflows + 1
                                      /\ call.failures = 1
  /\ pc \in {"resize", "resized"} => /\ call.attempts = call.overflows + 1
                                     /\ call.failures = 0
  /\ pc \notin {"user", "refresh"} => call.overflows < OverflowLimit
  /\ call.attempts <= OverflowLimit + 1
  /\ call.attempts <= call.overflows + 2
  /\ call.failures <= 1

(* A session exists exactly in state Ready, and is what the handshake would *)
(* agree on again as far as requests go.                                    *)
Sessions ==
  /\ pc \in {"loop", "first", "retry", "resized"} => state = "Ready"
  /\ pc \in Connecting => state # "Ready"
  /\ state # "Ready" => session = None
  /\ state = "Ready" => /\ session.req = OrDefault(cfgReq)
                        /\ session.req <= OrDefault(ReqConfig)
                        /\ 0 < session.resp /\ session.resp <= RespCeiling
                        /\ RespConfig # 0 => session.resp = RespConfig

(* What the server has learned never passes its ceilings, and requests      *)
(* teach it nothing, as no session admits one above its starting capacity.  *)
Learned ==
  /\ learnedReq <= OrDefault(ReqConfig)
  /\ 0 < learnedResp /\ learnedResp <= RespCeiling
  /\ RespConfig # 0 => learnedResp = RespConfig

(* Why the attempt overflowed, and the capacity that has grown since.       *)
Explained(resp) ==
  \/ call.req > call.prev[1] /\ (call.req <= Cap => cfgReq >= call.req)
  \/ call.resp > RespCeiling
  \/ call.restarted
  \/ resp > call.prev[2]

Causes ==
  /\ pc = "first" => call.prev = <<session.req, session.resp, cfgReq, cfgResp>>
  /\ pc = "resize" => Explained(learnedResp)
  /\ pc = "resized" => Explained(session.resp)

Inv == Types /\ Flags /\ Counting /\ Sessions /\ Learned /\ Causes /\ OverflowIsHopeless

-----------------------------------------------------------------------------
(* A non-empty set of naturals has a least element, and Min is one.         *)
LEMMA NatMin ==
  ASSUME NEW S \in SUBSET Nat, S # {}
  PROVE  Min(S) \in S /\ \A y \in S : Min(S) <= y
<1> DEFINE R == {ss \in Nat \X Nat : ss[1] < ss[2]}
<1>1. PICK x \in S : \A y \in S : <<y, x>> \notin R
  <2>1. IsWellFoundedOn(R, Nat)
    BY NatLessThanWellFounded DEF OpToRel
  <2> HIDE DEF R
  <2> QED BY <2>1, WFMin
<1>2. ASSUME NEW y \in S PROVE x <= y
  <2>1. (<<y, x>> \in R) = (y < x)
    BY SMTT(60)
  <2> QED BY SMTT(60), <1>1, <2>1
<1> QED BY <1>2 DEF Min

(* The larger and the smaller of two naturals.                              *)
LEMMA MaxMinPair ==
  ASSUME NEW a \in Nat, NEW b \in Nat
  PROVE  /\ Max({a, b}) = IF a >= b THEN a ELSE b
         /\ Min({a, b}) = IF a <= b THEN a ELSE b
<1>1. CASE a >= b BY SMTT(60), <1>1 DEF Max, Min
<1>2. CASE a < b BY SMTT(60), <1>2 DEF Max, Min
<1> QED BY SMTT(60), <1>1, <1>2

(* The powers of two are positive, and 2^31 bytes is the largest of them.   *)
LEMMA PowersBounded ==
  /\ Powers \subseteq 1..TopPower /\ Powers \subseteq Nat
  /\ TopPower \in Powers /\ TopPower \in Nat
<1>1. TopPower \in Nat /\ TopPower \in Powers
  BY SMTT(60) DEF Powers, TopPower
<1>2. \A p \in Powers : p \in Nat /\ p >= 1
  BY SMTT(60) DEF Powers
<1>3. \A p \in Powers : p <= TopPower
  BY SMTT(60) DEF Powers, TopPower
<1> QED BY SMTT(60), <1>1, <1>2, <1>3

(* next_power_of_2_u32 covers its argument up to 2^31, and with the least   *)
(* power that does.                                                         *)
LEMMA NextPow2Covers ==
  ASSUME NEW n \in Nat
  PROVE  /\ NextPow2(n) \in Powers /\ Powers \subseteq Nat
         /\ n <= TopPower => NextPow2(n) >= n
         /\ n > TopPower => NextPow2(n) = TopPower
         /\ \A p \in Powers : n <= p => NextPow2(n) <= p
<1>1. /\ Powers \subseteq Nat /\ Powers \subseteq 1..TopPower
      /\ TopPower \in Powers /\ TopPower \in Nat
  BY PowersBounded
<1> DEFINE S == {p \in Powers : p >= n}
<1> HIDE DEF S
<1>2. CASE n > TopPower
  <2>1. NextPow2(n) = TopPower
    BY <1>2 DEF NextPow2
  <2> QED BY SMTT(60), <1>1, <1>2, <2>1
<1>3. CASE n <= TopPower
  <2>0. ~(n > TopPower)
    BY SMTT(60), <1>1, <1>3
  <2>1. NextPow2(n) = Min(S)
    BY <2>0 DEF S, NextPow2
  <2>2. Min(S) \in S /\ \A y \in S : Min(S) <= y
    <3>1. S \subseteq Nat
      BY <1>1 DEF S
    <3>2. TopPower \in S
      BY <1>1, <1>3 DEF S
    <3> QED BY <3>1, <3>2, NatMin
  <2>3. NextPow2(n) \in Powers /\ NextPow2(n) >= n
    BY <2>1, <2>2 DEF S
  <2>4. ASSUME NEW p \in Powers, n <= p PROVE NextPow2(n) <= p
    BY <2>1, <2>2, <2>4 DEF S
  <2> QED BY SMTT(60), <1>1, <1>3, <2>3, <2>4
<1> QED BY SMTT(60), <1>1, <1>2, <1>3

(* A noted capacity: never lower than before, never above the ceiling it    *)
(* started under, enough for what it notes, and no further than the next    *)
(* power of two.                                                            *)
LEMMA NoteFacts ==
  ASSUME NEW c \in Nat, NEW n \in Nat, NEW ceiling \in Nat
  PROVE  /\ Note(c, n, ceiling) \in Nat
         /\ Note(c, n, ceiling) >= c
         /\ c <= ceiling => Note(c, n, ceiling) <= ceiling
         /\ n <= ceiling /\ n <= TopPower => Note(c, n, ceiling) >= n
         /\ \A p \in Powers : n <= p /\ c <= p => Note(c, n, ceiling) <= p
         /\ \A m \in Nat : n = 2 * m /\ 0 < m /\ m < ceiling /\ ceiling <= TopPower
                             => Note(c, n, ceiling) > m
<1> DEFINE k == NextPow2(n)
           lower == Min({k, ceiling})
<1>1. /\ k \in Nat /\ Powers \subseteq Nat
      /\ n <= TopPower => k >= n
      /\ n > TopPower => k = TopPower
      /\ \A p \in Powers : n <= p => k <= p
  BY NextPow2Covers
<1>2. Note(c, n, ceiling) = Max({c, lower})
  BY DEF Note
<1> HIDE DEF k
<1>3. lower = IF k <= ceiling THEN k ELSE ceiling
  BY <1>1, MaxMinPair
<1>4. Note(c, n, ceiling) = IF c >= lower THEN c ELSE lower
  <2> HIDE DEF lower
  <2> QED BY SMTT(60), <1>1, <1>2, <1>3, MaxMinPair
<1> HIDE DEF lower
<1>5. lower \in Nat /\ Note(c, n, ceiling) \in Nat
  BY <1>1, <1>3, <1>4
<1> QED BY SMTT(60), <1>1, <1>3, <1>4, <1>5, PowersBounded

(* The capacities a server starts with lie under its ceilings.              *)
LEMMA Configured ==
  /\ Powers \subseteq 1..TopPower
  /\ Default \in Nat /\ Cap \in Nat /\ ReqConfig \in Nat /\ RespConfig \in Nat
  /\ OverflowLimit \in Nat /\ OverflowLimit > 0
  /\ 0 < Default /\ Default <= Cap /\ Cap <= TopPower
  /\ Default \in Powers
  /\ ReqCeiling \in Nat /\ RespCeiling \in Nat
  /\ OrDefault(RespConfig) <= RespCeiling
BY SMTT(60), SizesAssumption, PowersBounded DEF ReqCeiling, RespCeiling, OrDefault

-----------------------------------------------------------------------------
(* A client that was never refreshed satisfies the invariant.               *)
LEMMA InitInv == Init => Inv
<1> SUFFICES ASSUME Init PROVE Inv
  OBVIOUS
<1>1. Types
  BY Configured
     DEF Init, Types, Calls, Errors, NoCall, None, States, Connecting, Attempting,
         OrDefault
<1>2. Flags
  BY DEF Init, Flags
<1>3. Counting /\ Sessions /\ Learned /\ Causes /\ OverflowIsHopeless
  BY SMTT(60), Configured DEF Init, Counting, Sessions, Learned, Causes, OverflowIsHopeless, NoCall,
     Connecting, RespCeiling, OrDefault
<1> QED BY <1>1, <1>2, <1>3 DEF Inv

(* What the loop does to the record of its call keeps the record's type.    *)
LEMMA CallTypes ==
  ASSUME call \in Calls
  PROVE  /\ \A err \in Errors : Tried(err) \in Calls
         /\ \A err \in Errors : \A n \in {0, 1} :
              [Tried(err) EXCEPT !.failures = @ + n] \in Calls
         /\ [call EXCEPT !.overflows = @ + 1] \in Calls
         /\ [call EXCEPT !.restarted = TRUE] \in Calls
         /\ \A p \in Nat \X Nat \X Nat \X Nat : [call EXCEPT !.prev = p] \in Calls
         /\ \A q \in Nat, r \in Nat, err \in Errors :
              [NoCall EXCEPT !.req = q, !.resp = r, !.err = err] \in Calls
         /\ \A q \in Nat, r \in Nat : [NoCall EXCEPT !.req = q, !.resp = r] \in Calls
<1>1. ASSUME NEW err \in Errors PROVE Tried(err) \in Calls
  <2> DEFINE c == [call EXCEPT !.attempts = @ + 1]
  <2>1. c \in Calls
    BY SMTT(60) DEF Calls
  <2>2. Tried(err) = [c EXCEPT !.err = err]
    BY DEF Tried, Calls
  <2> HIDE DEF c
  <2>3. [c EXCEPT !.err = err] \in Calls
    BY <2>1 DEF Calls
  <2> QED BY <2>2, <2>3
<1>2. ASSUME NEW err \in Errors, NEW n \in {0, 1}
      PROVE  [Tried(err) EXCEPT !.failures = @ + n] \in Calls
  BY SMTT(60), <1>1 DEF Calls
<1>3. [call EXCEPT !.overflows = @ + 1] \in Calls
  BY SMTT(60) DEF Calls
<1>4. [call EXCEPT !.restarted = TRUE] \in Calls
  BY DEF Calls
<1>5. ASSUME NEW p \in Nat \X Nat \X Nat \X Nat PROVE [call EXCEPT !.prev = p] \in Calls
  BY DEF Calls
<1>6. ASSUME NEW q \in Nat, NEW r \in Nat, NEW err \in Errors
      PROVE  [NoCall EXCEPT !.req = q, !.resp = r, !.err = err] \in Calls
  BY DEF Calls, NoCall, Errors
<1>7. ASSUME NEW q \in Nat, NEW r \in Nat
      PROVE  [NoCall EXCEPT !.req = q, !.resp = r] \in Calls
  BY DEF Calls, NoCall, Errors
<1> QED BY <1>1, <1>2, <1>3, <1>4, <1>5, <1>6, <1>7

(* The client raises its proposal to cover a request the cap admits.        *)
LEMMA RequestNoted ==
  ASSUME Types, RequestTooLarge
  PROVE  cfgReq' \in Nat /\ (call.req <= Cap => cfgReq' >= call.req)
<1>1. cfgReq \in Nat /\ call.req \in Nat /\ cfgReq' = Note(cfgReq, call.req, Cap)
  BY DEF Types, Calls, RequestTooLarge
<1>2. /\ Note(cfgReq, call.req, Cap) \in Nat
      /\ call.req <= Cap /\ call.req <= TopPower => Note(cfgReq, call.req, Cap) >= call.req
  BY <1>1, Configured, NoteFacts
<1> QED BY SMTT(60), <1>1, <1>2, Configured, PowersBounded

(* An agreed session is not None, so its limits are the ones in force.      *)
LEMMA InForce ==
  ASSUME Types, Sessions, state = "Ready"
  PROVE  /\ SessionReq = session.req /\ SessionResp = session.resp
         /\ session.req \in Nat /\ session.resp \in Nat
BY SMTT(60) DEF Types, Sessions, SessionReq, SessionResp, None

(* The server learns nothing from a request it admitted.                    *)
LEMMA ServedNoted ==
  ASSUME Types, Sessions, Learned, state = "Ready", call.req <= SessionReq, Served
  PROVE  learnedReq' \in Nat /\ learnedReq' <= OrDefault(ReqConfig)
<1>1. /\ learnedReq \in Nat /\ call.req \in Nat
      /\ call.req <= OrDefault(ReqConfig) /\ learnedReq <= OrDefault(ReqConfig)
  BY SMTT(60), InForce, Configured DEF Types, Calls, Sessions, Learned, OrDefault
<1>2. learnedReq' = Note(learnedReq, call.req, ReqCeiling)
  BY DEF Served
<1>3. /\ Note(learnedReq, call.req, ReqCeiling) \in Nat
      /\ learnedReq <= ReqCeiling => Note(learnedReq, call.req, ReqCeiling) <= ReqCeiling
      /\ \A p \in Powers : call.req <= p /\ learnedReq <= p
                             => Note(learnedReq, call.req, ReqCeiling) <= p
  BY <1>1, Configured, NoteFacts
<1>4. CASE ReqConfig = 0
  <2>1. OrDefault(ReqConfig) = Default
    BY <1>4 DEF OrDefault
  <2> QED BY <1>1, <1>2, <1>3, <2>1, Configured
<1>5. CASE ReqConfig # 0
  <2>1. OrDefault(ReqConfig) = ReqConfig /\ ReqCeiling = ReqConfig
    BY <1>5 DEF OrDefault, ReqCeiling
  <2> QED BY <1>1, <1>2, <1>3, <2>1, Configured
<1> QED BY <1>4, <1>5

(* A response the server learns from stays under its ceiling; twice the     *)
(* size of a session below the ceiling is more than that session has.       *)
LEMMA ResponseNoted ==
  ASSUME Types, Learned, NEW n \in Nat
  PROVE  /\ Note(learnedResp, n, RespCeiling) \in Nat
         /\ Note(learnedResp, n, RespCeiling) >= learnedResp
         /\ 0 < Note(learnedResp, n, RespCeiling)
         /\ Note(learnedResp, n, RespCeiling) <= RespCeiling
         /\ RespConfig # 0 => Note(learnedResp, n, RespCeiling) = RespConfig
         /\ \A m \in Nat : n = 2 * m /\ 0 < m /\ m < RespCeiling /\ RespConfig = 0
                             => Note(learnedResp, n, RespCeiling) > m
<1>1. learnedResp \in Nat /\ 0 < learnedResp /\ learnedResp <= RespCeiling
  BY DEF Types, Learned
<1>2. /\ Note(learnedResp, n, RespCeiling) \in Nat
      /\ Note(learnedResp, n, RespCeiling) >= learnedResp
      /\ Note(learnedResp, n, RespCeiling) <= RespCeiling
      /\ \A m \in Nat : n = 2 * m /\ 0 < m /\ m < RespCeiling /\ RespCeiling <= TopPower
                          => Note(learnedResp, n, RespCeiling) > m
  BY <1>1, Configured, NoteFacts
<1>3. CASE RespConfig = 0
  <2>1. RespCeiling = Cap
    BY <1>3 DEF RespCeiling
  <2> QED BY SMTT(60), <1>1, <1>2, <1>3, <2>1, Configured
<1>4. CASE RespConfig # 0
  <2>1. RespCeiling = RespConfig /\ learnedResp = RespConfig
    BY <1>4 DEF RespCeiling, Learned
  <2> QED BY SMTT(60), <1>1, <1>2, <1>4, <2>1, Configured
<1> QED BY <1>3, <1>4

(* What an attempt leaves in the record of its call: one attempt more, the  *)
(* error, and one failure more when it is to be retried.                    *)
Counted(err, n) ==
  /\ call'.req = call.req /\ call'.resp = call.resp /\ call'.prev = call.prev
  /\ call'.overflows = call.overflows /\ call'.restarted = call.restarted
  /\ call'.attempts = call.attempts + 1 /\ call'.failures = call.failures + n
  /\ call'.err = err

(* How the counters, the state and the session move when a call ends.       *)
LEMMA Outcomes ==
  ASSUME call \in Calls
  PROVE  /\ Succeed => Counted("none", 0) /\ pc' = "user"
         /\ \A err : Fail(err) => /\ Counted(err, 0)
                                  /\ pc' = "user" /\ state' = "Broken" /\ session' = None
         /\ \A at : BreakAndReconnect("Overflow", at) =>
                      Counted("Overflow", 0) /\ pc' = at /\ state' = "Broken" /\ session' = None
         /\ \A at : BreakAndReconnect("Failed", at) =>
                      Counted("Failed", 1) /\ pc' = at /\ state' = "Broken" /\ session' = None
<1>1. ASSUME NEW err, call' = Tried(err) PROVE Counted(err, 0)
  BY SMTT(60), <1>1 DEF Calls, Tried, Counted
<1>2. ASSUME NEW err, NEW n \in {0, 1}, call' = [Tried(err) EXCEPT !.failures = @ + n]
      PROVE  Counted(err, n)
  BY <1>2 DEF Calls, Tried, Counted
<1>3. Succeed => Counted("none", 0) /\ pc' = "user"
  BY <1>1 DEF Succeed
<1>4. ASSUME NEW err, Fail(err)
      PROVE  Counted(err, 0) /\ pc' = "user" /\ state' = "Broken" /\ session' = None
  BY <1>1, <1>4 DEF Fail, Disconnect
<1>5. ASSUME NEW at, BreakAndReconnect("Overflow", at)
      PROVE  Counted("Overflow", 0) /\ pc' = at /\ state' = "Broken" /\ session' = None
  <2>1. call' = [Tried("Overflow") EXCEPT !.failures = @ + 0]
    BY <1>5 DEF BreakAndReconnect
  <2> QED BY <1>2, <1>5, <2>1 DEF BreakAndReconnect, Disconnect
<1>6. ASSUME NEW at, BreakAndReconnect("Failed", at)
      PROVE  Counted("Failed", 1) /\ pc' = at /\ state' = "Broken" /\ session' = None
  <2>1. call' = [Tried("Failed") EXCEPT !.failures = @ + 1]
    BY <1>6 DEF BreakAndReconnect
  <2> QED BY <1>2, <1>6, <2>1 DEF BreakAndReconnect, Disconnect
<1> QED BY <1>3, <1>4, <1>5, <1>6

(* Every action keeps the variables in their types.                         *)
LEMMA TypesStep == Inv /\ [Next]_vars => Types'
<1> SUFFICES ASSUME Inv, [Next]_vars PROVE Types'
  OBVIOUS
<1>0. Types /\ Sessions /\ Learned
  BY DEF Inv
<1>a. \A err \in {"none", "Timeout", "Aborted", "Overflow", "Failed"} : Tried(err) \in Calls
  BY <1>0, CallTypes DEF Types, Errors, GivenUp
<1>b. \A err \in {"Overflow", "Failed"} :
        [Tried(err) EXCEPT !.failures = @ + IF err = "Overflow" THEN 0 ELSE 1] \in Calls
  BY <1>0, CallTypes DEF Types, Errors, GivenUp
<1>1. CASE ConnectFails
  BY <1>0, <1>1
     DEF Types, States, Connecting, Attempting, None, OrDefault, ConnectFails, Refused,
         Resume, client, server
<1>2. CASE \E b \in BOOLEAN : Connect(b)
  BY SMTT(60), <1>0, <1>2, Configured
     DEF Types, States, Connecting, Attempting, None, OrDefault, Connect, Resume, Fits,
         client, server
<1>3. CASE AttachFails
  BY <1>0, <1>3
     DEF Types, States, Connecting, Attempting, None, OrDefault, AttachFails, Resume,
         client, server
<1>4. CASE Loop
  <2>1. Limits \in Nat \X Nat \X Nat \X Nat
    BY <1>0 DEF Types, Limits, SessionReq, SessionResp
  <2>2. call' \in Calls
    BY <1>0, <1>4, <2>1, CallTypes DEF Types, Loop
  <2> QED BY <1>0, <1>4, <2>2 DEF Types, Loop, client, server, Attempting
<1>5. CASE GiveUp
  BY SMTT(60), <1>0, <1>5, <1>a
     DEF Types, States, Connecting, Attempting, None, OrDefault, GiveUp, Fail,
         Disconnect, client, server
<1>6. CASE RequestTooLarge
  <2>1. cfgReq' \in Nat
    BY <1>0, <1>6, RequestNoted
  <2> QED BY SMTT(60), <1>0, <1>a, <1>b, <1>6, <2>1
          DEF Types, RequestTooLarge, Overflowed, BreakAndReconnect, Fail, Disconnect, None,
              States, Connecting, server
<1>7. CASE TransportFails
  BY SMTT(60), <1>0, <1>7, <1>a, <1>b
     DEF Types, States, Connecting, Attempting, None, OrDefault, TransportFails,
         BreakAndReconnect, Fail, Disconnect, client, server
<1>8. CASE Answered
  <2>0. state = "Ready"
    BY <1>0, <1>8 DEF Sessions, Attempting, Answered
  <2>1. learnedReq' \in Nat
    BY <1>0, <1>8, <2>0, ServedNoted DEF Answered
  <2>2. learnedResp' \in Nat
    BY <1>0, <1>8, ResponseNoted DEF Answered, Types, Calls
  <2> QED BY <1>0, <1>a, <1>8, <2>1, <2>2 DEF Types, Answered, Succeed, client
<1>9. CASE ResponseTooLarge
  <2>0. state = "Ready"
    BY <1>0, <1>9 DEF Sessions, Attempting, ResponseTooLarge
  <2>1. learnedReq' \in Nat
    BY <1>0, <1>9, <2>0, ServedNoted DEF ResponseTooLarge
  <2>2. SessionResp \in Nat /\ 2 * SessionResp \in Nat
    BY SMTT(60), <1>0, <2>0, InForce
  <2>3. learnedResp' \in Nat
    BY <1>0, <1>9, <2>2, ResponseNoted DEF ResponseTooLarge
  <2>4. cfgResp' \in Nat
    BY <1>0, <1>9, <2>2, NoteFacts, Configured DEF ResponseTooLarge, Types
  <2> QED BY SMTT(60), <1>0, <1>a, <1>b, <1>9, <2>1, <2>3, <2>4
          DEF Types, ResponseTooLarge, Overflowed, BreakAndReconnect, Fail, Disconnect, None,
              States, Connecting
<1>10. CASE Resized
  <2>1. call' \in Calls
    BY <1>0, <1>10, CallTypes DEF Types, Resized
  <2> QED BY SMTT(60), <1>0, <1>10, <2>1
             DEF Types, Resized, Disconnect, None, States, server
<1>11. CASE Refresh \/ Close
  BY SMTT(60), <1>0, <1>11
     DEF Types, States, Connecting, Attempting, None, OrDefault, Refresh, Close,
         Disconnect, client, server
<1>12. CASE Abort \/ ClearAbort
  BY <1>0, <1>12
     DEF Types, States, Connecting, Attempting, None, OrDefault, Abort, ClearAbort,
         client, server
<1>13. CASE \E q \in ReqSizes, r \in RespSizes : Call(q, r)
  <2>1. PICK q \in ReqSizes, r \in RespSizes : Call(q, r)
    BY <1>13
  <2>2. q \in Nat /\ r \in Nat
    BY SizesAssumption
  <2>3. call' \in Calls
    <3>1. \A err \in Errors : [NoCall EXCEPT !.req = q, !.resp = r, !.err = err] \in Calls
      BY <1>0, <2>2, CallTypes DEF Types
    <3>2. [NoCall EXCEPT !.req = q, !.resp = r] \in Calls
      BY <1>0, <2>2, CallTypes DEF Types
    <3> QED BY <2>1, <3>1, <3>2 DEF Call, Errors, GivenUp
  <2> QED BY SMTT(60), <1>0, <2>1, <2>3
             DEF Types, Call, Disconnect, None, client, server, States
<1>14. CASE ServerStart
  <2>1. call' \in Calls
    BY <1>0, <1>14, CallTypes DEF Types, ServerStart
  <2> QED BY <1>0, <1>14, <2>1, Configured DEF Types, ServerStart, OrDefault, client
<1>15. CASE ServerGone
  BY <1>0, <1>15
     DEF Types, States, Connecting, Attempting, None, OrDefault, ServerGone, client,
         server
<1>16. CASE OtherSessionGrows
  BY SMTT(60), <1>0, <1>16, ResponseNoted
     DEF Types, States, Connecting, Attempting, None, OrDefault, OtherSessionGrows,
         client, server
<1>17. CASE UNCHANGED vars
  BY <1>0, <1>17
     DEF Types, States, Connecting, Attempting, None, OrDefault, vars, client, server
<1> QED BY <1>1, <1>2, <1>3, <1>4, <1>5, <1>6, <1>7, <1>8, <1>9, <1>10, <1>11, <1>12,
           <1>13, <1>14, <1>15, <1>16, <1>17 DEF Next, Step, User, Peer

(* No action lets the counters drift from where the loop stands.            *)
LEMMA CountingStep == Inv /\ [Next]_vars => Counting'
<1> SUFFICES ASSUME Inv, [Next]_vars PROVE Counting'
  OBVIOUS
<1>0. Types /\ Counting
  BY DEF Inv
<1>1. CASE ConnectFails
  BY <1>0, <1>1
     DEF Types, Counting, Calls, Connecting, Attempting, ConnectFails, Refused, Resume,
         client, server
<1>2. CASE \E b \in BOOLEAN : Connect(b)
  BY <1>0, <1>2
     DEF Types, Counting, Calls, Connecting, Attempting, Connect, Resume, Fits, client,
         server
<1>3. CASE AttachFails
  BY <1>0, <1>3
     DEF Types, Counting, Calls, Connecting, Attempting, AttachFails, Resume, client,
         server
<1>4. CASE Loop
  BY <1>0, <1>4
     DEF Types, Counting, Calls, Connecting, Attempting, Loop, Limits, client, server
<1>5. CASE GiveUp
  <2>1. call \in Calls /\ pc \in {"first", "retry"}
    BY <1>0, <1>5 DEF Types, Attempting, GiveUp
  <2>2. \E err : Counted(err, 0) /\ pc' = "user"
    BY <1>0, <1>5, <2>1, Outcomes DEF GiveUp
  <2> QED BY SMTT(60), <1>0, <2>1, <2>2, Configured DEF Types, Calls, Counting, Counted
<1>6. CASE RequestTooLarge
  <2>1. call \in Calls /\ pc \in {"first", "retry"}
    BY <1>0, <1>6 DEF Types, Attempting, RequestTooLarge
  <2>2. \E err : Counted(err, 0) /\ pc' = IF pc = "first" THEN "resize" ELSE "user"
    BY <1>0, <1>6, <2>1, Outcomes DEF RequestTooLarge, Overflowed
  <2> QED BY SMTT(60), <1>0, <2>1, <2>2, Configured DEF Types, Calls, Counting, Counted
<1>7. CASE TransportFails
  <2>1. call \in Calls /\ pc \in {"first", "retry"}
    BY <1>0, <1>7 DEF Types, Attempting, TransportFails
  <2>2. IF pc = "first" THEN Counted("Failed", 1) /\ pc' = "reconnect"
        ELSE Counted("Failed", 0) /\ pc' = "user"
    BY <1>0, <1>7, <2>1, Outcomes DEF TransportFails
  <2> QED BY SMTT(60), <1>0, <2>1, <2>2, Configured DEF Types, Calls, Counting, Counted
<1>8. CASE Answered
  <2>1. call \in Calls /\ pc \in {"first", "retry"}
    BY <1>0, <1>8 DEF Types, Attempting, Answered
  <2>2. \E err : Counted(err, 0) /\ pc' = "user"
    BY <1>0, <1>8, <2>1, Outcomes DEF Answered
  <2> QED BY SMTT(60), <1>0, <2>1, <2>2, Configured DEF Types, Calls, Counting, Counted
<1>9. CASE ResponseTooLarge
  <2>1. call \in Calls /\ pc \in {"first", "retry"}
    BY <1>0, <1>9 DEF Types, Attempting, ResponseTooLarge
  <2>2. \E err : Counted(err, 0) /\ pc' = IF pc = "first" THEN "resize" ELSE "user"
    BY <1>0, <1>9, <2>1, Outcomes DEF ResponseTooLarge, Overflowed
  <2> QED BY SMTT(60), <1>0, <2>1, <2>2, Configured DEF Types, Calls, Counting, Counted
<1>10. CASE Resized
  BY SMTT(60), <1>0, <1>10, Configured
     DEF Types, Counting, Calls, Connecting, Attempting, Resized, Disconnect, client,
         server
<1>11. CASE Refresh \/ Close
  BY <1>0, <1>11
     DEF Types, Counting, Calls, Connecting, Attempting, Refresh, Close, Disconnect,
         client, server
<1>12. CASE Abort \/ ClearAbort
  BY <1>0, <1>12
     DEF Types, Counting, Calls, Connecting, Attempting, Abort, ClearAbort, client, server
<1>13. CASE \E q \in ReqSizes, r \in RespSizes : Call(q, r)
  <2>1. PICK q \in ReqSizes, r \in RespSizes : Call(q, r)
    BY <1>13
  <2>2. /\ call'.attempts = 0 /\ call'.overflows = 0 /\ call'.failures = 0
        /\ pc' \in {"user", "loop"}
    BY <2>1 DEF Call, NoCall
  <2> QED BY SMTT(60), <2>2, Configured DEF Counting
<1>14. CASE ServerStart
  BY <1>0, <1>14
     DEF Types, Counting, Calls, Connecting, Attempting, ServerStart, client, server
<1>15. CASE ServerGone
  BY <1>0, <1>15
     DEF Types, Counting, Calls, Connecting, Attempting, ServerGone, client, server
<1>16. CASE OtherSessionGrows
  BY <1>0, <1>16
     DEF Types, Counting, Calls, Connecting, Attempting, OtherSessionGrows, client, server
<1>17. CASE UNCHANGED vars
  BY <1>0, <1>17
     DEF Types, Counting, Calls, Connecting, Attempting, vars, client, server
<1> QED BY <1>1, <1>2, <1>3, <1>4, <1>5, <1>6, <1>7, <1>8, <1>9, <1>10, <1>11, <1>12,
           <1>13, <1>14, <1>15, <1>16, <1>17 DEF Next, Step, User, Peer

(* No action leaves a session behind in a state other than Ready.           *)
LEMMA SessionsStep == Inv /\ [Next]_vars => Sessions'
<1> SUFFICES ASSUME Inv, [Next]_vars PROVE Sessions'
  OBVIOUS
<1>0. Types /\ Sessions /\ Learned
  BY DEF Inv
<1>1. CASE ConnectFails
  BY <1>0, <1>1
     DEF Types, Sessions, Learned, Connecting, Attempting, None, States, OrDefault,
         ConnectFails, Refused, Resume, client, server
<1>2. CASE \E b \in BOOLEAN : Connect(b)
  BY SMTT(60), <1>0, <1>2, Configured
     DEF Types, Sessions, Learned, Connecting, Attempting, None, States, OrDefault,
         Connect, Resume, Fits, client, server
<1>3. CASE AttachFails
  BY <1>0, <1>3
     DEF Types, Sessions, Learned, Connecting, Attempting, None, States, OrDefault,
         AttachFails, Resume, client, server
<1>4. CASE Loop
  BY <1>0, <1>4
     DEF Types, Sessions, Learned, Connecting, Attempting, None, States, OrDefault, Loop,
         Limits, client, server
<1>5. CASE GiveUp
  BY <1>0, <1>5
     DEF Types, Sessions, Learned, Connecting, Attempting, None, States, OrDefault,
         GiveUp, Fail, Disconnect, client, server
<1>6. CASE RequestTooLarge
  BY <1>0, <1>6
     DEF Types, Sessions, Learned, Connecting, Attempting, None, States, OrDefault,
         RequestTooLarge, Overflowed, BreakAndReconnect, Fail, Disconnect, client, server
<1>7. CASE TransportFails
  BY <1>0, <1>7
     DEF Types, Sessions, Learned, Connecting, Attempting, None, States, OrDefault,
         TransportFails, BreakAndReconnect, Fail, Disconnect, client, server
<1>8. CASE Answered
  BY <1>0, <1>8
     DEF Types, Sessions, Learned, Connecting, Attempting, None, States, OrDefault,
         Answered, Served, Succeed, client, server
<1>9. CASE ResponseTooLarge
  BY <1>0, <1>9
     DEF Types, Sessions, Learned, Connecting, Attempting, None, States, OrDefault,
         ResponseTooLarge, Served, Overflowed, BreakAndReconnect, Fail, Disconnect,
         client, server
<1>10. CASE Resized
  BY <1>0, <1>10
     DEF Types, Sessions, Learned, Connecting, Attempting, None, States, OrDefault,
         Resized, Disconnect, client, server
<1>11. CASE Refresh \/ Close
  BY <1>0, <1>11
     DEF Types, Sessions, Learned, Connecting, Attempting, None, States, OrDefault,
         Refresh, Close, Disconnect, client, server
<1>12. CASE Abort \/ ClearAbort
  BY <1>0, <1>12
     DEF Types, Sessions, Learned, Connecting, Attempting, None, States, OrDefault,
         Abort, ClearAbort, client, server
<1>13. CASE \E q \in ReqSizes, r \in RespSizes : Call(q, r)
  BY <1>0, <1>13
     DEF Types, Sessions, Learned, Connecting, Attempting, None, States, OrDefault, Call,
         Disconnect, client, server
<1>14. CASE ServerStart
  BY <1>0, <1>14
     DEF Types, Sessions, Learned, Connecting, Attempting, None, States, OrDefault,
         ServerStart, client, server
<1>15. CASE ServerGone
  BY <1>0, <1>15
     DEF Types, Sessions, Learned, Connecting, Attempting, None, States, OrDefault,
         ServerGone, client, server
<1>16. CASE OtherSessionGrows
  BY <1>0, <1>16
     DEF Types, Sessions, Learned, Connecting, Attempting, None, States, OrDefault,
         OtherSessionGrows, client, server
<1>17. CASE UNCHANGED vars
  BY <1>0, <1>17
     DEF Types, Sessions, Learned, Connecting, Attempting, None, States, OrDefault, vars,
         client, server
<1> QED BY <1>1, <1>2, <1>3, <1>4, <1>5, <1>6, <1>7, <1>8, <1>9, <1>10, <1>11, <1>12,
           <1>13, <1>14, <1>15, <1>16, <1>17 DEF Next, Step, User, Peer

(* No request and no response carries the server past its ceilings.         *)
LEMMA LearnedStep == Inv /\ [Next]_vars => Learned'
<1> SUFFICES ASSUME Inv, [Next]_vars PROVE Learned'
  OBVIOUS
<1>0. Types /\ Sessions /\ Learned
  BY DEF Inv
<1>1. CASE ConnectFails
  BY <1>0, <1>1
     DEF Types, Learned, ConnectFails, Refused, Resume, client, server
<1>2. CASE \E b \in BOOLEAN : Connect(b)
  BY <1>0, <1>2 DEF Types, Learned, Connect, Resume, Fits, client, server
<1>3. CASE AttachFails
  BY <1>0, <1>3 DEF Types, Learned, AttachFails, Resume, client, server
<1>4. CASE Loop
  BY <1>0, <1>4 DEF Types, Learned, Loop, Limits, client, server
<1>5. CASE GiveUp
  BY <1>0, <1>5 DEF Types, Learned, GiveUp, Fail, Disconnect, client, server
<1>6. CASE RequestTooLarge
  BY <1>0, <1>6
     DEF Types, Learned, RequestTooLarge, Overflowed, BreakAndReconnect, Fail,
         Disconnect, client, server
<1>7. CASE TransportFails
  BY <1>0, <1>7
     DEF Types, Learned, TransportFails, BreakAndReconnect, Fail, Disconnect, client,
         server
<1>8. CASE Answered
  <2>0. state = "Ready"
    BY <1>0, <1>8 DEF Sessions, Attempting, Answered
  <2>1. learnedReq' <= OrDefault(ReqConfig)
    BY <1>0, <1>8, <2>0, ServedNoted DEF Answered
  <2> QED BY <1>0, <1>8, <2>1, ResponseNoted DEF Answered, Types, Calls, Learned
<1>9. CASE ResponseTooLarge
  <2>0. state = "Ready"
    BY <1>0, <1>9 DEF Sessions, Attempting, ResponseTooLarge
  <2>1. learnedReq' <= OrDefault(ReqConfig)
    BY <1>0, <1>9, <2>0, ServedNoted DEF ResponseTooLarge
  <2>2. 2 * SessionResp \in Nat
    BY SMTT(60), <1>0, <2>0, InForce
  <2> QED BY <1>0, <1>9, <2>1, <2>2, ResponseNoted DEF ResponseTooLarge, Learned
<1>10. CASE Resized
  BY <1>0, <1>10 DEF Types, Learned, Resized, Disconnect, client, server
<1>11. CASE Refresh \/ Close
  BY <1>0, <1>11 DEF Types, Learned, Refresh, Close, Disconnect, client, server
<1>12. CASE Abort \/ ClearAbort
  BY <1>0, <1>12 DEF Types, Learned, Abort, ClearAbort, client, server
<1>13. CASE \E q \in ReqSizes, r \in RespSizes : Call(q, r)
  BY <1>0, <1>13 DEF Types, Learned, Call, Disconnect, client, server
<1>14. CASE ServerStart
  BY SMTT(60), <1>0, <1>14, Configured DEF ServerStart, Learned, OrDefault, RespCeiling
<1>15. CASE ServerGone
  BY <1>0, <1>15 DEF Types, Learned, ServerGone, client, server
<1>16. CASE OtherSessionGrows
  BY SMTT(60), <1>0, <1>16, ResponseNoted DEF OtherSessionGrows, Learned, Types
<1>17. CASE UNCHANGED vars
  BY <1>0, <1>17 DEF Types, Learned, vars, client, server
<1> QED BY <1>1, <1>2, <1>3, <1>4, <1>5, <1>6, <1>7, <1>8, <1>9, <1>10, <1>11, <1>12,
           <1>13, <1>14, <1>15, <1>16, <1>17 DEF Next, Step, User, Peer

(* An overflow is followed by growth of the capacity that was too small.     *)
LEMMA CausesStep == Inv /\ [Next]_vars => Causes'
<1> SUFFICES ASSUME Inv, [Next]_vars PROVE Causes'
  OBVIOUS
<1>0. Types /\ Sessions /\ Learned /\ Causes
  BY DEF Inv
<1>1. CASE ConnectFails
  BY <1>0, <1>1
     DEF Types, Causes, Explained, Connecting, Attempting, Calls, ConnectFails, Refused,
         Resume, client, server
<1>2. CASE \E b \in BOOLEAN : Connect(b)
  BY SMTT(60), <1>0, <1>2
     DEF Types, Causes, Explained, Connecting, Attempting, Calls, Connect, Resume, Fits,
         client, server
<1>3. CASE AttachFails
  BY <1>0, <1>3
     DEF Types, Causes, Explained, Connecting, Attempting, Calls, AttachFails, Resume,
         client, server
<1>4. CASE Loop
  <2>0. state = "Ready"
    BY <1>0, <1>4 DEF Sessions, Loop
  <2>1. call'.prev = <<session.req, session.resp, cfgReq, cfgResp>>
    BY <1>0, <1>4, <2>0, InForce DEF Loop, Limits, Types, Calls
  <2> QED BY <1>4, <2>1 DEF Loop, Causes, client
<1>5. CASE GiveUp
  <2>1. pc' = "user"
    BY <1>5 DEF GiveUp, Fail
  <2> QED BY <2>1 DEF Causes
<1>6. CASE RequestTooLarge
  <2>0. state = "Ready"
    BY <1>0, <1>6 DEF Sessions, Attempting, RequestTooLarge
  <2>1. CASE pc # "first"
    <3>1. pc' = "user"
      BY <1>6, <2>1 DEF RequestTooLarge, Overflowed, Fail
    <3> QED BY <3>1 DEF Causes
  <2>2. CASE pc = "first"
    <3>1. Counted("Overflow", 0) /\ pc' = "resize"
      BY <1>0, <1>6, <2>2, Outcomes DEF RequestTooLarge, Overflowed, Types
    <3>2. call.req > call.prev[1]
      <4>1. call.prev = <<session.req, session.resp, cfgReq, cfgResp>>
        BY <1>0, <2>2 DEF Causes
      <4>2. call.req > session.req
        BY <1>0, <1>6, <2>0, InForce DEF RequestTooLarge
      <4> QED BY SMTT(60), <4>1, <4>2
    <3>3. call.req <= Cap => cfgReq' >= call.req
      BY <1>0, <1>6, RequestNoted
    <3> QED BY <3>1, <3>2, <3>3 DEF Causes, Explained, Counted
  <2> QED BY <2>1, <2>2
<1>7. CASE TransportFails
  <2>1. pc' \in {"user", "reconnect"}
    BY <1>7 DEF TransportFails, Fail, BreakAndReconnect
  <2> QED BY <2>1 DEF Causes
<1>8. CASE Answered
  <2>1. pc' = "user"
    BY <1>8 DEF Answered, Succeed
  <2> QED BY <2>1 DEF Causes
<1>9. CASE ResponseTooLarge
  <2>0. state = "Ready"
    BY <1>0, <1>9 DEF Sessions, Attempting, ResponseTooLarge
  <2>1. CASE pc # "first"
    <3>1. pc' = "user"
      BY <1>9, <2>1 DEF ResponseTooLarge, Overflowed, Fail
    <3> QED BY <3>1 DEF Causes
  <2>2. CASE pc = "first"
    <3>1. Counted("Overflow", 0) /\ pc' = "resize"
      BY <1>0, <1>9, <2>2, Outcomes DEF ResponseTooLarge, Overflowed, Types
    <3>2. call.prev[2] = session.resp /\ call.resp > session.resp
      <4>1. call.prev = <<session.req, session.resp, cfgReq, cfgResp>>
        BY <1>0, <2>2 DEF Causes
      <4>2. call.resp > session.resp
        BY <1>0, <1>9, <2>0, InForce DEF ResponseTooLarge
      <4> QED BY SMTT(60), <4>1, <4>2
    <3>3. ASSUME call.resp <= RespCeiling PROVE learnedResp' > session.resp
      <4>1. /\ session.resp \in Nat /\ 0 < session.resp /\ session.resp < RespCeiling
            /\ RespConfig = 0
        BY SMTT(60), <1>0, <2>0, <3>2, <3>3, Configured DEF Types, Calls, Sessions, RespCeiling
      <4>2. learnedResp' = Note(learnedResp, 2 * session.resp, RespCeiling)
        BY <1>0, <1>9, <2>0, InForce DEF ResponseTooLarge
      <4> QED BY SMTT(60), <1>0, <4>1, <4>2, ResponseNoted
    <3> QED BY SMTT(60), <1>0, <3>1, <3>2, <3>3, Configured
               DEF Causes, Explained, Counted, Types, Calls
  <2> QED BY <2>1, <2>2
<1>10. CASE Resized
  BY <1>0, <1>10
     DEF Types, Causes, Explained, Connecting, Attempting, Calls, Resized, Disconnect,
         client, server
<1>11. CASE Refresh \/ Close
  BY <1>0, <1>11
     DEF Types, Causes, Explained, Connecting, Attempting, Calls, Refresh, Close,
         Disconnect, client, server
<1>12. CASE Abort \/ ClearAbort
  BY <1>0, <1>12
     DEF Types, Causes, Explained, Connecting, Attempting, Calls, Abort, ClearAbort,
         client, server
<1>13. CASE \E q \in ReqSizes, r \in RespSizes : Call(q, r)
  <2>1. pc' \in {"user", "loop"}
    BY <1>13 DEF Call
  <2> QED BY <2>1 DEF Causes
<1>14. CASE ServerStart
  BY <1>0, <1>14
     DEF Types, Causes, Explained, Connecting, Attempting, Calls, ServerStart, client,
         server
<1>15. CASE ServerGone
  BY <1>0, <1>15
     DEF Types, Causes, Explained, Connecting, Attempting, Calls, ServerGone, client,
         server
<1>16. CASE OtherSessionGrows
  <2>1. learnedResp' \in Nat /\ learnedResp' >= learnedResp
    BY SMTT(60), <1>0, <1>16, ResponseNoted DEF OtherSessionGrows, Types
  <2> QED BY SMTT(60), <1>0, <1>16, <2>1
             DEF OtherSessionGrows, Causes, Explained, Types, Calls, client
<1>17. CASE UNCHANGED vars
  BY <1>0, <1>17
     DEF Types, Causes, Explained, Connecting, Attempting, Calls, vars, client, server
<1> QED BY <1>1, <1>2, <1>3, <1>4, <1>5, <1>6, <1>7, <1>8, <1>9, <1>10, <1>11, <1>12,
           <1>13, <1>14, <1>15, <1>16, <1>17 DEF Next, Step, User, Peer

(* A call ends in Overflow only where OverflowIsHopeless says.               *)
LEMMA HopelessStep == Inv /\ [Next]_vars => OverflowIsHopeless'
<1> SUFFICES ASSUME Inv, [Next]_vars PROVE OverflowIsHopeless'
  OBVIOUS
<1>0. Types /\ Sessions /\ Causes /\ Counting /\ OverflowIsHopeless
  BY DEF Inv
<1>1. CASE ConnectFails
  BY <1>0, <1>1
     DEF Types, OverflowIsHopeless, Connecting, Attempting, Calls, States, ConnectFails,
         Refused, Resume, client, server
<1>2. CASE \E b \in BOOLEAN : Connect(b)
  BY <1>0, <1>2
     DEF Types, OverflowIsHopeless, Connecting, Attempting, Calls, States, Connect,
         Resume, Fits, client, server
<1>3. CASE AttachFails
  BY <1>0, <1>3
     DEF Types, OverflowIsHopeless, Connecting, Attempting, Calls, States, AttachFails,
         Resume, client, server
<1>4. CASE Loop
  BY <1>0, <1>4
     DEF Types, OverflowIsHopeless, Connecting, Attempting, Calls, States, Loop, Limits,
         client, server
<1>5. CASE GiveUp
  <2>1. call'.err \in {"Timeout", "Aborted"}
    BY <1>0, <1>5, Outcomes DEF GiveUp, Counted, Types
  <2> QED BY <2>1 DEF OverflowIsHopeless
<1>6. CASE RequestTooLarge
  <2>1. pc' = "user" => pc = "retry" /\ Counted("Overflow", 0)
    BY SMTT(60), <1>0, <1>6, Outcomes DEF RequestTooLarge, Overflowed, Attempting, Types
  <2>2. pc' = "user" => call'.failures = 1
    BY SMTT(60), <1>0, <2>1 DEF Counting, Counted
  <2> QED BY <2>2 DEF OverflowIsHopeless
<1>7. CASE TransportFails
  <2>1. call'.err = "Failed"
    BY <1>0, <1>7, Outcomes DEF TransportFails, Counted, Types
  <2> QED BY <2>1 DEF OverflowIsHopeless
<1>8. CASE Answered
  <2>1. call'.err = "none"
    BY <1>0, <1>8, Outcomes DEF Answered, Counted, Types
  <2> QED BY <2>1 DEF OverflowIsHopeless
<1>9. CASE ResponseTooLarge
  <2>1. pc' = "user" => pc = "retry" /\ Counted("Overflow", 0)
    BY SMTT(60), <1>0, <1>9, Outcomes DEF ResponseTooLarge, Overflowed, Attempting, Types
  <2>2. pc' = "user" => call'.failures = 1
    BY SMTT(60), <1>0, <2>1 DEF Counting, Counted
  <2> QED BY <2>2 DEF OverflowIsHopeless
<1>10. CASE Resized
  <2>1. CASE Grew
    <3>1. pc' = "user" => call'.overflows >= OverflowLimit
      BY <1>0, <1>10, <2>1, Configured DEF Resized, Types, Calls
    <3> QED BY <3>1 DEF OverflowIsHopeless
  <2>2. CASE ~Grew
    <3>1. call' = call /\ state = "Ready"
      BY <1>0, <1>10, <2>2 DEF Resized, Sessions
    <3>2. Limits = <<session.req, session.resp, cfgReq, cfgResp>>
      BY <1>0, <3>1, InForce DEF Limits
    <3>3. ~(session.req > call.prev[1]) /\ ~(session.resp > call.prev[2])
      BY SMTT(60), <2>2, <3>2 DEF Grew
    <3>4. call.req > Cap \/ call.resp > RespCeiling \/ call.restarted
      <4>1. Explained(session.resp)
        BY <1>0, <1>10 DEF Causes, Resized
      <4>2. session.req = OrDefault(cfgReq)
        BY <1>0, <3>1 DEF Sessions
      <4> QED BY SMTT(60), <1>0, <3>3, <4>1, <4>2, Configured DEF Explained, OrDefault, Types, Calls
    <3> QED BY <3>1, <3>4 DEF OverflowIsHopeless
  <2> QED BY <2>1, <2>2
<1>11. CASE Refresh \/ Close
  BY <1>0, <1>11
     DEF Types, OverflowIsHopeless, Connecting, Attempting, Calls, States, Refresh,
         Close, Disconnect, client, server
<1>12. CASE Abort \/ ClearAbort
  BY <1>0, <1>12
     DEF Types, OverflowIsHopeless, Connecting, Attempting, Calls, States, Abort,
         ClearAbort, client, server
<1>13. CASE \E q \in ReqSizes, r \in RespSizes : Call(q, r)
  <2>1. call'.err \in {"none", "NotReady", "Aborted"}
    BY <1>13 DEF Call, NoCall
  <2> QED BY <2>1 DEF OverflowIsHopeless
<1>14. CASE ServerStart
  BY <1>0, <1>14
     DEF Types, OverflowIsHopeless, Connecting, Attempting, Calls, States, ServerStart,
         client, server
<1>15. CASE ServerGone
  BY <1>0, <1>15
     DEF Types, OverflowIsHopeless, Connecting, Attempting, Calls, States, ServerGone,
         client, server
<1>16. CASE OtherSessionGrows
  BY <1>0, <1>16
     DEF Types, OverflowIsHopeless, Connecting, Attempting, Calls, States,
         OtherSessionGrows, client, server
<1>17. CASE UNCHANGED vars
  BY <1>0, <1>17
     DEF Types, OverflowIsHopeless, Connecting, Attempting, Calls, States, vars, client,
         server
<1> QED BY <1>1, <1>2, <1>3, <1>4, <1>5, <1>6, <1>7, <1>8, <1>9, <1>10, <1>11, <1>12,
           <1>13, <1>14, <1>15, <1>16, <1>17 DEF Next, Step, User, Peer

(* The flags stay Boolean.                                                  *)
LEMMA FlagsStep == Inv /\ [Next]_vars => Flags'
<1> SUFFICES ASSUME Inv, [Next]_vars PROVE Flags'
  OBVIOUS
<1>0. Flags
  BY DEF Inv
<1>1. CASE ConnectFails
  BY <1>0, <1>1 DEF Flags, ConnectFails, Refused, Resume, client, server
<1>2. CASE \E b \in BOOLEAN : Connect(b)
  BY <1>0, <1>2 DEF Flags, Connect, Resume, Fits, client, server
<1>3. CASE AttachFails
  BY <1>0, <1>3 DEF Flags, AttachFails, Resume, client, server
<1>4. CASE Loop
  BY <1>0, <1>4 DEF Flags, Loop, Limits, client, server
<1>5. CASE GiveUp
  BY <1>0, <1>5 DEF Flags, GiveUp, Fail, Disconnect, client, server
<1>6. CASE RequestTooLarge
  BY <1>0, <1>6
     DEF Flags, RequestTooLarge, Overflowed, BreakAndReconnect, Fail, Disconnect, client,
         server
<1>7. CASE TransportFails
  BY <1>0, <1>7
     DEF Flags, TransportFails, BreakAndReconnect, Fail, Disconnect, client, server
<1>8. CASE Answered
  BY <1>0, <1>8 DEF Flags, Answered, Served, Succeed, client, server
<1>9. CASE ResponseTooLarge
  BY <1>0, <1>9
     DEF Flags, ResponseTooLarge, Served, Overflowed, BreakAndReconnect, Fail,
         Disconnect, client, server
<1>10. CASE Resized
  BY <1>0, <1>10 DEF Flags, Resized, Disconnect, client, server
<1>11. CASE Refresh \/ Close
  BY <1>0, <1>11 DEF Flags, Refresh, Close, Disconnect, client, server
<1>12. CASE Abort \/ ClearAbort
  BY <1>0, <1>12 DEF Flags, Abort, ClearAbort, client, server
<1>13. CASE \E q \in ReqSizes, r \in RespSizes : Call(q, r)
  BY <1>0, <1>13 DEF Flags, Call, Disconnect, client, server
<1>14. CASE ServerStart
  BY <1>0, <1>14 DEF Flags, ServerStart, client, server
<1>15. CASE ServerGone
  BY <1>0, <1>15 DEF Flags, ServerGone, client, server
<1>16. CASE OtherSessionGrows
  BY <1>0, <1>16 DEF Flags, OtherSessionGrows, client, server
<1>17. CASE UNCHANGED vars
  BY <1>0, <1>17 DEF Flags, vars, client, server
<1> QED BY <1>1, <1>2, <1>3, <1>4, <1>5, <1>6, <1>7, <1>8, <1>9, <1>10, <1>11, <1>12,
           <1>13, <1>14, <1>15, <1>16, <1>17 DEF Next, Step, User, Peer

-----------------------------------------------------------------------------
(* The invariant is inductive: the loop's counters, the session, the        *)
(* server's learned capacities and the cause of an overflow hold together   *)
(* across every step of client, application and server.                     *)
THEOREM Inductive == Spec => []Inv
<1>1. Inv /\ [Next]_vars => Inv'
  BY TypesStep, FlagsStep, CountingStep, SessionsStep, LearnedStep, CausesStep,
     HopelessStep
     DEF Inv
<1> QED BY InitInv, <1>1, PTL DEF Spec

(* raw_call_with_retry_timeout makes at most OverflowLimit + 1 attempts and *)
(* retries an ordinary failure once, for every limit and every size.        *)
THEOREM RetriesAreBounded == Spec => []RetryBound
<1>1. Inv => RetryBound
  <2> SUFFICES ASSUME Inv PROVE RetryBound
    OBVIOUS
  <2>1. {shm, shmOffered, abort, up, live} \subseteq BOOLEAN
    BY DEF Inv, Flags
  <2>2. /\ state \in States
        /\ session \in [req : Nat, resp : Nat]
        /\ {cfgReq, cfgResp, learnedReq, learnedResp, calls} \subseteq Nat
        /\ pc \in {"user", "loop", "resized"} \cup Connecting \cup Attempting
        /\ call.err \in {"none", "NotReady", "Overflow", "Failed"} \cup GivenUp
    BY DEF Inv, Types, Calls, Errors
  <2> QED BY <2>1, <2>2 DEF Inv, TypeOK, RetryBound, Counting
<1> QED BY <1>1, Inductive, PTL

(* The loop's no-growth test never stops a call that could still succeed:   *)
(* whatever the server is configured with, an overflow that ends a call on  *)
(* a working connection has one of the five reasons.                        *)
THEOREM NoEarlyStop == Spec => []OverflowIsHopeless
<1>1. Inv => OverflowIsHopeless
  BY DEF Inv
<1> QED BY <1>1, Inductive, PTL

(* Once the client proposes more than the server was started with, no later *)
(* handshake succeeds.                                                      *)
THEOREM OversizeIsFinal == Spec => OversizeIsPermanent
<1>1. Inv /\ [Next]_vars =>
        [(session = None /\ OrDefault(cfgReq) > OrDefault(ReqConfig)) => session' = None]_vars
  <2> SUFFICES ASSUME Inv, Next, session = None, OrDefault(cfgReq) > OrDefault(ReqConfig)
               PROVE  session' = None
    OBVIOUS
  <2>1. ASSUME NEW b \in BOOLEAN, Connect(b) PROVE FALSE
    <3>1. OrDefault(cfgReq) <= learnedReq
      BY <2>1 DEF Connect, Fits
    <3> QED BY SMTT(60), <3>1, Configured DEF Inv, Types, Learned, OrDefault
  <2> QED BY <2>1
             DEF Next, Step, User, Peer, ConnectFails, Refused, AttachFails, Loop, GiveUp,
        RequestTooLarge, TransportFails, Answered, ResponseTooLarge, Resized, Refresh, Close,
        Abort, ClearAbort, Call, ServerStart, ServerGone, OtherSessionGrows, Fail, Succeed,
        Overflowed, BreakAndReconnect, Disconnect, client
<1> QED BY <1>1, Inductive, PTL DEF Spec, OversizeIsPermanent
=============================================================================
