------------------------ MODULE ClientSessionProofs ------------------------
(***************************************************************************)
(* For any number of messages, calls, broken and failed connections: the   *)
(* session is a FIFO outbox, keeps one attempt at a time, tells its sink   *)
(* joins and leaves in turn, is never stuck and rests when closed.         *)
(***************************************************************************)
EXTENDS ClientSession, SequenceTheorems, TLAPS

(* What the sink was told agrees with m_bConnected in a session that reconnects. *)
ConnectedIsOpen == reconnect /\ upset \cap {"connect", "late"} = {} =>
  (connected <=> transport # None)

Inv == /\ TypeOK /\ CacheWaits /\ OneAttempt /\ Alternating
       /\ ConnectedIsOpen /\ NeverStuck /\ ClosedRests

LEMMA CutTyped ==
  ASSUME NEW q \in Seq(Nat), NEW k \in 0..Len(q)
  PROVE  /\ SubSeq(q, 1, k) \in Seq(Nat)
         /\ SubSeq(q, k + 1, Len(q)) \in Seq(Nat)
         /\ k < Len(q) <=> SubSeq(q, k + 1, Len(q)) # <<>>
<1>1. Len(q) \in Nat /\ k \in Nat /\ k <= Len(q)
  BY LenProperties
<1>2. \A i \in 1..Len(q) : q[i] \in Nat
  BY ElementOfSeq
<1>3. SubSeq(q, 1, k) \in Seq(Nat)
  BY <1>1, <1>2, SubSeqProperties
<1> DEFINE rest == SubSeq(q, k + 1, Len(q))
<1>4. rest \in Seq(Nat) /\ Len(rest) = IF k + 1 <= Len(q) THEN Len(q) - (k + 1) + 1 ELSE 0
  BY <1>1, <1>2, SubSeqProperties
<1> HIDE DEF rest
<1>5. k < Len(q) <=> rest # <<>>
  BY <1>1, <1>4, EmptySeq
<1>6. QED BY <1>3, <1>4, <1>5 DEF rest

LEMMA EmptyTyped == <<>> \in Seq(Nat)
  OBVIOUS

THEOREM InitInv == Init => Inv
<1> SUFFICES ASSUME Init PROVE Inv
  OBVIOUS
<1> USE SessionAssumption DEF Init
<1>1. FlagType /\ LinkType /\ CountType
  <2>1. FlagType
    BY DEF FlagType
  <2>2. LinkType
    BY DEF LinkType, None
  <2>3. CountType
    BY DEF CountType
  <2>4. QED BY <2>1, <2>2, <2>3
<1>2. DataType
  BY EmptyTyped DEF DataType
<1>3. CacheWaits /\ OneAttempt /\ Alternating /\ ConnectedIsOpen
  BY DEF CacheWaits, OneAttempt, Alternating, ConnectedIsOpen, None
<1>4. NeverStuck /\ ClosedRests
  BY DEF NeverStuck, ClosedRests, Busy, None
<1>5. QED BY <1>1, <1>2, <1>3, <1>4 DEF Inv, TypeOK

-----------------------------------------------------------------------------
(* What the data steps do to the cache, the wire and the transport's state.  *)
LEMMA FlushFacts ==
  ASSUME NEW q \in Seq(Nat), NEW least \in Nat, wire \in Seq(Nat), Flush(q, least)
  PROVE  /\ wire' \in Seq(Nat) /\ cache' \in Seq(Nat) /\ blocked' \in BOOLEAN
         /\ blocked' <=> cache' # <<>>
<1>1. PICK k \in least..Len(q) : /\ wire' = wire \o SubSeq(q, 1, k)
                                 /\ cache' = SubSeq(q, k + 1, Len(q))
                                 /\ blocked' = (k < Len(q))
  BY DEF Flush
<1>2. k \in 0..Len(q)
  OBVIOUS
<1>3. /\ SubSeq(q, 1, k) \in Seq(Nat) /\ cache' \in Seq(Nat)
      /\ k < Len(q) <=> cache' # <<>>
  BY <1>1, <1>2, CutTyped
<1>4. wire' \in Seq(Nat)
  BY <1>1, <1>3, ConcatProperties
<1>5. blocked' \in BOOLEAN
  BY <1>1
<1>6. blocked' <=> cache' # <<>>
  BY <1>1, <1>3
<1>7. QED BY <1>3, <1>4, <1>5, <1>6

LEMMA SendDataFacts ==
  ASSUME DataType, SendData(posted + 1)
  PROVE  /\ DataType'
         /\ CacheWaits /\ transport' = transport => CacheWaits'
<1>1. /\ posted + 1 \in Nat /\ Append(cache, posted + 1) \in Seq(Nat)
      /\ Append(wire, posted + 1) \in Seq(Nat) /\ Append(cache, posted + 1) # <<>>
  BY DEF DataType
<1>2. /\ posted' = posted + 1
      /\ \/ wire' = Append(wire, posted + 1) /\ UNCHANGED <<cache, blocked>>
         \/ cache' = Append(cache, posted + 1) /\ blocked' = (transport # None) /\ wire' = wire
  BY DEF SendData
<1>3. DataType'
  BY <1>1, <1>2 DEF DataType
<1>4. CacheWaits /\ transport' = transport => CacheWaits'
  BY <1>1, <1>2 DEF CacheWaits
<1>5. QED BY <1>3, <1>4

LEMMA UnreportedTyped == LinkType => Unreported \in SUBSET (1..made)
  BY DEF Unreported, LinkType

LEMMA NoTransport == LinkType => None \in 0..made
  BY DEF None, LinkType

LEMMA TypeStep == TypeOK /\ [Next]_vars => TypeOK'
<1> SUFFICES ASSUME FlagType, LinkType, DataType, CountType, [Next]_vars
             PROVE  FlagType' /\ LinkType' /\ DataType' /\ CountType'
  BY DEF TypeOK
<1> USE SessionAssumption
<1>1. CASE Send
  <2>1. FlagType'
    BY <1>1 DEF FlagType, Send, link
  <2>2. LinkType'
    BY <1>1 DEF LinkType, Send, link
  <2>3. DataType'
    BY <1>1, SendDataFacts DEF Send
  <2>4. CountType'
    BY <1>1 DEF CountType, Send, link
  <2>5. QED BY <2>1, <2>2, <2>3, <2>4
<1>2. CASE Connect
  <2>1. FlagType'
    BY <1>2 DEF FlagType, Connect, data
  <2>2. LinkType'
    BY <1>2 DEF LinkType, Connect, data
  <2>3. DataType'
    BY <1>2 DEF DataType, Connect, data
  <2>4. CountType'
    BY <1>2 DEF CountType, Connect, data
  <2>5. QED BY <2>1, <2>2, <2>3, <2>4
<1>3. CASE Close
  <2>1. FlagType'
    BY <1>3 DEF FlagType, Close, CloseSession
  <2>2. LinkType'
    BY <1>3, NoTransport, UnreportedTyped DEF LinkType, Close, CloseSession
  <2>3. DataType'
    BY <1>3, EmptyTyped DEF DataType, Close, CloseSession
  <2>4. CountType'
    BY <1>3 DEF CountType, Close, CloseSession
  <2>5. QED BY <2>1, <2>2, <2>3, <2>4
<1>4. CASE ReLoad
  <2>1. FlagType'
    BY <1>4 DEF FlagType, ReLoad, CloseSession
  <2>2. LinkType'
    BY <1>4, NoTransport, UnreportedTyped DEF LinkType, ReLoad, CloseSession
  <2>3. DataType'
    BY <1>4, EmptyTyped DEF DataType, ReLoad, CloseSession
  <2>4. CountType'
    BY <1>4 DEF CountType, ReLoad, CloseSession
  <2>5. QED BY <2>1, <2>2, <2>3, <2>4
<1>5. CASE ConnectFailed
  <2>1. FlagType'
    BY <1>5 DEF FlagType, ConnectFailed
  <2>2. LinkType'
    BY <1>5 DEF LinkType, ConnectFailed
  <2>3. DataType'
    <3>1. CASE reconnect
      BY <1>5, <3>1 DEF DataType, ConnectFailed, data
    <3>2. CASE ~reconnect
      BY <1>5, <3>2, SendDataFacts DEF ConnectFailed
    <3>3. QED BY <3>1, <3>2
  <2>4. CountType'
    BY <1>5 DEF CountType, ConnectFailed
  <2>5. QED BY <2>1, <2>2, <2>3, <2>4
<1>6. CASE ConnectSucceeded
  <2>1. FlagType'
    BY <1>6 DEF FlagType, ConnectSucceeded, bounds
  <2>2. LinkType'
    <3>1. made + 1 \in Nat /\ made + 1 \in 0..(made + 1) /\ 1..made \subseteq 1..(made + 1)
      BY DEF LinkType
    <3>2. QED BY <1>6, <3>1, UnreportedTyped DEF LinkType, ConnectSucceeded
  <2>3. DataType'
    <3>1. posted + 1 \in Nat /\ Append(cache, posted + 1) \in Seq(Nat)
      BY DEF DataType
    <3>2. Flush(Append(cache, posted + 1), 0) /\ posted' = posted + 1
      BY <1>6 DEF ConnectSucceeded
    <3>3. QED BY <3>1, <3>2, FlushFacts DEF DataType
  <2>4. CountType'
    BY <1>6 DEF CountType, ConnectSucceeded, bounds
  <2>5. QED BY <2>1, <2>2, <2>3, <2>4
<1>7. CASE SinkFailed
  <2>1. FlagType'
    BY <1>7 DEF FlagType, SinkFailed
  <2>2. LinkType'
    BY <1>7, NoTransport, UnreportedTyped DEF LinkType, SinkFailed
  <2>3. DataType'
    BY <1>7 DEF DataType, SinkFailed
  <2>4. CountType'
    BY <1>7 DEF CountType, SinkFailed
  <2>5. QED BY <2>1, <2>2, <2>3, <2>4
<1>8. CASE OnTimer
  <2>1. FlagType'
    BY <1>8 DEF FlagType, OnTimer, data, bounds
  <2>2. LinkType'
    BY <1>8 DEF LinkType, OnTimer, data, bounds
  <2>3. DataType'
    BY <1>8 DEF DataType, OnTimer, data, bounds
  <2>4. CountType'
    BY <1>8 DEF CountType, OnTimer, data, bounds
  <2>5. QED BY <2>1, <2>2, <2>3, <2>4
<1>9. CASE OnSend
  <2>1. FlagType'
    BY <1>9 DEF FlagType, OnSend, link, bounds
  <2>2. LinkType'
    BY <1>9 DEF LinkType, OnSend, link, bounds
  <2>3. DataType'
    BY <1>9, FlushFacts DEF DataType, OnSend
  <2>4. CountType'
    BY <1>9 DEF CountType, OnSend, link, bounds
  <2>5. QED BY <2>1, <2>2, <2>3, <2>4
<1>10. CASE Break
  <2>1. FlagType'
    BY <1>10 DEF FlagType, Break, link, data
  <2>2. LinkType'
    <3>1. transport \in 1..made
      BY <1>10 DEF LinkType, Break, None
    <3>2. QED BY <1>10, <3>1 DEF LinkType, Break, link
  <2>3. DataType'
    BY <1>10 DEF DataType, Break, link, data
  <2>4. CountType'
    BY <1>10 DEF CountType, Break, link, data
  <2>5. QED BY <2>1, <2>2, <2>3, <2>4
<1>11. CASE Reported
  <2>0. PICK t \in broken : OnDisconnect(t)
    BY <1>11 DEF Reported
  <2>1. FlagType'
    BY <2>0 DEF FlagType, OnDisconnect, bounds
  <2>2. LinkType'
    BY <2>0, NoTransport DEF LinkType, OnDisconnect
  <2>3. DataType'
    BY <2>0 DEF DataType, OnDisconnect, bounds
  <2>4. CountType'
    BY <2>0 DEF CountType, OnDisconnect, bounds
  <2>5. QED BY <2>1, <2>2, <2>3, <2>4
<1>12. CASE UNCHANGED vars
  <2>1. FlagType'
    BY <1>12 DEF FlagType, vars, link, data, bounds
  <2>2. LinkType'
    BY <1>12 DEF LinkType, vars, link, data, bounds
  <2>3. DataType'
    BY <1>12 DEF DataType, vars, link, data, bounds
  <2>4. CountType'
    BY <1>12 DEF CountType, vars, link, data, bounds
  <2>5. QED BY <2>1, <2>2, <2>3, <2>4
<1>13. QED
  BY <1>1, <1>2, <1>3, <1>4, <1>5, <1>6, <1>7, <1>8, <1>9, <1>10, <1>11, <1>12 DEF Next

-----------------------------------------------------------------------------
(* The cache holds messages only while no transport takes any. *)
LEMMA CacheStep == TypeOK /\ CacheWaits /\ [Next]_vars => CacheWaits'
<1> SUFFICES ASSUME LinkType, DataType, CacheWaits, [Next]_vars PROVE CacheWaits'
  BY DEF TypeOK
<1>1. CASE Send
  BY <1>1, SendDataFacts DEF Send, link
<1>2. CASE Connect
  BY <1>2 DEF CacheWaits, Connect, data
<1>3. CASE Close
  BY <1>3 DEF CacheWaits, Close, CloseSession
<1>4. CASE ReLoad
  BY <1>4 DEF CacheWaits, ReLoad, CloseSession
<1>5. CASE ConnectFailed
  <2>1. CASE reconnect
    BY <1>5, <2>1 DEF CacheWaits, ConnectFailed, data
  <2>2. CASE ~reconnect
    BY <1>5, <2>2, SendDataFacts DEF ConnectFailed
  <2>3. QED BY <2>1, <2>2
<1>6. CASE ConnectSucceeded
  <2>1. posted + 1 \in Nat /\ Append(cache, posted + 1) \in Seq(Nat) /\ Flush(Append(cache, posted + 1), 0)
    BY <1>6 DEF ConnectSucceeded, DataType
  <2>2. blocked' <=> cache' # <<>>
    BY <2>1, FlushFacts DEF DataType
  <2>3. transport' # None
    BY <1>6 DEF ConnectSucceeded, LinkType, None
  <2>4. QED BY <2>2, <2>3 DEF CacheWaits
<1>7. CASE SinkFailed
  BY <1>7 DEF CacheWaits, SinkFailed
<1>8. CASE OnTimer
  BY <1>8 DEF CacheWaits, OnTimer, data
<1>9. CASE OnSend
  <2>1. (blocked' <=> cache' # <<>>) /\ transport' = transport /\ blocked
    BY <1>9, FlushFacts DEF DataType, OnSend, link
  <2>2. QED BY <2>1 DEF CacheWaits
<1>10. CASE Break
  BY <1>10 DEF CacheWaits, Break, link, data
<1>11. CASE Reported
  BY <1>11 DEF CacheWaits, Reported, OnDisconnect
<1>12. CASE UNCHANGED vars
  BY <1>12 DEF CacheWaits, vars, link, data
<1>13. QED
  BY <1>1, <1>2, <1>3, <1>4, <1>5, <1>6, <1>7, <1>8, <1>9, <1>10, <1>11, <1>12 DEF Next

-----------------------------------------------------------------------------
(* Who is busy: a step either leaves the link alone or is one of the seven that *)
(* move it.                                                                     *)
LEMMA ControlStep ==
  ASSUME TypeOK, OneAttempt, Alternating, ConnectedIsOpen, NeverStuck, ClosedRests, [Next]_vars
  PROVE  OneAttempt' /\ Alternating' /\ ConnectedIsOpen' /\ NeverStuck' /\ ClosedRests'
<1> USE DEF FlagType, LinkType, CountType
<1> FlagType /\ LinkType /\ CountType
  BY DEF TypeOK
<1> USE DEF OneAttempt, Alternating, ConnectedIsOpen, NeverStuck, ClosedRests, Busy
<1>1. CASE link' = link /\ UNCHANGED <<reconnect, joined, wanted, upset>>
  BY <1>1 DEF link
<1>2. CASE Connect
  <2>1. OneAttempt'
    BY <1>2 DEF Connect, None
  <2>2. Alternating'
    BY <1>2 DEF Connect, None
  <2>3. ConnectedIsOpen'
    BY <1>2 DEF Connect, None
  <2>4. NeverStuck'
    BY <1>2 DEF Connect, None
  <2>5. ClosedRests'
    BY <1>2 DEF Connect, None
  <2>6. QED BY <2>1, <2>2, <2>3, <2>4, <2>5
<1>3. CASE Close
  <2>1. OneAttempt'
    BY <1>3 DEF Close, CloseSession, None
  <2>2. Alternating'
    BY <1>3 DEF Close, CloseSession, None
  <2>3. ConnectedIsOpen'
    BY <1>3 DEF Close, CloseSession, None
  <2>4. NeverStuck'
    BY <1>3 DEF Close, CloseSession, None
  <2>5. ClosedRests'
    BY <1>3 DEF Close, CloseSession, None
  <2>6. QED BY <2>1, <2>2, <2>3, <2>4, <2>5
<1>4. CASE ReLoad
  <2>1. OneAttempt'
    BY <1>4 DEF ReLoad, CloseSession, None
  <2>2. Alternating'
    BY <1>4 DEF ReLoad, CloseSession, None
  <2>3. ConnectedIsOpen'
    BY <1>4 DEF ReLoad, CloseSession, None
  <2>4. NeverStuck'
    BY <1>4 DEF ReLoad, CloseSession, None
  <2>5. ClosedRests'
    BY <1>4 DEF ReLoad, CloseSession, None
  <2>6. QED BY <2>1, <2>2, <2>3, <2>4, <2>5
<1>5. CASE ConnectFailed
  <2>1. OneAttempt'
    BY <1>5 DEF ConnectFailed, None
  <2>2. Alternating'
    BY <1>5 DEF ConnectFailed, None
  <2>3. ConnectedIsOpen'
    BY <1>5 DEF ConnectFailed, None
  <2>4. NeverStuck'
    BY <1>5 DEF ConnectFailed, None
  <2>5. ClosedRests'
    BY <1>5 DEF ConnectFailed, None
  <2>6. QED BY <2>1, <2>2, <2>3, <2>4, <2>5
<1>6. CASE ConnectSucceeded
  <2>1. OneAttempt'
    BY <1>6 DEF ConnectSucceeded, None
  <2>2. Alternating'
    BY <1>6 DEF ConnectSucceeded, None
  <2>3. ConnectedIsOpen'
    BY <1>6 DEF ConnectSucceeded, None
  <2>4. NeverStuck'
    BY <1>6 DEF ConnectSucceeded, None
  <2>5. ClosedRests'
    BY <1>6 DEF ConnectSucceeded, None
  <2>6. QED BY <2>1, <2>2, <2>3, <2>4, <2>5
<1>7. CASE SinkFailed
  <2>1. OneAttempt'
    BY <1>7 DEF SinkFailed, None
  <2>2. Alternating'
    BY <1>7 DEF SinkFailed, None
  <2>3. ConnectedIsOpen'
    BY <1>7 DEF SinkFailed, None
  <2>4. NeverStuck'
    BY <1>7 DEF SinkFailed, None
  <2>5. ClosedRests'
    BY <1>7 DEF SinkFailed, None
  <2>6. QED BY <2>1, <2>2, <2>3, <2>4, <2>5
<1>8. CASE OnTimer
  <2>1. OneAttempt'
    BY <1>8 DEF OnTimer, None
  <2>2. Alternating'
    BY <1>8 DEF OnTimer, None
  <2>3. ConnectedIsOpen'
    BY <1>8 DEF OnTimer, None
  <2>4. NeverStuck'
    BY <1>8 DEF OnTimer, None
  <2>5. ClosedRests'
    BY <1>8 DEF OnTimer, None
  <2>6. QED BY <2>1, <2>2, <2>3, <2>4, <2>5
<1>9. CASE Reported
  <2>0. PICK t \in broken : OnDisconnect(t)
    BY <1>9 DEF Reported
  <2>1. OneAttempt'
    BY <2>0 DEF OnDisconnect, None
  <2>2. Alternating'
    BY <2>0 DEF OnDisconnect, None
  <2>3. ConnectedIsOpen'
    BY <2>0 DEF OnDisconnect, None
  <2>4. NeverStuck'
    BY <2>0 DEF OnDisconnect, None
  <2>5. ClosedRests'
    BY <2>0 DEF OnDisconnect, None
  <2>6. QED BY <2>1, <2>2, <2>3, <2>4, <2>5
<1>10. CASE Send \/ OnSend \/ Break \/ UNCHANGED vars
  BY <1>10, <1>1 DEF Send, OnSend, Break, vars
<1>11. QED
  BY <1>2, <1>3, <1>4, <1>5, <1>6, <1>7, <1>8, <1>9, <1>10 DEF Next

-----------------------------------------------------------------------------
THEOREM InvAlways == Spec => []Inv
<1>1. Inv /\ [Next]_vars => Inv'
  BY TypeStep, CacheStep, ControlStep DEF Inv
<1>2. QED BY <1>1, InitInv, PTL DEF Spec

(* The variables have their types. *)
THEOREM TypeCorrect == Spec => []TypeOK
<1>1. Inv => TypeOK
  BY DEF Inv
<1>2. QED BY <1>1, InvAlways, PTL

(* No message waits beside a transport that takes data. *)
THEOREM NothingOvertakes == Spec => []CacheWaits
<1>1. Inv => CacheWaits
  BY DEF Inv
<1>2. QED BY <1>1, InvAlways, PTL

(* No timer fires into an attempt or a connection of an orderly session, and   *)
(* the sink hears of every connection and of its end, in turn.                *)
THEOREM OneAttemptAlways == Spec => [](OneAttempt /\ Alternating)
<1>1. Inv => OneAttempt /\ Alternating
  BY DEF Inv
<1>2. QED BY <1>1, InvAlways, PTL

(* A wanted session keeps trying and a closed one rests. *)
THEOREM KeepsTrying == Spec => [](NeverStuck /\ ClosedRests)
<1>1. Inv => NeverStuck /\ ClosedRests
  BY DEF Inv
<1>2. QED BY <1>1, InvAlways, PTL

-----------------------------------------------------------------------------
(* Every step of the session is a step of the outbox or a stutter of it.  That *)
(* a message may go straight to the wire rests on CacheWaits.                  *)
LEMMA OutboxStep == TypeOK /\ CacheWaits /\ [Next]_vars => [Box!Next]_<<posted, wire, cache>>
<1> SUFFICES ASSUME LinkType, DataType, CacheWaits, [Next]_vars
             PROVE  Box!Next \/ UNCHANGED <<posted, wire, cache>>
  BY DEF TypeOK
<1>1. ASSUME SendData(posted + 1) PROVE Box!Next
  <2> DEFINE q == Append(cache, posted + 1)
  <2>1. q \in Seq(Nat) /\ Len(q) = Len(cache) + 1 /\ Len(cache) \in Nat
    BY DEF DataType
  <2>2. posted' = posted + 1
    BY <1>1 DEF SendData
  <2>3. CASE transport # None /\ ~blocked /\ wire' = Append(wire, posted + 1) /\ cache' = cache
    <3>1. cache = <<>>
      BY <2>3 DEF CacheWaits
    <3>2. q = <<posted + 1>> /\ Len(q) = 1
      BY <3>1
    <3>3. SubSeq(q, 1, Len(q)) = q /\ SubSeq(q, 1 + 1, Len(q)) = <<>>
      BY <2>1, <3>2, SubSeqFull, SubSeqEmpty
    <3>4. wire' = wire \o SubSeq(q, 1, 1) /\ cache' = SubSeq(q, 1 + 1, Len(q))
      BY <2>3, <3>1, <3>2, <3>3 DEF DataType
    <3>5. 1 \in 0..Len(q)
      BY <3>2
    <3>6. Box!Moves(q)
      BY <3>4, <3>5 DEF Box!Moves
    <3>7. QED BY <2>2, <3>6 DEF Box!Next, Box!Post
  <2>4. CASE cache' = q /\ wire' = wire
    <3>1. SubSeq(q, 1, 0) = <<>> /\ SubSeq(q, 0 + 1, Len(q)) = q
      BY <2>1, SubSeqFull, SubSeqEmpty
    <3>2. wire' = wire \o SubSeq(q, 1, 0)
      BY <2>4, <3>1, ConcatEmptySeq DEF DataType
    <3>3. 0 \in 0..Len(q)
      BY <2>1
    <3>4. QED BY <2>2, <2>4, <3>1, <3>2, <3>3 DEF Box!Next, Box!Post, Box!Moves
  <2>5. QED BY <1>1, <2>3, <2>4 DEF SendData
<1>2. CASE ConnectSucceeded
  <2> DEFINE q == Append(cache, posted + 1)
  <2>1. posted' = posted + 1 /\ Flush(q, 0)
    BY <1>2 DEF ConnectSucceeded
  <2>2. QED BY <2>1 DEF Flush, Box!Next, Box!Post, Box!Moves
<1>3. CASE OnSend
  <2>1. posted' = posted /\ Flush(cache, 1)
    BY <1>3 DEF OnSend
  <2>2. PICK k \in 1..Len(cache) : wire' = wire \o SubSeq(cache, 1, k)
                                   /\ cache' = SubSeq(cache, k + 1, Len(cache))
    BY <2>1 DEF Flush
  <2>3. k \in 0..Len(cache)
    OBVIOUS
  <2>4. QED BY <2>1, <2>2, <2>3 DEF Box!Next, Box!Deliver, Box!Moves
<1>4. CASE Close \/ ReLoad
  BY <1>4 DEF Close, ReLoad, CloseSession, Box!Next, Box!Drop
<1>5. CASE Connect \/ SinkFailed \/ OnTimer \/ Break
  BY <1>5 DEF Connect, SinkFailed, OnTimer, Break, data
<1>6. CASE Reported \/ UNCHANGED vars
  BY <1>6 DEF Reported, OnDisconnect, vars, data
<1>7. CASE Send \/ ConnectFailed
  BY <1>1, <1>7 DEF Send, ConnectFailed, data
<1>8. QED BY <1>2, <1>3, <1>4, <1>5, <1>6, <1>7 DEF Next

(* The session is a FIFO outbox over any number of connections, losses and     *)
(* refusals: nothing is reordered or sent twice, nothing is lost but by Close  *)
(* and ReLoad.                                                                 *)
THEOREM SessionIsOutbox == Spec => Ordered
<1>1. Init => Box!Init
  BY DEF Init, Box!Init
<1>2. Inv /\ [Next]_vars => [Box!Next]_<<posted, wire, cache>>
  BY OutboxStep DEF Inv
<1>3. QED BY <1>1, <1>2, InvAlways, PTL DEF Spec, Ordered, Box!Spec, Box!outVars

-----------------------------------------------------------------------------
(* What being an outbox means: what the transports took and what waits, one   *)
(* after the other, are in the order of posting.                              *)
Rising(s) == \A i, j \in 1..Len(s) : i < j => s[i] < s[j]
UpTo(s, n) == \A i \in 1..Len(s) : s[i] \in 1..n

OutInv == /\ posted \in Nat /\ wire \in Seq(Nat) /\ cache \in Seq(Nat)
          /\ UpTo(wire \o cache, posted) /\ Rising(wire \o cache)

LEMMA ConcatAssoc == \A s, t, u \in Seq(Nat) : s \o (t \o u) = (s \o t) \o u
<1> SUFFICES ASSUME NEW s \in Seq(Nat), NEW t \in Seq(Nat), NEW u \in Seq(Nat)
             PROVE  s \o (t \o u) = (s \o t) \o u
  OBVIOUS
<1>1. (s \o t) \o u = s \o (t \o u)
  BY ConcatAssociative
<1>2. QED BY <1>1

(* Moving messages from the queue to the wire leaves wire and queue together  *)
(* what they were.                                                            *)
LEMMA CutAndJoin ==
  ASSUME NEW d \in Seq(Nat), NEW q \in Seq(Nat), NEW k \in 0..Len(q)
  PROVE  /\ SubSeq(q, 1, k) \in Seq(Nat) /\ SubSeq(q, k + 1, Len(q)) \in Seq(Nat)
         /\ d \o SubSeq(q, 1, k) \in Seq(Nat)
         /\ (d \o SubSeq(q, 1, k)) \o SubSeq(q, k + 1, Len(q)) = d \o q
<1> DEFINE front == SubSeq(q, 1, k)
           back == SubSeq(q, k + 1, Len(q))
<1>1. Len(q) \in Nat /\ k \in Nat /\ k <= Len(q) /\ \A i \in 1..Len(q) : q[i] \in Nat
  BY LenProperties, ElementOfSeq
<1>2. front \in Seq(Nat) /\ back \in Seq(Nat)
  BY <1>1, SubSeqProperties
<1>3. 1 \in 1..(Len(q) + 1) /\ k \in (1 - 1)..Len(q) /\ Len(q) \in k..Len(q)
  BY <1>1
<1>4. front \o back = SubSeq(q, 1, Len(q))
  BY <1>3, ConcatAdjacentSubSeq, Zenon
<1>5. SubSeq(q, 1, Len(q)) = q
  BY SubSeqFull
<1> HIDE DEF front, back
<1>6. (d \o front) \o back = d \o (front \o back)
  BY <1>2, ConcatAssoc
<1>7. d \o front \in Seq(Nat)
  BY <1>2, ConcatProperties, Zenon
<1>8. QED BY <1>2, <1>4, <1>5, <1>6, <1>7 DEF front, back

(* A message numbered above all others may join at the end. *)
LEMMA AppendRises ==
  ASSUME NEW s \in Seq(Nat), NEW n \in Nat, UpTo(s, n), Rising(s)
  PROVE  UpTo(s \o <<n + 1>>, n + 1) /\ Rising(s \o <<n + 1>>)
<1> DEFINE t == s \o <<n + 1>>
<1>1. <<n + 1>> \in Seq(Nat) /\ Len(<<n + 1>>) = 1 /\ <<n + 1>>[1] = n + 1
  OBVIOUS
<1>2. Len(s) \in Nat /\ Len(t) = Len(s) + 1
  BY <1>1, ConcatProperties, LenProperties
<1>3. \A i \in 1..Len(s) : t[i] = s[i]
  BY <1>1, <1>2, ConcatProperties
<1>4. t[Len(s) + 1] = n + 1
  BY <1>1, <1>2, ConcatProperties
<1> HIDE DEF t
<1>5. \A i \in 1..Len(t) : i \in 1..Len(s) \/ i = Len(s) + 1
  BY <1>2
<1>6. UpTo(t, n + 1)
  BY <1>2, <1>3, <1>4, <1>5 DEF UpTo
<1>7. Rising(t)
  <2> SUFFICES ASSUME NEW i \in 1..Len(t), NEW j \in 1..Len(t), i < j
               PROVE  t[i] < t[j]
    BY DEF Rising
  <2>1. i \in 1..Len(s)
    BY <1>2
  <2>2. CASE j \in 1..Len(s)
    BY <1>3, <2>1, <2>2 DEF Rising
  <2>3. CASE j = Len(s) + 1
    <3>1. s[i] \in 1..n
      BY <2>1 DEF UpTo
    <3>2. QED BY <1>3, <1>4, <2>1, <2>3, <3>1
  <2>4. QED BY <1>5, <2>2, <2>3
<1>8. QED BY <1>6, <1>7 DEF t

LEMMA OutStep == OutInv /\ [Box!Next]_<<posted, wire, cache>> => OutInv'
<1> SUFFICES ASSUME OutInv, [Box!Next]_<<posted, wire, cache>> PROVE OutInv'
  OBVIOUS
<1>0. posted \in Nat /\ wire \in Seq(Nat) /\ cache \in Seq(Nat)
  BY DEF OutInv
<1>1. CASE Box!Post
  <2> DEFINE q == Append(cache, posted + 1)
  <2>1. q \in Seq(Nat) /\ q = cache \o <<posted + 1>> /\ <<posted + 1>> \in Seq(Nat)
    BY <1>0
  <2>2. posted' = posted + 1 /\ Box!Moves(q)
    BY <1>1 DEF Box!Post
  <2>3. PICK k \in 0..Len(q) : wire' = wire \o SubSeq(q, 1, k)
                               /\ cache' = SubSeq(q, k + 1, Len(q))
    BY <2>2 DEF Box!Moves
  <2> HIDE DEF q
  <2>4. wire' \in Seq(Nat) /\ cache' \in Seq(Nat)
        /\ wire' \o cache' = wire \o q
    BY <1>0, <2>1, <2>3, CutAndJoin
  <2>5. wire \o q = (wire \o cache) \o <<posted + 1>>
    BY <1>0, <2>1, ConcatAssoc
  <2>6. wire \o cache \in Seq(Nat)
    BY <1>0, ConcatProperties
  <2>7. UpTo(wire' \o cache', posted + 1) /\ Rising(wire' \o cache')
    BY <1>0, <2>4, <2>5, <2>6, AppendRises DEF OutInv
  <2>8. QED BY <1>0, <2>2, <2>4, <2>7 DEF OutInv
<1>2. CASE Box!Deliver
  <2>1. PICK k \in 0..Len(cache) : wire' = wire \o SubSeq(cache, 1, k)
                                     /\ cache' = SubSeq(cache, k + 1, Len(cache))
    BY <1>2 DEF Box!Deliver, Box!Moves
  <2>2. wire' \in Seq(Nat) /\ cache' \in Seq(Nat)
        /\ wire' \o cache' = wire \o cache
    BY <1>0, <2>1, CutAndJoin
  <2>3. QED BY <1>2, <2>2 DEF Box!Deliver, OutInv
<1>3. CASE Box!Drop
  <2>1. cache' = <<>> /\ wire' = wire /\ posted' = posted
    BY <1>3 DEF Box!Drop
  <2>2. wire \o <<>> = wire /\ <<>> \in Seq(Nat)
    BY <1>0, ConcatEmptySeq, EmptySeq
  <2> DEFINE all == wire \o cache
  <2>3. /\ Len(wire) \in Nat /\ Len(all) \in Nat /\ Len(wire) <= Len(all)
        /\ \A i \in 1..Len(wire) : all[i] = wire[i]
    BY <1>0, ConcatProperties, LenProperties
  <2>4. UpTo(all, posted) /\ Rising(all)
    BY DEF OutInv
  <2> HIDE DEF all
  <2>5. UpTo(wire, posted) /\ Rising(wire)
    BY <2>3, <2>4 DEF UpTo, Rising
  <2>6. QED BY <1>0, <2>1, <2>2, <2>5 DEF OutInv
<1>4. CASE UNCHANGED <<posted, wire, cache>>
  BY <1>4 DEF OutInv
<1>5. QED BY <1>1, <1>2, <1>3, <1>4 DEF Box!Next

(* An outbox never reorders, repeats or invents a message. *)
THEOREM OutboxInOrder == Box!Spec => []Box!InOrder
<1>1. Box!Init => OutInv
  <2> SUFFICES ASSUME Box!Init PROVE OutInv
    OBVIOUS
  <2>1. <<>> \in Seq(Nat) /\ <<>> \o <<>> = <<>> /\ Len(<<>>) = 0
    BY EmptySeq, ConcatEmptySeq
  <2>2. QED BY <2>1 DEF Box!Init, OutInv, UpTo, Rising
<1>2. OutInv => Box!InOrder
  BY DEF OutInv, Box!InOrder, UpTo, Rising
<1>3. QED BY <1>1, <1>2, OutStep, PTL DEF Box!Spec, Box!outVars

(* So the transports of a session, one after the other, take the messages in   *)
(* the order of posting and none twice, whatever breaks in between.            *)
THEOREM SessionInOrder == Spec => []Box!InOrder
BY SessionIsOutbox, OutboxInOrder, PTL DEF Ordered
=============================================================================
