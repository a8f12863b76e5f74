-------------------------- MODULE SignalRoomProofs --------------------------
(***************************************************************************)
(* For any set of devices and any number of calls of each: a socket is      *)
(* counted once and until its close, all confluences of a room with         *)
(* calliope are in one venue, and if nobody stops hastily that venue is      *)
(* alive while it is used and gone when nobody is left.  An answer that is  *)
(* applied answers the latest offer, between two devices or with calliope.  *)
(*                                                                          *)
(* Inv is inductive for every kind of room; OneVenue, Kept, Told and         *)
(* InTouch are added to it for one promise each.                            *)
(***************************************************************************)
EXTENDS SignalRoom, SequenceTheorems, FiniteSetTheorems, TLAPS

Has(q, t) == \E i \in DOMAIN q : q[i].type = t

(* A message that brings the venue v. *)
Brings(q, v) == \E i \in DOMAIN q : q[i] = Msg("venue", v)

Request == Msg("request", 0)
Close   == Msg("close", 0)

(* The socket a device uses now. *)
Live(s) == call[s[1]].linked /\ s = Socket(s[1])

(* A socket is requested once, then counted, then closed; nothing follows its *)
(* close, and only the live socket of a device has none. So the server never  *)
(* counts a socket twice.                                                     *)
Wired(s) ==
  /\ s[2] > call[s[1]].opens => s \notin peers /\ up[s] = <<>>
  /\ s \in peers => ~Has(up[s], "request")
  /\ s \notin peers => up[s] \in {<<>>, <<Request>>, <<Request, Close>>}
  /\ \A i \in DOMAIN up[s] : up[s][i].type = "close" => i = Len(up[s])
  /\ Live(s) => ~Has(up[s], "close") /\ (s \notin peers => up[s] # <<>>)
  /\ ~Live(s) => Has(up[s], "close") \/ (s \notin peers /\ up[s] = <<>>)

(* A call that has heard nothing yet. *)
Fresh(c) == /\ ~c.timer /\ ~c.startedCall /\ ~c.creating
            /\ c.pend = <<>> /\ c.flow = None
            /\ c.offer = None /\ c.answered = None /\ c.accepted = None

(* Only a device whose socket is counted hears anything; the head count that  *)
(* starts its call comes first and once.                                      *)
Seated(d) ==
  /\ call[d].linked => call[d].active /\ call[d].opens # 0
  /\ room # "lossy" /\ call[d].active => call[d].linked
  /\ ~call[d].active => Fresh(call[d])
  /\ ~call[d].linked => down[d] = <<>>
  /\ call[d].linked /\ Socket(d) \notin peers => Fresh(call[d]) /\ down[d] = <<>>
  /\ \A i \in DOMAIN down[d] : /\ down[d][i].type = "join" => i = 1 /\ ~call[d].startedCall
                               /\ down[d][i].type \notin {"request", "close"}
  /\ call[d].creating => call[d].startedCall

Typed == TypeOK /\ IsFiniteSet(peers)

Inv == Typed /\ (\A s \in Sockets : Wired(s)) /\ (\A d \in Devices : Seated(d))

-----------------------------------------------------------------------------
(* Queues of messages.                                                        *)
LEMMA SeqFacts ==
  ASSUME NEW S, NEW q \in Seq(S)
  PROVE  /\ Len(q) \in Nat /\ DOMAIN q = 1..Len(q)
         /\ \A i \in DOMAIN q : i \in Nat /\ i >= 1 /\ i <= Len(q) /\ q[i] \in S
         /\ q = <<>> <=> Len(q) = 0
         /\ q = <<>> <=> DOMAIN q = {}
<1>1. Len(q) \in Nat /\ DOMAIN q = 1..Len(q) /\ \A i \in 1..Len(q) : q[i] \in S
  BY LenProperties, ElementOfSeq
<1>2. q = <<>> <=> Len(q) = 0
  BY EmptySeq
<1>3. DOMAIN q = {} <=> Len(q) = 0
  BY <1>1
<1>4. QED BY <1>1, <1>2, <1>3

LEMMA AppendFacts ==
  ASSUME NEW S, NEW q \in Seq(S), NEW m \in S
  PROVE  /\ Append(q, m) \in Seq(S) /\ Append(q, m) # <<>> /\ Len(Append(q, m)) = Len(q) + 1
         /\ DOMAIN Append(q, m) = DOMAIN q \cup {Len(q) + 1}
         /\ \A i \in DOMAIN q : Append(q, m)[i] = q[i]
         /\ Append(q, m)[Len(q) + 1] = m
<1>1. /\ Append(q, m) \in Seq(S) /\ Append(q, m) # <<>>
      /\ Len(Append(q, m)) = Len(q) + 1
      /\ \A i \in 1..Len(q) : Append(q, m)[i] = q[i]
      /\ Append(q, m)[Len(q) + 1] = m
  BY AppendProperties
<1>2. DOMAIN Append(q, m) = 1..(Len(q) + 1) /\ Len(q) \in Nat /\ DOMAIN q = 1..Len(q)
  BY <1>1, SeqFacts
<1>3. 1..(Len(q) + 1) = 1..Len(q) \cup {Len(q) + 1}
  BY <1>2
<1>4. QED BY <1>1, <1>2, <1>3

LEMMA TailFacts ==
  ASSUME NEW S, NEW q \in Seq(S), q # <<>>
  PROVE  /\ Tail(q) \in Seq(S) /\ Len(Tail(q)) = Len(q) - 1
         /\ Head(q) \in S /\ Head(q) = q[1] /\ 1 \in DOMAIN q
         /\ \A i \in DOMAIN Tail(q) : Tail(q)[i] = q[i + 1] /\ i + 1 \in DOMAIN q
         /\ \A i \in DOMAIN q : i = 1 \/ (i - 1 \in DOMAIN Tail(q) /\ q[i] = Tail(q)[i - 1])
<1>1. /\ Tail(q) \in Seq(S) /\ Len(Tail(q)) = Len(q) - 1 /\ Head(q) \in S /\ Head(q) = q[1]
      /\ \A i \in 1..Len(Tail(q)) : Tail(q)[i] = q[i + 1]
  BY HeadTailProperties
<1>2. /\ Len(q) \in Nat /\ Len(q) # 0 /\ DOMAIN q = 1..Len(q)
      /\ Len(Tail(q)) \in Nat /\ DOMAIN Tail(q) = 1..Len(Tail(q))
  BY <1>1, SeqFacts
<1>3. QED BY <1>1, <1>2

LEMMA PairFacts ==
  ASSUME NEW S, NEW a \in S, NEW b \in S
  PROVE  Append(<<a>>, b) = <<a, b>>
<1>1. <<a>> \in Seq(S) /\ Len(<<a>>) = 1 /\ <<a, b>> \in Seq(S) /\ Len(<<a, b>>) = 2
  OBVIOUS
<1>2. <<a>>[1] = a /\ <<a, b>>[1] = a /\ <<a, b>>[2] = b
  OBVIOUS
<1> DEFINE q == Append(<<a>>, b)
           r == <<a, b>>
<1>3. /\ q \in Seq(S) /\ Len(q) = Len(<<a>>) + 1
      /\ \A i \in 1..Len(<<a>>) : q[i] = <<a>>[i]
      /\ q[Len(<<a>>) + 1] = b
  BY <1>1, AppendProperties
<1>4. r \in Seq(S) /\ Len(r) = 2 /\ r[1] = a /\ r[2] = b
  BY <1>1, <1>2
<1>5. q \in Seq(S) /\ Len(q) = 2 /\ q[1] = a /\ q[2] = b
  BY <1>1, <1>2, <1>3
<1> HIDE DEF q, r
<1>6. q = r
  BY <1>4, <1>5, SeqEqual
<1>7. QED BY <1>6 DEF q, r

LEMMA HasAppend ==
  ASSUME NEW q \in Seq(Message), NEW m \in Message
  PROVE  /\ \A t : Has(Append(q, m), t) <=> Has(q, t) \/ m.type = t
         /\ \A v : Brings(Append(q, m), v) <=> Brings(q, v) \/ m = Msg("venue", v)
  BY AppendFacts DEF Has, Brings

LEMMA HasTail ==
  ASSUME NEW q \in Seq(Message), q # <<>>
  PROVE  /\ \A t : Has(q, t) <=> Head(q).type = t \/ Has(Tail(q), t)
         /\ \A v : Brings(q, v) <=> Head(q) = Msg("venue", v) \/ Brings(Tail(q), v)
<1>1. \A t : Has(q, t) => Head(q).type = t \/ Has(Tail(q), t)
  BY TailFacts DEF Has
<1>2. \A t : Head(q).type = t \/ Has(Tail(q), t) => Has(q, t)
  BY TailFacts DEF Has
<1>3. ASSUME NEW v, Brings(q, v) PROVE Head(q) = Msg("venue", v) \/ Brings(Tail(q), v)
  <2>1. PICK i \in DOMAIN q : q[i] = Msg("venue", v)
    BY <1>3 DEF Brings
  <2>2. q[1] = Head(q) /\ (i = 1 \/ (i - 1 \in DOMAIN Tail(q) /\ q[i] = Tail(q)[i - 1]))
    BY TailFacts
  <2>3. QED BY <2>1, <2>2 DEF Brings
<1>4. \A v : Head(q) = Msg("venue", v) \/ Brings(Tail(q), v) => Brings(q, v)
  BY TailFacts DEF Brings
<1>5. QED BY <1>1, <1>2, <1>3, <1>4

LEMMA EmptyFacts == /\ <<>> \in Seq(Message)
                    /\ \A t : ~Has(<<>>, t)
                    /\ \A v : ~Brings(<<>>, v)
  BY DEF Has, Brings

LEMMA SingleFacts ==
  ASSUME NEW m \in Message
  PROVE  /\ <<m>> \in Seq(Message) /\ <<m>> # <<>> /\ Len(<<m>>) = 1 /\ DOMAIN <<m>> = {1} /\ <<m>>[1] = m
         /\ Head(<<m>>) = m /\ Tail(<<m>>) = <<>>
         /\ \A t : Has(<<m>>, t) <=> m.type = t
         /\ \A v : Brings(<<m>>, v) <=> m = Msg("venue", v)
<1>1. /\ <<m>> \in Seq(Message) /\ <<m>> # <<>> /\ Len(<<m>>) = 1 /\ DOMAIN <<m>> = {1} /\ <<m>>[1] = m
      /\ Head(<<m>>) = m /\ Tail(<<m>>) = <<>>
  OBVIOUS
<1>2. QED BY <1>1 DEF Has, Brings

LEMMA MessageFacts ==
  /\ Request \in Message /\ Close \in Message /\ Msg("echo", 0) \in Message
  /\ \A n \in Nat : Msg("venue", n) \in Message /\ Msg("join", n) \in Message /\ Msg("echo", n) \in Message
  /\ \A n \in Nat : Msg("offer", n) \in Message /\ Msg("answer", n) \in Message
  /\ \A t, n : Msg(t, n).type = t /\ Msg(t, n).n = n
  /\ \A t, n, u, k : Msg(t, n) = Msg(u, k) <=> t = u /\ n = k
  /\ \A m \in Message : /\ m.n \in Nat /\ m = Msg(m.type, m.n)
                        /\ m.type \in {"join", "echo", "request", "close", "venue", "offer", "answer"}
  BY DEF Request, Close, Msg, Message

-----------------------------------------------------------------------------
(* What the operators do to the record of a call.                             *)
LEMMA StartRecord ==
  ASSUME NEW c \in CallType, c.opens + 1 \in 0..MaxOpens, Fresh(c), NEW b,
         b = [c EXCEPT !.active = TRUE, !.opens = @ + 1, !.linked = TRUE]
  PROVE  b \in CallType /\ b.active /\ b.linked /\ b.opens = c.opens + 1 /\ Fresh(b)
<1>1. b \in CallType /\ b.active /\ b.linked /\ b.opens = c.opens + 1
  BY DEF CallType
<1>2. Fresh(b)
  BY DEF CallType, Fresh
<1>3. QED BY <1>1, <1>2

LEMMA StopRecord ==
  ASSUME NEW c \in CallType, NEW b,
         b = [StopWs(StopCall(c)) EXCEPT !.active = FALSE, !.creating = FALSE, !.flow = None]
  PROVE  b \in CallType /\ ~b.active /\ ~b.linked /\ b.opens = c.opens /\ Fresh(b)
<1>0. <<>> \in Seq(Sdp) /\ None \in Nat
  BY DEF None
<1>1. PICK x : x = StopCall(c)
  OBVIOUS
<1>2. /\ x \in CallType /\ x.opens = c.opens
      /\ x.pend = <<>> /\ x.offer = None /\ x.answered = None /\ x.accepted = None
  BY <1>0, <1>1 DEF StopCall, CallType
<1>3. PICK y : y = StopWs(x)
  OBVIOUS
<1>4. /\ y \in CallType /\ y.opens = c.opens /\ ~y.linked /\ ~y.timer /\ ~y.startedCall
      /\ y.pend = <<>> /\ y.offer = None /\ y.answered = None /\ y.accepted = None
  BY <1>2, <1>3 DEF StopWs, CallType
<1>5. b = [y EXCEPT !.active = FALSE, !.creating = FALSE, !.flow = None]
  BY <1>1, <1>3
<1>6. b \in CallType /\ ~b.active /\ ~b.linked /\ b.opens = c.opens
  BY <1>0, <1>4, <1>5 DEF CallType
<1>7. Fresh(b)
  BY <1>0, <1>4, <1>5 DEF CallType, Fresh
<1>8. QED BY <1>6, <1>7

LEMMA UnlinkRecord ==
  ASSUME NEW c \in CallType
  PROVE  [c EXCEPT !.linked = FALSE] \in CallType
  BY DEF CallType

(* What no message and no callback changes, but for the flow. *)
Same(b, c) == b.active = c.active /\ b.linked = c.linked /\ b.opens = c.opens

LEMMA SdpFacts == \A n \in Nat : Msg("offer", n) \in Sdp /\ Msg("answer", n) \in Sdp
  BY DEF Msg, Sdp

LEMMA PendFacts ==
  ASSUME NEW q \in Seq(Sdp), NEW m \in Sdp
  PROVE  Append(q, m) \in Seq(Sdp) /\ Append(q, m) # <<>> /\ (q = <<>> => Append(q, m) = <<m>>)
<1>1. Append(q, m) \in Seq(Sdp) /\ Append(q, m) # <<>>
  BY AppendFacts
<1>2. q = <<>> => Append(q, m) = <<m>>
  OBVIOUS
<1>3. QED BY <1>1, <1>2

Started(b, c, n) ==
  /\ b \in CallType /\ Same(b, c) /\ b.flow = c.flow /\ b.venue = c.venue
  /\ b.creating = c.creating /\ b.startedCall = c.startedCall /\ b.timer = c.timer
  /\ b.answered = c.answered /\ b.accepted = c.accepted
  /\ b.offer = n /\ b.pend = Append(c.pend, Msg("offer", n))

LEMMA StartCallRecord ==
  ASSUME NEW c \in CallType, NEW n \in Nat
  PROVE  Started(StartCall(c, n), c, n)
<1> DEFINE b == StartCall(c, n)
<1>1. c.pend \in Seq(Sdp)
  BY DEF CallType
<1>2. Append(c.pend, Msg("offer", n)) \in Seq(Sdp)
  BY <1>1, SdpFacts, PendFacts
<1>3. b = [c EXCEPT !.offer = n, !.pend = Append(c.pend, Msg("offer", n))]
  BY DEF StartCall
<1>4. b \in CallType
  BY <1>2, <1>3 DEF CallType
<1> HIDE DEF b
<1>5. Started(b, c, n)
  BY <1>3, <1>4 DEF CallType, Same, Started
<1>6. QED BY <1>5 DEF b

Accepted(b, c, n) ==
  /\ b \in CallType /\ Same(b, c) /\ b.flow = c.flow /\ b.venue = c.venue
  /\ b.creating = c.creating /\ b.startedCall = c.startedCall /\ b.timer = c.timer
  /\ b.answered = c.answered /\ b.offer = c.offer
  /\ b.accepted = n /\ b.pend = Append(c.pend, Msg("answer", n))

LEMMA AcceptCallRecord ==
  ASSUME NEW c \in CallType, NEW n \in Nat
  PROVE  Accepted(AcceptCall(c, n), c, n)
<1> DEFINE b == AcceptCall(c, n)
<1>1. c.pend \in Seq(Sdp)
  BY DEF CallType
<1>2. Append(c.pend, Msg("answer", n)) \in Seq(Sdp)
  BY <1>1, SdpFacts, PendFacts
<1>3. b = [c EXCEPT !.accepted = n, !.pend = Append(c.pend, Msg("answer", n))]
  BY DEF AcceptCall
<1>4. b \in CallType
  BY <1>2, <1>3 DEF CallType
<1> HIDE DEF b
<1>5. Accepted(b, c, n)
  BY <1>3, <1>4 DEF CallType, Same, Accepted
<1>6. QED BY <1>5 DEF b

LEMMA AnswerRecord ==
  ASSUME NEW c \in CallType, NEW n \in Nat, NEW b, b = AnswerReceived(c, n)
  PROVE  /\ b \in CallType /\ Same(b, c) /\ b.flow = c.flow /\ b.venue = c.venue
         /\ b.creating = c.creating /\ b.startedCall = c.startedCall /\ b.timer = c.timer
         /\ b.offer = c.offer /\ b.accepted = c.accepted /\ b.pend = c.pend
         /\ b.answered = n
<1>1. b \in CallType
  BY DEF AnswerReceived, CallType
<1>2. QED BY <1>1 DEF AnswerReceived, CallType, Same

LEMMA EchoRecord ==
  ASSUME NEW c \in CallType, NEW n \in Nat, NEW b, b = OnEcho(c, n)
  PROVE  /\ b \in CallType /\ Same(b, c) /\ b.flow = c.flow /\ b.venue = c.venue
         /\ b.creating = c.creating /\ b.startedCall = c.startedCall /\ b.timer = c.timer
         /\ b.offer = c.offer /\ b.answered = c.answered /\ b.accepted = c.accepted /\ b.pend = c.pend
<1>1. b \in CallType
  BY DEF OnEcho, CallType
<1>2. QED BY <1>1 DEF OnEcho, CallType, Same

(* The first count of a call, and with calliope no later one, can start it.   *)
LEMMA JoinRecord ==
  ASSUME NEW c \in CallType, NEW n \in Nat, NEW b, b = OnJoin(c, n), made \in Nat
  PROVE  /\ b \in CallType /\ Same(b, c) /\ b.flow = c.flow /\ b.venue = c.venue
         /\ b.startedCall /\ b.timer
         /\ b.answered = c.answered /\ b.accepted = c.accepted
         /\ b.creating <=> c.creating \/ (Calliope /\ n = 1 /\ ~c.startedCall)
         /\ IF ~Calliope /\ n > 1 /\ ~c.startedCall
            THEN b.offer = made + 1 /\ b.pend = Append(c.pend, Msg("offer", made + 1))
            ELSE b.offer = c.offer /\ b.pend = c.pend
<1>1. PICK d : d = [c EXCEPT !.myId = n, !.timer = TRUE]
  OBVIOUS
<1>2. /\ d \in CallType /\ Same(d, c) /\ d.flow = c.flow /\ d.venue = c.venue
      /\ d.creating = c.creating /\ d.startedCall = c.startedCall /\ d.timer
      /\ d.offer = c.offer /\ d.answered = c.answered /\ d.accepted = c.accepted /\ d.pend = c.pend
  <2>1. n \in Int
    OBVIOUS
  <2>2. d \in CallType
    BY <1>1, <2>1 DEF CallType
  <2>3. QED BY <1>1, <2>2 DEF CallType, Same
<1>3. b = IF c.startedCall THEN d ELSE [OnStartCall(d, n) EXCEPT !.startedCall = TRUE]
  BY <1>1 DEF OnJoin
<1>4. CASE c.startedCall
  BY <1>2, <1>3, <1>4 DEF CallType
<1>5. CASE ~c.startedCall
  <2>1. PICK e : e = OnStartCall(d, n)
    OBVIOUS
  <2>2. b = [e EXCEPT !.startedCall = TRUE]
    BY <1>3, <1>5, <2>1
  <2>3. CASE Calliope
    <3>1. e = IF n = 1 THEN [d EXCEPT !.creating = TRUE] ELSE d
      BY <2>1, <2>3 DEF OnStartCall
    <3>2. /\ e \in CallType /\ Same(e, c) /\ e.flow = c.flow /\ e.venue = c.venue /\ e.timer
          /\ e.creating <=> c.creating \/ n = 1
          /\ e.offer = c.offer /\ e.answered = c.answered /\ e.accepted = c.accepted /\ e.pend = c.pend
      BY <1>2, <3>1 DEF CallType, Same
    <3>3. QED BY <1>5, <2>2, <2>3, <3>2 DEF CallType, Same
  <2>4. CASE ~Calliope
    <3>1. e = IF n > 1 THEN StartCall(d, made + 1) ELSE d
      BY <2>1, <2>4 DEF OnStartCall
    <3>2. /\ e \in CallType /\ Same(e, d) /\ e.flow = d.flow /\ e.venue = d.venue /\ e.timer = d.timer
          /\ e.creating = d.creating /\ e.answered = d.answered /\ e.accepted = d.accepted
          /\ IF n > 1 THEN e.offer = made + 1 /\ e.pend = Append(d.pend, Msg("offer", made + 1))
                      ELSE e.offer = d.offer /\ e.pend = d.pend
      <4>1. CASE n > 1
        <5>1. made + 1 \in Nat /\ e = StartCall(d, made + 1)
          BY <3>1, <4>1
        <5>2. Started(e, d, made + 1)
          BY <1>2, <5>1, StartCallRecord
        <5>3. QED BY <4>1, <5>2 DEF Started
      <4>2. CASE ~(n > 1)
        BY <1>2, <3>1, <4>2 DEF Same
      <4>3. QED BY <4>1, <4>2
    <3>3. b \in CallType /\ Same(b, e) /\ b.flow = e.flow /\ b.venue = e.venue /\ b.timer = e.timer
          /\ b.creating = e.creating /\ b.answered = e.answered /\ b.accepted = e.accepted
          /\ b.offer = e.offer /\ b.pend = e.pend /\ b.startedCall
      BY <2>2, <3>2 DEF CallType, Same
    <3>4. QED BY <1>2, <1>5, <2>4, <3>2, <3>3 DEF Same
  <2>5. QED BY <2>3, <2>4
<1>6. QED BY <1>4, <1>5

LEMMA VenueRecord ==
  ASSUME NEW c \in CallType, NEW v \in Nat, NEW n \in Nat, NEW b, b = StartCall([c EXCEPT !.venue = v], n)
  PROVE  /\ b \in CallType /\ Same(b, c) /\ b.flow = c.flow /\ b.venue = v
         /\ b.creating = c.creating /\ b.startedCall = c.startedCall /\ b.timer = c.timer
         /\ b.answered = c.answered /\ b.accepted = c.accepted
         /\ b.offer = n /\ b.pend = Append(c.pend, Msg("offer", n))
<1>1. PICK d : d = [c EXCEPT !.venue = v]
  OBVIOUS
<1>2. /\ d \in CallType /\ Same(d, c) /\ d.flow = c.flow /\ d.venue = v
      /\ d.creating = c.creating /\ d.startedCall = c.startedCall /\ d.timer = c.timer
      /\ d.offer = c.offer /\ d.answered = c.answered /\ d.accepted = c.accepted /\ d.pend = c.pend
  BY <1>1 DEF CallType, Same
<1>3. b = StartCall(d, n)
  BY <1>1
<1>4. Started(b, d, n)
  BY <1>2, <1>3, StartCallRecord
<1>5. QED BY <1>2, <1>4 DEF Same, Started

Created(b, c, v, n) ==
  /\ b \in CallType /\ Same(b, c) /\ b.flow = c.flow /\ b.venue = v
  /\ ~b.creating /\ b.startedCall = c.startedCall /\ b.timer = c.timer
  /\ b.answered = c.answered /\ b.accepted = c.accepted
  /\ b.offer = n /\ b.pend = Append(c.pend, Msg("offer", n))

LEMMA CreatedRecord ==
  ASSUME NEW c \in CallType, NEW v \in Nat, NEW n \in Nat
  PROVE  Created(StartCall([c EXCEPT !.creating = FALSE, !.venue = v], n), c, v, n)
<1> DEFINE d == [c EXCEPT !.creating = FALSE, !.venue = v]
<1>1. d = [c EXCEPT !.creating = FALSE, !.venue = v]
  OBVIOUS
<1> HIDE DEF d
<1>2. /\ d \in CallType /\ Same(d, c) /\ d.flow = c.flow /\ d.venue = v
      /\ ~d.creating /\ d.startedCall = c.startedCall /\ d.timer = c.timer
      /\ d.offer = c.offer /\ d.answered = c.answered /\ d.accepted = c.accepted /\ d.pend = c.pend
  BY <1>1 DEF CallType, Same
<1>3. Started(StartCall(d, n), d, n)
  BY <1>2, StartCallRecord
<1>4. Created(StartCall(d, n), c, v, n)
  BY <1>2, <1>3 DEF Same, Started, Created
<1>5. QED BY <1>4 DEF d

-----------------------------------------------------------------------------
(* What each step does to the calls and the queues, with the records and      *)
(* functions opened.                                                          *)
OnlyCall(d) == call' \in [Devices -> CallType] /\ \A e \in Devices \ {d} : call'[e] = call[e]

OnlyUp(s, q) == /\ up' \in [Sockets -> Seq(Message)]
                /\ up'[s] = q /\ \A t \in Sockets \ {s} : up'[t] = up[t]

OnlyDown(d, q) == /\ down' \in [Devices -> Seq(Message)]
                  /\ down'[d] = q /\ \A e \in Devices \ {d} : down'[e] = down[e]

LEMMA TypeFacts ==
  ASSUME Typed
  PROVE  /\ call \in [Devices -> CallType] /\ up \in [Sockets -> Seq(Message)] /\ down \in [Devices -> Seq(Message)]
         /\ \A d \in Devices : call[d] \in CallType
         /\ \A d \in Devices : call[d].active \in BOOLEAN /\ call[d].linked \in BOOLEAN /\ call[d].opens \in 0..MaxOpens
         /\ \A d \in Devices : call[d].pend \in Seq(Sdp)
         /\ peers \subseteq Sockets /\ made \in Nat /\ MaxOpens \in Nat
         /\ \A s \in Sockets : s[1] \in Devices /\ s[2] \in 1..MaxOpens /\ s = <<s[1], s[2]>>
         /\ \A d \in Devices : call[d].opens # 0 => Socket(d) \in Sockets
<1>1. /\ call \in [Devices -> CallType] /\ up \in [Sockets -> Seq(Message)] /\ down \in [Devices -> Seq(Message)]
      /\ peers \subseteq Sockets /\ made \in Nat /\ MaxOpens \in Nat
  BY SignalAssumption DEF Typed, TypeOK
<1>2. \A c \in CallType : c.active \in BOOLEAN /\ c.linked \in BOOLEAN /\ c.opens \in 0..MaxOpens /\ c.pend \in Seq(Sdp)
  BY DEF CallType
<1>3. \A s \in Sockets : s[1] \in Devices /\ s[2] \in 1..MaxOpens /\ s = <<s[1], s[2]>>
  BY DEF Sockets
<1>4. \A d \in Devices : call[d].opens # 0 => Socket(d) \in Sockets
  BY <1>1, <1>2 DEF Sockets, Socket
<1>5. QED BY <1>1, <1>2, <1>3, <1>4

LEMMA StartDoes ==
  ASSUME Inv, NEW d \in Devices, Start(d)
  PROVE  /\ ~call[d].active /\ ~call[d].linked /\ Fresh(call[d]) /\ down[d] = <<>>
         /\ OnlyCall(d) /\ call'[d].active /\ call'[d].linked
         /\ call'[d].opens = call[d].opens + 1 /\ call'[d].opens \in 1..MaxOpens /\ Fresh(call'[d])
         /\ OnlyUp(<<d, call'[d].opens>>, <<Request>>)
         /\ UNCHANGED <<room, down, peers, stored, venues, made, hasty>>
<1> USE TypeFacts, MessageFacts DEF Inv
<1>1. /\ ~call[d].active /\ call[d].opens < Opens(d)
      /\ call' = [call EXCEPT ![d].active = TRUE, ![d].opens = @ + 1, ![d].linked = TRUE]
      /\ up' = [up EXCEPT ![<<d, call[d].opens + 1>>] = <<Request>>]
      /\ UNCHANGED <<room, down, peers, stored, venues, made, hasty>>
  BY DEF Start, Request
<1>2. call[d].opens + 1 \in 1..MaxOpens
  BY <1>1, SignalAssumption DEF Opens
<1> DEFINE c == [call[d] EXCEPT !.active = TRUE, !.opens = @ + 1, !.linked = TRUE]
<1>3. call' = [call EXCEPT ![d] = c]
  BY <1>1
<1>6. Fresh(call[d]) /\ ~call[d].linked /\ down[d] = <<>>
  BY <1>1 DEF Seated
<1>5. c \in CallType /\ c.active /\ c.linked /\ c.opens = call[d].opens + 1 /\ Fresh(c)
  <2>1. call[d] \in CallType /\ call[d].opens + 1 \in 0..MaxOpens
    BY <1>2
  <2>2. QED BY <2>1, <1>6, StartRecord
<1> HIDE DEF c
<1>8. OnlyCall(d) /\ call'[d] = c
  BY <1>3, <1>5 DEF OnlyCall
<1>9. call'[d].opens = call[d].opens + 1 /\ <<d, call'[d].opens>> \in Sockets
  BY <1>2, <1>5, <1>8 DEF Sockets
<1>10. <<Request>> \in Seq(Message)
  OBVIOUS
<1>11. OnlyUp(<<d, call'[d].opens>>, <<Request>>)
  BY <1>1, <1>9, <1>10 DEF OnlyUp
<1>12. QED BY <1>1, <1>2, <1>5, <1>6, <1>8, <1>11

LEMMA SendDoes ==
  ASSUME Inv, NEW d \in Devices, NEW m \in Message, Send(d, m)
  PROVE  /\ up' \in [Sockets -> Seq(Message)]
         /\ call[d].linked => Socket(d) \in Sockets /\ OnlyUp(Socket(d), Append(up[Socket(d)], m))
         /\ ~call[d].linked => up' = up
<1> USE TypeFacts DEF Inv
<1>1. CASE call[d].linked
  <2>1. Socket(d) \in Sockets /\ up' = [up EXCEPT ![Socket(d)] = Append(@, m)]
    BY <1>1 DEF Seated, Send
  <2>2. Append(up[Socket(d)], m) \in Seq(Message)
    BY <2>1, AppendFacts
  <2>3. QED BY <1>1, <2>1, <2>2 DEF OnlyUp
<1>2. CASE ~call[d].linked
  BY <1>2 DEF Send
<1>3. QED BY <1>1, <1>2

LEMMA StopDoes ==
  ASSUME Inv, NEW d \in Devices, Stop(d)
  PROVE  /\ call[d].active
         /\ OnlyCall(d) /\ ~call'[d].active /\ ~call'[d].linked
         /\ call'[d].opens = call[d].opens /\ Fresh(call'[d])
         /\ OnlyDown(d, <<>>)
         /\ Send(d, Close)
         /\ hasty' = (hasty \/ ~Settled \/ (call[d].linked /\ call[d].myId # Cardinality(peers)))
         /\ venues' = IF call[d].flow # None /\ DeletesVenue(d) THEN venues \ {call[d].flow} ELSE venues
         /\ UNCHANGED <<room, peers, stored, made>>
<1> USE TypeFacts, MessageFacts DEF Inv
<1> DEFINE c == [StopWs(StopCall(call[d])) EXCEPT !.active = FALSE, !.creating = FALSE, !.flow = None]
<1>1. /\ call[d].active /\ call' = [call EXCEPT ![d] = c] /\ down' = [down EXCEPT ![d] = <<>>]
      /\ Send(d, Close)
      /\ hasty' = (hasty \/ ~Settled \/ (call[d].linked /\ call[d].myId # Cardinality(peers)))
      /\ venues' = IF call[d].flow # None /\ DeletesVenue(d) THEN venues \ {call[d].flow} ELSE venues
      /\ UNCHANGED <<room, peers, stored, made>>
  BY DEF Stop, Close
<1>5. c \in CallType /\ ~c.active /\ ~c.linked /\ c.opens = call[d].opens /\ Fresh(c)
  BY StopRecord
<1> HIDE DEF c
<1>6. OnlyCall(d) /\ call'[d] = c
  BY <1>1, <1>5 DEF OnlyCall
<1>7. <<>> \in Seq(Message)
  OBVIOUS
<1>8. OnlyDown(d, <<>>)
  BY <1>1, <1>7 DEF OnlyDown
<1>9. QED BY <1>1, <1>5, <1>6, <1>8

LEMMA LoseDoes ==
  ASSUME Inv, NEW d \in Devices, Lose(d)
  PROVE  /\ room = "lossy" /\ call[d].linked /\ Socket(d) \in Sockets
         /\ OnlyCall(d) /\ call'[d] = [call[d] EXCEPT !.linked = FALSE]
         /\ OnlyUp(Socket(d), IF Socket(d) \in peers THEN <<Close>> ELSE <<>>)
         /\ OnlyDown(d, <<>>)
         /\ UNCHANGED <<room, peers, stored, venues, made, hasty>>
<1> USE TypeFacts, MessageFacts DEF Inv
<1>1. room = "lossy" /\ call[d].linked /\ Socket(d) \in Sockets
  BY DEF Lose, Seated
<1> DEFINE c == [call[d] EXCEPT !.linked = FALSE]
<1>2. c \in CallType
  BY UnlinkRecord
<1>3. call' = [call EXCEPT ![d] = c]
  BY DEF Lose
<1> HIDE DEF c
<1>4. OnlyCall(d) /\ call'[d] = c
  BY <1>2, <1>3 DEF OnlyCall
<1>5. <<>> \in Seq(Message) /\ <<Close>> \in Seq(Message)
  OBVIOUS
<1>6. OnlyDown(d, <<>>) /\ OnlyUp(Socket(d), IF Socket(d) \in peers THEN <<Close>> ELSE <<>>)
  BY <1>1, <1>5 DEF OnlyDown, OnlyUp, Lose, Close
<1>7. QED BY <1>1, <1>4, <1>6 DEF Lose, c

LEMMA KeepaliveDoes ==
  ASSUME Inv, NEW d \in Devices, Keepalive(d)
  PROVE  /\ call[d].timer /\ call[d].linked /\ Socket(d) \in Sockets
         /\ OnlyUp(Socket(d), Append(up[Socket(d)], Msg("echo", 0)))
         /\ UNCHANGED <<room, call, down, peers, stored, venues, made, hasty>>
  BY MessageFacts, SendDoes DEF Keepalive

LEMMA GreetingFacts ==
  ASSUME Typed, NEW n \in Nat
  PROVE  /\ Greeting(n) \in Seq(Message) /\ Greeting(n)[1] = Msg("join", n) /\ 1 \in DOMAIN Greeting(n)
         /\ DOMAIN Greeting(n) \subseteq {1, 2}
         /\ \A i \in DOMAIN Greeting(n) : i # 1 => stored # None /\ Greeting(n)[i] = Msg("venue", stored)
         /\ stored # None => Brings(Greeting(n), stored)
<1>1. stored \in Nat
  BY DEF Typed, TypeOK
<1>2. CASE stored = None
  <2>1. Greeting(n) = <<Msg("join", n)>>
    BY <1>2 DEF Greeting
  <2>2. QED BY <2>1, <1>2, MessageFacts, SingleFacts
<1>3. CASE stored # None
  <2> DEFINE j == Msg("join", n)
             v == Msg("venue", stored)
  <2>1. Greeting(n) = <<j, v>>
    BY <1>3 DEF Greeting
  <2>2. j \in Message /\ v \in Message
    BY <1>1, MessageFacts
  <2> HIDE DEF j, v
  <2>3. <<j, v>> \in Seq(Message) /\ DOMAIN <<j, v>> = {1, 2} /\ <<j, v>>[1] = j /\ <<j, v>>[2] = v
    BY <2>2
  <2>4. QED BY <2>1, <2>3, <1>3 DEF Brings, j, v
<1>4. QED BY <1>2, <1>3

LEMMA ConcatFacts ==
  ASSUME NEW q \in Seq(Message), NEW m \in Message
  PROVE  <<>> \o q = q /\ q \o <<m>> = Append(q, m)
<1>1. <<>> \in Seq(Message) /\ <<m>> \in Seq(Message) /\ Len(<<m>>) = 1 /\ <<m>>[1] = m /\ Len(<<>>) = 0
  OBVIOUS
<1>2. <<>> \o q = q
  BY <1>1, ConcatEmptySeq
<1>3. q \o <<m>> = Append(q, m)
  BY AppendIsConcat
<1>4. QED BY <1>2, <1>3

LEMMA ServerDoes ==
  ASSUME Inv, NEW s \in Sockets, Server(s)
  PROVE  /\ up[s] # <<>> /\ Head(up[s]) \in Message /\ up[s] \in Seq(Message)
         /\ OnlyUp(s, Tail(up[s]))
         /\ OnRequest(s) \/ OnMessage(s) \/ OnClose(s)
         /\ UNCHANGED <<room, call, venues, made, hasty>>
<1> USE TypeFacts DEF Inv
<1>1. up[s] # <<>> /\ up' = [up EXCEPT ![s] = Tail(@)]
  BY DEF Server
<1>2. up[s] \in Seq(Message) /\ Head(up[s]) \in Message /\ Tail(up[s]) \in Seq(Message)
  BY <1>1, TailFacts
<1>3. QED BY <1>1, <1>2 DEF OnlyUp, Server

LEMMA UTFDoes ==
  ASSUME Inv, NEW s \in Sockets, NEW g \in Seq(Message), down' = SendUTF(down, s, g), down[s[1]] \o g \in Seq(Message)
  PROVE  /\ Live(s) => OnlyDown(s[1], down[s[1]] \o g)
         /\ ~Live(s) => down' = down
  BY TypeFacts DEF Inv, SendUTF, Live, OnlyDown

LEMMA RequestDoes ==
  ASSUME Inv, NEW s \in Sockets, Server(s), OnRequest(s)
  PROVE  /\ s \notin peers /\ peers' = peers \cup {s} /\ stored' = stored
         /\ up[s] = <<Request>> \/ up[s] = <<Request, Close>>
         /\ Live(s) => /\ up[s] = <<Request>> /\ down[s[1]] = <<>>
                       /\ \E n \in Nat : (n = 1 => peers = {}) /\ OnlyDown(s[1], Greeting(n))
         /\ ~Live(s) => down' = down
<1> USE TypeFacts, MessageFacts DEF Inv
<1>1. up[s] # <<>> /\ up[s] \in Seq(Message) /\ Head(up[s]).type = "request"
  BY ServerDoes DEF OnRequest
<1>2. Has(up[s], "request")
  BY <1>1, HasTail
<1>3. s \notin peers /\ (up[s] = <<Request>> \/ up[s] = <<Request, Close>>)
  BY <1>1, <1>2 DEF Wired
<1>4. Has(<<Request, Close>>, "close")
  BY DEF Has, Close, Msg
<1>a. Live(s) => ~Has(up[s], "close")
  BY DEF Wired
<1>5. Live(s) => up[s] = <<Request>>
  BY <1>3, <1>4, <1>a
<1>6. Live(s) => down[s[1]] = <<>>
  BY <1>3 DEF Live, Seated
<1>7. peers' = peers \cup {s} /\ stored' = stored /\ down' = SendUTF(down, s, Greeting(Cardinality(peers')))
  BY DEF OnRequest
<1>8. PICK n \in Nat : n = Cardinality(peers') /\ (n = 1 => peers = {})
  <2>1. IsFiniteSet(peers) /\ Cardinality(peers) \in Nat
    BY FS_CardinalityType DEF Typed
  <2>2. Cardinality(peers') = Cardinality(peers) + 1
    BY <2>1, <1>3, <1>7, FS_AddElement
  <2>3. Cardinality(peers) = 0 <=> peers = {}
    BY <2>1, FS_EmptySet
  <2>4. QED BY <2>1, <2>2, <2>3
<1>9. Greeting(n) \in Seq(Message)
  BY GreetingFacts
<1>10. ASSUME Live(s) PROVE OnlyDown(s[1], Greeting(n))
  <2>1. down[s[1]] \o Greeting(n) = Greeting(n)
    BY <1>6, <1>9, <1>10, ConcatFacts
  <2>2. down' = SendUTF(down, s, Greeting(n)) /\ down[s[1]] \o Greeting(n) \in Seq(Message)
    BY <1>7, <1>8, <1>9, <2>1
  <2>3. OnlyDown(s[1], down[s[1]] \o Greeting(n))
    BY <1>9, <1>10, <2>2, UTFDoes
  <2>4. QED BY <2>1, <2>3
<1>11. ASSUME ~Live(s) PROVE down' = down
  BY <1>7, <1>11 DEF SendUTF, Live
<1>12. QED BY <1>3, <1>5, <1>6, <1>7, <1>8, <1>10, <1>11

LEMMA EchoDoes ==
  ASSUME Inv, NEW s \in Sockets, Server(s), OnMessage(s), Head(up[s]).type = "echo"
  PROVE  /\ peers' = peers /\ stored' = stored
         /\ \E n \in Nat : Live(s) => OnlyDown(s[1], Append(down[s[1]], Msg("echo", n)))
         /\ ~Live(s) => down' = down
<1> USE TypeFacts, MessageFacts DEF Inv
<1>1. PICK n : n = Cardinality(peers)
  OBVIOUS
<1>2. n \in Nat
  BY <1>1, FS_CardinalityType DEF Typed
<1>3. peers' = peers /\ stored' = stored /\ down' = SendUTF(down, s, <<Msg("echo", n)>>)
  BY <1>1 DEF OnMessage
<1>4. Msg("echo", n) \in Message /\ <<Msg("echo", n)>> \in Seq(Message)
  BY <1>2, SingleFacts
<1>5. down[s[1]] \o <<Msg("echo", n)>> = Append(down[s[1]], Msg("echo", n))
  BY <1>4, ConcatFacts
<1>6. Append(down[s[1]], Msg("echo", n)) \in Seq(Message)
  BY <1>4, AppendFacts
<1>7. ASSUME Live(s) PROVE OnlyDown(s[1], Append(down[s[1]], Msg("echo", n)))
  <2>0. down[s[1]] \o <<Msg("echo", n)>> \in Seq(Message)
    BY <1>5, <1>6
  <2>1. OnlyDown(s[1], down[s[1]] \o <<Msg("echo", n)>>)
    BY <1>3, <1>4, <1>7, <2>0, UTFDoes
  <2>2. QED BY <1>5, <2>1
<1>8. ASSUME ~Live(s) PROVE down' = down
  BY <1>3, <1>8 DEF SendUTF, Live
<1>9. QED BY <1>2, <1>3, <1>7, <1>8

(* Who hears what the live sockets of a room are told. *)
Hears(d, s) == call[d].linked /\ Socket(d) \in peers \ {s}

LEMMA RelayDoes ==
  ASSUME Inv, NEW s \in Sockets, Server(s), OnMessage(s), Head(up[s]).type # "echo"
  PROVE  /\ peers' = peers
         /\ Head(up[s]).type \in {"venue", "offer", "answer"}
         /\ stored' = IF Head(up[s]).type = "venue" THEN Head(up[s]).n ELSE stored
         /\ down' \in [Devices -> Seq(Message)]
         /\ \A d \in Devices : /\ Hears(d, s) => down'[d] = Append(down[d], Head(up[s]))
                               /\ ~Hears(d, s) => down'[d] = down[d]
<1> USE TypeFacts DEF Inv
<1>1. /\ peers' = peers /\ Head(up[s]).type \in {"venue", "offer", "answer"}
      /\ stored' = IF Head(up[s]).type = "venue" THEN Head(up[s]).n ELSE stored
      /\ down' = SendToRoom(Head(up[s]), s)
  BY DEF OnMessage
<1>2. PICK m : m = Head(up[s])
  OBVIOUS
<1>3. m \in Message
  BY <1>2, ServerDoes
<1>4. \A d \in Devices : Append(down[d], m) \in Seq(Message)
  BY <1>3, AppendFacts
<1>5. down' = [d \in Devices |-> IF Hears(d, s) THEN Append(down[d], m) ELSE down[d]]
  BY <1>1, <1>2 DEF SendToRoom, Hears
<1>6. QED BY <1>1, <1>2, <1>4, <1>5

LEMMA CloseDoes ==
  ASSUME Inv, NEW s \in Sockets, Server(s), OnClose(s)
  PROVE  /\ up[s] # <<>> /\ Head(up[s]).type = "close" /\ Tail(up[s]) = <<>>
         /\ s \in peers /\ ~Live(s)
         /\ peers' = peers \ {s} /\ down' = down
         /\ stored' = IF peers = {s} THEN None ELSE stored
<1> USE TypeFacts, MessageFacts DEF Inv
<1>1. up[s] # <<>> /\ up[s] \in Seq(Message) /\ Head(up[s]).type = "close"
  BY ServerDoes DEF OnClose
<1>2. 1 \in DOMAIN up[s] /\ up[s][1].type = "close"
  BY <1>1, TailFacts
<1>3. Len(up[s]) = 1
  BY <1>2 DEF Wired
<1>4. Tail(up[s]) = <<>>
  BY <1>1, <1>3, TailFacts, SeqFacts
<1>5. Has(up[s], "close")
  BY <1>2 DEF Has
<1>6. up[s] # <<Request>> /\ up[s] # <<Request, Close>>
  <2>1. <<Request>>[1].type = "request" /\ <<Request, Close>>[1].type = "request"
    BY DEF Request, Msg
  <2>2. QED BY <1>2, <2>1
<1>7. s \in peers /\ ~Live(s)
  BY <1>1, <1>5, <1>6 DEF Wired
<1>8. QED BY <1>1, <1>4, <1>7 DEF OnClose, RoomAfter

LEMMA DeliverDoes ==
  ASSUME Inv, NEW d \in Devices, Deliver(d)
  PROVE  /\ down[d] # <<>> /\ down[d] \in Seq(Message) /\ Head(down[d]) \in Message
         /\ Head(down[d]).type \in {"join", "echo", "venue", "offer", "answer"}
         /\ Head(down[d]).type = "join" => ~call[d].startedCall
         /\ call[d].linked /\ Socket(d) \in peers
         /\ OnlyDown(d, Tail(down[d])) /\ OnlyCall(d) /\ Same(call'[d], call[d]) /\ call'[d].flow = call[d].flow
         /\ LET n == Head(down[d]).n
                c == call[d]
                b == call'[d]
                StartedNow == b.offer = made + 1 /\ b.pend = Append(c.pend, Msg("offer", made + 1))
            IN  CASE Head(down[d]).type = "join" ->
                       /\ b.startedCall /\ b.timer /\ b.venue = c.venue
                       /\ b.answered = c.answered /\ b.accepted = c.accepted
                       /\ b.creating <=> c.creating \/ (Calliope /\ n = 1)
                       /\ IF ~Calliope /\ n > 1 THEN StartedNow ELSE b.offer = c.offer /\ b.pend = c.pend
                  [] Head(down[d]).type = "echo" ->
                       /\ b.startedCall = c.startedCall /\ b.timer = c.timer /\ b.venue = c.venue
                       /\ b.answered = c.answered /\ b.accepted = c.accepted /\ b.creating = c.creating
                       /\ b.offer = c.offer /\ b.pend = c.pend
                  [] Head(down[d]).type = "venue" ->
                       /\ b.startedCall = c.startedCall /\ b.timer = c.timer /\ b.venue = n
                       /\ b.answered = c.answered /\ b.accepted = c.accepted /\ b.creating = c.creating
                       /\ StartedNow
                  [] Head(down[d]).type = "offer" ->
                       /\ b.startedCall = c.startedCall /\ b.timer = c.timer /\ b.venue = c.venue
                       /\ b.answered = c.answered /\ b.accepted = n /\ b.creating = c.creating
                       /\ b.offer = c.offer /\ b.pend = Append(c.pend, Msg("answer", n))
                  [] Head(down[d]).type = "answer" ->
                       /\ b.startedCall = c.startedCall /\ b.timer = c.timer /\ b.venue = c.venue
                       /\ b.answered = n /\ b.accepted = c.accepted /\ b.creating = c.creating
                       /\ b.offer = c.offer /\ b.pend = c.pend
         /\ made' \in {made, made + 1} /\ (call'[d].offer # call[d].offer => made' = made + 1)
         /\ UNCHANGED <<room, up, peers, stored, venues, hasty>>
<1>0. /\ call \in [Devices -> CallType] /\ down \in [Devices -> Seq(Message)]
      /\ call[d] \in CallType /\ made \in Nat /\ down[d] \in Seq(Message)
  BY TypeFacts DEF Inv
<1>1. down[d] # <<>> /\ down' = [down EXCEPT ![d] = Tail(@)] /\ UNCHANGED <<room, up, peers, stored, venues, hasty>>
  BY DEF Deliver
<1>2. /\ Head(down[d]) \in Message /\ Tail(down[d]) \in Seq(Message)
      /\ 1 \in DOMAIN down[d] /\ Head(down[d]) = down[d][1]
  BY <1>0, <1>1, TailFacts
<1>3. OnlyDown(d, Tail(down[d]))
  BY <1>0, <1>1, <1>2 DEF OnlyDown
<1>4. /\ call[d].linked /\ Socket(d) \in peers
      /\ Head(down[d]).type = "join" => ~call[d].startedCall
      /\ Head(down[d]).type \notin {"request", "close"}
  BY <1>1, <1>2 DEF Inv, Seated
<1>5. /\ Head(down[d]).type \in {"join", "echo", "venue", "offer", "answer"}
      /\ Head(down[d]).n \in Nat
  BY <1>2, <1>4, MessageFacts
<1> DEFINE m == Head(down[d])
           c == call[d]
           after == CASE m.type = "join" -> OnJoin(c, m.n)
                      [] m.type = "echo" -> OnEcho(c, m.n)
                      [] m.type = "venue" -> StartCall([c EXCEPT !.venue = m.n], made + 1)
                      [] m.type = "offer" -> AcceptCall(c, m.n)
                      [] m.type = "answer" -> AnswerReceived(c, m.n)
<1>6. call' = [call EXCEPT ![d] = after] /\ made' = IF after.offer # c.offer THEN made + 1 ELSE made
  BY DEF Deliver
<1>7. PICK b : b = after
  OBVIOUS
<1>8. CASE m.type = "join"
  <2>1. b = OnJoin(c, m.n)
    BY <1>7, <1>8
  <2> HIDE DEF after, m, c
  <2>2. c \in CallType /\ m.n \in Nat
    BY <1>0, <1>5 DEF c, m
  <2>3. /\ b \in CallType /\ Same(b, c) /\ b.flow = c.flow /\ b.venue = c.venue
        /\ b.startedCall /\ b.timer
        /\ b.answered = c.answered /\ b.accepted = c.accepted
        /\ b.creating <=> c.creating \/ (Calliope /\ m.n = 1 /\ ~c.startedCall)
        /\ IF ~Calliope /\ m.n > 1 /\ ~c.startedCall
           THEN b.offer = made + 1 /\ b.pend = Append(c.pend, Msg("offer", made + 1))
           ELSE b.offer = c.offer /\ b.pend = c.pend
    BY <1>0, <2>1, <2>2, JoinRecord
  <2>4. call' = [call EXCEPT ![d] = b] /\ made' = IF b.offer # c.offer THEN made + 1 ELSE made
    BY <1>6, <1>7
  <2>5. OnlyCall(d) /\ call'[d] = b
    BY <1>0, <2>3, <2>4 DEF OnlyCall
  <2>6. ~c.startedCall
    BY <1>4, <1>8 DEF c, m
  <2>7. QED BY <1>0, <1>1, <1>2, <1>3, <1>4, <1>5, <1>8, <2>3, <2>4, <2>5, <2>6 DEF m, c
<1>9. CASE m.type = "echo"
  <2>1. b = OnEcho(c, m.n)
    BY <1>7, <1>9
  <2> HIDE DEF after, m, c
  <2>2. c \in CallType /\ m.n \in Nat
    BY <1>0, <1>5 DEF c, m
  <2>3. /\ b \in CallType /\ Same(b, c) /\ b.flow = c.flow /\ b.venue = c.venue
        /\ b.creating = c.creating /\ b.startedCall = c.startedCall /\ b.timer = c.timer
        /\ b.offer = c.offer /\ b.answered = c.answered /\ b.accepted = c.accepted /\ b.pend = c.pend
    BY <2>1, <2>2, EchoRecord
  <2>4. call' = [call EXCEPT ![d] = b] /\ made' = IF b.offer # c.offer THEN made + 1 ELSE made
    BY <1>6, <1>7
  <2>5. OnlyCall(d) /\ call'[d] = b
    BY <1>0, <2>3, <2>4 DEF OnlyCall
  <2>7. QED BY <1>0, <1>1, <1>2, <1>3, <1>4, <1>5, <1>9, <2>3, <2>4, <2>5 DEF m, c
<1>10. CASE m.type = "venue"
  <2>1. b = StartCall([c EXCEPT !.venue = m.n], made + 1)
    BY <1>7, <1>10
  <2> HIDE DEF after, m, c
  <2>2. c \in CallType /\ m.n \in Nat /\ made + 1 \in Nat
    BY <1>0, <1>5 DEF c, m
  <2>3. /\ b \in CallType /\ Same(b, c) /\ b.flow = c.flow /\ b.venue = m.n
        /\ b.creating = c.creating /\ b.startedCall = c.startedCall /\ b.timer = c.timer
        /\ b.answered = c.answered /\ b.accepted = c.accepted
        /\ b.offer = made + 1 /\ b.pend = Append(c.pend, Msg("offer", made + 1))
    BY <2>1, <2>2, VenueRecord
  <2>4. call' = [call EXCEPT ![d] = b] /\ made' = IF b.offer # c.offer THEN made + 1 ELSE made
    BY <1>6, <1>7
  <2>5. OnlyCall(d) /\ call'[d] = b
    BY <1>0, <2>3, <2>4 DEF OnlyCall
  <2>7. QED BY <1>0, <1>1, <1>2, <1>3, <1>4, <1>5, <1>10, <2>3, <2>4, <2>5 DEF m, c
<1>11. CASE m.type = "offer"
  <2>1. b = AcceptCall(c, m.n)
    BY <1>7, <1>11
  <2> HIDE DEF after, m, c
  <2>2. c \in CallType /\ m.n \in Nat
    BY <1>0, <1>5 DEF c, m
  <2>3. /\ b \in CallType /\ Same(b, c) /\ b.flow = c.flow /\ b.venue = c.venue
        /\ b.creating = c.creating /\ b.startedCall = c.startedCall /\ b.timer = c.timer
        /\ b.answered = c.answered /\ b.offer = c.offer
        /\ b.accepted = m.n /\ b.pend = Append(c.pend, Msg("answer", m.n))
    <3>1. Accepted(b, c, m.n)
      BY <2>1, <2>2, AcceptCallRecord
    <3>2. QED BY <3>1 DEF Accepted
  <2>4. call' = [call EXCEPT ![d] = b] /\ made' = IF b.offer # c.offer THEN made + 1 ELSE made
    BY <1>6, <1>7
  <2>5. OnlyCall(d) /\ call'[d] = b
    BY <1>0, <2>3, <2>4 DEF OnlyCall
  <2>7. QED BY <1>0, <1>1, <1>2, <1>3, <1>4, <1>5, <1>11, <2>3, <2>4, <2>5 DEF m, c
<1>12. CASE m.type = "answer"
  <2>1. b = AnswerReceived(c, m.n)
    BY <1>7, <1>12
  <2> HIDE DEF after, m, c
  <2>2. c \in CallType /\ m.n \in Nat
    BY <1>0, <1>5 DEF c, m
  <2>3. /\ b \in CallType /\ Same(b, c) /\ b.flow = c.flow /\ b.venue = c.venue
        /\ b.creating = c.creating /\ b.startedCall = c.startedCall /\ b.timer = c.timer
        /\ b.offer = c.offer /\ b.accepted = c.accepted /\ b.pend = c.pend
        /\ b.answered = m.n
    BY <2>1, <2>2, AnswerRecord
  <2>4. call' = [call EXCEPT ![d] = b] /\ made' = IF b.offer # c.offer THEN made + 1 ELSE made
    BY <1>6, <1>7
  <2>5. OnlyCall(d) /\ call'[d] = b
    BY <1>0, <2>3, <2>4 DEF OnlyCall
  <2>7. QED BY <1>0, <1>1, <1>2, <1>3, <1>4, <1>5, <1>12, <2>3, <2>4, <2>5 DEF m, c
<1>13. QED BY <1>5, <1>8, <1>9, <1>10, <1>11, <1>12

LEMMA VenueReadyDoes ==
  ASSUME Inv, NEW d \in Devices, VenueReady(d)
  PROVE  /\ call[d].creating
         /\ OnlyCall(d) /\ Same(call'[d], call[d]) /\ call'[d].flow = call[d].flow /\ call'[d].venue = made + 1
         /\ ~call'[d].creating /\ call'[d].startedCall = call[d].startedCall /\ call'[d].timer = call[d].timer
         /\ call'[d].answered = call[d].answered /\ call'[d].accepted = call[d].accepted
         /\ call'[d].offer = made + 2 /\ call'[d].pend = Append(call[d].pend, Msg("offer", made + 2))
         /\ made' = made + 2 /\ venues' = venues \cup {made + 1}
         /\ Send(d, Msg("venue", made + 1))
         /\ UNCHANGED <<room, down, peers, stored, hasty>>
<1>1. /\ call[d].creating /\ made' = made + 2 /\ venues' = venues \cup {made + 1}
      /\ Send(d, Msg("venue", made + 1)) /\ UNCHANGED <<room, down, peers, stored, hasty>>
  BY DEF VenueReady
<1>2. call \in [Devices -> CallType] /\ call[d] \in CallType /\ made \in Nat /\ made + 1 \in Nat /\ made + 2 \in Nat
  BY TypeFacts DEF Inv
<1>3. PICK b : b = StartCall([call[d] EXCEPT !.creating = FALSE, !.venue = made + 1], made + 2)
  OBVIOUS
<1>4. call' = [call EXCEPT ![d] = b]
  BY <1>3 DEF VenueReady
<1>5. /\ b \in CallType /\ Same(b, call[d]) /\ b.flow = call[d].flow /\ b.venue = made + 1
      /\ ~b.creating /\ b.startedCall = call[d].startedCall /\ b.timer = call[d].timer
      /\ b.answered = call[d].answered /\ b.accepted = call[d].accepted
      /\ b.offer = made + 2 /\ b.pend = Append(call[d].pend, Msg("offer", made + 2))
  <2>1. call[d] \in CallType /\ made + 1 \in Nat /\ made + 2 \in Nat
    BY <1>2
  <2>2. Created(StartCall([call[d] EXCEPT !.creating = FALSE, !.venue = made + 1], made + 2), call[d], made + 1, made + 2)
    BY <2>1, CreatedRecord
  <2>3. QED BY <1>3, <2>2 DEF Created
<1>6. OnlyCall(d) /\ call'[d] = b
  BY <1>2, <1>4, <1>5 DEF OnlyCall
<1>7. QED BY <1>1, <1>5, <1>6

LEMMA TailRecord ==
  ASSUME NEW c \in CallType, c.pend # <<>>, NEW b, b = [c EXCEPT !.pend = Tail(@)]
  PROVE  /\ b \in CallType /\ Same(b, c) /\ b.flow = c.flow /\ b.venue = c.venue
         /\ b.creating = c.creating /\ b.startedCall = c.startedCall /\ b.timer = c.timer
         /\ b.offer = c.offer /\ b.answered = c.answered /\ b.accepted = c.accepted /\ b.pend = Tail(c.pend)
<1>1. c.pend \in Seq(Sdp)
  BY DEF CallType
<1>2. Tail(c.pend) \in Seq(Sdp)
  BY <1>1, TailFacts
<1>3. b = [c EXCEPT !.pend = Tail(c.pend)]
  OBVIOUS
<1>4. b \in CallType
  BY <1>2, <1>3 DEF CallType
<1>5. QED BY <1>3, <1>4 DEF CallType, Same

LEMMA FlowRecord ==
  ASSUME NEW c \in CallType, NEW n \in Nat, NEW b, b = AnswerReceived([c EXCEPT !.flow = c.venue], n)
  PROVE  /\ b \in CallType /\ Same(b, c) /\ b.flow = c.venue /\ b.venue = c.venue
         /\ b.creating = c.creating /\ b.startedCall = c.startedCall /\ b.timer = c.timer
         /\ b.offer = c.offer /\ b.accepted = c.accepted /\ b.pend = c.pend /\ b.answered = n
<1>1. b = [c EXCEPT !.flow = c.venue, !.answered = n]
  BY DEF AnswerReceived
<1>2. b \in CallType
  BY <1>1 DEF CallType
<1>3. QED BY <1>1, <1>2 DEF CallType, Same

LEMMA SDPReadyDoes ==
  ASSUME Inv, NEW d \in Devices, SDPReady(d)
  PROVE  /\ call[d].pend # <<>> /\ call[d].pend \in Seq(Sdp) /\ Head(call[d].pend) \in Sdp
         /\ OnlyCall(d) /\ Same(call'[d], call[d]) /\ call'[d].venue = call[d].venue
         /\ call'[d].creating = call[d].creating
         /\ call'[d].startedCall = call[d].startedCall /\ call'[d].timer = call[d].timer
         /\ call'[d].accepted = call[d].accepted /\ call'[d].offer = call[d].offer
         /\ call'[d].pend = Tail(call[d].pend)
         /\ IF Calliope /\ call[d].venue \in venues
            THEN call'[d].flow = call[d].venue /\ call'[d].answered = Head(call[d].pend).n
            ELSE call'[d].flow = call[d].flow /\ call'[d].answered = call[d].answered
         /\ IF Calliope THEN up' = up ELSE Send(d, Head(call[d].pend))
         /\ UNCHANGED <<room, down, peers, stored, venues, made, hasty>>
<1>1. call \in [Devices -> CallType] /\ call[d] \in CallType /\ call[d].pend \in Seq(Sdp)
  BY TypeFacts DEF Inv
<1>2. call[d].pend # <<>> /\ UNCHANGED <<room, down, peers, stored, venues, made, hasty>>
  BY DEF SDPReady
<1>3. Head(call[d].pend) \in Sdp
  BY <1>1, <1>2, TailFacts
<1>n. Head(call[d].pend).n \in Nat
  BY <1>3 DEF Sdp
<1>4. PICK c : c = [call[d] EXCEPT !.pend = Tail(@)]
  OBVIOUS
<1>5. /\ c \in CallType /\ Same(c, call[d]) /\ c.flow = call[d].flow /\ c.venue = call[d].venue
      /\ c.creating = call[d].creating /\ c.startedCall = call[d].startedCall /\ c.timer = call[d].timer
      /\ c.offer = call[d].offer /\ c.answered = call[d].answered /\ c.accepted = call[d].accepted
      /\ c.pend = Tail(call[d].pend)
  BY <1>1, <1>2, <1>4, TailRecord
<1>6. CASE Calliope /\ call[d].venue \in venues
  <2>1. PICK b : b = AnswerReceived([c EXCEPT !.flow = c.venue], Head(call[d].pend).n)
    OBVIOUS
  <2>2. call' = [call EXCEPT ![d] = b] /\ up' = up
    BY <1>4, <1>5, <1>6, <2>1 DEF SDPReady
  <2>3. /\ b \in CallType /\ Same(b, c) /\ b.flow = c.venue /\ b.venue = c.venue
        /\ b.creating = c.creating /\ b.startedCall = c.startedCall /\ b.timer = c.timer
        /\ b.offer = c.offer /\ b.accepted = c.accepted /\ b.pend = c.pend /\ b.answered = Head(call[d].pend).n
    BY <1>5, <1>n, <2>1, FlowRecord
  <2>4. OnlyCall(d) /\ call'[d] = b
    BY <1>1, <2>2, <2>3 DEF OnlyCall
  <2>5. QED BY <1>1, <1>2, <1>3, <1>5, <1>6, <2>2, <2>3, <2>4 DEF Same
<1>7. CASE ~(Calliope /\ call[d].venue \in venues)
  <2>1. /\ call' = [call EXCEPT ![d] = c]
        /\ IF Calliope THEN up' = up ELSE Send(d, Head(call[d].pend))
    BY <1>4, <1>5, <1>7 DEF SDPReady
  <2>2. OnlyCall(d) /\ call'[d] = c
    BY <1>1, <1>5, <2>1 DEF OnlyCall
  <2>3. QED BY <1>1, <1>2, <1>3, <1>5, <1>7, <2>1, <2>2 DEF Same
<1>8. QED BY <1>6, <1>7

-----------------------------------------------------------------------------
LEMMA InitInv == Init => Inv
<1> SUFFICES ASSUME Init PROVE Inv
  OBVIOUS
<1>0. <<>> \in Seq(Sdp) /\ <<>> \in Seq(Message) /\ None \in Nat /\ MaxOpens \in Nat
  BY SignalAssumption DEF None
<1>1. PICK c : c = [active |-> FALSE, opens |-> 0, linked |-> FALSE, timer |-> FALSE, myId |-> -1,
                    startedCall |-> FALSE, venue |-> None, creating |-> FALSE, flow |-> None,
                    pend |-> <<>>, offer |-> None, answered |-> None, accepted |-> None]
  OBVIOUS
<1>2. c \in CallType
  BY <1>0, <1>1 DEF CallType
<1>3. ~c.active /\ ~c.linked /\ Fresh(c) /\ c.opens = 0
  BY <1>1 DEF Fresh
<1>4. call \in [Devices -> CallType] /\ \A d \in Devices : call[d] = c
  BY <1>1, <1>2 DEF Init
<1>5. /\ up \in [Sockets -> Seq(Message)] /\ \A s \in Sockets : up[s] = <<>>
      /\ down \in [Devices -> Seq(Message)] /\ \A d \in Devices : down[d] = <<>>
  BY <1>0 DEF Init
<1>6. peers = {} /\ stored = None /\ venues = {} /\ hasty = FALSE /\ made = 0 /\ room \in Rooms
  BY DEF Init
<1>7. Typed
  BY <1>0, <1>4, <1>5, <1>6, FS_EmptySet DEF Typed, TypeOK
<1>8. ASSUME NEW s \in Sockets PROVE Wired(s)
  <2>1. s[1] \in Devices
    BY DEF Sockets
  <2>2. ~Live(s) /\ up[s] = <<>> /\ s \notin peers
    BY <1>3, <1>4, <1>5, <1>6, <2>1 DEF Live
  <2>3. DOMAIN up[s] = {}
    BY <2>2
  <2>4. QED BY <2>2, <2>3 DEF Wired
<1>9. ASSUME NEW d \in Devices PROVE Seated(d)
  <2>1. DOMAIN down[d] = {}
    BY <1>5
  <2>2. QED BY <1>3, <1>4, <1>5, <2>1 DEF Seated, Fresh
<1>10. QED BY <1>7, <1>8, <1>9 DEF Inv

(* What is neither a request nor a close comes from a counted socket.         *)
LEMMA Counted ==
  ASSUME Inv, NEW s \in Sockets, up[s] # <<>>, Head(up[s]).type # "request"
  PROVE  s \in peers
<1>1. Head(<<Request>>).type = "request" /\ Head(<<Request, Close>>).type = "request"
  BY DEF Request, Msg
<1>2. QED BY <1>1 DEF Inv, Wired

(* And a device that has heard something has a counted socket, if any.        *)
LEMMA Heard ==
  ASSUME Inv, NEW d \in Devices, ~Fresh(call[d])
  PROVE  call[d].active /\ (call[d].linked => Socket(d) \in peers)
  BY DEF Inv, Seated

LEMMA WiredFrame ==
  ASSUME NEW s \in Sockets, Wired(s), up'[s] = up[s], s \in peers' <=> s \in peers,
         Live(s)' <=> Live(s), s[2] > call'[s[1]].opens => s[2] > call[s[1]].opens
  PROVE  Wired(s)'
  BY DEF Wired

LEMMA SeatedFrame ==
  ASSUME NEW d \in Devices, Seated(d), call'[d] = call[d], down'[d] = down[d], room' = room,
         call[d].linked /\ Socket(d) \in peers => Socket(d) \in peers'
  PROVE  Seated(d)'
<1>1. Socket(d)' = Socket(d)
  BY DEF Socket
<1>2. QED BY <1>1 DEF Seated

LEMMA SeatedOwn ==
  ASSUME Inv, NEW d \in Devices, ~Fresh(call[d]), OnlyCall(d), Same(call'[d], call[d]), down' = down, room' = room,
         peers' = peers, call'[d].startedCall = call[d].startedCall, call'[d].creating => call[d].creating
  PROVE  \A e \in Devices : Seated(e)'
<1>1. ASSUME NEW e \in Devices, e # d PROVE Seated(e)'
  BY <1>1, SeatedFrame DEF Inv, OnlyCall
<1>2. Socket(d)' = Socket(d)
  BY DEF Socket, Same
<1>3. Seated(d) /\ call[d].active /\ (call[d].linked => Socket(d) \in peers)
  BY Heard DEF Inv
<1>4. Seated(d)'
  BY <1>2, <1>3 DEF Seated, Same
<1>5. QED BY <1>1, <1>4

LEMMA LiveSame ==
  ASSUME Inv, NEW d \in Devices, OnlyCall(d), Same(call'[d], call[d]), NEW s \in Sockets
  PROVE  (Live(s)' <=> Live(s)) /\ call'[s[1]].opens = call[s[1]].opens
<1>1. s[1] \in Devices
  BY DEF Sockets
<1>2. call'[s[1]].linked = call[s[1]].linked /\ call'[s[1]].opens = call[s[1]].opens
  BY <1>1 DEF OnlyCall, Same
<1>3. QED BY <1>2 DEF Live, Socket

(* What a counted socket sends besides its close keeps the order.             *)
LEMMA WiredSent ==
  ASSUME Inv, NEW d \in Devices, call[d].linked, Socket(d) \in peers, NEW m \in Message,
         m.type # "request", m.type # "close",
         OnlyUp(Socket(d), Append(up[Socket(d)], m)), peers' = peers,
         \A s \in Sockets : (Live(s)' <=> Live(s)) /\ call'[s[1]].opens = call[s[1]].opens
  PROVE  \A s \in Sockets : Wired(s)'
<1>1. ASSUME NEW s \in Sockets, s # Socket(d) PROVE Wired(s)'
  <2>1. up'[s] = up[s]
    BY <1>1 DEF OnlyUp
  <2>2. QED BY <1>1, <2>1, WiredFrame DEF Inv
<1>2. PICK s \in Sockets : s = Socket(d)
  BY TypeFacts DEF Inv
<1>3. /\ up[s] \in Seq(Message) /\ up'[s] = Append(up[s], m) /\ Wired(s) /\ s \in peers /\ s \in peers'
      /\ Live(s) /\ Live(s)' /\ call'[s[1]].opens = call[s[1]].opens
  <2>1. Live(s)
    BY <1>2 DEF Live, Socket
  <2>2. QED BY <1>2, <2>1, TypeFacts DEF Inv, OnlyUp
<1>4. ~Has(up'[s], "request") /\ ~Has(up'[s], "close")
  BY <1>3, HasAppend DEF Wired
<1>5. Wired(s)'
  BY <1>3, <1>4 DEF Wired, Has
<1>6. QED BY <1>1, <1>2, <1>5

-----------------------------------------------------------------------------
(* Types.                                                                     *)
LEMMA TypedStep == Inv /\ [Next]_vars => Typed'
<1> SUFFICES ASSUME Inv, [Next]_vars PROVE Typed'
  OBVIOUS
<1>0. /\ room \in Rooms /\ call \in [Devices -> CallType] /\ up \in [Sockets -> Seq(Message)]
      /\ down \in [Devices -> Seq(Message)] /\ peers \subseteq Sockets /\ stored \in Nat /\ (peers = {} => stored = None)
      /\ venues \subseteq 1..made /\ hasty \in BOOLEAN /\ made \in Nat /\ IsFiniteSet(peers)
  BY DEF Inv, Typed, TypeOK
<1>1. ASSUME NEW d \in Devices, Start(d) PROVE Typed'
  BY <1>0, <1>1, StartDoes DEF Typed, TypeOK, OnlyCall, OnlyUp
<1>2. ASSUME NEW d \in Devices, Stop(d) PROVE Typed'
  <2>1. /\ OnlyCall(d) /\ OnlyDown(d, <<>>) /\ Send(d, Close)
        /\ hasty' \in BOOLEAN /\ venues' \subseteq venues /\ UNCHANGED <<room, peers, stored, made>>
    BY <1>2, StopDoes
  <2>2. up' \in [Sockets -> Seq(Message)]
    BY <2>1, SendDoes, MessageFacts
  <2>3. QED BY <1>0, <2>1, <2>2 DEF Typed, TypeOK, OnlyCall, OnlyDown
<1>3. ASSUME NEW d \in Devices, Lose(d) PROVE Typed'
  BY <1>0, <1>3, LoseDoes DEF Typed, TypeOK, OnlyCall, OnlyUp, OnlyDown
<1>4. ASSUME NEW d \in Devices, Keepalive(d) PROVE Typed'
  BY <1>0, <1>4, KeepaliveDoes DEF Typed, TypeOK, OnlyUp
<1>5. ASSUME NEW d \in Devices, Deliver(d) PROVE Typed'
  <2>1. /\ OnlyCall(d) /\ OnlyDown(d, Tail(down[d])) /\ made' \in {made, made + 1}
        /\ UNCHANGED <<room, up, peers, stored, venues, hasty>>
    BY <1>5, DeliverDoes
  <2>2. made' \in Nat /\ venues' \subseteq 1..made'
    BY <1>0, <2>1
  <2>3. QED BY <1>0, <2>1, <2>2 DEF Typed, TypeOK, OnlyCall, OnlyDown
<1>6. ASSUME NEW d \in Devices, VenueReady(d) PROVE Typed'
  <2>1. /\ OnlyCall(d) /\ made' = made + 2 /\ venues' = venues \cup {made + 1}
        /\ Send(d, Msg("venue", made + 1)) /\ UNCHANGED <<room, down, peers, stored, hasty>>
    BY <1>6, VenueReadyDoes
  <2>2. made' \in Nat /\ venues' \subseteq 1..made' /\ made + 1 \in Nat
    BY <1>0, <2>1
  <2>3. up' \in [Sockets -> Seq(Message)]
    BY <2>1, <2>2, SendDoes, MessageFacts
  <2>4. QED BY <1>0, <2>1, <2>2, <2>3 DEF Typed, TypeOK, OnlyCall
<1>7. ASSUME NEW d \in Devices, SDPReady(d) PROVE Typed'
  <2>1. /\ OnlyCall(d) /\ Head(call[d].pend) \in Sdp
        /\ IF Calliope THEN up' = up ELSE Send(d, Head(call[d].pend))
        /\ UNCHANGED <<room, down, peers, stored, venues, made, hasty>>
    BY <1>7, SDPReadyDoes
  <2>2. Head(call[d].pend) \in Message
    BY <2>1 DEF Sdp, Message
  <2>3. up' \in [Sockets -> Seq(Message)]
    BY <1>0, <2>1, <2>2, SendDoes
  <2>4. QED BY <1>0, <2>1, <2>3 DEF Typed, TypeOK, OnlyCall
<1>8. ASSUME NEW s \in Sockets, Server(s) PROVE Typed'
  <2>1. /\ up[s] # <<>> /\ Head(up[s]) \in Message /\ up' \in [Sockets -> Seq(Message)]
        /\ OnRequest(s) \/ OnMessage(s) \/ OnClose(s)
        /\ UNCHANGED <<room, call, venues, made, hasty>>
    BY <1>8, ServerDoes DEF OnlyUp
  <2>d. s[1] \in Devices
    BY DEF Sockets
  <2>2. CASE OnRequest(s)
    <3>1. /\ s \notin peers /\ peers' = peers \cup {s} /\ stored' = stored /\ down' \in [Devices -> Seq(Message)]
      BY <1>0, <1>8, <2>2, <2>d, RequestDoes DEF OnlyDown
    <3>2. IsFiniteSet(peers')
      BY <1>0, <3>1, FS_AddElement
    <3>3. QED BY <1>0, <2>1, <3>1, <3>2, <1>8, ServerDoes DEF Typed, TypeOK
  <2>3. CASE OnMessage(s) /\ Head(up[s]).type = "echo"
    <3>1. peers' = peers /\ stored' = stored /\ down' \in [Devices -> Seq(Message)]
      BY <1>0, <1>8, <2>3, <2>d, EchoDoes DEF OnlyDown
    <3>2. QED BY <1>0, <2>1, <3>1, <1>8, ServerDoes DEF Typed, TypeOK
  <2>4. CASE OnMessage(s) /\ Head(up[s]).type # "echo"
    <3>1. /\ peers' = peers /\ down' \in [Devices -> Seq(Message)]
          /\ stored' = IF Head(up[s]).type = "venue" THEN Head(up[s]).n ELSE stored
          /\ Head(up[s]).type # "request"
      BY <1>8, <2>4, RelayDoes
    <3>2. s \in peers /\ Head(up[s]).n \in Nat
      BY <2>1, <3>1, Counted, MessageFacts
    <3>3. QED BY <1>0, <2>1, <3>1, <3>2, <1>8, ServerDoes DEF Typed, TypeOK
  <2>5. CASE OnClose(s)
    <3>1. /\ s \in peers /\ peers' = peers \ {s} /\ down' = down
          /\ stored' = IF peers = {s} THEN None ELSE stored
      BY <1>8, <2>5, CloseDoes
    <3>2. IsFiniteSet(peers') /\ (peers' = {} => peers = {s})
      BY <1>0, <3>1, FS_RemoveElement
    <3>3. None \in Nat
      BY DEF None
    <3>4. QED BY <1>0, <2>1, <3>1, <3>2, <3>3, <1>8, ServerDoes DEF Typed, TypeOK
  <2>6. QED BY <2>1, <2>2, <2>3, <2>4, <2>5
<1>9. CASE UNCHANGED vars
  BY <1>0, <1>9 DEF Typed, TypeOK, vars
<1>10. QED BY <1>1, <1>2, <1>3, <1>4, <1>5, <1>6, <1>7, <1>8, <1>9 DEF Next

-----------------------------------------------------------------------------
(* Sockets.                                                                   *)
LEMMA StartWire ==
  ASSUME Inv, NEW d \in Devices, Start(d)
  PROVE  (\A s \in Sockets : Wired(s)') /\ (\A e \in Devices : Seated(e)')
<1>0. PICK t : t = <<d, call'[d].opens>>
  OBVIOUS
<1>1. /\ ~call[d].linked /\ OnlyCall(d) /\ call'[d].linked /\ call'[d].active /\ Fresh(call'[d]) /\ down' = down
      /\ call'[d].opens = call[d].opens + 1 /\ call'[d].opens \in 1..MaxOpens /\ OnlyUp(t, <<Request>>)
      /\ peers' = peers /\ room' = room /\ down[d] = <<>>
  BY <1>0, StartDoes
<1>2. t = <<d, call'[d].opens>> /\ t \in Sockets /\ t[1] = d /\ t[2] = call[d].opens + 1 /\ call[d].opens \in Nat
  BY <1>0, <1>1, TypeFacts DEF Sockets, Inv
<1>3. t \notin peers /\ Live(t)' /\ up'[t] = <<Request>>
  <2>1. Wired(t) /\ t[2] > call[t[1]].opens
    BY <1>2 DEF Inv
  <2>2. t \notin peers
    BY <2>1 DEF Wired
  <2>3. Live(t)'
    BY <1>0, <1>1, <1>2 DEF Live, Socket
  <2>4. QED BY <1>1, <2>2, <2>3 DEF OnlyUp
<1>4. Wired(t)'
  <2>1. ~Has(up'[t], "close") /\ up'[t] # <<>>
    BY <1>3, SingleFacts, MessageFacts DEF Request
  <2>2. \A i \in DOMAIN up'[t] : up'[t][i].type # "close"
    BY <2>1 DEF Has
  <2>3. t \notin peers' /\ t[2] = call'[t[1]].opens
    BY <1>1, <1>2, <1>3
  <2>4. ~(t[2] > call'[t[1]].opens)
    BY <1>1, <1>2
  <2>5. QED BY <1>3, <2>1, <2>2, <2>3, <2>4 DEF Wired
<1>5. ASSUME NEW s \in Sockets, s # t PROVE Wired(s)'
  <2>1. up'[s] = up[s] /\ Wired(s) /\ s[1] \in Devices /\ s[2] \in Nat
    BY <1>1, <1>5 DEF Inv, OnlyUp, Sockets
  <2>2. CASE s[1] = d
    <3>1. ~Live(s) /\ ~Live(s)'
      BY <1>0, <1>1, <1>5, <2>2 DEF Live, Socket
    <3>2. s[2] > call'[s[1]].opens => s[2] > call[s[1]].opens
      BY <1>1, <1>2, <2>1, <2>2
    <3>3. QED BY <1>1, <2>1, <3>1, <3>2, WiredFrame
  <2>3. CASE s[1] # d
    <3>1. call'[s[1]] = call[s[1]]
      BY <1>1, <2>1, <2>3 DEF OnlyCall
    <3>2. Live(s)' <=> Live(s)
      BY <3>1 DEF Live, Socket
    <3>3. QED BY <1>1, <2>1, <3>1, <3>2, WiredFrame
  <2>4. QED BY <2>2, <2>3
<1>6. ASSUME NEW e \in Devices, e # d PROVE Seated(e)'
  BY <1>1, <1>6, SeatedFrame DEF Inv, OnlyCall
<1>7. Seated(d)'
  <2>1. DOMAIN down'[d] = {} /\ down'[d] = <<>> /\ call'[d].opens # 0
    BY <1>1
  <2>2. QED BY <1>1, <2>1 DEF Seated, Fresh
<1>8. QED BY <1>4, <1>5, <1>6, <1>7

LEMMA StopWire ==
  ASSUME Inv, NEW d \in Devices, Stop(d)
  PROVE  (\A s \in Sockets : Wired(s)') /\ (\A e \in Devices : Seated(e)')
<1>1. /\ OnlyCall(d) /\ ~call'[d].active /\ ~call'[d].linked /\ call'[d].opens = call[d].opens /\ Fresh(call'[d])
      /\ OnlyDown(d, <<>>) /\ Send(d, Close) /\ peers' = peers /\ room' = room
  BY StopDoes
<1>2. \A s \in Sockets : s[1] \in Devices /\ call'[s[1]].opens = call[s[1]].opens
  BY <1>1 DEF OnlyCall, Sockets
<1>3. ASSUME NEW s \in Sockets, s[1] # d \/ s # Socket(d) \/ ~call[d].linked PROVE Live(s)' <=> Live(s)
  <2>1. CASE s[1] = d
    BY <1>1, <1>3, <2>1 DEF Live
  <2>2. CASE s[1] # d
    BY <1>1, <1>2, <2>2 DEF Live, Socket, OnlyCall
  <2>3. QED BY <2>1, <2>2
<1>4. ASSUME NEW e \in Devices PROVE Seated(e)'
  <2>1. CASE e # d
    BY <1>1, <2>1, SeatedFrame DEF Inv, OnlyCall, OnlyDown
  <2>2. CASE e = d
    <3>1. down'[d] = <<>> /\ DOMAIN down'[d] = {}
      BY <1>1 DEF OnlyDown
    <3>2. QED BY <1>1, <2>2, <3>1 DEF Seated, Fresh
  <2>3. QED BY <2>1, <2>2
<1>5. CASE ~call[d].linked
  <2>1. up' = up
    BY <1>1, <1>5, SendDoes, MessageFacts
  <2>2. QED BY <1>1, <1>2, <1>3, <1>4, <1>5, <2>1, WiredFrame DEF Inv
<1>6. CASE call[d].linked
  <2>1. PICK t \in Sockets : t = Socket(d) /\ OnlyUp(t, Append(up[t], Close))
    BY <1>1, <1>6, SendDoes, MessageFacts
  <2>2. /\ t[1] = d /\ Live(t) /\ ~Live(t)' /\ Wired(t) /\ up[t] \in Seq(Message)
        /\ up'[t] = Append(up[t], Close) /\ ~Has(up[t], "close")
    BY <1>1, <1>6, <2>1, TypeFacts DEF Live, Socket, Inv, OnlyUp, Wired
  <2>3. /\ Has(up'[t], "close") /\ (Has(up'[t], "request") <=> Has(up[t], "request"))
    BY <2>2, HasAppend, MessageFacts DEF Close
  <2>4. \A i \in DOMAIN up'[t] : up'[t][i].type = "close" => i = Len(up'[t])
    BY <2>2, AppendFacts, MessageFacts DEF Has
  <2>5. t \notin peers => up'[t] = <<Request, Close>>
    <3>1. ASSUME t \notin peers PROVE up[t] = <<Request>>
      <4>1. up[t] \in {<<Request>>, <<Request, Close>>}
        BY <2>2, <3>1 DEF Wired
      <4>2. Has(<<Request, Close>>, "close")
        BY DEF Has, Close, Msg
      <4>3. QED BY <2>2, <4>1, <4>2
    <3>2. Append(<<Request>>, Close) = <<Request, Close>>
      BY PairFacts, MessageFacts
    <3>3. QED BY <2>2, <3>1, <3>2
  <2>6. up'[t] # <<>> /\ ~(t[2] > call[t[1]].opens)
    BY <2>1, <2>2, AppendFacts, MessageFacts, TypeFacts DEF Socket, Inv
  <2>7. Wired(t)'
    BY <1>1, <1>2, <2>2, <2>3, <2>4, <2>5, <2>6 DEF Wired
  <2>8. ASSUME NEW s \in Sockets, s # t PROVE Wired(s)'
    <3>1. up'[s] = up[s] /\ Wired(s)
      BY <2>1, <2>8 DEF OnlyUp, Inv
    <3>2. QED BY <1>1, <1>2, <1>3, <2>1, <2>8, <3>1, WiredFrame
  <2>9. QED BY <1>4, <2>7, <2>8
<1>7. QED BY <1>5, <1>6

LEMMA LoseWire ==
  ASSUME Inv, NEW d \in Devices, Lose(d)
  PROVE  (\A s \in Sockets : Wired(s)') /\ (\A e \in Devices : Seated(e)')
<1>1. PICK t \in Sockets :
        /\ t = Socket(d) /\ call[d].linked /\ room = "lossy" /\ room' = room /\ peers' = peers
        /\ OnlyCall(d) /\ call'[d] = [call[d] EXCEPT !.linked = FALSE]
        /\ OnlyUp(t, IF t \in peers THEN <<Close>> ELSE <<>>) /\ OnlyDown(d, <<>>)
  BY LoseDoes
<1>2. /\ call[d] \in CallType /\ ~call'[d].linked /\ call'[d].opens = call[d].opens /\ call'[d].active = call[d].active
      /\ call'[d].startedCall = call[d].startedCall /\ call'[d].creating = call[d].creating
  BY <1>1, TypeFacts DEF CallType, Inv
<1>3. \A s \in Sockets : s[1] \in Devices /\ call'[s[1]].opens = call[s[1]].opens
  BY <1>1, <1>2 DEF OnlyCall, Sockets
<1>4. ASSUME NEW s \in Sockets, s # t PROVE Wired(s)'
  <2>1. Live(s)' <=> Live(s)
    <3>1. CASE s[1] = d
      BY <1>1, <1>2, <1>4, <3>1 DEF Live
    <3>2. CASE s[1] # d
      BY <1>1, <1>3, <3>2 DEF Live, Socket, OnlyCall
    <3>3. QED BY <3>1, <3>2
  <2>2. up'[s] = up[s] /\ Wired(s)
    BY <1>1, <1>4 DEF OnlyUp, Inv
  <2>3. QED BY <1>1, <1>3, <2>1, <2>2, WiredFrame
<1>5. Wired(t)'
  <2>0. t[1] = d /\ t[2] = call[d].opens /\ call[d].opens \in Nat
    BY <1>1, TypeFacts DEF Socket, Inv
  <2>1. t[1] = d /\ ~Live(t)' /\ ~(t[2] > call'[t[1]].opens)
    BY <1>2, <2>0 DEF Live
  <2>2. CASE t \in peers
    <3>1. up'[t] = <<Close>>
      BY <1>1, <2>2 DEF OnlyUp
    <3>2. /\ ~Has(up'[t], "request") /\ Has(up'[t], "close")
          /\ \A i \in DOMAIN up'[t] : i = Len(up'[t])
      BY <3>1, SingleFacts, MessageFacts DEF Close
    <3>3. QED BY <1>1, <2>1, <2>2, <3>2 DEF Wired
  <2>3. CASE t \notin peers
    <3>1. up'[t] = <<>> /\ DOMAIN up'[t] = {}
      BY <1>1, <2>3 DEF OnlyUp
    <3>2. QED BY <1>1, <2>1, <2>3, <3>1 DEF Wired
  <2>4. QED BY <2>2, <2>3
<1>6. ASSUME NEW e \in Devices, e # d PROVE Seated(e)'
  BY <1>1, <1>6, SeatedFrame DEF Inv, OnlyCall, OnlyDown
<1>7. Seated(d)'
  <2>1. down'[d] = <<>> /\ DOMAIN down'[d] = {}
    BY <1>1 DEF OnlyDown
  <2>2. Seated(d)
    BY DEF Inv
  <2>3. QED BY <1>1, <1>2, <2>1, <2>2 DEF Seated
<1>8. QED BY <1>4, <1>5, <1>6, <1>7

LEMMA KeepaliveWire ==
  ASSUME Inv, NEW d \in Devices, Keepalive(d)
  PROVE  (\A s \in Sockets : Wired(s)') /\ (\A e \in Devices : Seated(e)')
<1>1. /\ call[d].timer /\ call[d].linked /\ OnlyUp(Socket(d), Append(up[Socket(d)], Msg("echo", 0)))
      /\ UNCHANGED <<room, call, down, peers, stored, venues, made, hasty>>
  BY KeepaliveDoes
<1>2. Socket(d) \in peers
  BY <1>1, Heard DEF Fresh
<1>3. \A s \in Sockets : (Live(s)' <=> Live(s)) /\ call'[s[1]].opens = call[s[1]].opens
  BY <1>1 DEF Live, Socket
<1>4. \A s \in Sockets : Wired(s)'
  <2>1. Msg("echo", 0).type = "echo" /\ Msg("echo", 0) \in Message
    BY MessageFacts
  <2>2. QED BY <1>1, <1>2, <1>3, <2>1, WiredSent
<1>5. QED BY <1>1, <1>4, SeatedFrame DEF Inv

LEMMA VenueWire ==
  ASSUME Inv, NEW d \in Devices, VenueReady(d)
  PROVE  (\A s \in Sockets : Wired(s)') /\ (\A e \in Devices : Seated(e)')
<1>1. /\ call[d].creating /\ OnlyCall(d) /\ Same(call'[d], call[d]) /\ ~call'[d].creating
      /\ call'[d].startedCall = call[d].startedCall
      /\ Send(d, Msg("venue", made + 1)) /\ UNCHANGED <<room, down, peers, stored, hasty>>
  BY VenueReadyDoes
<1>2. ~Fresh(call[d])
  BY <1>1 DEF Fresh
<1>3. \A s \in Sockets : (Live(s)' <=> Live(s)) /\ call'[s[1]].opens = call[s[1]].opens
  BY <1>1, LiveSame
<1>4. \A s \in Sockets : Wired(s)'
  <2>1. PICK m : m = Msg("venue", made + 1)
    OBVIOUS
  <2>2. m.type = "venue" /\ m \in Message /\ Send(d, m)
    <3>1. made + 1 \in Nat
      BY TypeFacts DEF Inv
    <3>2. QED BY <1>1, <2>1, <3>1, MessageFacts
  <2>3. CASE call[d].linked
    BY <1>1, <1>2, <1>3, <2>2, <2>3, Heard, SendDoes, WiredSent
  <2>4. CASE ~call[d].linked
    <3>1. up' = up
      BY <2>2, <2>4, SendDoes
    <3>2. QED BY <1>1, <1>3, <3>1, WiredFrame DEF Inv
  <2>5. QED BY <2>3, <2>4
<1>5. \A e \in Devices : Seated(e)'
  BY <1>1, <1>2, SeatedOwn
<1>6. QED BY <1>4, <1>5

LEMMA SDPWire ==
  ASSUME Inv, NEW d \in Devices, SDPReady(d)
  PROVE  (\A s \in Sockets : Wired(s)') /\ (\A e \in Devices : Seated(e)')
<1>1. /\ call[d].pend # <<>> /\ Head(call[d].pend) \in Sdp
      /\ OnlyCall(d) /\ Same(call'[d], call[d]) /\ call'[d].creating = call[d].creating
      /\ call'[d].startedCall = call[d].startedCall
      /\ IF Calliope THEN up' = up ELSE Send(d, Head(call[d].pend))
      /\ UNCHANGED <<room, down, peers, stored, venues, made, hasty>>
  BY SDPReadyDoes
<1>2. ~Fresh(call[d])
  BY <1>1 DEF Fresh
<1>3. \A s \in Sockets : (Live(s)' <=> Live(s)) /\ call'[s[1]].opens = call[s[1]].opens
  BY <1>1, LiveSame
<1>4. \A s \in Sockets : Wired(s)'
  <2>1. PICK m : m = Head(call[d].pend)
    OBVIOUS
  <2>2. m.type \in {"offer", "answer"} /\ m \in Message
    BY <1>1, <2>1 DEF Sdp, Message
  <2>3. CASE ~Calliope /\ call[d].linked
    <3>1. OnlyUp(Socket(d), Append(up[Socket(d)], m)) /\ Socket(d) \in peers
      BY <1>1, <1>2, <2>1, <2>2, <2>3, SendDoes, Heard
    <3>2. QED BY <1>1, <1>3, <2>2, <2>3, <3>1, WiredSent
  <2>4. CASE Calliope \/ ~call[d].linked
    <3>1. up' = up
      BY <1>1, <2>1, <2>2, <2>4, SendDoes
    <3>2. QED BY <1>1, <1>3, <3>1, WiredFrame DEF Inv
  <2>5. QED BY <2>3, <2>4
<1>5. \A e \in Devices : Seated(e)'
  BY <1>1, <1>2, SeatedOwn
<1>6. QED BY <1>4, <1>5

LEMMA DeliverWire ==
  ASSUME Inv, NEW d \in Devices, Deliver(d)
  PROVE  (\A s \in Sockets : Wired(s)') /\ (\A e \in Devices : Seated(e)')
<1>1. /\ down[d] # <<>> /\ down[d] \in Seq(Message)
      /\ call[d].linked /\ Socket(d) \in peers
      /\ OnlyDown(d, Tail(down[d])) /\ OnlyCall(d) /\ Same(call'[d], call[d])
      /\ UNCHANGED <<room, up, peers, stored, venues, hasty>>
  BY DeliverDoes
<1>2. /\ call'[d].creating => call'[d].startedCall
      /\ Head(down[d]).type # "join" => call'[d].startedCall = call[d].startedCall
  <2>1. Seated(d)
    BY DEF Inv
  <2>2. QED BY <2>1, DeliverDoes DEF Seated
<1>3. \A s \in Sockets : (Live(s)' <=> Live(s)) /\ call'[s[1]].opens = call[s[1]].opens
  BY <1>1, LiveSame
<1>4. \A s \in Sockets : Wired(s)'
  BY <1>1, <1>3, WiredFrame DEF Inv
<1>5. ASSUME NEW e \in Devices, e # d PROVE Seated(e)'
  BY <1>1, <1>5, SeatedFrame DEF Inv, OnlyCall, OnlyDown
<1>6. Seated(d)'
  <2>1. Seated(d) /\ down'[d] = Tail(down[d]) /\ Socket(d)' = Socket(d)
    BY <1>1 DEF Inv, OnlyDown, Same, Socket
  <2>2. ASSUME NEW i \in DOMAIN down'[d] PROVE down'[d][i].type \notin {"join", "request", "close"}
    <3>1. i + 1 \in DOMAIN down[d] /\ down'[d][i] = down[d][i + 1] /\ i + 1 # 1
      <4>1. Tail(down[d]) \in Seq(Message)
        BY <1>1, TailFacts
      <4>2. i \in Nat /\ i >= 1
        BY <2>1, <4>1, SeqFacts
      <4>3. QED BY <1>1, <2>1, <4>2, TailFacts
    <3>2. QED BY <2>1, <3>1 DEF Seated
  <2>3. call[d].active
    BY <1>1, <2>1 DEF Seated
  <2>4. QED BY <1>1, <1>2, <2>1, <2>2, <2>3 DEF Seated, Same
<1>7. QED BY <1>4, <1>5, <1>6

LEMMA ServerWire ==
  ASSUME Inv, NEW s \in Sockets, Server(s)
  PROVE  (\A t \in Sockets : Wired(t)') /\ (\A e \in Devices : Seated(e)')
<1>1. /\ up[s] # <<>> /\ Head(up[s]) \in Message /\ up[s] \in Seq(Message)
      /\ OnlyUp(s, Tail(up[s]))
      /\ OnRequest(s) \/ OnMessage(s) \/ OnClose(s)
      /\ UNCHANGED <<room, call, venues, made, hasty>>
  BY ServerDoes
<1>2. \A t \in Sockets : Live(t)' <=> Live(t)
  BY <1>1 DEF Live, Socket
<1>3. Wired(s) /\ ~(s[2] > call'[s[1]].opens) /\ up'[s] = Tail(up[s]) /\ s[1] \in Devices
  BY <1>1 DEF Inv, Wired, OnlyUp, Sockets
<1>4. /\ \A t \in Sockets \ {s} : t \in peers' <=> t \in peers
      /\ \A d \in Devices : call[d].linked /\ Socket(d) \in peers => Socket(d) \in peers'
  <2>1. CASE OnRequest(s)
    BY <2>1, RequestDoes
  <2>2. CASE OnMessage(s)
    BY <2>2, EchoDoes, RelayDoes
  <2>3. CASE OnClose(s)
    BY <2>3, CloseDoes DEF Live, Socket
  <2>4. QED BY <1>1, <2>1, <2>2, <2>3
<1>5. ASSUME NEW t \in Sockets, t # s PROVE Wired(t)'
  <2>1. up'[t] = up[t] /\ Wired(t)
    BY <1>1, <1>5 DEF OnlyUp, Inv
  <2>2. QED BY <1>1, <1>2, <1>4, <1>5, <2>1, WiredFrame
<1>6. CASE OnRequest(s)
  <2>1. /\ s \notin peers /\ peers' = peers \cup {s}
        /\ up[s] = <<Request>> \/ up[s] = <<Request, Close>>
        /\ Live(s) => /\ up[s] = <<Request>> /\ down[s[1]] = <<>>
                      /\ \E n \in Nat : (n = 1 => peers = {}) /\ OnlyDown(s[1], Greeting(n))
        /\ ~Live(s) => down' = down
    BY <1>6, RequestDoes
  <2>2. Wired(s)'
    <3>1. CASE up[s] = <<Request>>
      <4>1. up'[s] = <<>>
        BY <1>3, <3>1, SingleFacts, MessageFacts
      <4>2. ~Has(up[s], "close")
        BY <3>1, SingleFacts, MessageFacts DEF Request
      <4>3. Live(s)
        BY <1>1, <1>3, <4>2 DEF Wired
      <4>4. DOMAIN up'[s] = {} /\ ~Has(up'[s], "close") /\ ~Has(up'[s], "request")
        BY <4>1 DEF Has
      <4>5. QED BY <1>2, <1>3, <2>1, <4>3, <4>4 DEF Wired
    <3>2. CASE up[s] = <<Request, Close>>
      <4>1. up'[s] = <<Close>>
        BY <1>3, <3>2
      <4>2. Has(up[s], "close")
        BY <3>2 DEF Has, Close, Msg
      <4>3. ~Live(s)
        BY <1>3, <4>2 DEF Wired
      <4>4. /\ Has(up'[s], "close") /\ ~Has(up'[s], "request")
            /\ \A i \in DOMAIN up'[s] : i = Len(up'[s])
        BY <4>1, SingleFacts, MessageFacts DEF Close
      <4>5. QED BY <1>2, <1>3, <2>1, <4>3, <4>4 DEF Wired
    <3>3. QED BY <2>1, <3>1, <3>2
  <2>3. ASSUME NEW e \in Devices PROVE Seated(e)'
    <3>1. CASE e = s[1] /\ Live(s)
      <4>1. PICK n \in Nat : OnlyDown(s[1], Greeting(n))
        BY <2>1, <3>1
      <4>2. down'[e] = Greeting(n) /\ Socket(e)' = s /\ call'[e] = call[e] /\ Seated(e)
        BY <1>1, <3>1, <4>1 DEF OnlyDown, Live, Socket, Inv
      <4>3. Socket(e) = s /\ call[e].linked /\ Fresh(call[e])
        BY <2>1, <3>1, <4>2 DEF Live, Seated
      <4>4. \A i \in DOMAIN Greeting(n) :
              /\ Greeting(n)[i].type = "join" => i = 1
              /\ Greeting(n)[i].type \notin {"request", "close"}
        BY GreetingFacts, MessageFacts DEF Inv
      <4>5. QED BY <1>1, <2>1, <4>2, <4>3, <4>4 DEF Seated, Fresh
    <3>2. CASE ~(e = s[1] /\ Live(s))
      <4>1. down'[e] = down[e]
        BY <2>1, <3>2 DEF OnlyDown
      <4>2. QED BY <1>1, <1>4, <4>1, SeatedFrame DEF Inv
    <3>3. QED BY <3>1, <3>2
  <2>4. QED BY <1>5, <2>2, <2>3
<1>7. ASSUME OnMessage(s) PROVE Wired(s)'
  <2>1. peers' = peers /\ Head(up[s]).type \notin {"request", "close"}
    BY <1>7, EchoDoes, RelayDoes
  <2>2. s \in peers
    BY <1>1, <2>1, Counted
  <2>3. /\ Has(up'[s], "request") <=> Has(up[s], "request")
        /\ Has(up'[s], "close") <=> Has(up[s], "close")
    BY <1>1, <1>3, <2>1, HasTail
  <2>4. ASSUME NEW i \in DOMAIN up'[s], up'[s][i].type = "close" PROVE i = Len(up'[s])
    <3>1. up'[s] \in Seq(Message) /\ Len(up'[s]) = Len(up[s]) - 1 /\ i + 1 \in DOMAIN up[s] /\ up'[s][i] = up[s][i + 1]
      BY <1>1, <1>3, TailFacts
    <3>2. i + 1 = Len(up[s]) /\ i \in Nat /\ Len(up[s]) \in Nat
      BY <1>1, <1>3, <2>4, <3>1, SeqFacts DEF Wired
    <3>3. QED BY <3>1, <3>2
  <2>5. QED BY <1>2, <1>3, <2>1, <2>2, <2>3, <2>4 DEF Wired
<1>8. CASE OnMessage(s)
  <2>1. /\ peers' = peers
        /\ \A e \in Devices : \/ down'[e] = down[e]
                              \/ \E m \in Message : /\ down'[e] = Append(down[e], m)
                                                    /\ m.type \notin {"join", "request", "close"}
                                                    /\ call[e].linked /\ Socket(e) \in peers
    <3>1. CASE Head(up[s]).type = "echo"
      <4>1. PICK n \in Nat : Live(s) => OnlyDown(s[1], Append(down[s[1]], Msg("echo", n)))
        BY <1>8, <3>1, EchoDoes
      <4>2. peers' = peers /\ (~Live(s) => down' = down)
        BY <1>8, <3>1, EchoDoes
      <4>3. Msg("echo", n) \in Message /\ Msg("echo", n).type = "echo"
        BY MessageFacts
      <4>4. s \in peers
        BY <1>1, <3>1, Counted
      <4>5. QED BY <1>3, <4>1, <4>2, <4>3, <4>4 DEF OnlyDown, Live, Socket
    <3>2. CASE Head(up[s]).type # "echo"
      BY <1>1, <1>8, <3>2, RelayDoes DEF Hears
    <3>3. QED BY <3>1, <3>2
  <2>2. ASSUME NEW e \in Devices PROVE Seated(e)'
    <3>1. CASE down'[e] = down[e]
      BY <1>1, <1>4, <3>1, SeatedFrame DEF Inv
    <3>2. ASSUME NEW m \in Message, down'[e] = Append(down[e], m), m.type \notin {"join", "request", "close"},
                 call[e].linked, Socket(e) \in peers
          PROVE  Seated(e)'
      <4>1. Socket(e)' = Socket(e) /\ call'[e] = call[e] /\ Seated(e) /\ down[e] \in Seq(Message)
        BY <1>1, TypeFacts DEF Socket, Inv
      <4>2. ASSUME NEW i \in DOMAIN down'[e]
            PROVE  /\ down'[e][i].type = "join" => i = 1 /\ ~call[e].startedCall
                   /\ down'[e][i].type \notin {"request", "close"}
        <5>1. (i \in DOMAIN down[e] /\ down'[e][i] = down[e][i]) \/ down'[e][i] = m
          BY <3>2, <4>1, AppendFacts
        <5>2. QED BY <3>2, <4>1, <5>1 DEF Seated
      <4>3. QED BY <1>1, <2>1, <3>2, <4>1, <4>2 DEF Seated
    <3>3. QED BY <2>1, <3>1, <3>2
  <2>3. QED BY <1>5, <1>7, <1>8, <2>2
<1>9. CASE OnClose(s)
  <2>1. Tail(up[s]) = <<>> /\ ~Live(s) /\ peers' = peers \ {s} /\ down' = down
    BY <1>9, CloseDoes
  <2>2. Wired(s)'
    <3>1. up'[s] = <<>> /\ DOMAIN up'[s] = {}
      BY <1>3, <2>1
    <3>2. QED BY <1>2, <1>3, <2>1, <3>1 DEF Wired
  <2>3. ASSUME NEW e \in Devices PROVE Seated(e)'
    BY <1>1, <1>4, <2>1, SeatedFrame DEF Inv
  <2>4. QED BY <1>5, <2>2, <2>3
<1>10. QED BY <1>1, <1>6, <1>8, <1>9

LEMMA NextInv == Inv /\ [Next]_vars => Inv'
<1> SUFFICES ASSUME Inv, [Next]_vars PROVE Inv'
  OBVIOUS
<1>0. Typed'
  BY TypedStep
<1>1. (\A t \in Sockets : Wired(t)') /\ (\A e \in Devices : Seated(e)')
  <2>1. CASE Next
    BY <2>1, StartWire, StopWire, LoseWire, KeepaliveWire, DeliverWire, VenueWire, SDPWire, ServerWire DEF Next
  <2>2. CASE UNCHANGED vars
    <3>1. \A t \in Sockets : Live(t)' <=> Live(t)
      BY <2>2 DEF Live, Socket, vars
    <3>2. QED BY <2>2, <3>1, WiredFrame, SeatedFrame DEF Inv, vars
  <2>3. QED BY <2>1, <2>2
<1>2. QED BY <1>0, <1>1 DEF Inv

(* The state of the server, of every device and of the queues keeps its type   *)
(* for any number of calls, breaks and overtaking closes; in particular a room *)
(* keeps a venue only while somebody is in it.                                 *)
THEOREM TypeCorrect == Spec => []TypeOK
<1>1. Inv => TypeOK
  BY DEF Inv, Typed
<1>2. QED BY <1>1, InitInv, NextInv, PTL DEF Spec

(* No socket is counted that has yet to ask for it, or that is closed and gone *)
(* from both ends: `peers` has each socket once, so its length is a count of   *)
(* devices and of sockets whose close is under way, and nothing else.         *)
CountedOnce == \A s \in peers :
  /\ ~Has(up[s], "request")
  /\ Live(s) \/ Has(up[s], "close")

(* The head count the server tells counts each socket once, from its request   *)
(* until its close, whatever breaks or overtakes.                             *)
THEOREM CountedOnceAlways == Spec => []CountedOnce
<1>1. Inv => CountedOnce
  BY DEF Inv, Typed, TypeOK, Wired, CountedOnce
<1>2. QED BY <1>1, InitInv, NextInv, PTL DEF Spec

-----------------------------------------------------------------------------
(* One venue.  In a room with calliope in which nobody starts too soon, the   *)
(* next venue is known to whom it was promised, or the present one is known   *)
(* to all who may use it.                                                     *)
Venue == Nat \ {None}

Plain(q) == ~Has(q, "offer") /\ ~Has(q, "answer") /\ ~Brings(q, None)

Elects(q) == \E i \in DOMAIN q : q[i] = Msg("join", 1)

(* d may create the venue. *)
Right(d) == call[d].creating \/ Elects(down[d])

(* d uses the venue v, is about to, or will be told of it. *)
Holds(d, v) == \/ Brings(down[d], v)
               \/ call[d].pend # <<>> /\ call[d].venue = v
               \/ call[d].flow = v

Token(v) == \/ v = stored
            \/ \E s \in Sockets : Brings(up[s], v)
            \/ \E d \in Devices : Holds(d, v)

InOne ==
  /\ \A s \in Sockets : Plain(up[s])
  /\ \A d \in Devices : Plain(down[d])
  /\ \A v, w \in Venue : Token(v) /\ Token(w) => v = w
  /\ \A d, e \in Devices : Right(d) /\ Right(e) => d = e
  /\ \A d \in Devices : Right(d) => \A v \in Venue : ~Token(v)

OneVenue == room = "calliope" => InOne

LEMMA PlainFacts ==
  /\ Plain(<<>>) /\ ~Elects(<<>>)
  /\ \A m \in Message : m.type \notin {"offer", "answer", "venue"} =>
       /\ Plain(<<m>>) /\ \A v : ~Brings(<<m>>, v)
       /\ \A q \in Seq(Message) : /\ Plain(q) => Plain(Append(q, m))
                                  /\ \A v : Brings(Append(q, m), v) <=> Brings(q, v)
                                  /\ m.type # "join" => (Elects(Append(q, m)) <=> Elects(q))
  /\ \A q \in Seq(Message) : q # <<>> =>
       /\ Plain(q) => Plain(Tail(q)) /\ Head(q).type \notin {"offer", "answer"} /\ Head(q) # Msg("venue", None)
       /\ Elects(q) <=> Head(q) = Msg("join", 1) \/ Elects(Tail(q))
       /\ \A v : Brings(q, v) <=> Head(q) = Msg("venue", v) \/ Brings(Tail(q), v)
<1>1. Plain(<<>>) /\ ~Elects(<<>>)
  BY EmptyFacts DEF Plain, Elects
<1>2. ASSUME NEW m \in Message, m.type \notin {"offer", "answer", "venue"}
      PROVE  /\ Plain(<<m>>) /\ \A v : ~Brings(<<m>>, v)
             /\ \A q \in Seq(Message) : /\ Plain(q) => Plain(Append(q, m))
                                        /\ \A v : Brings(Append(q, m), v) <=> Brings(q, v)
                                        /\ m.type # "join" => (Elects(Append(q, m)) <=> Elects(q))
  <2>1. \A v : m # Msg("venue", v)
    BY <1>2, MessageFacts
  <2>2. m.type # "join" => m # Msg("join", 1)
    BY MessageFacts
  <2>3. Plain(<<m>>) /\ \A v : ~Brings(<<m>>, v)
    BY <1>2, <2>1, SingleFacts DEF Plain
  <2>4. ASSUME NEW q \in Seq(Message)
        PROVE  /\ Plain(q) => Plain(Append(q, m))
               /\ \A v : Brings(Append(q, m), v) <=> Brings(q, v)
    BY <1>2, <2>1, HasAppend DEF Plain
  <2>5. ASSUME NEW q \in Seq(Message), m.type # "join"
        PROVE  Elects(Append(q, m)) <=> Elects(q)
    BY <2>2, <2>5, AppendFacts DEF Elects
  <2>6. QED BY <2>3, <2>4, <2>5
<1>3. ASSUME NEW q \in Seq(Message), q # <<>>
      PROVE  /\ Plain(q) => Plain(Tail(q)) /\ Head(q).type \notin {"offer", "answer"} /\ Head(q) # Msg("venue", None)
             /\ Elects(q) <=> Head(q) = Msg("join", 1) \/ Elects(Tail(q))
             /\ \A v : Brings(q, v) <=> Head(q) = Msg("venue", v) \/ Brings(Tail(q), v)
  <2>1. \A v : Brings(q, v) <=> Head(q) = Msg("venue", v) \/ Brings(Tail(q), v)
    BY <1>3, HasTail
  <2>2. Plain(q) => Plain(Tail(q)) /\ Head(q).type \notin {"offer", "answer"} /\ Head(q) # Msg("venue", None)
    BY <1>3, <2>1, HasTail DEF Plain
  <2>3. Head(q) = Msg("join", 1) \/ Elects(Tail(q)) => Elects(q)
    BY <1>3, TailFacts DEF Elects
  <2>4. ASSUME Elects(q) PROVE Head(q) = Msg("join", 1) \/ Elects(Tail(q))
    <3>1. PICK i \in DOMAIN q : q[i] = Msg("join", 1)
      BY <2>4 DEF Elects
    <3>2. q[1] = Head(q) /\ (i = 1 \/ (i - 1 \in DOMAIN Tail(q) /\ q[i] = Tail(q)[i - 1]))
      BY <1>3, TailFacts
    <3>3. QED BY <3>1, <3>2 DEF Elects
  <2>5. QED BY <2>1, <2>2, <2>3, <2>4
<1>4. QED BY <1>1, <1>2, <1>3

LEMMA PlainAppend ==
  ASSUME NEW q \in Seq(Message), NEW m \in Message, m.type \notin {"offer", "answer", "venue"}
  PROVE  /\ Plain(q) => Plain(Append(q, m))
         /\ \A v : Brings(Append(q, m), v) <=> Brings(q, v)
         /\ m.type # "join" => (Elects(Append(q, m)) <=> Elects(q))
  BY PlainFacts

LEMMA PlainTail ==
  ASSUME NEW q \in Seq(Message), q # <<>>
  PROVE  /\ Plain(q) => Plain(Tail(q))
         /\ \A v : Brings(Tail(q), v) => Brings(q, v)
  BY PlainFacts

LEMMA InOneKept ==
  ASSUME InOne,
         \A s \in Sockets : Plain(up'[s]),
         \A e \in Devices : Plain(down'[e]),
         \A v \in Venue : Token(v)' => Token(v),
         \A e \in Devices : Right(e)' => Right(e)
  PROVE  InOne'
  BY DEF InOne

(* A step of one device that tells the room nothing new. *)
LEMMA DeviceKeeps ==
  ASSUME InOne, NEW d \in Devices, OnlyCall(d), stored' = stored,
         \A e \in Devices \ {d} : down'[e] = down[e],
         Plain(down'[d]),
         Right(d)' => Right(d),
         \A v \in Venue : Holds(d, v)' => Token(v),
         \A s \in Sockets : Plain(up'[s]) /\ \A v \in Venue : Brings(up'[s], v) => Token(v)
  PROVE  InOne'
<1>1. ASSUME NEW e \in Devices, e # d
      PROVE  (Right(e)' => Right(e)) /\ \A v : Holds(e, v)' => Holds(e, v)
  BY <1>1 DEF Right, Holds, OnlyCall
<1>2. \A e \in Devices : Plain(down'[e]) /\ (Right(e)' => Right(e))
  BY <1>1 DEF InOne
<1>3. ASSUME NEW v \in Venue, Token(v)' PROVE Token(v)
  <2>1. \A e \in Devices : Holds(e, v)' => Token(v)
    BY <1>1 DEF Token
  <2>2. \A s \in Sockets : Brings(up'[s], v) => Token(v)
    OBVIOUS
  <2>3. v = stored' => Token(v)
    BY DEF Token
  <2>4. QED BY <1>3, <2>1, <2>2, <2>3 DEF Token
<1>4. QED BY <1>2, <1>3, InOneKept

LEMMA SentPlain ==
  ASSUME Inv, NEW d \in Devices, NEW m \in Message, m.type \notin {"offer", "answer", "venue"}, Send(d, m)
  PROVE  \A s \in Sockets : /\ Plain(up[s]) => Plain(up'[s])
                            /\ \A v : Brings(up'[s], v) <=> Brings(up[s], v)
<1>1. CASE ~call[d].linked
  BY <1>1, SendDoes
<1>2. CASE call[d].linked
  <2>1. Socket(d) \in Sockets /\ OnlyUp(Socket(d), Append(up[Socket(d)], m))
    BY <1>2, SendDoes
  <2>2. up[Socket(d)] \in Seq(Message)
    BY <2>1, TypeFacts DEF Inv
  <2>3. ASSUME NEW s \in Sockets
        PROVE  /\ Plain(up[s]) => Plain(up'[s])
               /\ \A v : Brings(up'[s], v) <=> Brings(up[s], v)
    <3>1. CASE s = Socket(d)
      <4>1. up'[s] = Append(up[s], m) /\ up[s] \in Seq(Message)
        BY <2>1, <2>2, <3>1 DEF OnlyUp
      <4>2. QED BY <4>1, PlainAppend
    <3>2. CASE s # Socket(d)
      BY <2>1, <3>2 DEF OnlyUp
    <3>3. QED BY <3>1, <3>2
  <2>4. QED BY <2>3
<1>3. QED BY <1>1, <1>2

LEMMA StartOne ==
  ASSUME Inv, InOne, NEW d \in Devices, Start(d)
  PROVE  InOne'
<1>0. PICK t : t = <<d, call'[d].opens>>
  OBVIOUS
<1>1. /\ down' = down /\ down[d] = <<>> /\ stored' = stored /\ OnlyCall(d) /\ Fresh(call'[d])
      /\ OnlyUp(t, <<Request>>)
  BY <1>0, StartDoes
<1>2. ~Right(d)' /\ \A v \in Venue : ~Holds(d, v)'
  BY <1>1, EmptyFacts, PlainFacts DEF Fresh, Right, Holds, Venue
<1>3. Request \in Message /\ Request.type = "request"
  BY MessageFacts DEF Request
<1>4. Plain(<<Request>>) /\ \A v : ~Brings(<<Request>>, v)
  BY <1>3, PlainFacts
<1>5. \A s \in Sockets : Plain(up'[s]) /\ \A v \in Venue : Brings(up'[s], v) => Token(v)
  <2>1. ASSUME NEW s \in Sockets, s # t PROVE up'[s] = up[s]
    BY <1>1, <2>1 DEF OnlyUp
  <2>2. up'[t] = <<Request>>
    BY <1>1 DEF OnlyUp
  <2>3. QED BY <1>4, <2>1, <2>2 DEF InOne, Token
<1>6. QED BY <1>1, <1>2, <1>5, DeviceKeeps DEF InOne

LEMMA StopOne ==
  ASSUME Inv, InOne, NEW d \in Devices, Stop(d)
  PROVE  InOne'
<1>1. /\ OnlyDown(d, <<>>) /\ stored' = stored /\ OnlyCall(d) /\ Fresh(call'[d]) /\ Send(d, Close)
  BY StopDoes
<1>2. ~Right(d)' /\ \A v \in Venue : ~Holds(d, v)'
  BY <1>1, EmptyFacts, PlainFacts DEF Fresh, Right, Holds, Venue, OnlyDown
<1>3. \A s \in Sockets : Plain(up'[s]) /\ \A v \in Venue : Brings(up'[s], v) => Token(v)
  BY <1>1, SentPlain, MessageFacts DEF Close, InOne, Token
<1>4. QED BY <1>1, <1>2, <1>3, DeviceKeeps, PlainFacts DEF OnlyDown

LEMMA KeepaliveOne ==
  ASSUME Inv, InOne, NEW d \in Devices, Keepalive(d)
  PROVE  InOne'
<1>1. Send(d, Msg("echo", 0)) /\ UNCHANGED <<call, down, stored>>
  BY DEF Keepalive
<1>2. \A s \in Sockets : Plain(up'[s]) /\ \A v \in Venue : Brings(up'[s], v) => Token(v)
  BY <1>1, SentPlain, MessageFacts DEF InOne, Token
<1>3. OnlyCall(d)
  BY <1>1, TypeFacts DEF OnlyCall, Inv
<1>4. Right(d)' <=> Right(d)
  BY <1>1 DEF Right
<1>5. \A v : Holds(d, v)' <=> Holds(d, v)
  BY <1>1 DEF Holds
<1>6. QED BY <1>1, <1>2, <1>3, <1>4, <1>5, DeviceKeeps DEF InOne, Token

LEMMA DeliverOne ==
  ASSUME Inv, InOne, Calliope, NEW d \in Devices, Deliver(d)
  PROVE  InOne'
<1>1. /\ down[d] # <<>> /\ down[d] \in Seq(Message) /\ OnlyDown(d, Tail(down[d])) /\ OnlyCall(d)
      /\ call'[d].flow = call[d].flow /\ up' = up /\ stored' = stored
      /\ Head(down[d]) \in Message /\ Head(down[d]).type \in {"join", "echo", "venue", "offer", "answer"}
  BY DeliverDoes
<1>2. /\ Plain(down'[d]) /\ Head(down[d]).type \notin {"offer", "answer"}
      /\ Elects(down[d]) <=> Head(down[d]) = Msg("join", 1) \/ Elects(down'[d])
      /\ \A v : Brings(down[d], v) <=> Head(down[d]) = Msg("venue", v) \/ Brings(down'[d], v)
  BY <1>1, PlainFacts DEF InOne, OnlyDown
<1>3. /\ call'[d].creating => call[d].creating \/ Head(down[d]) = Msg("join", 1)
      /\ \/ call'[d].pend = call[d].pend /\ call'[d].venue = call[d].venue
         \/ Head(down[d]) = Msg("venue", call'[d].venue)
  <2>1. Head(down[d]) = Msg(Head(down[d]).type, Head(down[d]).n)
    BY <1>1, MessageFacts
  <2>2. CASE Head(down[d]).type = "join"
    BY <2>1, <2>2, DeliverDoes
  <2>3. CASE Head(down[d]).type = "echo"
    BY <2>3, DeliverDoes
  <2>4. CASE Head(down[d]).type = "venue"
    BY <2>1, <2>4, DeliverDoes
  <2>5. QED BY <1>1, <1>2, <2>2, <2>3, <2>4
<1>4. Right(d)' => Right(d)
  BY <1>2, <1>3 DEF Right
<1>5. \A v : Holds(d, v)' => Holds(d, v)
  BY <1>1, <1>2, <1>3 DEF Holds
<1>6. QED BY <1>1, <1>2, <1>4, <1>5, DeviceKeeps DEF InOne, Token, OnlyDown

LEMMA SDPOne ==
  ASSUME Inv, InOne, Calliope, NEW d \in Devices, SDPReady(d)
  PROVE  InOne'
<1>1. /\ call[d].pend # <<>> /\ OnlyCall(d) /\ call'[d].venue = call[d].venue
      /\ call'[d].creating = call[d].creating /\ call'[d].flow \in {call[d].venue, call[d].flow}
      /\ up' = up /\ down' = down /\ stored' = stored
  BY SDPReadyDoes
<1>2. Right(d)' => Right(d)
  BY <1>1 DEF Right
<1>3. \A v : Holds(d, v)' => Holds(d, v)
  BY <1>1 DEF Holds
<1>4. QED BY <1>1, <1>2, <1>3, DeviceKeeps DEF InOne, Token

(* The device that may create the venue is the only one, and then it has none *)
(* of its own to create any more: the one count of its call has been heard.   *)
LEMMA VenueOne ==
  ASSUME Inv, InOne, NEW d \in Devices, VenueReady(d)
  PROVE  /\ InOne' /\ call[d].creating
         /\ \A v \in Venue : ~Token(v)
         /\ made + 1 \in Venue
<1>1. /\ call[d].creating /\ OnlyCall(d) /\ call'[d].flow = call[d].flow /\ call'[d].venue = made + 1
      /\ ~call'[d].creating /\ Send(d, Msg("venue", made + 1)) /\ UNCHANGED <<room, down, peers, stored, hasty>>
  BY VenueReadyDoes
<1>2. made + 1 \in Venue
  <2>1. made \in Nat
    BY TypeFacts DEF Inv
  <2>2. QED BY <2>1 DEF Venue, None
<1>3. PICK m \in Message : m = Msg("venue", made + 1) /\ m.type = "venue"
  BY <1>2, MessageFacts DEF Venue
<1>4. \A v : m = Msg("venue", v) <=> v = made + 1
  BY <1>3, MessageFacts
<1>5. Right(d) /\ \A v \in Venue : ~Token(v)
  BY <1>1 DEF Right, InOne
<1>6. ASSUME NEW s \in Sockets
      PROVE  Plain(up'[s]) /\ \A v \in Venue : Brings(up'[s], v) => v = made + 1
  <2>1. Plain(up[s]) /\ up[s] \in Seq(Message) /\ \A v \in Venue : ~Brings(up[s], v)
    BY <1>5, TypeFacts DEF InOne, Token, Inv
  <2>2. CASE up'[s] = up[s]
    BY <2>1, <2>2
  <2>3. CASE up'[s] = Append(up[s], m)
    <3>1. None # made + 1
      BY <1>2 DEF Venue
    <3>2. QED BY <1>3, <1>4, <2>1, <2>3, <3>1, HasAppend DEF Plain
  <2>4. QED BY <1>1, <1>3, <2>2, <2>3, SendDoes DEF OnlyUp
<1>7. \A e \in Devices : ~Right(e)'
  <2>1. Seated(d) /\ down'[d] = down[d]
    BY <1>1 DEF Inv
  <2>2. call[d].startedCall
    BY <1>1, <2>1 DEF Seated
  <2>3. ~Elects(down[d])
    BY <2>1, <2>2, MessageFacts DEF Seated, Elects
  <2>4. ~Right(d)'
    BY <1>1, <2>1, <2>3 DEF Right
  <2>5. ASSUME NEW e \in Devices, e # d PROVE ~Right(e)'
    BY <1>1, <1>5, <2>5 DEF Right, InOne, OnlyCall
  <2>6. QED BY <2>4, <2>5
<1>8. ASSUME NEW v \in Venue, Token(v)' PROVE v = made + 1
  <2>1. \A e \in Devices : ~Holds(e, v) /\ v # stored
    BY <1>5 DEF Token
  <2>2. \A e \in Devices : Holds(e, v)' => v = made + 1
    BY <1>1, <2>1 DEF Holds, OnlyCall
  <2>3. v # stored'
    BY <1>1, <1>5 DEF Token
  <2>4. QED BY <1>6, <1>8, <2>2, <2>3 DEF Token
<1>9. \A e \in Devices : Plain(down'[e])
  BY <1>1 DEF InOne
<1>10. QED BY <1>1, <1>2, <1>5, <1>6, <1>7, <1>8, <1>9 DEF InOne

(* What the server does to the tokens: it takes those of the message it reads *)
(* and of its own, and gives them to those it tells.                          *)
LEMMA ServerKeeps ==
  ASSUME Inv, InOne, NEW s \in Sockets, Server(s),
         \A e \in Devices : Plain(down'[e]) /\ \A v \in Venue : Brings(down'[e], v) => Token(v),
         \A e \in Devices : Elects(down'[e]) => Elects(down[e]),
         stored' \in Venue => Token(stored')
  PROVE  InOne'
<1>1. up[s] # <<>> /\ up[s] \in Seq(Message) /\ OnlyUp(s, Tail(up[s])) /\ call' = call
  BY ServerDoes
<1>2. ASSUME NEW t \in Sockets PROVE Plain(up'[t]) /\ \A v : Brings(up'[t], v) => Brings(up[t], v)
  <2>1. CASE t = s
    BY <1>1, <2>1, PlainTail DEF OnlyUp, InOne
  <2>2. CASE t # s
    BY <1>1, <2>2 DEF OnlyUp, InOne
  <2>3. QED BY <2>1, <2>2
<1>3. \A e \in Devices : Right(e)' => Right(e)
  BY <1>1 DEF Right
<1>4. ASSUME NEW v \in Venue, Token(v)' PROVE Token(v)
  <2>1. ASSUME NEW e \in Devices, Holds(e, v)' PROVE Token(v)
    <3>1. Brings(down'[e], v) => Token(v)
      OBVIOUS
    <3>2. ~Brings(down'[e], v) => Holds(e, v)
      BY <1>1, <2>1 DEF Holds
    <3>3. QED BY <3>1, <3>2 DEF Token
  <2>2. \A t \in Sockets : Brings(up'[t], v) => Token(v)
    BY <1>2 DEF Token
  <2>3. v = stored' => Token(v)
    BY <1>4
  <2>4. QED BY <1>4, <2>1, <2>2, <2>3 DEF Token
<1>5. QED BY <1>2, <1>3, <1>4, InOneKept

(* In a room without a counted socket nobody knows a venue or may create one. *)
LEMMA EmptyRoom ==
  ASSUME Inv, room = "calliope", peers = {}
  PROVE  /\ \A d \in Devices : ~Right(d)
         /\ \A v \in Venue : ~Token(v)
<1>1. ASSUME NEW d \in Devices PROVE Fresh(call[d]) /\ down[d] = <<>>
  <2>1. Seated(d) /\ Socket(d) \notin peers
    BY DEF Inv
  <2>2. QED BY <2>1 DEF Seated
<1>2. ASSUME NEW d \in Devices PROVE ~Right(d) /\ \A v \in Venue : ~Holds(d, v)
  BY <1>1, EmptyFacts, PlainFacts DEF Right, Holds, Fresh, Venue
<1>3. ASSUME NEW s \in Sockets, NEW v \in Venue PROVE ~Brings(up[s], v)
  <2>1. up[s] \in {<<>>, <<Request>>, <<Request, Close>>}
    BY DEF Inv, Wired
  <2>2. ASSUME NEW i \in DOMAIN up[s] PROVE up[s][i] \in {Request, Close}
    BY <2>1
  <2>3. Request # Msg("venue", v) /\ Close # Msg("venue", v)
    BY DEF Request, Close, Msg
  <2>4. QED BY <2>2, <2>3 DEF Brings
<1>4. stored = None
  BY DEF Inv, Typed, TypeOK
<1>5. QED BY <1>2, <1>3, <1>4 DEF Token, Venue

LEMMA GreetingPlain ==
  ASSUME Typed, NEW n \in Nat
  PROVE  /\ Plain(Greeting(n))
         /\ \A v : Brings(Greeting(n), v) => v = stored /\ stored # None
         /\ Elects(Greeting(n)) => n = 1
<1>1. \A i \in DOMAIN Greeting(n) :
        Greeting(n)[i] = Msg("join", n) \/ (stored # None /\ Greeting(n)[i] = Msg("venue", stored))
  BY GreetingFacts
<1>2. \A v : Brings(Greeting(n), v) => v = stored /\ stored # None
  BY <1>1, MessageFacts DEF Brings
<1>3. Elects(Greeting(n)) => n = 1
  BY <1>1, MessageFacts DEF Elects
<1>4. ~Has(Greeting(n), "offer") /\ ~Has(Greeting(n), "answer")
  BY <1>1, MessageFacts DEF Has
<1>5. QED BY <1>2, <1>3, <1>4 DEF Plain

LEMMA RequestOne ==
  ASSUME Inv, InOne, room = "calliope", NEW s \in Sockets, Server(s), OnRequest(s)
  PROVE  InOne'
<1>1. /\ stored' = stored /\ (Live(s) => \E n \in Nat : (n = 1 => peers = {}) /\ OnlyDown(s[1], Greeting(n)))
      /\ ~Live(s) => down' = down
  BY RequestDoes
<1>2. s[1] \in Devices /\ UNCHANGED <<room, call>>
  BY ServerDoes DEF Sockets
<1>3. stored' \in Venue => Token(stored')
  BY <1>1 DEF Token
<1>4. CASE ~Live(s)
  BY <1>1, <1>3, <1>4, ServerKeeps DEF InOne, Token, Holds
<1>5. ASSUME NEW n \in Nat, n = 1 => peers = {}, OnlyDown(s[1], Greeting(n)) PROVE InOne'
  <2>1. /\ Plain(Greeting(n)) /\ (Elects(Greeting(n)) => n = 1)
        /\ \A v : Brings(Greeting(n), v) => v = stored /\ stored # None
    BY GreetingPlain DEF Inv
  <2>2. /\ \A e \in Devices : Plain(down'[e]) /\ \A v \in Venue : Brings(down'[e], v) => Token(v)
        /\ \A e \in Devices : Elects(down'[e]) => Elects(down[e]) \/ (e = s[1] /\ n = 1)
    <3>1. ASSUME NEW e \in Devices, e # s[1] PROVE down'[e] = down[e]
      BY <1>5, <3>1 DEF OnlyDown
    <3>2. down'[s[1]] = Greeting(n)
      BY <1>5 DEF OnlyDown
    <3>3. QED BY <2>1, <3>1, <3>2 DEF InOne, Token, Holds
  <2>3. CASE n # 1
    BY <1>3, <2>2, <2>3, ServerKeeps
  <2>4. CASE n = 1
    <3>1. /\ \A d \in Devices : ~Right(d)
          /\ \A v \in Venue : ~Token(v)
      BY <1>5, <2>4, EmptyRoom
    <3>2. \A e \in Devices : Right(e)' => e = s[1]
      BY <1>2, <2>2, <3>1 DEF Right
    <3>3. up[s] # <<>> /\ up[s] \in Seq(Message) /\ OnlyUp(s, Tail(up[s]))
      BY ServerDoes
    <3>4. ASSUME NEW t \in Sockets PROVE Plain(up'[t]) /\ \A v : Brings(up'[t], v) => Brings(up[t], v)
      <4>1. CASE t = s
        BY <3>3, <4>1, PlainTail DEF OnlyUp, InOne
      <4>2. CASE t # s
        BY <3>3, <4>2 DEF OnlyUp, InOne
      <4>3. QED BY <4>1, <4>2
    <3>5. ASSUME NEW v \in Venue PROVE ~Token(v)'
      <4>1. \A t \in Sockets : ~Brings(up'[t], v)
        BY <3>1, <3>4 DEF Token
      <4>2. \A e \in Devices : ~Holds(e, v) /\ ~Brings(down'[e], v)
        BY <2>2, <3>1 DEF Token
      <4>3. \A e \in Devices : ~Holds(e, v)'
        BY <1>2, <4>2 DEF Holds
      <4>4. v # stored'
        BY <1>1, <3>1 DEF Token
      <4>5. QED BY <4>1, <4>3, <4>4 DEF Token
    <3>6. QED BY <2>2, <3>2, <3>4, <3>5 DEF InOne
  <2>5. QED BY <2>3, <2>4
<1>6. QED BY <1>1, <1>4, <1>5

LEMMA MessageOne ==
  ASSUME Inv, InOne, NEW s \in Sockets, Server(s), OnMessage(s)
  PROVE  InOne' /\ Head(up[s]).type \notin {"offer", "answer"}
<1>1. up[s] # <<>> /\ up[s] \in Seq(Message) /\ Head(up[s]) \in Message
  BY ServerDoes
<1>2. PICK m \in Message : m = Head(up[s])
  BY <1>1
<1>3. /\ m.type \notin {"offer", "answer"} /\ m # Msg("venue", None)
      /\ \A v : m = Msg("venue", v) => Brings(up[s], v)
  BY <1>1, <1>2, PlainFacts DEF InOne
<1>4. \A e \in Devices : down[e] \in Seq(Message)
  BY TypeFacts DEF Inv
<1>5. s[1] \in Devices
  BY DEF Sockets
<1>6. CASE m.type = "echo"
  <2>1. PICK n \in Nat : Live(s) => OnlyDown(s[1], Append(down[s[1]], Msg("echo", n)))
    BY <1>2, <1>6, EchoDoes
  <2>2. stored' = stored /\ (~Live(s) => down' = down)
    BY <1>2, <1>6, EchoDoes
  <2>3. Msg("echo", n) \in Message /\ Msg("echo", n).type = "echo"
    BY MessageFacts
  <2>4. ASSUME NEW e \in Devices
        PROVE  /\ Plain(down'[e]) /\ (Elects(down'[e]) <=> Elects(down[e]))
               /\ \A v : Brings(down'[e], v) <=> Brings(down[e], v)
    <3>1. CASE down'[e] = down[e]
      BY <3>1 DEF InOne
    <3>2. CASE down'[e] = Append(down[e], Msg("echo", n))
      BY <1>4, <2>3, <3>2, PlainAppend DEF InOne
    <3>3. QED BY <2>1, <2>2, <3>1, <3>2 DEF OnlyDown
  <2>5. QED BY <1>3, <1>2, <2>2, <2>4, ServerKeeps DEF Token, Holds
<1>7. CASE m.type # "echo"
  <2>1. /\ m.type = "venue" /\ stored' = m.n /\ m.n \in Nat /\ m = Msg("venue", m.n)
        /\ \A e \in Devices : down'[e] \in {down[e], Append(down[e], m)}
    <3>1. m.type = "venue"
      BY <1>2, <1>3, <1>7, RelayDoes
    <3>2. m.n \in Nat /\ m = Msg("venue", m.n)
      BY <3>1, MessageFacts
    <3>3. QED BY <1>2, <1>7, <3>1, <3>2, RelayDoes
  <2>2. m.n \in Venue /\ Token(m.n)
    BY <1>3, <2>1 DEF Venue, Token
  <2>3. \A v : m = Msg("venue", v) <=> v = m.n
    BY <2>1, MessageFacts
  <2>4. ASSUME NEW e \in Devices
        PROVE  /\ Plain(down'[e]) /\ (Elects(down'[e]) => Elects(down[e]))
               /\ \A v \in Venue : Brings(down'[e], v) => Token(v)
    <3>1. CASE down'[e] = down[e]
      BY <3>1 DEF InOne, Token, Holds
    <3>2. CASE down'[e] = Append(down[e], m)
      <4>1. Plain(down'[e]) /\ \A v : Brings(down'[e], v) => Brings(down[e], v) \/ v = m.n
        BY <1>4, <2>1, <2>2, <2>3, <3>2, HasAppend DEF Plain, InOne, Venue
      <4>2. m # Msg("join", 1)
        BY <2>1, MessageFacts
      <4>3. Elects(down'[e]) => Elects(down[e])
        BY <1>4, <3>2, <4>2, AppendFacts DEF Elects
      <4>4. QED BY <2>2, <4>1, <4>3 DEF Token, Holds
    <3>3. QED BY <2>1, <3>1, <3>2
  <2>5. QED BY <1>2, <1>3, <2>1, <2>2, <2>4, ServerKeeps
<1>8. QED BY <1>6, <1>7

LEMMA CloseOne ==
  ASSUME Inv, InOne, NEW s \in Sockets, Server(s), OnClose(s)
  PROVE  InOne'
<1>1. down' = down /\ stored' \in {None, stored}
  BY CloseDoes
<1>2. QED BY <1>1, ServerKeeps DEF InOne, Token, Holds, Venue

(* Nobody else uses a venue that is deleted: the head count of who deletes it *)
(* is right when nobody stops hastily, and so is at most 1 only if he is the  *)
(* last one.                                                                  *)
Alive == room = "calliope" /\ ~hasty =>
  \A d \in Devices : call[d].flow # None => call[d].flow \in venues

(* Without calliope there are no venues. *)
NoVenue == ~Calliope => venues = {} /\ \A d \in Devices : ~call[d].creating /\ call[d].flow = None

LEMMA OneNext == Inv /\ OneVenue /\ [Next]_vars => OneVenue'
<1> SUFFICES ASSUME Inv, OneVenue, [Next]_vars, room' = "calliope" PROVE InOne'
  BY DEF OneVenue
<1>1. room' = room
  BY DEF Next, vars, Start, Stop, Lose, Keepalive, Deliver, VenueReady, SDPReady, Server
<1>2. InOne /\ Calliope
  BY <1>1 DEF OneVenue, Calliope
<1>3. ASSUME NEW s \in Sockets, Server(s) PROVE InOne'
  BY <1>1, <1>2, <1>3, ServerDoes, RequestOne, MessageOne, CloseOne
<1>4. ASSUME NEW d \in Devices, Lose(d) PROVE InOne'
  BY <1>1, <1>4 DEF Lose
<1>5. CASE Next
  BY <1>2, <1>3, <1>4, <1>5, StartOne, StopOne, KeepaliveOne, DeliverOne, VenueOne, SDPOne DEF Next
<1>6. CASE UNCHANGED vars
  <2>1. \A d \in Devices : Right(d)' <=> Right(d)
    BY <1>6 DEF vars, Right
  <2>2. \A v : Token(v)' <=> Token(v)
    BY <1>6 DEF vars, Token, Holds
  <2>3. QED BY <1>2, <1>6, <2>1, <2>2, InOneKept DEF InOne, vars
<1>7. QED BY <1>5, <1>6

(* Two counted sockets make a count of at least two. *)
LEMMA TwoCounted ==
  ASSUME Typed, NEW s \in peers, NEW t \in peers, s # t
  PROVE  ~(Cardinality(peers) <= 1)
<1>1. IsFiniteSet(peers)
  BY DEF Typed
<1>2. {s, t} \subseteq peers
  OBVIOUS
<1>3. IsFiniteSet({s, t}) /\ Cardinality({s, t}) = 2
  <2>1. IsFiniteSet({s}) /\ Cardinality({s}) = 1
    BY FS_Singleton
  <2>2. t \notin {s} /\ {s} \cup {t} = {s, t}
    OBVIOUS
  <2>3. QED BY <2>1, <2>2, FS_AddElement
<1>4. Cardinality({s, t}) <= Cardinality(peers) /\ Cardinality(peers) \in Nat
  BY <1>1, <1>2, FS_Subset, FS_CardinalityType
<1>5. QED BY <1>3, <1>4

(* Who stops without haste knows the count, and nothing is under way. *)
LEMMA CalmStop ==
  ASSUME Inv, Calm, NEW d \in Devices, Stop(d), ~hasty'
  PROVE  /\ ~hasty /\ Settled /\ call[d].linked /\ call[d].myId = Cardinality(peers)
         /\ Socket(d) \in peers /\ Socket(d) \in Sockets
<1>1. call[d].active /\ hasty' = (hasty \/ ~Settled \/ (call[d].linked /\ call[d].myId # Cardinality(peers)))
  BY StopDoes
<1>2. Seated(d)
  BY DEF Inv
<1>3. call[d].linked /\ call[d].opens # 0
  BY <1>1, <1>2 DEF Seated, Calm
<1>4. Socket(d) \in Sockets
  BY <1>3, TypeFacts DEF Inv
<1>5. Socket(d)[1] = d
  BY DEF Socket
<1>6. Live(Socket(d)) /\ Wired(Socket(d)) /\ Settled /\ up[Socket(d)] = <<>>
  BY <1>1, <1>3, <1>4, <1>5 DEF Live, Inv, Settled
<1>7. QED BY <1>1, <1>3, <1>4, <1>6 DEF Wired

LEMMA AliveNext == Inv /\ Alive /\ [Next]_vars => Alive'
<1> SUFFICES ASSUME Inv, Alive, [Next]_vars, room' = "calliope", ~hasty', NEW e \in Devices, call'[e].flow # None
             PROVE  call'[e].flow \in venues'
  BY DEF Alive
<1>0. room = "calliope" /\ Calliope
  BY DEF Next, vars, Start, Stop, Lose, Keepalive, Deliver, VenueReady, SDPReady, Server, Calliope
<1>1. ASSUME NEW d \in Devices, Start(d) PROVE call'[e].flow \in venues'
  <2>1. OnlyCall(d) /\ Fresh(call'[d]) /\ venues' = venues /\ hasty' = hasty
    BY <1>1, StartDoes
  <2>2. QED BY <1>0, <2>1 DEF Alive, OnlyCall, Fresh
<1>2. ASSUME NEW d \in Devices, Stop(d) PROVE call'[e].flow \in venues'
  <2>1. /\ OnlyCall(d) /\ Fresh(call'[d])
        /\ venues' = IF call[d].flow # None /\ DeletesVenue(d) THEN venues \ {call[d].flow} ELSE venues
    BY <1>2, StopDoes
  <2>2. ~hasty /\ call[d].linked /\ call[d].myId = Cardinality(peers) /\ Socket(d) \in peers
    BY <1>0, <1>2, CalmStop DEF Calm
  <2>3. e # d /\ call'[e] = call[e]
    BY <2>1 DEF OnlyCall, Fresh
  <2>4. call[e].linked /\ Socket(e) \in peers
    <3>1. ~Fresh(call[e])
      BY <2>3 DEF Fresh
    <3>2. call[e].active /\ (call[e].linked => Socket(e) \in peers)
      BY <3>1, Heard
    <3>3. Seated(e)
      BY DEF Inv
    <3>4. QED BY <1>0, <3>2, <3>3 DEF Seated
  <2>5. Socket(d) # Socket(e)
    BY <2>3 DEF Socket
  <2>6. ~DeletesVenue(d)
    BY <2>2, <2>4, <2>5, TwoCounted DEF DeletesVenue, Inv
  <2>7. QED BY <1>0, <2>1, <2>2, <2>3, <2>6 DEF Alive
<1>3. ASSUME NEW d \in Devices, Lose(d) PROVE call'[e].flow \in venues'
  BY <1>0, <1>3 DEF Lose
<1>4. ASSUME NEW d \in Devices, Keepalive(d) PROVE call'[e].flow \in venues'
  BY <1>0, <1>4 DEF Keepalive, Alive
<1>5. ASSUME NEW d \in Devices, Deliver(d) PROVE call'[e].flow \in venues'
  <2>1. OnlyCall(d) /\ call'[d].flow = call[d].flow /\ venues' = venues /\ hasty' = hasty
    BY <1>5, DeliverDoes
  <2>2. QED BY <1>0, <2>1 DEF Alive, OnlyCall
<1>6. ASSUME NEW d \in Devices, VenueReady(d) PROVE call'[e].flow \in venues'
  <2>1. OnlyCall(d) /\ call'[d].flow = call[d].flow /\ venues' = venues \cup {made + 1} /\ hasty' = hasty
    BY <1>6, VenueReadyDoes
  <2>2. QED BY <1>0, <2>1 DEF Alive, OnlyCall
<1>7. ASSUME NEW d \in Devices, SDPReady(d) PROVE call'[e].flow \in venues'
  <2>1. /\ OnlyCall(d) /\ venues' = venues /\ hasty' = hasty
        /\ call'[d].flow = IF call[d].venue \in venues THEN call[d].venue ELSE call[d].flow
    BY <1>0, <1>7, SDPReadyDoes
  <2>2. QED BY <1>0, <2>1 DEF Alive, OnlyCall
<1>8. ASSUME NEW s \in Sockets, Server(s) PROVE call'[e].flow \in venues'
  BY <1>0, <1>8, ServerDoes DEF Alive
<1>9. CASE UNCHANGED vars
  BY <1>0, <1>9 DEF Alive, vars
<1>10. QED BY <1>1, <1>2, <1>3, <1>4, <1>5, <1>6, <1>7, <1>8, <1>9 DEF Next

LEMMA NoVenueNext == Inv /\ NoVenue /\ [Next]_vars => NoVenue'
<1> SUFFICES ASSUME Inv, NoVenue, [Next]_vars, ~Calliope'
             PROVE  venues' = {} /\ \A e \in Devices : ~call'[e].creating /\ call'[e].flow = None
  BY DEF NoVenue
<1>0. ~Calliope /\ venues = {} /\ \A e \in Devices : ~call[e].creating /\ call[e].flow = None
  BY DEF Next, vars, Start, Stop, Lose, Keepalive, Deliver, VenueReady, SDPReady, Server, Calliope, NoVenue
<1>1. ASSUME NEW d \in Devices, Start(d) \/ Stop(d)
      PROVE  venues' = {} /\ \A e \in Devices : ~call'[e].creating /\ call'[e].flow = None
  BY <1>0, <1>1, StartDoes, StopDoes DEF OnlyCall, Fresh
<1>2. ASSUME NEW d \in Devices, Lose(d)
      PROVE  venues' = {} /\ \A e \in Devices : ~call'[e].creating /\ call'[e].flow = None
  <2>1. OnlyCall(d) /\ call'[d] = [call[d] EXCEPT !.linked = FALSE] /\ venues' = venues
    BY <1>2, LoseDoes
  <2>2. call[d] \in CallType
    BY TypeFacts DEF Inv
  <2>3. call'[d].creating = call[d].creating /\ call'[d].flow = call[d].flow
    BY <2>1, <2>2 DEF CallType
  <2>4. QED BY <1>0, <2>1, <2>3 DEF OnlyCall
<1>3. ASSUME NEW d \in Devices, Keepalive(d)
      PROVE  venues' = {} /\ \A e \in Devices : ~call'[e].creating /\ call'[e].flow = None
  BY <1>0, <1>3 DEF Keepalive
<1>4. ASSUME NEW d \in Devices, Deliver(d)
      PROVE  venues' = {} /\ \A e \in Devices : ~call'[e].creating /\ call'[e].flow = None
  <2>1. OnlyCall(d) /\ call'[d].flow = call[d].flow /\ venues' = venues
    BY <1>4, DeliverDoes
  <2>2. ~call'[d].creating
    BY <1>0, <1>4, DeliverDoes
  <2>3. QED BY <1>0, <2>1, <2>2 DEF OnlyCall
<1>5. ASSUME NEW d \in Devices, VenueReady(d)
      PROVE  venues' = {} /\ \A e \in Devices : ~call'[e].creating /\ call'[e].flow = None
  BY <1>0, <1>5 DEF VenueReady
<1>6. ASSUME NEW d \in Devices, SDPReady(d)
      PROVE  venues' = {} /\ \A e \in Devices : ~call'[e].creating /\ call'[e].flow = None
  <2>1. OnlyCall(d) /\ call'[d].flow = call[d].flow /\ call'[d].creating = call[d].creating /\ venues' = venues
    BY <1>0, <1>6, SDPReadyDoes
  <2>2. QED BY <1>0, <2>1 DEF OnlyCall
<1>7. ASSUME NEW s \in Sockets, Server(s)
      PROVE  venues' = {} /\ \A e \in Devices : ~call'[e].creating /\ call'[e].flow = None
  BY <1>0, <1>7, ServerDoes
<1>8. CASE UNCHANGED vars
  BY <1>0, <1>8 DEF vars
<1>9. QED BY <1>1, <1>2, <1>3, <1>4, <1>5, <1>6, <1>7, <1>8 DEF Next

LEMMA InitVenues == Init => OneVenue /\ Alive /\ NoVenue
<1> SUFFICES ASSUME Init PROVE OneVenue /\ Alive /\ NoVenue
  OBVIOUS
<1>1. \A d \in Devices : Fresh(call[d]) /\ down[d] = <<>>
  BY DEF Init, Fresh
<1>2. /\ \A s \in Sockets : up[s] = <<>>
      /\ stored = None /\ venues = {}
  BY DEF Init
<1>3. \A d \in Devices : ~Right(d) /\ \A v \in Venue : ~Holds(d, v)
  BY <1>1, EmptyFacts, PlainFacts DEF Right, Holds, Fresh, Venue
<1>4. \A v \in Venue : ~Token(v)
  BY <1>2, <1>3, EmptyFacts DEF Token, Venue
<1>5. InOne
  BY <1>1, <1>2, <1>3, <1>4, PlainFacts DEF InOne
<1>6. QED BY <1>1, <1>2, <1>5 DEF OneVenue, Alive, NoVenue, Fresh

(* All confluences of a calm room are in one venue, for any number of devices *)
(* and calls, and unless somebody stopped hastily it has not been deleted,    *)
(* though stopPeer decides that by the head count it was last told.           *)
THEOREM OneVenueAlways == Spec => []OneVenueAlive
<1>1. Inv /\ OneVenue /\ Alive /\ NoVenue => OneVenueAlive
  <2> SUFFICES ASSUME Inv, OneVenue, Alive, NoVenue, Calm, NEW d \in Devices, NEW e \in Devices,
                      call[d].flow # None, call[e].flow # None
               PROVE  call[d].flow = call[e].flow /\ (~hasty => call[d].flow \in venues)
    BY DEF OneVenueAlive
  <2>1. room = "calliope"
    BY DEF Calm, NoVenue, Calliope
  <2>2. call[d].flow \in Venue /\ call[e].flow \in Venue
    <3>1. \A c \in CallType : c.flow \in Nat
      BY DEF CallType
    <3>2. QED BY <3>1, TypeFacts DEF Inv, Venue
  <2>3. Token(call[d].flow) /\ Token(call[e].flow)
    BY DEF Token, Holds
  <2>4. QED BY <2>1, <2>2, <2>3 DEF OneVenue, InOne, Alive
<1>2. QED BY <1>1, InitInv, NextInv, InitVenues, OneNext, AliveNext, NoVenueNext, PTL DEF Spec

-----------------------------------------------------------------------------
(* No ghosts, if nobody stops hastily in a calm room.  A socket whose close is *)
(* all that is left is counted only while every device in the room is, so     *)
(* nobody starts before the server has read that close.                       *)
Leaving(s) ==
  /\ up[s] = <<Close>>
  /\ ~call[s[1]].active /\ call[s[1]].opens # 0
  /\ \A d \in Devices : call[d].active => Socket(d) \in peers

Tidy == \A s \in Sockets : ~Live(s) => (s \in peers /\ Leaving(s)) \/ (s \notin peers /\ up[s] = <<>>)

NoGhost == Calm /\ ~hasty => Tidy

LEMMA ActiveLive ==
  ASSUME Inv, Calm, NEW d \in Devices, call[d].active
  PROVE  call[d].linked /\ Socket(d) \in Sockets /\ Live(Socket(d)) /\ Socket(d)[1] = d
<1>1. Seated(d)
  BY DEF Inv
<1>2. call[d].linked /\ Socket(d) \in Sockets
  BY <1>1, TypeFacts DEF Seated, Inv, Calm
<1>3. QED BY <1>2 DEF Live, Socket

LEMMA LiveActive ==
  ASSUME Inv, NEW s \in Sockets, Live(s)
  PROVE  s[1] \in Devices /\ call[s[1]].active /\ s = Socket(s[1])
<1>1. s[1] \in Devices
  BY DEF Sockets
<1>2. QED BY <1>1 DEF Live, Inv, Seated

LEMMA StartTidy ==
  ASSUME Inv, Tidy, Calm, NEW d \in Devices, Start(d)
  PROVE  Tidy' /\ \A s \in Sockets : ~Leaving(s)
<1>0. PICK t : t = <<d, call'[d].opens>>
  OBVIOUS
<1>1. /\ ~call[d].active /\ ~call[d].linked /\ OnlyCall(d) /\ call'[d].linked /\ call'[d].active
      /\ call'[d].opens = call[d].opens + 1 /\ call'[d].opens \in 1..MaxOpens
      /\ OnlyUp(t, <<Request>>) /\ peers' = peers
  BY <1>0, StartDoes
<1>2. t[1] = d /\ t = Socket(d)' /\ Live(t)'
  BY <1>0, <1>1 DEF Socket, Live
<1>3. \A s \in Sockets : ~Leaving(s)
  <2>1. Settled \/ \A e \in Devices : call[e].active \/ call[e].opens = 0
    BY DEF Start
  <2>2. CASE Settled
    BY <2>2 DEF Settled, Leaving
  <2>3. CASE \A e \in Devices : call[e].active \/ call[e].opens = 0
    <3>1. \A s \in Sockets : s[1] \in Devices
      BY DEF Sockets
    <3>2. QED BY <2>3, <3>1 DEF Leaving
  <2>4. QED BY <2>1, <2>2, <2>3
<1>4. ASSUME NEW s \in Sockets, ~Live(s)' PROVE s \notin peers' /\ up'[s] = <<>>
  <2>1. s # t
    BY <1>2, <1>4
  <2>2. ~Live(s)
    <3>1. CASE s[1] = d
      BY <1>1, <3>1 DEF Live
    <3>2. CASE s[1] # d
      <4>1. call'[s[1]] = call[s[1]]
        BY <1>1, <3>2 DEF OnlyCall, Sockets
      <4>2. QED BY <1>4, <4>1 DEF Live, Socket
    <3>3. QED BY <3>1, <3>2
  <2>3. QED BY <1>1, <1>3, <2>1, <2>2 DEF Tidy, OnlyUp
<1>5. QED BY <1>3, <1>4 DEF Tidy

LEMMA StopTidy ==
  ASSUME Inv, Tidy, Calm, NEW d \in Devices, Stop(d), ~hasty'
  PROVE  /\ Tidy'
         /\ \A e \in Devices : call[e].active => Socket(e) \in peers
         /\ \A s \in Sockets : ~Live(s) => s \notin peers
<1>1. /\ call[d].active /\ OnlyCall(d) /\ ~call'[d].active /\ ~call'[d].linked
      /\ call'[d].opens = call[d].opens /\ Send(d, Close) /\ peers' = peers
  BY StopDoes
<1>2. Settled /\ call[d].linked /\ Socket(d) \in peers /\ Socket(d) \in Sockets
  BY CalmStop
<1>3. \A s \in Sockets : up[s] = <<>>
  BY <1>2 DEF Settled
<1>4. PICK t \in Sockets : t = Socket(d)
  BY <1>2
<1>5. /\ t[1] = d /\ OnlyUp(t, <<Close>>) /\ call'[d].opens # 0
  <2>1. OnlyUp(t, Append(up[t], Close))
    BY <1>1, <1>2, <1>4, SendDoes, MessageFacts
  <2>2. Append(<<>>, Close) = <<Close>>
    OBVIOUS
  <2>3. call[d].opens # 0
    BY <1>2 DEF Inv, Seated
  <2>4. QED BY <1>1, <1>3, <1>4, <2>1, <2>2, <2>3 DEF Socket
<1>6. ASSUME NEW e \in Devices, call[e].active PROVE Socket(e) \in peers
  <2>1. Socket(e) \in Sockets /\ Live(Socket(e))
    BY <1>6, ActiveLive
  <2>2. Wired(Socket(e)) /\ up[Socket(e)] = <<>>
    BY <1>3, <2>1 DEF Inv
  <2>3. QED BY <2>1, <2>2 DEF Wired
<1>7. \A s \in Sockets : ~Live(s) => s \notin peers
  BY <1>3 DEF Tidy, Leaving
<1>8. ASSUME NEW s \in Sockets, ~Live(s)'
      PROVE  (s \in peers' /\ Leaving(s)') \/ (s \notin peers' /\ up'[s] = <<>>)
  <2>1. CASE s = t
    <3>1. up'[s] = <<Close>> /\ ~call'[s[1]].active /\ call'[s[1]].opens # 0
      BY <1>1, <1>5, <2>1 DEF OnlyUp
    <3>2. ASSUME NEW e \in Devices, call'[e].active PROVE Socket(e)' \in peers'
      <4>1. call'[e] = call[e] /\ Socket(e)' = Socket(e)
        BY <1>1, <3>2 DEF OnlyCall, Socket
      <4>2. QED BY <1>1, <1>6, <3>2, <4>1
    <3>3. QED BY <1>1, <1>2, <1>4, <2>1, <3>1, <3>2 DEF Leaving
  <2>2. CASE s # t
    <3>1. ~Live(s)
      <4>1. CASE s[1] = d
        BY <1>4, <2>2, <4>1 DEF Live
      <4>2. CASE s[1] # d
        <5>1. call'[s[1]] = call[s[1]]
          BY <1>1, <4>2 DEF OnlyCall, Sockets
        <5>2. QED BY <1>8, <5>1 DEF Live, Socket
      <4>3. QED BY <4>1, <4>2
    <3>2. QED BY <1>1, <1>3, <1>5, <1>7, <2>2, <3>1 DEF OnlyUp
  <2>3. QED BY <2>1, <2>2
<1>9. QED BY <1>6, <1>7, <1>8 DEF Tidy

LEMMA DeviceTidy ==
  ASSUME Inv, Tidy, NEW d \in Devices, OnlyCall(d), Same(call'[d], call[d]), peers' = peers,
         \A s \in Sockets : ~Live(s) => up'[s] = up[s]
  PROVE  Tidy'
<1>1. \A e \in Devices : call'[e].active = call[e].active /\ call'[e].opens = call[e].opens /\ Socket(e)' = Socket(e)
  BY DEF OnlyCall, Same, Socket
<1>2. ASSUME NEW s \in Sockets, ~Live(s)'
      PROVE  (s \in peers' /\ Leaving(s)') \/ (s \notin peers' /\ up'[s] = <<>>)
  <2>1. ~Live(s) /\ up'[s] = up[s] /\ s[1] \in Devices
    BY <1>2, LiveSame DEF Sockets
  <2>2. Leaving(s) => Leaving(s)'
    BY <1>1, <2>1 DEF Leaving
  <2>3. QED BY <2>1, <2>2 DEF Tidy
<1>3. QED BY <1>2 DEF Tidy

(* Every socket the server still hears of is live, or all but closed.         *)
LEMMA ReadLive ==
  ASSUME Inv, Tidy, NEW s \in Sockets, Server(s)
  PROVE  /\ Live(s) \/ (s \in peers /\ Leaving(s) /\ Head(up[s]).type = "close")
         /\ OnClose(s) => ~Live(s)
<1>1. up[s] # <<>>
  BY ServerDoes
<1>2. ~Live(s) => s \in peers /\ Leaving(s)
  BY <1>1 DEF Tidy
<1>3. Leaving(s) => Head(up[s]).type = "close"
  BY MessageFacts DEF Leaving, Close
<1>4. QED BY <1>2, <1>3, CloseDoes

LEMMA ServerTidy ==
  ASSUME Inv, Tidy, Calm, NEW s \in Sockets, Server(s)
  PROVE  Tidy'
<1>1. /\ up[s] # <<>> /\ OnlyUp(s, Tail(up[s])) /\ UNCHANGED call /\ s[1] \in Devices
      /\ OnRequest(s) \/ OnMessage(s) \/ OnClose(s)
  BY ServerDoes DEF Sockets
<1>2. \A e \in Devices : Socket(e)' = Socket(e) /\ (call[e].active => Socket(e) \in Sockets /\ Live(Socket(e)))
  BY <1>1, ActiveLive DEF Socket
<1>3. /\ \A t \in Sockets \ {s} : t \in peers' <=> t \in peers
      /\ Live(s) => (s \in peers => s \in peers')
      /\ ~Live(s) => s \notin peers' /\ up'[s] = <<>> /\ Leaving(s)
  <2>1. CASE OnRequest(s)
    <3>1. /\ s \notin peers /\ peers' = peers \cup {s}
      BY <2>1, RequestDoes
    <3>2. Live(s)
      BY <3>1, ReadLive
    <3>3. QED BY <3>1, <3>2
  <2>2. CASE OnMessage(s)
    <3>1. peers' = peers /\ Head(up[s]).type # "close"
      BY <2>2, EchoDoes, RelayDoes
    <3>2. Live(s)
      BY <3>1, ReadLive
    <3>3. QED BY <3>1, <3>2
  <2>3. CASE OnClose(s)
    <3>1. Tail(up[s]) = <<>> /\ s \in peers /\ ~Live(s) /\ peers' = peers \ {s}
      BY <2>3, CloseDoes
    <3>2. Leaving(s)
      BY <3>1, ReadLive
    <3>3. QED BY <1>1, <3>1, <3>2 DEF OnlyUp
  <2>4. QED BY <1>1, <2>1, <2>2, <2>3
<1>4. ASSUME NEW t \in Sockets, ~Live(t)'
      PROVE  (t \in peers' /\ Leaving(t)') \/ (t \notin peers' /\ up'[t] = <<>>)
  <2>1. ~Live(t)
    BY <1>1, <1>4 DEF Live, Socket
  <2>2. CASE t = s
    BY <1>3, <2>1, <2>2
  <2>3. CASE t # s
    <3>1. up'[t] = up[t] /\ (t \in peers' <=> t \in peers)
      BY <1>1, <1>3, <2>3 DEF OnlyUp
    <3>2. ASSUME NEW e \in Devices, call[e].active, Socket(e) \in peers PROVE Socket(e)' \in peers'
      BY <1>2, <1>3, <3>2
    <3>3. Leaving(t) => Leaving(t)'
      BY <1>1, <3>1, <3>2 DEF Leaving
    <3>4. QED BY <2>1, <3>1, <3>3 DEF Tidy
  <2>4. QED BY <2>2, <2>3
<1>5. QED BY <1>4 DEF Tidy

LEMMA NoGhostNext == Inv /\ NoGhost /\ [Next]_vars => NoGhost'
<1> SUFFICES ASSUME Inv, NoGhost, [Next]_vars, Calm', ~hasty' PROVE Tidy'
  BY DEF NoGhost
<1>1. Calm /\ ~hasty /\ Tidy
  <2>1. Calm
    BY DEF Next, vars, Start, Stop, Lose, Keepalive, Deliver, VenueReady, SDPReady, Server, Calm
  <2>2. ~hasty
    <3>1. ASSUME NEW d \in Devices, Stop(d) PROVE ~hasty
      BY <2>1, <3>1, CalmStop
    <3>2. QED BY <3>1 DEF Next, vars, Start, Lose, Keepalive, Deliver, VenueReady, SDPReady, Server
  <2>3. QED BY <2>1, <2>2 DEF NoGhost
<1>2. ASSUME NEW d \in Devices, Keepalive(d) \/ Deliver(d) \/ VenueReady(d) \/ SDPReady(d) PROVE Tidy'
  <2>1. OnlyCall(d) /\ Same(call'[d], call[d]) /\ peers' = peers
    <3>1. CASE Keepalive(d)
      BY <3>1, TypeFacts DEF Keepalive, OnlyCall, Same, Inv
    <3>2. QED BY <1>2, <3>1, DeliverDoes, VenueReadyDoes, SDPReadyDoes
  <2>2. \A s \in Sockets : ~Live(s) => up'[s] = up[s]
    <3>1. ASSUME NEW m \in Message, Send(d, m), NEW s \in Sockets, ~Live(s) PROVE up'[s] = up[s]
      <4>1. CASE call[d].linked
        <5>1. Socket(d)[1] = d
          BY DEF Socket
        <5>2. s # Socket(d)
          BY <3>1, <4>1, <5>1 DEF Live
        <5>3. QED BY <3>1, <4>1, <5>2, SendDoes DEF OnlyUp
      <4>2. CASE ~call[d].linked
        BY <3>1, <4>2, SendDoes
      <4>3. QED BY <4>1, <4>2
    <3>2. CASE Keepalive(d)
      BY <3>1, <3>2, MessageFacts DEF Keepalive
    <3>3. CASE Deliver(d)
      BY <3>3, DeliverDoes
    <3>4. CASE VenueReady(d)
      <4>1. made + 1 \in Nat
        BY TypeFacts DEF Inv
      <4>2. Msg("venue", made + 1) \in Message /\ Send(d, Msg("venue", made + 1))
        BY <3>4, <4>1, MessageFacts, VenueReadyDoes
      <4>3. QED BY <3>1, <4>2
    <3>5. CASE SDPReady(d)
      <4>1. Head(call[d].pend) \in Message
        BY <3>5, SDPReadyDoes DEF Sdp, Message
      <4>2. QED BY <3>1, <3>5, <4>1, SDPReadyDoes
    <3>6. QED BY <1>2, <3>2, <3>3, <3>4, <3>5
  <2>3. QED BY <1>1, <2>1, <2>2, DeviceTidy
<1>3. ASSUME NEW d \in Devices, Lose(d) PROVE Tidy'
  BY <1>1, <1>3 DEF Lose, Calm
<1>4. CASE Next
  BY <1>1, <1>2, <1>3, <1>4, StartTidy, StopTidy, ServerTidy DEF Next
<1>5. CASE UNCHANGED vars
  <2>1. \A s \in Sockets : (Live(s)' <=> Live(s)) /\ (Leaving(s)' <=> Leaving(s))
    BY <1>5 DEF vars, Live, Leaving, Socket
  <2>2. QED BY <1>1, <1>5, <2>1 DEF Tidy, vars
<1>6. QED BY <1>4, <1>5

LEMMA InitNoGhost == Init => NoGhost
<1> SUFFICES ASSUME Init PROVE Tidy
  BY DEF NoGhost
<1>1. peers = {} /\ \A s \in Sockets : up[s] = <<>>
  BY DEF Init
<1>2. QED BY <1>1 DEF Tidy

-----------------------------------------------------------------------------
(* The venue is deleted in the end.  It is in somebody's custody, the room's  *)
(* or a message's to it, and every device in the room uses it or will be told *)
(* of it: so the last one to stop knows it.                                   *)
Custody(v) == stored = v \/ \E s \in Sockets : Brings(up[s], v)

Reaches(d, v) ==
  \/ Holds(d, v)
  \/ \E s \in Sockets \ {Socket(d)} : Brings(up[s], v)
  \/ Socket(d) \notin peers /\ stored = v

Kept ==
  /\ \A v \in venues : Custody(v) /\ \A d \in Devices : call[d].active => Reaches(d, v)
  /\ (\A d \in Devices : ~call[d].active) => venues = {}

Reclaim == room = "calliope" /\ ~hasty => Kept

LEMMA VenueType == Inv => venues \subseteq Venue
  BY DEF Inv, Typed, TypeOK, Venue, None

LEMMA StartKept ==
  ASSUME Inv, InOne, Kept, Tidy, room = "calliope", NEW d \in Devices, Start(d)
  PROVE  Kept'
<1>0. PICK t : t = <<d, call'[d].opens>>
  OBVIOUS
<1>1. /\ ~call[d].active /\ ~call[d].linked /\ OnlyCall(d) /\ call'[d].linked /\ call'[d].active
      /\ call'[d].opens = call[d].opens + 1 /\ call'[d].opens \in 1..MaxOpens
      /\ OnlyUp(t, <<Request>>) /\ down' = down /\ peers' = peers /\ stored' = stored /\ venues' = venues
  BY <1>0, StartDoes
<1>2. t \in Sockets /\ t[1] = d /\ t[2] = call[d].opens + 1 /\ call[d].opens \in Nat
  BY <1>0, <1>1, TypeFacts DEF Sockets, Inv
<1>3. t \notin peers /\ up[t] = <<>> /\ Live(t)' /\ t = Socket(d)'
  <2>1. Wired(t) /\ t[2] > call[t[1]].opens
    BY <1>2 DEF Inv
  <2>2. t = Socket(d)'
    BY <1>0 DEF Socket
  <2>3. QED BY <1>1, <1>2, <2>1, <2>2 DEF Wired, Live
<1>5. \A s \in Sockets, v \in venues : Brings(up[s], v) => s # t /\ Brings(up'[s], v)
  BY <1>1, <1>3, EmptyFacts DEF OnlyUp
<1>6. ASSUME NEW v \in venues' PROVE Custody(v)' /\ \A e \in Devices : call'[e].active => Reaches(e, v)'
  <2>1. Custody(v) /\ v \in venues
    BY <1>1, <1>6 DEF Kept
  <2>2. Custody(v)'
    BY <1>1, <1>5, <2>1 DEF Custody
  <2>3. Reaches(d, v)'
    BY <1>1, <1>3, <1>5, <2>1 DEF Custody, Reaches
  <2>4. ASSUME NEW e \in Devices, e # d, call'[e].active PROVE Reaches(e, v)'
    <3>1. call'[e] = call[e] /\ Socket(e)' = Socket(e)
      BY <1>1, <2>4 DEF OnlyCall, Socket
    <3>2. Reaches(e, v)
      BY <2>1, <2>4, <3>1 DEF Kept
    <3>3. Holds(e, v)' <=> Holds(e, v)
      BY <1>1, <3>1 DEF Holds
    <3>4. QED BY <1>1, <1>5, <2>1, <3>1, <3>2, <3>3 DEF Reaches
  <2>5. QED BY <2>2, <2>3, <2>4
<1>8. QED BY <1>1, <1>6 DEF Kept

LEMMA StopKept ==
  ASSUME Inv, InOne, Kept, Tidy, room = "calliope", NEW d \in Devices, Stop(d), ~hasty'
  PROVE  Kept'
<1>1. /\ call[d].active /\ OnlyCall(d) /\ ~call'[d].active /\ ~call'[d].linked
      /\ call'[d].opens = call[d].opens
      /\ OnlyDown(d, <<>>) /\ Send(d, Close) /\ peers' = peers /\ stored' = stored
      /\ venues' = IF call[d].flow # None /\ DeletesVenue(d) THEN venues \ {call[d].flow} ELSE venues
  BY StopDoes
<1>2. /\ Settled /\ call[d].linked /\ call[d].myId = Cardinality(peers)
      /\ Socket(d) \in peers /\ Socket(d) \in Sockets
  BY CalmStop DEF Calm
<1>3. /\ \A s \in Sockets : up[s] = <<>>
      /\ \A e \in Devices : down[e] = <<>> /\ call[e].pend = <<>>
  BY <1>2 DEF Settled
<1>4. PICK t \in Sockets : t = Socket(d)
  BY <1>2
<1>6. \A s \in Sockets : \A v : ~Brings(up[s], v)
  BY <1>3, EmptyFacts
<1>7. \A e \in Devices : call[e].active => Socket(e) \in peers
  BY StopTidy DEF Calm
<1>8. \A s \in Sockets : ~Live(s) => s \notin peers
  BY StopTidy DEF Calm
<1>9. \A v \in venues, e \in Devices : call[e].active => call[e].flow = v
  BY <1>3, <1>6, <1>7, EmptyFacts DEF Kept, Reaches, Holds
<1>10. ASSUME NEW v \in venues' PROVE Custody(v)' /\ \A e \in Devices : call'[e].active => Reaches(e, v)'
  <2>1. v \in venues /\ Custody(v)
    BY <1>1, <1>10 DEF Kept
  <2>2. Custody(v)'
    BY <1>1, <1>6, <2>1 DEF Custody
  <2>3. ASSUME NEW e \in Devices, call'[e].active PROVE Reaches(e, v)'
    <3>1. e # d /\ call'[e] = call[e]
      BY <1>1, <2>3 DEF OnlyCall
    <3>2. call'[e].flow = v
      BY <1>9, <2>1, <2>3, <3>1
    <3>3. QED BY <3>2 DEF Reaches, Holds
  <2>4. QED BY <2>2, <2>3
<1>11. ASSUME \A e \in Devices : ~call'[e].active PROVE venues' = {}
  <2>1. \A e \in Devices : call[e].active => e = d
    BY <1>1, <1>11 DEF OnlyCall
  <2>2. peers = {t}
    <3>1. \A s \in peers : s = t
      BY <1>4, <1>8, <2>1, LiveActive, TypeFacts DEF Inv
    <3>2. QED BY <1>2, <1>4, <3>1
  <2>3. DeletesVenue(d)
    <3>1. Cardinality({t}) = 1
      BY FS_Singleton
    <3>2. QED BY <1>2, <2>2, <3>1 DEF DeletesVenue
  <2>4. \A v \in venues : call[d].flow = v /\ v # None
    BY <1>1, <1>9, VenueType DEF Venue
  <2>5. QED BY <1>1, <2>3, <2>4
<1>12. QED BY <1>10, <1>11 DEF Kept

LEMMA DeviceKept ==
  ASSUME Kept, NEW d \in Devices, OnlyCall(d), Same(call'[d], call[d]),
         peers' = peers, stored' = stored, venues' = venues,
         \A e \in Devices \ {d} : down'[e] = down[e],
         \A s \in Sockets, v \in venues : Brings(up[s], v) => Brings(up'[s], v),
         \A v \in venues : Holds(d, v) => Holds(d, v)'
  PROVE  Kept'
<1>1. \A e \in Devices : call'[e].active = call[e].active /\ Socket(e)' = Socket(e)
  BY DEF OnlyCall, Same, Socket
<1>2. \A v \in venues' : Custody(v)'
  BY DEF Kept, Custody
<1>3. ASSUME NEW v \in venues', NEW e \in Devices, call'[e].active PROVE Reaches(e, v)'
  <2>1. Reaches(e, v) /\ v \in venues
    BY <1>1, <1>3 DEF Kept
  <2>2. Holds(e, v) => Holds(e, v)'
    <3>1. CASE e = d
      BY <2>1, <3>1
    <3>2. CASE e # d
      BY <3>2 DEF Holds, OnlyCall
    <3>3. QED BY <3>1, <3>2
  <2>3. QED BY <1>1, <2>1, <2>2 DEF Reaches
<1>4. (\A e \in Devices : ~call'[e].active) => venues' = {}
  BY <1>1 DEF Kept
<1>5. QED BY <1>2, <1>3, <1>4 DEF Kept

LEMMA KeepaliveKept ==
  ASSUME Inv, InOne, Kept, NEW d \in Devices, Keepalive(d)
  PROVE  Kept'
<1>1. /\ call[d].linked /\ Socket(d) \in Sockets
      /\ OnlyUp(Socket(d), Append(up[Socket(d)], Msg("echo", 0)))
      /\ UNCHANGED <<room, call, down, peers, stored, venues, made, hasty>>
  BY KeepaliveDoes
<1>2. Send(d, Msg("echo", 0)) /\ Msg("echo", 0) \in Message /\ Msg("echo", 0).type = "echo"
  BY MessageFacts DEF Keepalive
<1>3. \A s \in Sockets : \A v : Brings(up'[s], v) <=> Brings(up[s], v)
  BY <1>2, SentPlain
<1>5. OnlyCall(d) /\ Same(call'[d], call[d]) /\ \A v : Holds(d, v)' <=> Holds(d, v)
  BY <1>1, TypeFacts DEF OnlyCall, Same, Holds, Inv
<1>6. QED BY <1>1, <1>3, <1>5, DeviceKept

LEMMA DeliverKept ==
  ASSUME Inv, InOne, Kept, Calliope, NEW d \in Devices, Deliver(d)
  PROVE  Kept'
<1>1. /\ down[d] # <<>> /\ down[d] \in Seq(Message) /\ OnlyDown(d, Tail(down[d])) /\ OnlyCall(d)
      /\ Same(call'[d], call[d])
      /\ call'[d].flow = call[d].flow /\ up' = up /\ UNCHANGED <<peers, stored, venues>>
      /\ Head(down[d]) \in Message /\ Head(down[d]).type \in {"join", "echo", "venue", "offer", "answer"}
  BY DeliverDoes
<1>2. /\ Head(down[d]).type \notin {"offer", "answer"} /\ Head(down[d]) # Msg("venue", None)
      /\ \A v : Brings(down[d], v) <=> Head(down[d]) = Msg("venue", v) \/ Brings(down'[d], v)
  BY <1>1, PlainFacts DEF InOne, OnlyDown
<1>3. PICK m \in Message : m = Head(down[d]) /\ m = Msg(m.type, m.n) /\ m.n \in Nat
  BY <1>1, MessageFacts
<1>4. ASSUME NEW v \in venues, Holds(d, v) PROVE Holds(d, v)'
  <2>1. CASE m.type \in {"join", "echo"}
    <3>1. call'[d].pend = call[d].pend /\ call'[d].venue = call[d].venue
      BY <1>3, <2>1, DeliverDoes
    <3>2. m # Msg("venue", v)
      BY <2>1, MessageFacts
    <3>3. QED BY <1>1, <1>2, <1>3, <1>4, <3>1, <3>2 DEF Holds
  <2>2. CASE m.type = "venue"
    <3>1. call'[d].venue = m.n /\ call'[d].pend = Append(call[d].pend, Msg("offer", made + 1))
      BY <1>3, <2>2, DeliverDoes
    <3>2. call'[d].pend # <<>>
      <4>1. call[d].pend \in Seq(Sdp) /\ made + 1 \in Nat
        BY TypeFacts DEF Inv
      <4>2. Msg("offer", made + 1) \in Sdp
        BY <4>1, SdpFacts
      <4>3. QED BY <3>1, <4>1, <4>2, PendFacts
    <3>3. m.n \in Venue /\ Brings(down[d], m.n)
      BY <1>2, <1>3, <2>2 DEF Venue
    <3>4. Token(m.n) /\ Token(v) /\ v \in Venue
      BY <1>4, <3>3, VenueType DEF Token, Holds
    <3>5. v = m.n
      BY <3>3, <3>4 DEF InOne
    <3>6. QED BY <3>1, <3>2, <3>5 DEF Holds
  <2>3. QED BY <1>1, <1>2, <1>3, <2>1, <2>2
<1>5. QED BY <1>1, <1>4, DeviceKept DEF OnlyDown

LEMMA SDPKept ==
  ASSUME Inv, InOne, Kept, Calliope, NEW d \in Devices, SDPReady(d)
  PROVE  Kept'
<1>1. /\ call[d].pend # <<>> /\ OnlyCall(d) /\ Same(call'[d], call[d]) /\ call'[d].venue = call[d].venue
      /\ call'[d].flow = IF call[d].venue \in venues THEN call[d].venue ELSE call[d].flow
      /\ up' = up /\ UNCHANGED <<down, peers, stored, venues>>
  BY SDPReadyDoes
<1>2. ASSUME NEW v \in venues, Holds(d, v) PROVE Holds(d, v)'
  <2>1. CASE call[d].venue \in venues
    <3>1. Token(v) /\ Token(call[d].venue) /\ v \in Venue /\ call[d].venue \in Venue
      BY <1>1, <1>2, <2>1, VenueType DEF Token, Holds
    <3>2. v = call[d].venue
      BY <3>1 DEF InOne
    <3>3. QED BY <1>1, <2>1, <3>2 DEF Holds
  <2>2. CASE call[d].venue \notin venues
    BY <1>1, <1>2, <2>2 DEF Holds
  <2>3. QED BY <2>1, <2>2
<1>3. QED BY <1>1, <1>2, DeviceKept

LEMMA VenueKept ==
  ASSUME Inv, InOne, Kept, room = "calliope", NEW d \in Devices, VenueReady(d)
  PROVE  Kept'
<1>1. /\ call[d].creating /\ OnlyCall(d) /\ Same(call'[d], call[d]) /\ call'[d].venue = made + 1
      /\ call'[d].pend = Append(call[d].pend, Msg("offer", made + 2))
      /\ venues' = venues \cup {made + 1} /\ Send(d, Msg("venue", made + 1)) /\ UNCHANGED <<down, peers, stored>>
  BY VenueReadyDoes
<1>2. made + 1 \in Venue /\ \A v \in Venue : ~Token(v)
  BY VenueOne
<1>v. PICK w \in Venue : w = made + 1
  BY <1>2
<1>3. venues = {}
  BY <1>2, VenueType DEF Kept, Custody, Token
<1>4. /\ call[d].active /\ call[d].linked /\ Socket(d) \in Sockets
      /\ \A e \in Devices : call'[e].active = call[e].active /\ Socket(e)' = Socket(e)
  <2>1. call[d].active
    BY <1>1, Heard DEF Fresh
  <2>2. QED BY <1>1, <2>1, ActiveLive DEF OnlyCall, Same, Socket, Calm
<1>5. PICK m \in Message : m = Msg("venue", w)
  BY <1>v, MessageFacts DEF Venue
<1>6. OnlyUp(Socket(d), Append(up[Socket(d)], m))
  BY <1>1, <1>4, <1>5, <1>v, SendDoes
<1>7. Brings(up'[Socket(d)], w)
  <2>1. up[Socket(d)] \in Seq(Message)
    BY <1>4, TypeFacts DEF Inv
  <2>2. QED BY <1>5, <1>6, <2>1, HasAppend DEF OnlyUp
<1>8. Custody(w)'
  BY <1>4, <1>7 DEF Custody
<1>9. ASSUME NEW e \in Devices PROVE Reaches(e, w)'
  <2>1. CASE e = d
    <3>1. call'[d].pend # <<>>
      <4>1. call[d].pend \in Seq(Sdp) /\ made + 2 \in Nat
        BY TypeFacts DEF Inv
      <4>2. Msg("offer", made + 2) \in Sdp
        BY <4>1, SdpFacts
      <4>3. QED BY <1>1, <4>1, <4>2, PendFacts
    <3>2. QED BY <1>1, <1>v, <2>1, <3>1 DEF Reaches, Holds
  <2>2. CASE e # d
    <3>1. Socket(e)' # Socket(d)
      BY <2>2 DEF Socket
    <3>2. QED BY <1>4, <1>7, <3>1 DEF Reaches
  <2>3. QED BY <2>1, <2>2
<1>12. venues' = {w}
  BY <1>1, <1>3, <1>v
<1>13. call'[d].active
  BY <1>4
<1>14. QED BY <1>8, <1>9, <1>12, <1>13 DEF Kept

LEMMA ServerKept ==
  ASSUME Kept, NEW s \in Sockets, Server(s),
         \A v \in venues : Custody(v)' /\ \A e \in Devices : call[e].active => Reaches(e, v)'
  PROVE  Kept'
<1>1. UNCHANGED <<call, venues>>
  BY DEF Server
<1>2. QED BY <1>1 DEF Kept

LEMMA RequestKept ==
  ASSUME Inv, InOne, Kept, Tidy, room = "calliope", NEW s \in Sockets, Server(s), OnRequest(s)
  PROVE  Kept'
<1>1. /\ s \notin peers /\ peers' = peers \cup {s} /\ stored' = stored
      /\ up[s] = <<Request>> \/ up[s] = <<Request, Close>>
      /\ Live(s) => /\ down[s[1]] = <<>>
                    /\ \E n \in Nat : OnlyDown(s[1], Greeting(n))
  BY RequestDoes
<1>2. Live(s) /\ s[1] \in Devices /\ s = Socket(s[1])
  BY <1>1, ReadLive, LiveActive
<1>3. OnlyUp(s, Tail(up[s])) /\ UNCHANGED <<call, venues>>
  BY ServerDoes
<1>4. \A v : ~Brings(up[s], v)
  <2>1. \A i \in DOMAIN up[s] : up[s][i] \in {Request, Close}
    BY <1>1
  <2>2. \A v : Request # Msg("venue", v) /\ Close # Msg("venue", v)
    BY DEF Request, Close, Msg
  <2>3. QED BY <2>1, <2>2 DEF Brings
<1>5. \A t \in Sockets : \A v : Brings(up[t], v) => Brings(up'[t], v)
  BY <1>3, <1>4 DEF OnlyUp
<1>6. PICK n \in Nat : OnlyDown(s[1], Greeting(n))
  BY <1>1, <1>2
<1>7. ASSUME NEW v \in venues PROVE Custody(v)' /\ \A e \in Devices : call[e].active => Reaches(e, v)'
  <2>1. Custody(v) /\ v # None
    BY VenueType DEF Kept, Venue
  <2>2. Custody(v)'
    BY <1>1, <1>5, <2>1 DEF Custody
  <2>3. ASSUME NEW e \in Devices, call[e].active PROVE Reaches(e, v)'
    <3>1. Socket(e)' = Socket(e) /\ Reaches(e, v)
      BY <1>3, <2>3 DEF Socket, Kept
    <3>2. CASE e # s[1]
      <4>1. Holds(e, v) => Holds(e, v)'
        BY <1>3, <1>6, <3>2 DEF Holds, OnlyDown
      <4>2. Socket(e) # s
        BY <1>2, <3>2 DEF Socket
      <4>3. QED BY <1>1, <1>5, <3>1, <4>1, <4>2 DEF Reaches
    <3>3. CASE e = s[1]
      <4>1. CASE stored = v
        <5>1. Brings(down'[e], v)
          BY <1>6, <2>1, <3>3, <4>1, GreetingFacts DEF OnlyDown, Inv
        <5>2. QED BY <5>1 DEF Reaches, Holds
      <4>2. CASE stored # v
        <5>1. ~Brings(down[e], v)
          BY <1>1, <1>2, <3>3, EmptyFacts
        <5>2. Holds(e, v) => Holds(e, v)'
          BY <1>3, <5>1 DEF Holds
        <5>3. QED BY <1>5, <3>1, <4>2, <5>2 DEF Reaches
      <4>3. QED BY <4>1, <4>2
    <3>4. QED BY <3>2, <3>3
  <2>4. QED BY <2>2, <2>3
<1>8. QED BY <1>1, <1>2, <1>7, ServerKept

LEMMA MessageKept ==
  ASSUME Inv, InOne, Kept, Tidy, room = "calliope", NEW s \in Sockets, Server(s), OnMessage(s)
  PROVE  Kept'
<1>0. PICK m \in Message : m = Head(up[s]) /\ m.n \in Nat /\ m = Msg(m.type, m.n)
  BY ServerDoes, MessageFacts
<1>1. peers' = peers /\ m.type # "close" /\ m.type \in {"echo", "venue"}
  BY <1>0, EchoDoes, RelayDoes, MessageOne
<1>2. Live(s) /\ s[1] \in Devices /\ s = Socket(s[1])
  BY <1>0, <1>1, ReadLive, LiveActive
<1>3. up[s] # <<>> /\ up[s] \in Seq(Message) /\ OnlyUp(s, Tail(up[s])) /\ UNCHANGED <<call, venues>>
  BY ServerDoes
<1>4. \A e \in Devices : down[e] \in Seq(Message)
  BY TypeFacts DEF Inv
<1>5. /\ m # Msg("venue", None)
      /\ \A v : Brings(up[s], v) <=> m = Msg("venue", v) \/ Brings(Tail(up[s]), v)
  BY <1>0, <1>3, PlainFacts DEF InOne
<1>6. \A t \in Sockets : \A v : Brings(up[t], v) => Brings(up'[t], v) \/ (t = s /\ m = Msg("venue", v))
  BY <1>3, <1>5 DEF OnlyUp
<1>7. CASE m.type = "echo"
  <2>1. PICK n \in Nat : Live(s) => OnlyDown(s[1], Append(down[s[1]], Msg("echo", n)))
    BY <1>0, <1>7, EchoDoes
  <2>2. stored' = stored
    BY <1>0, <1>7, EchoDoes
  <2>3. \A v : m # Msg("venue", v)
    BY <1>7, MessageFacts
  <2>4. ASSUME NEW e \in Devices, NEW v, Brings(down[e], v) PROVE Brings(down'[e], v)
    <3>1. CASE e = s[1]
      <4>1. Msg("echo", n) \in Message /\ down'[e] = Append(down[e], Msg("echo", n))
        BY <1>2, <2>1, <3>1, MessageFacts DEF OnlyDown
      <4>2. QED BY <1>4, <2>4, <4>1, HasAppend
    <3>2. CASE e # s[1]
      BY <1>2, <2>1, <2>4, <3>2 DEF OnlyDown
    <3>3. QED BY <3>1, <3>2
  <2>5. \A e \in Devices : \A v : Holds(e, v) => Holds(e, v)'
    BY <1>3, <2>4 DEF Holds
  <2>6. \A e \in Devices : Socket(e)' = Socket(e)
    BY <1>3 DEF Socket
  <2>7. ASSUME NEW v \in venues PROVE Custody(v)' /\ \A e \in Devices : call[e].active => Reaches(e, v)'
    <3>1. Custody(v)'
      BY <1>6, <2>2, <2>3 DEF Kept, Custody
    <3>2. \A e \in Devices : call[e].active => Reaches(e, v)'
      BY <1>1, <1>6, <2>2, <2>3, <2>5, <2>6 DEF Kept, Reaches
    <3>3. QED BY <3>1, <3>2
  <2>8. QED BY <1>1, <1>2, <2>7, ServerKept
<1>8. CASE m.type = "venue"
  <2>1. /\ stored' = m.n
        /\ \A e \in Devices : /\ Hears(e, s) => down'[e] = Append(down[e], m)
                              /\ ~Hears(e, s) => down'[e] = down[e]
    BY <1>0, <1>8, RelayDoes
  <2>2. m.n \in Venue /\ Token(m.n) /\ \A v : m = Msg("venue", v) <=> v = m.n
    <3>1. m = Msg("venue", m.n)
      BY <1>0, <1>8
    <3>2. \A v : m = Msg("venue", v) <=> v = m.n
      BY <3>1, MessageFacts
    <3>3. QED BY <1>0, <1>5, <3>1, <3>2 DEF Venue, Token
  <2>3. ASSUME NEW v \in venues PROVE v = m.n
    BY <2>2, VenueType DEF Kept, Custody, Token, InOne
  <2>4. ASSUME NEW e \in Devices, NEW v, Brings(down[e], v) PROVE Brings(down'[e], v)
    <3>1. CASE Hears(e, s)
      <4>1. down[e] \in Seq(Message) /\ down'[e] = Append(down[e], m) /\ m \in Message
        BY <1>0, <1>4, <2>1, <3>1
      <4>2. QED BY <2>4, <4>1, HasAppend
    <3>2. CASE ~Hears(e, s)
      BY <2>1, <2>4, <3>2
    <3>3. QED BY <3>1, <3>2
  <2>5. \A e \in Devices : \A v : Holds(e, v) => Holds(e, v)'
    BY <1>3, <2>4 DEF Holds
  <2>6. \A e \in Devices : Socket(e)' = Socket(e)
    BY <1>3 DEF Socket
  <2>7. ASSUME NEW v \in venues PROVE Custody(v)' /\ \A e \in Devices : call[e].active => Reaches(e, v)'
    <3>1. stored' = v /\ Custody(v)'
      BY <2>1, <2>3 DEF Custody
    <3>2. ASSUME NEW e \in Devices, call[e].active PROVE Reaches(e, v)'
      <4>1. Reaches(e, v) /\ call[e].linked
        BY <3>2, ActiveLive DEF Kept, Calm
      <4>2. CASE Socket(e) \notin peers
        BY <1>1, <2>6, <3>1, <4>2 DEF Reaches
      <4>3. CASE Holds(e, v)
        BY <2>5, <4>3 DEF Reaches
      <4>4. CASE Socket(e) \in peers /\ \E t \in Sockets \ {Socket(e)} : Brings(up[t], v)
        <5>1. PICK t \in Sockets \ {Socket(e)} : Brings(up[t], v)
          BY <4>4
        <5>2. CASE Brings(up'[t], v)
          BY <2>6, <5>1, <5>2 DEF Reaches
        <5>3. CASE t = s
          <6>1. down'[e] = Append(down[e], m)
            BY <2>1, <4>1, <4>4, <5>1, <5>3 DEF Hears
          <6>2. m = Msg("venue", v)
            BY <2>2, <2>3
          <6>3. Brings(down'[e], v)
            BY <1>4, <6>1, <6>2, HasAppend
          <6>4. QED BY <6>3 DEF Reaches, Holds
        <5>4. QED BY <1>6, <5>1, <5>2, <5>3
      <4>5. QED BY <4>1, <4>2, <4>3, <4>4 DEF Reaches
    <3>3. QED BY <3>1, <3>2
  <2>8. QED BY <1>1, <1>2, <2>7, ServerKept
<1>9. QED BY <1>1, <1>7, <1>8

LEMMA CloseKept ==
  ASSUME Inv, InOne, Kept, Tidy, room = "calliope", NEW s \in Sockets, Server(s), OnClose(s)
  PROVE  Kept'
<1>1. /\ Tail(up[s]) = <<>> /\ s \in peers /\ ~Live(s)
      /\ peers' = peers \ {s} /\ down' = down
      /\ stored' = IF peers = {s} THEN None ELSE stored
  BY CloseDoes
<1>2. OnlyUp(s, <<>>) /\ UNCHANGED <<call, venues>>
  BY <1>1, ServerDoes
<1>3. Leaving(s) /\ s[1] \in Devices
  BY <1>1, ReadLive DEF Sockets
<1>4. \A e \in Devices : Socket(e)' = Socket(e) /\ (call[e].active => Socket(e) \in peers \ {s})
  BY <1>2, <1>3 DEF Socket, Leaving
<1>5. ASSUME NEW v \in venues
      PROVE  Custody(v)' /\ \A e \in Devices : call'[e].active => Reaches(e, v)'
  <2>1. \E e \in Devices : call[e].active
    BY DEF Kept
  <2>2. stored' = stored
    BY <1>1, <1>4, <2>1
  <2>3. ~Brings(up[s], v)
    <3>1. Close # Msg("venue", v)
      BY DEF Close, Msg
    <3>2. \A i \in DOMAIN up[s] : up[s][i] = Close
      BY <1>3 DEF Leaving
    <3>3. QED BY <3>1, <3>2 DEF Brings
  <2>4. \A t \in Sockets : Brings(up[t], v) => Brings(up'[t], v)
    BY <1>2, <2>3 DEF OnlyUp
  <2>5. \A e \in Devices : Holds(e, v)' <=> Holds(e, v)
    BY <1>1, <1>2 DEF Holds
  <2>6. Custody(v)'
    BY <2>2, <2>4 DEF Kept, Custody
  <2>7. \A e \in Devices : call'[e].active => Reaches(e, v)'
    BY <1>1, <1>2, <1>4, <2>2, <2>4, <2>5 DEF Kept, Reaches
  <2>8. QED BY <2>6, <2>7
<1>7. (\A e \in Devices : ~call'[e].active) => venues' = {}
  BY <1>2 DEF Kept
<1>8. QED BY <1>2, <1>5, <1>7 DEF Kept

LEMMA ReclaimNext == Inv /\ OneVenue /\ NoGhost /\ Reclaim /\ [Next]_vars => Reclaim'
<1> SUFFICES ASSUME Inv, OneVenue, NoGhost, Reclaim, [Next]_vars, room' = "calliope", ~hasty' PROVE Kept'
  BY DEF Reclaim
<1>1. room = "calliope" /\ Calliope /\ ~hasty
  <2>1. room = "calliope"
    BY DEF Next, vars, Start, Stop, Lose, Keepalive, Deliver, VenueReady, SDPReady, Server
  <2>2. ~hasty
    <3>1. ASSUME NEW d \in Devices, Stop(d) PROVE ~hasty
      BY <2>1, <3>1, CalmStop DEF Calm
    <3>2. QED BY <3>1 DEF Next, vars, Start, Lose, Keepalive, Deliver, VenueReady, SDPReady, Server
  <2>3. QED BY <2>1, <2>2 DEF Calliope
<1>2. InOne /\ Kept /\ Tidy
  BY <1>1 DEF OneVenue, Reclaim, NoGhost, Calm
<1>3. ASSUME NEW s \in Sockets, Server(s) PROVE Kept'
  BY <1>1, <1>2, <1>3, ServerDoes, RequestKept, MessageKept, CloseKept
<1>4. ASSUME NEW d \in Devices, Lose(d) PROVE Kept'
  BY <1>1, <1>4 DEF Lose
<1>5. CASE Next
  BY <1>1, <1>2, <1>3, <1>4, <1>5, StartKept, StopKept, KeepaliveKept, DeliverKept, VenueKept, SDPKept DEF Next
<1>6. CASE UNCHANGED vars
  <2>1. \A v : Custody(v)' <=> Custody(v)
    BY <1>6 DEF vars, Custody
  <2>2. \A d \in Devices : \A v : Reaches(d, v)' <=> Reaches(d, v)
    BY <1>6 DEF vars, Reaches, Holds, Socket
  <2>3. QED BY <1>2, <1>6, <2>1, <2>2 DEF Kept, vars
<1>7. QED BY <1>5, <1>6

LEMMA InitReclaim == Init => Reclaim
<1> SUFFICES ASSUME Init PROVE Kept
  BY DEF Reclaim
<1>1. venues = {}
  BY DEF Init
<1>2. QED BY <1>1 DEF Kept

(* In a calm room whose devices never stopped hastily no venue outlives the   *)
(* last of them, for any number of devices and calls.                         *)
THEOREM VenueReclaimedAlways == Spec => []VenueReclaimed
<1>1. Inv /\ NoVenue /\ Reclaim => VenueReclaimed
  BY DEF VenueReclaimed, Calm, NoVenue, Calliope, Reclaim, Kept
<1>2. QED BY <1>1, InitInv, NextInv, InitVenues, OneNext, NoVenueNext, InitNoGhost, NoGhostNext, InitReclaim, ReclaimNext, PTL DEF Spec

-----------------------------------------------------------------------------
(* Fresh answers.                                                             *)
Single(q, t) == \A i, j \in DOMAIN q : q[i].type = t /\ q[j].type = t => i = j

LEMMA SingleAppend ==
  ASSUME NEW S, NEW q \in Seq(S), NEW m \in S, NEW t
  PROVE  /\ Single(q, t) /\ (m.type # t \/ ~Has(q, t)) => Single(Append(q, m), t)
         /\ Has(Append(q, m), t) <=> Has(q, t) \/ m.type = t
<1>1. /\ DOMAIN Append(q, m) = DOMAIN q \cup {Len(q) + 1}
      /\ \A i \in DOMAIN q : Append(q, m)[i] = q[i]
      /\ Append(q, m)[Len(q) + 1] = m
  BY AppendFacts
<1>2. Single(q, t) /\ (m.type # t \/ ~Has(q, t)) => Single(Append(q, m), t)
  BY <1>1 DEF Single, Has
<1>3. Has(Append(q, m), t) <=> Has(q, t) \/ m.type = t
  BY <1>1 DEF Has
<1>4. QED BY <1>2, <1>3

LEMMA SingleTail ==
  ASSUME NEW S, NEW q \in Seq(S), q # <<>>, NEW t
  PROVE  /\ Single(q, t) => Single(Tail(q), t) /\ (Head(q).type = t => ~Has(Tail(q), t))
         /\ Has(q, t) <=> Head(q).type = t \/ Has(Tail(q), t)
<1>1. /\ Head(q) = q[1] /\ 1 \in DOMAIN q /\ Tail(q) \in Seq(S)
      /\ \A i \in DOMAIN Tail(q) : Tail(q)[i] = q[i + 1] /\ i + 1 \in DOMAIN q
      /\ \A i \in DOMAIN q : i = 1 \/ (i - 1 \in DOMAIN Tail(q) /\ q[i] = Tail(q)[i - 1])
  BY TailFacts
<1>2. \A i \in DOMAIN Tail(q) : i \in Nat /\ i >= 1
  BY <1>1, SeqFacts
<1>3. \A i \in DOMAIN Tail(q) : i + 1 # 1
  BY <1>2
<1>4. \A i, j \in DOMAIN Tail(q) : i + 1 = j + 1 => i = j
  BY <1>2
<1>5. Single(q, t) => Single(Tail(q), t)
  BY <1>1, <1>4 DEF Single
<1>6. Single(q, t) /\ Head(q).type = t => ~Has(Tail(q), t)
  BY <1>1, <1>3 DEF Single, Has
<1>7. Has(q, t) => Head(q).type = t \/ Has(Tail(q), t)
  BY <1>1 DEF Has
<1>8. Head(q).type = t \/ Has(Tail(q), t) => Has(q, t)
  BY <1>1 DEF Has
<1>9. QED BY <1>5, <1>6, <1>7, <1>8

LEMMA HasVenue ==
  ASSUME NEW q \in Seq(Message), Plain(q), Has(q, "venue")
  PROVE  \E v \in Venue : Brings(q, v)
<1>1. PICK i \in DOMAIN q : q[i].type = "venue"
  BY DEF Has
<1>2. q[i] \in Message
  BY SeqFacts
<1>3. q[i] = Msg("venue", q[i].n) /\ q[i].n \in Nat
  BY <1>1, <1>2, MessageFacts
<1>4. q[i].n # None
  BY <1>3 DEF Plain, Brings
<1>5. QED BY <1>3, <1>4 DEF Brings, Venue

(* With calliope a venue is announced once: to a device in a call that has    *)
(* made no offer yet.  So a call makes one offer, and the answer it applies   *)
(* is to that one.                                                            *)
Announced ==
  /\ \A d \in Devices : Right(d) => \A e \in Devices : call[e].offer = None
  /\ \A s \in Sockets : Single(up[s], "venue")
  /\ \A s, t \in Sockets : Has(up[s], "venue") /\ Has(up[t], "venue") => s = t
  /\ \A s \in Sockets : Has(up[s], "venue") =>
       stored = None /\ \A d \in Devices : ~Has(down[d], "venue") /\ (s # Socket(d) => call[d].offer = None)
  /\ \A d \in Devices : Single(down[d], "venue") /\ (Has(down[d], "venue") => call[d].offer = None)
  /\ \A d \in Devices : call[d].pend = <<>> \/ (call[d].pend = <<Msg("offer", call[d].offer)>> /\ call[d].offer # None)
  /\ \A d \in Devices : call[d].answered \in {None, call[d].offer}

(* A step of one device that announces nothing and starts no call.            *)
LEMMA DeviceAnnounced ==
  ASSUME Announced, NEW d \in Devices, OnlyCall(d), stored' = stored,
         \A e \in Devices \ {d} : down'[e] = down[e],
         \A s \in Sockets : (Has(up'[s], "venue") => Has(up[s], "venue")) /\ Single(up'[s], "venue"),
         Single(down'[d], "venue"), Has(down'[d], "venue") => Has(down[d], "venue"),
         Right(d)' => Right(d),
         call'[d].offer = None \/ (call'[d].offer = call[d].offer /\ Socket(d)' = Socket(d)),
         call'[d].pend = <<>> \/ (call'[d].pend = call[d].pend /\ call'[d].offer = call[d].offer),
         call'[d].answered \in {None, call'[d].offer}
  PROVE  Announced'
<1>1. \A e \in Devices : e # d => call'[e] = call[e] /\ Socket(e)' = Socket(e)
  BY DEF OnlyCall, Socket
<1>2. \A e \in Devices : Right(e)' => Right(e)
  BY <1>1 DEF Right
<1>3. \A e \in Devices : call'[e].offer \in {None, call[e].offer}
  BY <1>1
<1>4. \A e \in Devices : Has(down'[e], "venue") => Has(down[e], "venue")
  OBVIOUS
<1>5. ASSUME NEW s \in Sockets, Has(up'[s], "venue")
      PROVE  stored' = None /\ \A e \in Devices : ~Has(down'[e], "venue") /\ (s # Socket(e)' => call'[e].offer = None)
  <2>1. Has(up[s], "venue")
    BY <1>5
  <2>2. stored' = None /\ \A e \in Devices : ~Has(down'[e], "venue")
    BY <1>4, <2>1 DEF Announced
  <2>3. ASSUME NEW e \in Devices, s # Socket(e)' PROVE call'[e].offer = None
    BY <1>1, <2>1, <2>3 DEF Announced
  <2>4. QED BY <2>2, <2>3
<1>6. \A e \in Devices : /\ Single(down'[e], "venue") /\ (Has(down'[e], "venue") => call'[e].offer = None)
                         /\ call'[e].pend = <<>> \/ (call'[e].pend = <<Msg("offer", call'[e].offer)>> /\ call'[e].offer # None)
                         /\ call'[e].answered \in {None, call'[e].offer}
  BY <1>1, <1>3, <1>4 DEF Announced
<1>7. \A e \in Devices : Right(e)' => \A f \in Devices : call'[f].offer = None
  BY <1>2, <1>3 DEF Announced
<1>8. \A s \in Sockets : Single(up'[s], "venue")
  OBVIOUS
<1>9. \A s, t \in Sockets : Has(up'[s], "venue") /\ Has(up'[t], "venue") => s = t
  BY DEF Announced
<1>10. QED BY <1>5, <1>6, <1>7, <1>8, <1>9 DEF Announced

LEMMA SentAnnounced ==
  ASSUME Inv, Announced, NEW d \in Devices, NEW m \in Message, m.type # "venue", Send(d, m)
  PROVE  \A s \in Sockets : (Has(up'[s], "venue") => Has(up[s], "venue")) /\ Single(up'[s], "venue")
<1>1. CASE ~call[d].linked
  BY <1>1, SendDoes DEF Announced
<1>2. CASE call[d].linked
  <2>1. Socket(d) \in Sockets /\ OnlyUp(Socket(d), Append(up[Socket(d)], m))
    BY <1>2, SendDoes
  <2>2. up[Socket(d)] \in Seq(Message)
    BY <2>1, TypeFacts DEF Inv
  <2>3. ASSUME NEW s \in Sockets
        PROVE  (Has(up'[s], "venue") => Has(up[s], "venue")) /\ Single(up'[s], "venue")
    <3>1. CASE s = Socket(d)
      <4>1. up'[s] = Append(up[s], m) /\ up[s] \in Seq(Message) /\ Single(up[s], "venue")
        BY <2>1, <2>2, <3>1 DEF OnlyUp, Announced
      <4>2. QED BY <4>1, SingleAppend
    <3>2. CASE s # Socket(d)
      BY <2>1, <3>2 DEF OnlyUp, Announced
    <3>3. QED BY <3>1, <3>2
  <2>4. QED BY <2>3
<1>3. QED BY <1>1, <1>2

LEMMA StartAnnounced ==
  ASSUME Inv, Announced, NEW d \in Devices, Start(d)
  PROVE  Announced'
<1>0. PICK t : t = <<d, call'[d].opens>>
  OBVIOUS
<1>1. /\ down' = down /\ stored' = stored /\ OnlyCall(d) /\ Fresh(call'[d]) /\ Fresh(call[d])
      /\ OnlyUp(t, <<Request>>)
  BY <1>0, StartDoes
<1>2. ~Has(<<Request>>, "venue") /\ Single(<<Request>>, "venue")
  BY SingleFacts, MessageFacts DEF Request, Single
<1>3. \A s \in Sockets : (Has(up'[s], "venue") => Has(up[s], "venue")) /\ Single(up'[s], "venue")
  <2>1. ASSUME NEW s \in Sockets, s # t PROVE up'[s] = up[s]
    BY <1>1, <2>1 DEF OnlyUp
  <2>2. up'[t] = <<Request>>
    BY <1>1 DEF OnlyUp
  <2>3. QED BY <1>2, <2>1, <2>2 DEF Announced
<1>4. Right(d)' => Right(d)
  BY <1>1 DEF Fresh, Right
<1>5. QED BY <1>1, <1>3, <1>4, DeviceAnnounced DEF Announced, Fresh

LEMMA EmptySingle == ~Has(<<>>, "venue") /\ Single(<<>>, "venue")
  BY DEF Has, Single

LEMMA StopAnnounced ==
  ASSUME Inv, Announced, NEW d \in Devices, Stop(d)
  PROVE  Announced'
<1>1. /\ OnlyDown(d, <<>>) /\ stored' = stored /\ OnlyCall(d) /\ Fresh(call'[d]) /\ Send(d, Close)
  BY StopDoes
<1>2. \A s \in Sockets : (Has(up'[s], "venue") => Has(up[s], "venue")) /\ Single(up'[s], "venue")
  BY <1>1, SentAnnounced, MessageFacts DEF Close
<1>3. ~Right(d)'
  BY <1>1, PlainFacts DEF Fresh, Right, OnlyDown
<1>4. QED BY <1>1, <1>2, <1>3, EmptySingle, DeviceAnnounced DEF Fresh, OnlyDown

LEMMA KeepaliveAnnounced ==
  ASSUME Inv, Announced, NEW d \in Devices, Keepalive(d)
  PROVE  Announced'
<1>1. Send(d, Msg("echo", 0)) /\ UNCHANGED <<call, down, stored>>
  BY DEF Keepalive
<1>2. \A s \in Sockets : (Has(up'[s], "venue") => Has(up[s], "venue")) /\ Single(up'[s], "venue")
  BY <1>1, SentAnnounced, MessageFacts
<1>3. OnlyCall(d)
  BY <1>1, TypeFacts DEF OnlyCall, Inv
<1>4. (Right(d)' <=> Right(d)) /\ Socket(d)' = Socket(d)
  BY <1>1 DEF Right, Socket
<1>5. QED BY <1>1, <1>2, <1>3, <1>4, DeviceAnnounced DEF Announced

LEMMA SDPAnnounced ==
  ASSUME Inv, Announced, Calliope, NEW d \in Devices, SDPReady(d)
  PROVE  Announced'
<1>1. /\ call[d].pend # <<>> /\ OnlyCall(d) /\ Same(call'[d], call[d]) /\ call'[d].offer = call[d].offer
      /\ call'[d].creating = call[d].creating /\ call'[d].pend = Tail(call[d].pend)
      /\ call'[d].answered \in {call[d].answered, Head(call[d].pend).n}
      /\ up' = up /\ down' = down /\ stored' = stored
  BY SDPReadyDoes
<1>2. call[d].pend = <<Msg("offer", call[d].offer)>>
  BY <1>1 DEF Announced
<1>3. call'[d].pend = <<>> /\ Head(call[d].pend).n = call[d].offer
  <2>1. \A m : Head(<<m>>) = m /\ Tail(<<m>>) = <<>>
    OBVIOUS
  <2>2. QED BY <1>1, <1>2, <2>1, MessageFacts
<1>4. (Right(d)' <=> Right(d)) /\ Socket(d)' = Socket(d)
  BY <1>1 DEF Right, Socket, Same
<1>5. call'[d].answered \in {None, call'[d].offer}
  BY <1>1, <1>3 DEF Announced
<1>6. QED BY <1>1, <1>3, <1>4, <1>5, DeviceAnnounced DEF Announced

(* Who hears of the venue has made no offer, so nothing is pending either.    *)
LEMMA DeliverAnnounced ==
  ASSUME Inv, InOne, Announced, Calliope, NEW d \in Devices, Deliver(d)
  PROVE  Announced'
<1>1. /\ down[d] # <<>> /\ down[d] \in Seq(Message) /\ OnlyDown(d, Tail(down[d])) /\ OnlyCall(d)
      /\ Same(call'[d], call[d])
      /\ up' = up /\ stored' = stored
      /\ Head(down[d]) \in Message /\ Head(down[d]).type \in {"join", "echo", "venue", "offer", "answer"}
  BY DeliverDoes
<1>2. PICK m \in Message : m = Head(down[d]) /\ m = Msg(m.type, m.n)
  BY <1>1, MessageFacts
<1>3. /\ m.type \notin {"offer", "answer"}
      /\ Elects(down[d]) <=> m = Msg("join", 1) \/ Elects(down'[d])
  BY <1>1, <1>2, PlainFacts DEF InOne, OnlyDown
<1>4. /\ Single(down'[d], "venue") /\ (m.type = "venue" => ~Has(down'[d], "venue"))
      /\ Has(down[d], "venue") <=> m.type = "venue" \/ Has(down'[d], "venue")
  BY <1>1, <1>2, SingleTail DEF Announced, OnlyDown
<1>5. Socket(d)' = Socket(d)
  BY <1>1 DEF Socket, Same
<1>6. CASE m.type \in {"join", "echo"}
  <2>1. /\ call'[d].offer = call[d].offer /\ call'[d].pend = call[d].pend /\ call'[d].answered = call[d].answered
        /\ call'[d].creating => call[d].creating \/ m = Msg("join", 1)
    BY <1>2, <1>6, DeliverDoes
  <2>2. Right(d)' => Right(d)
    BY <1>3, <2>1 DEF Right
  <2>3. QED BY <1>1, <1>4, <1>5, <2>1, <2>2, DeviceAnnounced DEF Announced, OnlyDown
<1>7. CASE m.type = "venue"
  <2>1. /\ call'[d].offer = made + 1 /\ call'[d].pend = Append(call[d].pend, Msg("offer", made + 1))
        /\ call'[d].answered = call[d].answered /\ call'[d].creating = call[d].creating
    BY <1>2, <1>7, DeliverDoes
  <2>2. /\ Has(down[d], "venue") /\ call[d].offer = None /\ call[d].pend = <<>> /\ call[d].answered = None
    BY <1>4, <1>7 DEF Announced
  <2>3. made + 1 \in Nat /\ made + 1 # None
    <3>1. made \in Nat
      BY TypeFacts DEF Inv
    <3>2. QED BY <3>1 DEF None
  <2>4. call'[d].pend = <<Msg("offer", call'[d].offer)>>
    <3>1. Append(<<>>, Msg("offer", made + 1)) = <<Msg("offer", made + 1)>>
      OBVIOUS
    <3>2. QED BY <2>1, <2>2, <3>1
  <2>5. \A s \in Sockets : ~Has(up'[s], "venue")
    BY <1>1, <2>2 DEF Announced
  <2>6. \A e \in Devices : ~Right(e)'
    <3>1. \E v \in Venue : Brings(down[d], v)
      BY <1>1, <2>2, HasVenue DEF InOne
    <3>2. \A e \in Devices : ~Right(e)
      BY <3>1 DEF InOne, Token, Holds
    <3>3. ~Right(d)'
      BY <1>3, <2>1, <3>2 DEF Right
    <3>4. QED BY <1>1, <3>2, <3>3 DEF Right, OnlyCall, OnlyDown
  <2>7. ASSUME NEW e \in Devices, e # d
        PROVE  call'[e] = call[e] /\ down'[e] = down[e]
    BY <1>1, <2>7 DEF OnlyCall, OnlyDown
  <2>8. \A e \in Devices : Single(down'[e], "venue") /\ (Has(down'[e], "venue") => call'[e].offer = None)
    BY <1>4, <1>7, <2>7 DEF Announced
  <2>9. \A e \in Devices :
          /\ call'[e].pend = <<>> \/ (call'[e].pend = <<Msg("offer", call'[e].offer)>> /\ call'[e].offer # None)
          /\ call'[e].answered \in {None, call'[e].offer}
    BY <2>1, <2>2, <2>3, <2>4, <2>7 DEF Announced
  <2>10. \A s \in Sockets : Single(up'[s], "venue")
    BY <1>1 DEF Announced
  <2>11. QED BY <2>5, <2>6, <2>8, <2>9, <2>10 DEF Announced
<1>8. QED BY <1>1, <1>2, <1>3, <1>6, <1>7

LEMMA NoTokenNoVenue ==
  ASSUME Inv, InOne, \A v \in Venue : ~Token(v)
  PROVE  /\ \A s \in Sockets : ~Has(up[s], "venue")
         /\ \A d \in Devices : ~Has(down[d], "venue")
         /\ stored = None
<1>1. /\ \A s \in Sockets : up[s] \in Seq(Message) /\ Plain(up[s])
      /\ \A d \in Devices : down[d] \in Seq(Message) /\ Plain(down[d])
  BY TypeFacts DEF InOne, Inv
<1>2. stored \in Nat
  BY DEF Inv, Typed, TypeOK
<1>3. \A s \in Sockets : ~Has(up[s], "venue")
  BY <1>1, HasVenue DEF Token
<1>4. \A d \in Devices : ~Has(down[d], "venue")
  BY <1>1, HasVenue DEF Token, Holds
<1>5. QED BY <1>2, <1>3, <1>4 DEF Token, Venue

LEMMA VenueAnnounced ==
  ASSUME Inv, InOne, Announced, room = "calliope", NEW d \in Devices, VenueReady(d)
  PROVE  Announced'
<1>1. /\ call[d].creating /\ OnlyCall(d) /\ Same(call'[d], call[d])
      /\ call'[d].answered = call[d].answered
      /\ call'[d].offer = made + 2 /\ call'[d].pend = Append(call[d].pend, Msg("offer", made + 2))
      /\ Send(d, Msg("venue", made + 1)) /\ UNCHANGED <<down, peers, stored>>
  BY VenueReadyDoes
<1>2. made + 1 \in Venue /\ (\A v \in Venue : ~Token(v)) /\ InOne'
  BY VenueOne
<1>3. /\ \A s \in Sockets : ~Has(up[s], "venue")
      /\ \A e \in Devices : ~Has(down[e], "venue")
      /\ stored = None
  BY <1>2, NoTokenNoVenue
<1>4. \A e \in Devices : call[e].offer = None /\ call[e].pend = <<>> /\ call[e].answered = None
  BY <1>1 DEF Announced, Right
<1>5. /\ call[d].active /\ call[d].linked /\ Socket(d) \in Sockets /\ Socket(d)' = Socket(d)
  <2>1. call[d].active
    BY <1>1, Heard DEF Fresh
  <2>2. QED BY <1>1, <2>1, ActiveLive DEF Same, Socket, Calm
<1>6. PICK m \in Message : m = Msg("venue", made + 1) /\ m.type = "venue"
  BY <1>2, MessageFacts DEF Venue
<1>7. OnlyUp(Socket(d), Append(up[Socket(d)], m))
  BY <1>1, <1>5, <1>6, SendDoes
<1>8. ASSUME NEW s \in Sockets PROVE Single(up'[s], "venue") /\ (Has(up'[s], "venue") => s = Socket(d))
  <2>1. CASE s = Socket(d)
    <3>1. up'[s] = Append(up[s], m) /\ up[s] \in Seq(Message) /\ Single(up[s], "venue") /\ ~Has(up[s], "venue")
      BY <1>3, <1>7, <2>1, TypeFacts DEF OnlyUp, Announced, Inv
    <3>2. QED BY <2>1, <3>1, SingleAppend
  <2>2. CASE s # Socket(d)
    BY <1>3, <1>7, <2>2 DEF OnlyUp, Announced
  <2>3. QED BY <2>1, <2>2
<1>9. ASSUME NEW e \in Devices
      PROVE  /\ e # d => call'[e].offer = None
             /\ call'[e].pend = <<>> \/ (call'[e].pend = <<Msg("offer", call'[e].offer)>> /\ call'[e].offer # None)
             /\ call'[e].answered \in {None, call'[e].offer}
  <2>1. CASE e # d
    BY <1>1, <1>4, <2>1 DEF OnlyCall
  <2>2. CASE e = d
    <3>1. Append(<<>>, Msg("offer", made + 2)) = <<Msg("offer", made + 2)>>
      OBVIOUS
    <3>2. made + 2 # None
      <4>1. made \in Nat
        BY TypeFacts DEF Inv
      <4>2. QED BY <4>1 DEF None
    <3>3. QED BY <1>1, <1>4, <2>2, <3>1, <3>2
  <2>3. QED BY <2>1, <2>2
<1>10. \A e \in Devices : ~Right(e)'
  <2>1. Brings(up'[Socket(d)], made + 1)
    <3>1. up[Socket(d)] \in Seq(Message)
      BY <1>5, TypeFacts DEF Inv
    <3>2. QED BY <1>6, <1>7, <3>1, HasAppend DEF OnlyUp
  <2>2. PICK w \in Venue : w = made + 1
    BY <1>2
  <2>3. Token(w)'
    BY <1>5, <2>1, <2>2 DEF Token
  <2>4. QED BY <1>2, <2>2, <2>3 DEF InOne
<1>11. \A s \in Sockets, e \in Devices : s = Socket(d) /\ s # Socket(e)' => e # d
  BY <1>5
<1>12. \A e \in Devices : Single(down'[e], "venue") /\ ~Has(down'[e], "venue")
  BY <1>1, <1>3 DEF Announced
<1>13. \A s \in Sockets : Has(up'[s], "venue") =>
         stored' = None /\ \A e \in Devices : ~Has(down'[e], "venue") /\ (s # Socket(e)' => call'[e].offer = None)
  BY <1>1, <1>3, <1>8, <1>9, <1>11, <1>12
<1>14. QED BY <1>8, <1>9, <1>10, <1>12, <1>13 DEF Announced

(* What a step of the server leaves of it.                                    *)
LEMMA ServerUpSingle ==
  ASSUME Inv, Announced, NEW s \in Sockets, Server(s)
  PROVE  /\ \A t \in Sockets : Single(up'[t], "venue") /\ (Has(up'[t], "venue") => Has(up[t], "venue"))
         /\ Head(up[s]).type = "venue" => \A t \in Sockets : ~Has(up'[t], "venue")
         /\ Head(up[s]).type = "venue" => Has(up[s], "venue")
<1>1. up[s] # <<>> /\ up[s] \in Seq(Message) /\ OnlyUp(s, Tail(up[s]))
  BY ServerDoes
<1>2. /\ Single(up'[s], "venue") /\ (Head(up[s]).type = "venue" => ~Has(up'[s], "venue"))
      /\ Has(up[s], "venue") <=> Head(up[s]).type = "venue" \/ Has(up'[s], "venue")
  BY <1>1, SingleTail DEF OnlyUp, Announced
<1>3. \A t \in Sockets : t # s => up'[t] = up[t]
  BY <1>1 DEF OnlyUp
<1>4. \A t \in Sockets : Single(up'[t], "venue") /\ (Has(up'[t], "venue") => Has(up[t], "venue"))
  BY <1>2, <1>3 DEF Announced
<1>5. QED BY <1>2, <1>3, <1>4 DEF Announced

LEMMA ServerAnnounced ==
  ASSUME Inv, Announced, NEW s \in Sockets, Server(s),
         \A e \in Devices : Single(down'[e], "venue") /\ (Has(down'[e], "venue") => call[e].offer = None),
         \A t \in Sockets : Has(up'[t], "venue") => stored' = None /\ \A e \in Devices : ~Has(down'[e], "venue"),
         \A e \in Devices : Right(e)' => \A f \in Devices : call[f].offer = None
  PROVE  Announced'
<1>1. call' = call
  BY ServerDoes
<1>2. \A e \in Devices : Socket(e)' = Socket(e)
  BY <1>1 DEF Socket
<1>3. \A t \in Sockets : Single(up'[t], "venue") /\ (Has(up'[t], "venue") => Has(up[t], "venue"))
  BY ServerUpSingle
<1>4. \A t \in Sockets : Has(up'[t], "venue") =>
        stored' = None /\ \A e \in Devices : ~Has(down'[e], "venue") /\ (t # Socket(e)' => call'[e].offer = None)
  BY <1>1, <1>2, <1>3 DEF Announced
<1>5. \A t, u \in Sockets : Has(up'[t], "venue") /\ Has(up'[u], "venue") => t = u
  BY <1>3 DEF Announced
<1>6. QED BY <1>1, <1>3, <1>4, <1>5 DEF Announced

LEMMA RequestAnnounced ==
  ASSUME Inv, InOne, Announced, room = "calliope", NEW s \in Sockets, Server(s), OnRequest(s)
  PROVE  Announced'
<1>1. /\ s \notin peers /\ stored' = stored
      /\ (Live(s) => \E n \in Nat : (n = 1 => peers = {}) /\ OnlyDown(s[1], Greeting(n)))
      /\ ~Live(s) => down' = down
  BY RequestDoes
<1>2. s[1] \in Devices /\ UNCHANGED <<room, call>>
  BY ServerDoes DEF Sockets
<1>3. \A t \in Sockets : Has(up'[t], "venue") => Has(up[t], "venue")
  BY ServerUpSingle
<1>4. CASE ~Live(s)
  <2>1. \A e \in Devices : Right(e)' <=> Right(e)
    BY <1>1, <1>2, <1>4 DEF Right
  <2>2. QED BY <1>1, <1>3, <1>4, <2>1, ServerAnnounced DEF Announced
<1>5. ASSUME Live(s), NEW n \in Nat, n = 1 => peers = {}, OnlyDown(s[1], Greeting(n)) PROVE Announced'
  <2>1. /\ \A i \in DOMAIN Greeting(n) : i # 1 => i = 2 /\ stored # None
        /\ Greeting(n)[1].type = "join"
    BY GreetingFacts, MessageFacts DEF Inv
  <2>2. Single(Greeting(n), "venue") /\ (Has(Greeting(n), "venue") => stored # None)
    BY <2>1 DEF Single, Has
  <2>3. Fresh(call[s[1]])
    BY <1>1, <1>2, <1>5 DEF Live, Inv, Seated
  <2>4. \A e \in Devices : down'[e] = IF e = s[1] THEN Greeting(n) ELSE down[e]
    BY <1>5 DEF OnlyDown
  <2>5. \A e \in Devices : Single(down'[e], "venue") /\ (Has(down'[e], "venue") => call[e].offer = None)
    BY <2>2, <2>3, <2>4 DEF Announced, Fresh
  <2>6. \A t \in Sockets : Has(up'[t], "venue") => stored' = None /\ \A e \in Devices : ~Has(down'[e], "venue")
    BY <1>1, <1>3, <2>2, <2>4 DEF Announced
  <2>7. \A e \in Devices : Right(e)' => \A f \in Devices : call[f].offer = None
    <3>1. CASE n = 1
      <4>1. \A f \in Devices : Fresh(call[f])
        BY <1>5, <3>1 DEF Inv, Seated
      <4>2. QED BY <4>1 DEF Fresh
    <3>2. CASE n # 1
      <4>1. ~Elects(Greeting(n))
        BY <3>2, GreetingPlain DEF Inv
      <4>2. \A e \in Devices : Right(e)' => Right(e)
        BY <1>2, <2>4, <4>1 DEF Right
      <4>3. QED BY <4>2 DEF Announced
    <3>3. QED BY <3>1, <3>2
  <2>8. QED BY <2>5, <2>6, <2>7, ServerAnnounced
<1>6. QED BY <1>1, <1>4, <1>5

LEMMA MessageAnnounced ==
  ASSUME Inv, InOne, Announced, NEW s \in Sockets, Server(s), OnMessage(s)
  PROVE  Announced'
<1>0. PICK m \in Message : m = Head(up[s])
  BY ServerDoes
<1>1. m.type \in {"echo", "venue"} /\ InOne'
  BY <1>0, EchoDoes, RelayDoes, MessageOne
<1>2. call' = call /\ s[1] \in Devices
  BY ServerDoes DEF Sockets
<1>3. \A e \in Devices : down[e] \in Seq(Message)
  BY TypeFacts DEF Inv
<1>4. \A t \in Sockets : Has(up'[t], "venue") => Has(up[t], "venue")
  BY ServerUpSingle
<1>5. CASE m.type = "echo"
  <2>1. PICK n \in Nat : Live(s) => OnlyDown(s[1], Append(down[s[1]], Msg("echo", n)))
    BY <1>0, <1>5, EchoDoes
  <2>2. stored' = stored /\ (~Live(s) => down' = down)
    BY <1>0, <1>5, EchoDoes
  <2>3. Msg("echo", n) \in Message /\ Msg("echo", n).type = "echo"
    BY MessageFacts
  <2>4. ASSUME NEW e \in Devices
        PROVE  /\ Single(down'[e], "venue") /\ (Has(down'[e], "venue") <=> Has(down[e], "venue"))
               /\ Elects(down'[e]) <=> Elects(down[e])
    <3>1. CASE down'[e] = down[e]
      BY <3>1 DEF Announced
    <3>2. CASE down'[e] = Append(down[e], Msg("echo", n))
      <4>1. Single(down[e], "venue")
        BY DEF Announced
      <4>2. Single(down'[e], "venue") /\ (Has(down'[e], "venue") <=> Has(down[e], "venue"))
        BY <1>3, <2>3, <3>2, <4>1, SingleAppend
      <4>3. Elects(down'[e]) <=> Elects(down[e])
        BY <1>3, <2>3, <3>2, PlainAppend
      <4>4. QED BY <4>2, <4>3
    <3>3. QED BY <2>1, <2>2, <3>1, <3>2 DEF OnlyDown
  <2>5. \A e \in Devices : Right(e)' <=> Right(e)
    BY <1>2, <2>4 DEF Right
  <2>6. QED BY <1>4, <2>2, <2>4, <2>5, ServerAnnounced DEF Announced
<1>6. CASE m.type = "venue"
  <2>1. \A e \in Devices : /\ Hears(e, s) => down'[e] = Append(down[e], m)
                           /\ ~Hears(e, s) => down'[e] = down[e]
    BY <1>0, <1>6, RelayDoes
  <2>2. Has(up[s], "venue") /\ \A t \in Sockets : ~Has(up'[t], "venue")
    BY <1>0, <1>6, ServerUpSingle
  <2>3. ASSUME NEW e \in Devices
        PROVE  Single(down'[e], "venue") /\ (Has(down'[e], "venue") => call[e].offer = None)
    <3>1. ~Has(down[e], "venue") /\ Single(down[e], "venue")
      BY <2>2 DEF Announced
    <3>2. CASE Hears(e, s)
      <4>1. down'[e] = Append(down[e], m) /\ s # Socket(e)
        BY <2>1, <3>2 DEF Hears
      <4>2. call[e].offer = None
        BY <2>2, <4>1 DEF Announced
      <4>3. QED BY <1>3, <3>1, <4>1, <4>2, SingleAppend
    <3>3. CASE ~Hears(e, s)
      BY <2>1, <3>1, <3>3
    <3>4. QED BY <3>2, <3>3
  <2>4. \A e \in Devices : ~Right(e)'
    <3>1. \E v \in Venue : Brings(up[s], v)
      BY <2>2, HasVenue, TypeFacts DEF InOne, Inv
    <3>2. \A e \in Devices : ~Right(e)
      BY <3>1 DEF InOne, Token
    <3>3. m # Msg("join", 1)
      BY <1>6, MessageFacts
    <3>4. ASSUME NEW e \in Devices PROVE Elects(down'[e]) => Elects(down[e])
      <4>1. CASE down'[e] = down[e]
        BY <4>1
      <4>2. CASE down'[e] = Append(down[e], m)
        BY <1>3, <3>3, <4>2, AppendFacts DEF Elects
      <4>3. QED BY <2>1, <4>1, <4>2
    <3>5. QED BY <1>2, <3>2, <3>4 DEF Right
  <2>5. QED BY <2>2, <2>3, <2>4, ServerAnnounced
<1>7. QED BY <1>1, <1>5, <1>6

LEMMA CloseAnnounced ==
  ASSUME Inv, Announced, NEW s \in Sockets, Server(s), OnClose(s)
  PROVE  Announced'
<1>1. down' = down /\ stored' \in {None, stored} /\ call' = call
  BY CloseDoes, ServerDoes
<1>2. \A e \in Devices : Right(e)' <=> Right(e)
  BY <1>1 DEF Right
<1>3. QED BY <1>1, <1>2, ServerUpSingle, ServerAnnounced DEF Announced

Told == room = "calliope" => Announced

LEMMA ToldNext == Inv /\ OneVenue /\ Told /\ [Next]_vars => Told'
<1> SUFFICES ASSUME Inv, OneVenue, Told, [Next]_vars, room' = "calliope" PROVE Announced'
  BY DEF Told
<1>1. room = "calliope" /\ Calliope
  BY DEF Next, vars, Start, Stop, Lose, Keepalive, Deliver, VenueReady, SDPReady, Server, Calliope
<1>2. InOne /\ Announced
  BY <1>1 DEF OneVenue, Told
<1>3. ASSUME NEW s \in Sockets, Server(s) PROVE Announced'
  BY <1>1, <1>2, <1>3, ServerDoes, RequestAnnounced, MessageAnnounced, CloseAnnounced
<1>4. ASSUME NEW d \in Devices, Lose(d) PROVE Announced'
  BY <1>1, <1>4 DEF Lose
<1>5. CASE Next
  BY <1>1, <1>2, <1>3, <1>4, <1>5, StartAnnounced, StopAnnounced, KeepaliveAnnounced, DeliverAnnounced,
     VenueAnnounced, SDPAnnounced DEF Next
<1>6. CASE UNCHANGED vars
  <2>1. \A d \in Devices : (Right(d)' <=> Right(d)) /\ Socket(d)' = Socket(d)
    BY <1>6 DEF vars, Right, Socket
  <2>2. QED BY <1>2, <1>6, <2>1 DEF Announced, vars
<1>7. QED BY <1>5, <1>6

LEMMA InitTold == Init => Told
<1> SUFFICES ASSUME Init PROVE Announced
  BY DEF Told
<1>1. /\ \A d \in Devices : Fresh(call[d]) /\ down[d] = <<>>
      /\ \A s \in Sockets : up[s] = <<>>
  BY DEF Init, Fresh
<1>2. QED BY <1>1, EmptySingle DEF Announced, Fresh

-----------------------------------------------------------------------------
(* Without calliope and with at most two devices, what is said of an offer is *)
(* said of the latest offer of the device that made it: a device makes one    *)
(* offer in a call, and starts again only when nothing is under way.          *)
AtMostTwo == \A a, b, c \in Devices : a = b \/ b = c \/ a = c

Says(q, t, n) == \E i \in DOMAIN q : q[i] = Msg(t, n)

(* Offers of d on their way to the room, and answers on their way to d.       *)
Own(d, n) == \/ Says(call[d].pend, "offer", n) \/ Says(down[d], "answer", n)
             \/ \E s \in Sockets : s[1] = d /\ Says(up[s], "offer", n)

(* Offers on their way to d, and answers of d on their way to the room.       *)
Other(d, n) == \/ Says(down[d], "offer", n) \/ Says(call[d].pend, "answer", n)
               \/ \E s \in Sockets : s[1] = d /\ Says(up[s], "answer", n)

Mine(d) == call[d].active \/ call[d].opens = 0 =>
  /\ call[d].answered \in {None, call[d].offer}
  /\ \A n \in Nat : Own(d, n) => n = call[d].offer /\ n # None
  /\ \A e \in Devices \ {d}, n \in Nat : Other(e, n) => n = call[d].offer /\ n # None

NoNews == /\ stored = None
          /\ \A s \in Sockets : ~Has(up[s], "venue")
          /\ \A d \in Devices : ~Has(down[d], "venue")

Paired1(d) == /\ call[d].active => \A s \in Sockets : s[1] = d /\ s # Socket(d) => up[s] = <<>>
              /\ ~call[d].startedCall => call[d].offer = None
              /\ Mine(d)

Pairs == NoNews /\ \A d \in Devices : Paired1(d)

LEMMA SaysAppend ==
  ASSUME NEW S, NEW q \in Seq(S), NEW m \in S, NEW t, NEW n
  PROVE  Says(Append(q, m), t, n) <=> Says(q, t, n) \/ m = Msg(t, n)
<1>1. /\ DOMAIN Append(q, m) = DOMAIN q \cup {Len(q) + 1}
      /\ \A i \in DOMAIN q : Append(q, m)[i] = q[i]
      /\ Append(q, m)[Len(q) + 1] = m
  BY AppendFacts
<1>2. QED BY <1>1 DEF Says

LEMMA SaysTail ==
  ASSUME NEW S, NEW q \in Seq(S), q # <<>>, NEW t, NEW n
  PROVE  Says(q, t, n) <=> Head(q) = Msg(t, n) \/ Says(Tail(q), t, n)
<1>1. /\ Head(q) = q[1] /\ 1 \in DOMAIN q /\ Tail(q) \in Seq(S)
      /\ \A i \in DOMAIN Tail(q) : Tail(q)[i] = q[i + 1] /\ i + 1 \in DOMAIN q
      /\ \A i \in DOMAIN q : i = 1 \/ (i - 1 \in DOMAIN Tail(q) /\ q[i] = Tail(q)[i - 1])
  BY TailFacts
<1>2. Says(q, t, n) => Head(q) = Msg(t, n) \/ Says(Tail(q), t, n)
  BY <1>1 DEF Says
<1>3. Head(q) = Msg(t, n) \/ Says(Tail(q), t, n) => Says(q, t, n)
  BY <1>1 DEF Says
<1>4. QED BY <1>2, <1>3

LEMMA SaysNothing == \A t, n : ~Says(<<>>, t, n)
  BY DEF Says

LEMMA SaysSingle ==
  ASSUME NEW m \in Message, NEW t, NEW n
  PROVE  Says(<<m>>, t, n) <=> m = Msg(t, n)
  BY SingleFacts DEF Says

(* A step that makes no offer.                                                *)
LEMMA PairedKept ==
  ASSUME NEW d \in Devices, Paired1(d),
         call'[d].active \/ call'[d].opens = 0 => call[d].active \/ call[d].opens = 0,
         call'[d].active => Socket(d)' = Socket(d) /\ \A s \in Sockets : s[1] = d /\ up[s] = <<>> => up'[s] = <<>> \/ s = Socket(d),
         call'[d].active => call[d].active \/ \A s \in Sockets : s[1] = d /\ s # Socket(d)' => up'[s] = <<>>,
         call'[d].offer = call[d].offer,
         call'[d].answered \in {call[d].answered, call[d].offer},
         call[d].startedCall => call'[d].startedCall \/ call'[d].offer = None,
         \A n \in Nat : Own(d, n)' => Own(d, n),
         \A e \in Devices \ {d}, n \in Nat : Other(e, n)' => Other(e, n)
  PROVE  Paired1(d)'
<1>1. call'[d].active => \A s \in Sockets : s[1] = d /\ s # Socket(d)' => up'[s] = <<>>
  BY DEF Paired1
<1>2. ~call'[d].startedCall => call'[d].offer = None
  BY DEF Paired1
<1>3. Mine(d)'
  BY DEF Mine, Paired1
<1>4. QED BY <1>1, <1>2, <1>3 DEF Paired1

LEMMA UpTold ==
  ASSUME Inv, NEW d \in Devices, NEW m \in Message, Send(d, m)
  PROVE  /\ \A s \in Sockets : \A t, n : Says(up'[s], t, n) => Says(up[s], t, n) \/ (s[1] = d /\ m = Msg(t, n))
         /\ \A s \in Sockets : Has(up'[s], "venue") => Has(up[s], "venue") \/ m.type = "venue"
         /\ \A s \in Sockets : s # Socket(d) => up'[s] = up[s]
<1>1. CASE ~call[d].linked
  BY <1>1, SendDoes
<1>2. CASE call[d].linked
  <2>1. Socket(d) \in Sockets /\ OnlyUp(Socket(d), Append(up[Socket(d)], m)) /\ Socket(d)[1] = d
    BY <1>2, SendDoes DEF Socket
  <2>2. up[Socket(d)] \in Seq(Message)
    BY <2>1, TypeFacts DEF Inv
  <2>3. /\ \A t, n : Says(up'[Socket(d)], t, n) <=> Says(up[Socket(d)], t, n) \/ m = Msg(t, n)
        /\ Has(up'[Socket(d)], "venue") <=> Has(up[Socket(d)], "venue") \/ m.type = "venue"
    BY <2>1, <2>2, SaysAppend, SingleAppend DEF OnlyUp
  <2>4. \A s \in Sockets : s # Socket(d) => up'[s] = up[s]
    BY <2>1 DEF OnlyUp
  <2>5. QED BY <2>1, <2>3, <2>4
<1>3. QED BY <1>1, <1>2

LEMMA StartPair ==
  ASSUME Inv, Pairs, Calm, NEW d \in Devices, Start(d)
  PROVE  Pairs'
<1>0. PICK t : t = <<d, call'[d].opens>>
  OBVIOUS
<1>1. /\ ~call[d].active /\ Fresh(call[d]) /\ down[d] = <<>> /\ OnlyCall(d) /\ Fresh(call'[d])
      /\ call'[d].active /\ call'[d].opens = call[d].opens + 1 /\ OnlyUp(t, <<Request>>)
      /\ UNCHANGED <<down, stored>>
  BY <1>0, StartDoes
<1>2. t[1] = d /\ t = Socket(d)' /\ Request \in Message
  BY <1>0, MessageFacts DEF Socket
<1>3. /\ \A v, n : v # "request" => ~Says(<<Request>>, v, n)
      /\ ~Has(<<Request>>, "venue")
  BY <1>2, SaysSingle, SingleFacts, MessageFacts DEF Request
<1>4. \A s \in Sockets : up'[s] = IF s = t THEN <<Request>> ELSE up[s]
  BY <1>1 DEF OnlyUp
<1>5. NoNews'
  BY <1>1, <1>3, <1>4 DEF NoNews, Pairs
<1>6. \A e \in Devices : e # d => call'[e] = call[e] /\ Socket(e)' = Socket(e)
  BY <1>1 DEF OnlyCall, Socket
<1>7. call[d].pend = <<>> /\ call'[d].pend = <<>> /\ call[d].offer = None /\ call'[d].offer = None /\ call'[d].answered = None
  BY <1>1 DEF Fresh
<1>8. \A e \in Devices : call'[e].pend = call[e].pend
  BY <1>6, <1>7
<1>9. \A e \in Devices : \A n : (Own(e, n)' => Own(e, n)) /\ (Other(e, n)' => Other(e, n))
  <2>1. \A s \in Sockets : \A n : /\ Says(up'[s], "offer", n) => Says(up[s], "offer", n)
                                  /\ Says(up'[s], "answer", n) => Says(up[s], "answer", n)
    BY <1>3, <1>4
  <2>2. QED BY <1>1, <1>8, <2>1 DEF Own, Other
<1>10. ASSUME NEW e \in Devices, e # d PROVE Paired1(e)'
  <2>1. \A s \in Sockets : s[1] = e => up'[s] = up[s]
    BY <1>2, <1>4, <1>10
  <2>2. Paired1(e) /\ call'[e] = call[e] /\ Socket(e)' = Socket(e)
    BY <1>6, <1>10 DEF Pairs
  <2>3. QED BY <1>9, <2>1, <2>2, PairedKept DEF Pairs
<1>11. Paired1(d)'
  <2>1. Settled \/ call[d].opens = 0
    BY <1>1 DEF Start
  <2>2. \A s \in Sockets : s[1] = d => up[s] = <<>>
    <3>1. CASE Settled
      BY <3>1 DEF Settled
    <3>2. CASE call[d].opens = 0
      <4>1. ASSUME NEW s \in Sockets, s[1] = d PROVE up[s] = <<>>
        <5>1. Wired(s) /\ s[2] \in Nat /\ s[2] > 0
          BY DEF Inv, Sockets
        <5>2. QED BY <3>2, <4>1, <5>1 DEF Wired
      <4>2. QED BY <4>1
    <3>3. QED BY <2>1, <3>1, <3>2
  <2>3. \A s \in Sockets : s[1] = d /\ s # Socket(d)' => up'[s] = <<>>
    BY <1>2, <1>4, <2>2
  <2>4. Mine(d)'
    <3>1. CASE Settled
      <4>1. /\ \A s \in Sockets : up[s] = <<>>
            /\ \A e \in Devices : down[e] = <<>> /\ call[e].pend = <<>>
        BY <3>1 DEF Settled
      <4>2. \A e \in Devices : \A n : ~Own(e, n) /\ ~Other(e, n)
        BY <4>1, SaysNothing DEF Own, Other
      <4>3. QED BY <1>7, <1>9, <4>2 DEF Mine
    <3>2. CASE call[d].opens = 0
      <4>1. /\ \A n \in Nat : Own(d, n) => n = call[d].offer /\ n # None
            /\ \A e \in Devices \ {d}, n \in Nat : Other(e, n) => n = call[d].offer /\ n # None
        BY <3>2 DEF Pairs, Paired1, Mine
      <4>2. QED BY <1>7, <1>9, <4>1 DEF Mine
    <3>3. QED BY <2>1, <3>1, <3>2
  <2>5. QED BY <1>7, <2>3, <2>4 DEF Paired1
<1>12. QED BY <1>5, <1>10, <1>11 DEF Pairs

LEMMA StopPair ==
  ASSUME Inv, Pairs, Calm, NEW d \in Devices, Stop(d)
  PROVE  Pairs'
<1>1. /\ call[d].active /\ OnlyCall(d) /\ ~call'[d].active
      /\ call'[d].opens = call[d].opens /\ Fresh(call'[d])
      /\ OnlyDown(d, <<>>) /\ Send(d, Close) /\ stored' = stored
  BY StopDoes
<1>2. call'[d].opens # 0
  BY <1>1 DEF Inv, Seated, Calm
<1>3. /\ \A s \in Sockets : \A t, n : t # "close" /\ Says(up'[s], t, n) => Says(up[s], t, n)
      /\ \A s \in Sockets : Has(up'[s], "venue") => Has(up[s], "venue")
      /\ \A s \in Sockets : s # Socket(d) => up'[s] = up[s]
  BY <1>1, UpTold, MessageFacts DEF Close
<1>4. \A e \in Devices : /\ e # d => call'[e] = call[e] /\ Socket(e)' = Socket(e) /\ down'[e] = down[e]
                         /\ e = d => call'[e].pend = <<>> /\ down'[e] = <<>>
  BY <1>1 DEF OnlyCall, OnlyDown, Socket, Fresh
<1>5. \A e \in Devices : \A n : (Own(e, n)' => Own(e, n)) /\ (Other(e, n)' => Other(e, n))
  BY <1>3, <1>4, SaysNothing DEF Own, Other
<1>6. NoNews'
  BY <1>1, <1>3, <1>4, EmptyFacts DEF NoNews, Pairs
<1>7. ASSUME NEW e \in Devices, e # d PROVE Paired1(e)'
  <2>1. \A s \in Sockets : s[1] = e => up'[s] = up[s]
    BY <1>3, <1>7 DEF Socket
  <2>2. Paired1(e) /\ call'[e] = call[e] /\ Socket(e)' = Socket(e)
    BY <1>4, <1>7 DEF Pairs
  <2>3. QED BY <1>5, <2>1, <2>2, PairedKept
<1>8. Paired1(d)'
  BY <1>1, <1>2 DEF Paired1, Mine, Fresh
<1>9. QED BY <1>6, <1>7, <1>8 DEF Pairs

LEMMA KeepalivePair ==
  ASSUME Inv, Pairs, NEW d \in Devices, Keepalive(d)
  PROVE  Pairs'
<1>1. Send(d, Msg("echo", 0)) /\ UNCHANGED <<call, down, stored>>
  BY DEF Keepalive
<1>2. /\ \A s \in Sockets : \A t, n : t # "echo" /\ Says(up'[s], t, n) => Says(up[s], t, n)
      /\ \A s \in Sockets : Has(up'[s], "venue") => Has(up[s], "venue")
      /\ \A s \in Sockets : s # Socket(d) => up'[s] = up[s]
  BY <1>1, UpTold, MessageFacts
<1>3. \A e \in Devices : \A n : (Own(e, n)' => Own(e, n)) /\ (Other(e, n)' => Other(e, n))
  BY <1>1, <1>2 DEF Own, Other
<1>4. ASSUME NEW e \in Devices PROVE Paired1(e)'
  <2>1. call'[e] = call[e] /\ Socket(e)' = Socket(e) /\ Paired1(e)
    BY <1>1 DEF Socket, Pairs
  <2>2. \A s \in Sockets : s[1] = e /\ up[s] = <<>> => up'[s] = <<>> \/ s = Socket(e)
    BY <1>2 DEF Socket
  <2>3. call'[e].active => call[e].active
    BY <2>1
  <2>4. QED BY <1>3, <2>1, <2>2, <2>3, PairedKept
<1>5. QED BY <1>1, <1>2, <1>4 DEF Pairs, NoNews

LEMMA DeliverPair ==
  ASSUME Inv, Pairs, room = "p2p", NEW d \in Devices, Deliver(d)
  PROVE  Pairs'
<1>1. /\ down[d] # <<>> /\ down[d] \in Seq(Message) /\ OnlyDown(d, Tail(down[d])) /\ OnlyCall(d)
      /\ Same(call'[d], call[d]) /\ call[d].linked
      /\ up' = up /\ stored' = stored
      /\ Head(down[d]) \in Message /\ Head(down[d]).type \in {"join", "echo", "venue", "offer", "answer"}
  BY DeliverDoes
<1>2. PICK m \in Message : m = Head(down[d]) /\ m = Msg(m.type, m.n) /\ m.n \in Nat
  BY <1>1, MessageFacts
<1>3. /\ \A t, n : Says(down[d], t, n) <=> m = Msg(t, n) \/ Says(down'[d], t, n)
      /\ Has(down[d], "venue") <=> m.type = "venue" \/ Has(down'[d], "venue")
  BY <1>1, <1>2, SaysTail, SingleTail DEF OnlyDown
<1>4. NoNews' /\ m.type # "venue"
  BY <1>1, <1>3 DEF NoNews, Pairs, OnlyDown
<1>5. \A e \in Devices : /\ Socket(e)' = Socket(e) /\ call'[e].active = call[e].active /\ call'[e].opens = call[e].opens
                         /\ e # d => call'[e] = call[e] /\ down'[e] = down[e]
  BY <1>1 DEF OnlyCall, OnlyDown, Socket, Same
<1>6. \A e \in Devices : \A n : e # d => (Own(e, n)' <=> Own(e, n)) /\ (Other(e, n)' <=> Other(e, n))
  BY <1>1, <1>5 DEF Own, Other
<1>7. call[d].active /\ Paired1(d)
  BY <1>1 DEF Inv, Seated, Pairs
<1>8. call[d].pend \in Seq(Sdp) /\ made \in Nat /\ \A n \in Nat : Msg("offer", n) \in Sdp /\ Msg("answer", n) \in Sdp
  BY TypeFacts, SdpFacts DEF Inv
<1>9. ASSUME \A n \in Nat : Other(d, n)' => Other(d, n), NEW e \in Devices, e # d PROVE Paired1(e)'
  <2>1. Paired1(e) /\ call'[e] = call[e]
    BY <1>5, <1>9 DEF Pairs
  <2>2. QED BY <1>1, <1>5, <1>6, <1>9, <2>1, PairedKept
<1>10. CASE m.type = "join" /\ m.n > 1
  <2>1. /\ call'[d].offer = made + 1 /\ call'[d].pend = Append(call[d].pend, Msg("offer", made + 1))
        /\ call'[d].answered = call[d].answered /\ call'[d].startedCall /\ ~call[d].startedCall
    BY <1>2, <1>10, DeliverDoes DEF Calliope
  <2>2. call[d].offer = None /\ call[d].answered = None
    BY <1>7, <2>1 DEF Paired1, Mine
  <2>3. (\A n \in Nat : ~Own(d, n)) /\ \A e \in Devices \ {d}, n \in Nat : ~Other(e, n)
    BY <1>7, <2>2 DEF Paired1, Mine
  <2>4. made + 1 \in Nat /\ made + 1 # None
    BY <1>8 DEF None
  <2>5. \A t, n : Says(call'[d].pend, t, n) <=> Says(call[d].pend, t, n) \/ (t = "offer" /\ n = made + 1)
    <3>1. Msg("offer", made + 1) \in Sdp
      BY <1>8, <2>4
    <3>2. QED BY <1>8, <2>1, <3>1, SaysAppend, MessageFacts
  <2>6. \A n \in Nat : Own(d, n)' => Own(d, n) \/ n = made + 1
    BY <1>1, <1>3, <2>5 DEF Own
  <2>7. \A n \in Nat : Other(d, n)' => Other(d, n)
    BY <1>1, <1>3, <2>5 DEF Other
  <2>8. Mine(d)'
    BY <1>6, <2>1, <2>2, <2>3, <2>4, <2>6 DEF Mine
  <2>9. Paired1(d)'
    BY <1>1, <1>5, <1>7, <2>1, <2>8 DEF Paired1
  <2>10. QED BY <1>4, <1>9, <2>7, <2>9 DEF Pairs
<1>11. CASE m.type = "echo" \/ (m.type = "join" /\ ~(m.n > 1))
  <2>1. /\ call'[d].offer = call[d].offer /\ call'[d].pend = call[d].pend
        /\ call'[d].answered = call[d].answered /\ (call[d].startedCall => call'[d].startedCall)
    BY <1>2, <1>11, DeliverDoes
  <2>2. \A n \in Nat : (Own(d, n)' => Own(d, n)) /\ (Other(d, n)' => Other(d, n))
    BY <1>1, <1>3, <2>1 DEF Own, Other
  <2>3. Paired1(d)'
    BY <1>1, <1>5, <1>6, <1>7, <2>1, <2>2, PairedKept
  <2>4. QED BY <1>4, <1>9, <2>2, <2>3 DEF Pairs
<1>12. CASE m.type = "offer"
  <2>1. /\ call'[d].offer = call[d].offer /\ call'[d].pend = Append(call[d].pend, Msg("answer", m.n))
        /\ call'[d].answered = call[d].answered /\ call'[d].startedCall = call[d].startedCall
    BY <1>2, <1>12, DeliverDoes
  <2>2. \A t, n : Says(call'[d].pend, t, n) <=> Says(call[d].pend, t, n) \/ (t = "answer" /\ n = m.n)
    <3>1. Msg("answer", m.n) \in Sdp
      BY <1>2, <1>8
    <3>2. QED BY <1>8, <2>1, <3>1, SaysAppend, MessageFacts
  <2>3. Other(d, m.n)
    BY <1>2, <1>3, <1>12 DEF Other
  <2>4. \A n \in Nat : (Own(d, n)' => Own(d, n)) /\ (Other(d, n)' => Other(d, n))
    BY <1>1, <1>3, <2>2, <2>3 DEF Own, Other
  <2>5. Paired1(d)'
    BY <1>1, <1>5, <1>6, <1>7, <2>1, <2>4, PairedKept
  <2>6. QED BY <1>4, <1>9, <2>4, <2>5 DEF Pairs
<1>13. CASE m.type = "answer"
  <2>1. /\ call'[d].offer = call[d].offer /\ call'[d].pend = call[d].pend
        /\ call'[d].answered = m.n /\ call'[d].startedCall = call[d].startedCall
    BY <1>2, <1>13, DeliverDoes
  <2>2. m.n = call[d].offer
    <3>1. Own(d, m.n)
      BY <1>2, <1>3, <1>13 DEF Own
    <3>2. QED BY <1>2, <1>7, <3>1 DEF Paired1, Mine
  <2>3. \A n \in Nat : (Own(d, n)' => Own(d, n)) /\ (Other(d, n)' => Other(d, n))
    BY <1>1, <1>3, <2>1 DEF Own, Other
  <2>4. Paired1(d)'
    BY <1>1, <1>5, <1>6, <1>7, <2>1, <2>2, <2>3, PairedKept
  <2>5. QED BY <1>4, <1>9, <2>3, <2>4 DEF Pairs
<1>14. QED BY <1>1, <1>2, <1>4, <1>10, <1>11, <1>12, <1>13

LEMMA SDPPair ==
  ASSUME Inv, Pairs, room = "p2p", NEW d \in Devices, SDPReady(d)
  PROVE  Pairs'
<1>1. /\ call[d].pend # <<>> /\ call[d].pend \in Seq(Sdp) /\ Head(call[d].pend) \in Sdp
      /\ OnlyCall(d) /\ Same(call'[d], call[d]) /\ call'[d].startedCall = call[d].startedCall
      /\ call'[d].offer = call[d].offer /\ call'[d].answered = call[d].answered
      /\ call'[d].pend = Tail(call[d].pend)
      /\ Send(d, Head(call[d].pend)) /\ down' = down /\ stored' = stored
  BY SDPReadyDoes DEF Calliope
<1>2. PICK m \in Message : m = Head(call[d].pend) /\ m.type \in {"offer", "answer"}
  BY <1>1 DEF Sdp, Message
<1>3. /\ \A s \in Sockets : \A t, n : Says(up'[s], t, n) => Says(up[s], t, n) \/ (s[1] = d /\ m = Msg(t, n))
      /\ \A s \in Sockets : Has(up'[s], "venue") => Has(up[s], "venue")
      /\ \A s \in Sockets : s # Socket(d) => up'[s] = up[s]
  BY <1>1, <1>2, UpTold
<1>4. \A t, n : Says(call[d].pend, t, n) <=> m = Msg(t, n) \/ Says(call'[d].pend, t, n)
  BY <1>1, <1>2, SaysTail
<1>5. \A e \in Devices : /\ Socket(e)' = Socket(e) /\ call'[e].active = call[e].active /\ call'[e].opens = call[e].opens
                         /\ e # d => call'[e] = call[e]
  BY <1>1 DEF OnlyCall, Socket, Same
<1>6. \A e \in Devices : \A n : (Own(e, n)' => Own(e, n)) /\ (Other(e, n)' => Other(e, n))
  BY <1>1, <1>3, <1>4, <1>5 DEF Own, Other
<1>7. ASSUME NEW e \in Devices PROVE Paired1(e)'
  <2>1. /\ call'[e].offer = call[e].offer /\ call'[e].answered = call[e].answered
        /\ call'[e].startedCall = call[e].startedCall /\ Paired1(e)
    BY <1>1, <1>5 DEF Pairs
  <2>2. \A s \in Sockets : s[1] = e /\ up[s] = <<>> => up'[s] = <<>> \/ s = Socket(e)
    BY <1>3 DEF Socket
  <2>3. QED BY <1>5, <1>6, <2>1, <2>2, PairedKept
<1>8. QED BY <1>1, <1>3, <1>7 DEF Pairs, NoNews

(* The server tells an offer and an answer to the other device only: of its   *)
(* own sockets, only the live one still sends.                                *)
LEMMA ServerPair ==
  ASSUME Inv, Pairs, AtMostTwo, room = "p2p", NEW s \in Sockets, Server(s)
  PROVE  Pairs'
<1>1. /\ up[s] # <<>> /\ up[s] \in Seq(Message) /\ Head(up[s]) \in Message /\ OnlyUp(s, Tail(up[s]))
      /\ OnRequest(s) \/ OnMessage(s) \/ OnClose(s)
      /\ call' = call /\ s[1] \in Devices
  BY ServerDoes DEF Sockets
<1>2. PICK m \in Message : m = Head(up[s]) /\ m = Msg(m.type, m.n) /\ m.n \in Nat
  BY <1>1, MessageFacts
<1>3. /\ \A t, n : Says(up[s], t, n) <=> m = Msg(t, n) \/ Says(up'[s], t, n)
      /\ Has(up[s], "venue") <=> m.type = "venue" \/ Has(up'[s], "venue")
  BY <1>1, <1>2, SaysTail, SingleTail DEF OnlyUp
<1>4. \A t \in Sockets : t # s => up'[t] = up[t]
  BY <1>1 DEF OnlyUp
<1>5. /\ \A t \in Sockets : \A u, n : Says(up'[t], u, n) => Says(up[t], u, n)
      /\ \A t \in Sockets : ~Has(up'[t], "venue")
      /\ m.type # "venue"
  BY <1>3, <1>4 DEF Pairs, NoNews
<1>6. \A e \in Devices : Socket(e)' = Socket(e) /\ Paired1(e)
  BY <1>1 DEF Socket, Pairs
<1>7. \A t \in Sockets : up[t] = <<>> => up'[t] = <<>>
  BY <1>1, <1>4
<1>8. \A e \in Devices : down[e] \in Seq(Message)
  BY TypeFacts DEF Inv
<1>9. ASSUME stored' = None, \A e \in Devices : ~Has(down'[e], "venue"),
             \A e \in Devices, n \in Nat : /\ Says(down'[e], "answer", n) => Own(e, n) \/ (Paired1(e) /\ Mine(e)')
                                           /\ Says(down'[e], "offer", n) => Other(e, n),
             \A e \in Devices : ~Mine(e)' => \A n \in Nat : Says(down'[e], "answer", n) => Own(e, n)
      PROVE  Pairs'
  <2>1. \A e \in Devices, n \in Nat : Other(e, n)' => Other(e, n)
    BY <1>1, <1>5, <1>9 DEF Other
  <2>2. ASSUME NEW e \in Devices PROVE Paired1(e)'
    <3>1. CASE Mine(e)'
      BY <1>1, <1>6, <1>7, <3>1 DEF Paired1
    <3>2. CASE ~Mine(e)'
      <4>1. \A n \in Nat : Own(e, n)' => Own(e, n)
        BY <1>1, <1>5, <1>9, <3>2 DEF Own
      <4>2. QED BY <1>1, <1>6, <1>7, <2>1, <4>1, PairedKept
    <3>3. QED BY <3>1, <3>2
  <2>3. QED BY <1>5, <1>9, <2>2 DEF Pairs, NoNews
<1>10. CASE m.type \notin {"offer", "answer"}
  <2>1. /\ stored' = None
        /\ \A e \in Devices : ~Has(down'[e], "venue")
        /\ \A e \in Devices : \A n, t : t \in {"offer", "answer"} /\ Says(down'[e], t, n) => Says(down[e], t, n)
    <3>1. CASE OnRequest(s)
      <4>1. /\ stored' = stored /\ (~Live(s) => down' = down)
            /\ Live(s) => \E n \in Nat : OnlyDown(s[1], Greeting(n))
        BY <3>1, RequestDoes
      <4>2. stored = None
        BY DEF Pairs, NoNews
      <4>3. ASSUME NEW n \in Nat
            PROVE  ~Has(Greeting(n), "venue") /\ \A k, t : t \in {"offer", "answer"} => ~Says(Greeting(n), t, k)
        <5>1. \A i \in DOMAIN Greeting(n) : Greeting(n)[i] = Msg("join", n)
          BY <4>2, GreetingFacts DEF Inv
        <5>2. QED BY <5>1, MessageFacts DEF Has, Says
      <4>4. CASE ~Live(s)
        BY <4>1, <4>2, <4>4 DEF Pairs, NoNews
      <4>5. CASE Live(s)
        <5>1. PICK n \in Nat : OnlyDown(s[1], Greeting(n))
          BY <4>1, <4>5
        <5>2. \A e \in Devices : down'[e] = IF e = s[1] THEN Greeting(n) ELSE down[e]
          BY <5>1 DEF OnlyDown
        <5>3. QED BY <4>1, <4>2, <4>3, <5>2 DEF Pairs, NoNews
      <4>6. QED BY <4>4, <4>5
    <3>2. CASE OnMessage(s)
      <4>1. m.type = "echo"
        BY <1>2, <1>5, <1>10, <3>2, RelayDoes
      <4>2. PICK n \in Nat : Live(s) => OnlyDown(s[1], Append(down[s[1]], Msg("echo", n)))
        BY <1>2, <3>2, <4>1, EchoDoes
      <4>3. stored' = stored /\ (~Live(s) => down' = down)
        BY <1>2, <3>2, <4>1, EchoDoes
      <4>4. \A e \in Devices : down'[e] \in {down[e], Append(down[e], Msg("echo", n))}
        BY <4>2, <4>3 DEF OnlyDown
      <4>5. Msg("echo", n) \in Message /\ Msg("echo", n).type = "echo" /\ \A t, k : t # "echo" => Msg("echo", n) # Msg(t, k)
        BY MessageFacts
      <4>6. ASSUME NEW e \in Devices
            PROVE  /\ ~Has(down'[e], "venue")
                   /\ \A k, t : t \in {"offer", "answer"} /\ Says(down'[e], t, k) => Says(down[e], t, k)
        <5>1. CASE down'[e] = down[e]
          BY <5>1 DEF Pairs, NoNews
        <5>2. CASE down'[e] = Append(down[e], Msg("echo", n))
          <6>1. ~Has(down[e], "venue")
            BY DEF Pairs, NoNews
          <6>2. ~Has(down'[e], "venue")
            BY <1>8, <4>5, <5>2, <6>1, SingleAppend
          <6>3. ASSUME NEW k, NEW t, t \in {"offer", "answer"}, Says(down'[e], t, k) PROVE Says(down[e], t, k)
            BY <1>8, <4>5, <5>2, <6>3, SaysAppend
          <6>4. QED BY <6>2, <6>3
        <5>3. QED BY <4>4, <5>1, <5>2
      <4>7. QED BY <4>3, <4>6 DEF Pairs, NoNews
    <3>3. CASE OnClose(s)
      <4>1. down' = down /\ stored' \in {None, stored}
        BY <3>3, CloseDoes
      <4>2. QED BY <4>1 DEF Pairs, NoNews
    <3>4. QED BY <1>1, <3>1, <3>2, <3>3
  <2>2. QED BY <1>9, <2>1 DEF Own, Other
<1>11. CASE m.type \in {"offer", "answer"}
  <2>1. OnMessage(s)
    BY <1>1, <1>2, <1>11, CloseDoes, MessageFacts DEF OnRequest
  <2>2. /\ stored' = stored
        /\ \A e \in Devices : /\ Hears(e, s) => down'[e] = Append(down[e], m)
                              /\ ~Hears(e, s) => down'[e] = down[e]
    BY <1>2, <1>11, <2>1, RelayDoes
  <2>3. ASSUME NEW e \in Devices, Hears(e, s) PROVE e # s[1] /\ call[e].active
    <3>1. call[e].linked /\ s # Socket(e)
      BY <2>3 DEF Hears
    <3>2. call[e].active
      BY <3>1 DEF Inv, Seated
    <3>3. QED BY <1>1, <1>6, <3>1, <3>2 DEF Paired1
  <2>4. stored' = None
    BY <2>2 DEF Pairs, NoNews
  <2>5. ASSUME NEW e \in Devices
        PROVE  /\ ~Has(down'[e], "venue")
               /\ \A t, n : Says(down'[e], t, n) => Says(down[e], t, n) \/ (Hears(e, s) /\ m = Msg(t, n))
    <3>1. ~Has(down[e], "venue")
      BY DEF Pairs, NoNews
    <3>2. CASE Hears(e, s)
      <4>1. down'[e] = Append(down[e], m)
        BY <2>2, <3>2
      <4>2. ~Has(down'[e], "venue")
        BY <1>5, <1>8, <3>1, <4>1, SingleAppend
      <4>3. \A t, n : Says(down'[e], t, n) <=> Says(down[e], t, n) \/ m = Msg(t, n)
        BY <1>8, <4>1, SaysAppend
      <4>4. QED BY <3>2, <4>2, <4>3
    <3>3. CASE ~Hears(e, s)
      BY <2>2, <3>1, <3>3
    <3>4. QED BY <3>2, <3>3
  <2>6. /\ \A n : m = Msg("offer", n) => Own(s[1], n)
        /\ \A n : m = Msg("answer", n) => Other(s[1], n)
    BY <1>3 DEF Own, Other
  <2>7. ASSUME NEW e \in Devices PROVE Paired1(e)'
    <3>1. /\ call[e].answered \in {None, call[e].offer} /\ call'[e] = call[e]
          /\ \A n \in Nat : Own(e, n) => n = call[e].offer /\ n # None
          /\ \A f \in Devices \ {e}, n \in Nat : Other(f, n) => n = call[e].offer /\ n # None
          \/ ~(call[e].active \/ call[e].opens = 0)
      BY <1>1, <1>6 DEF Paired1, Mine
    <3>2. CASE ~(call[e].active \/ call[e].opens = 0)
      BY <1>1, <1>6, <1>7, <3>2 DEF Paired1, Mine
    <3>3. CASE call[e].active \/ call[e].opens = 0
      <4>1. ASSUME NEW n \in Nat, Own(e, n)' PROVE n = call[e].offer /\ n # None
        <5>1. Own(e, n) \/ (Hears(e, s) /\ m = Msg("answer", n))
          BY <1>1, <1>5, <2>5, <4>1 DEF Own
        <5>2. QED BY <1>1, <2>3, <2>6, <3>1, <3>3, <5>1
      <4>2. ASSUME NEW f \in Devices \ {e}, NEW n \in Nat, Other(f, n)' PROVE n = call[e].offer /\ n # None
        <5>1. Other(f, n) \/ (Hears(f, s) /\ m = Msg("offer", n))
          BY <1>1, <1>5, <2>5, <4>2 DEF Other
        <5>2. CASE Hears(f, s) /\ m = Msg("offer", n)
          <6>1. f # s[1]
            BY <2>3, <5>2
          <6>2. e = s[1]
            BY <1>1, <6>1 DEF AtMostTwo
          <6>3. QED BY <2>6, <3>1, <3>3, <5>2, <6>2
        <5>3. QED BY <3>1, <3>3, <5>1, <5>2
      <4>3. Mine(e)'
        BY <1>1, <3>1, <3>3, <4>1, <4>2 DEF Mine
      <4>4. QED BY <1>1, <1>6, <1>7, <4>3 DEF Paired1
    <3>4. QED BY <3>2, <3>3
  <2>8. QED BY <1>5, <2>4, <2>5, <2>7 DEF Pairs, NoNews
<1>12. QED BY <1>10, <1>11

InTouch == room = "p2p" => Pairs

LEMMA InTouchNext == Inv /\ AtMostTwo /\ NoVenue /\ InTouch /\ [Next]_vars => InTouch'
<1> SUFFICES ASSUME Inv, AtMostTwo, NoVenue, InTouch, [Next]_vars, room' = "p2p" PROVE Pairs'
  BY DEF InTouch
<1>1. room = "p2p" /\ Calm /\ Pairs /\ ~Calliope
  BY DEF Next, vars, Start, Stop, Lose, Keepalive, Deliver, VenueReady, SDPReady, Server, Calliope, Calm, InTouch
<1>2. ASSUME NEW d \in Devices, Lose(d) \/ VenueReady(d) PROVE Pairs'
  BY <1>1, <1>2 DEF Lose, VenueReady, NoVenue
<1>3. CASE Next
  BY <1>1, <1>2, <1>3, StartPair, StopPair, KeepalivePair, DeliverPair, SDPPair, ServerPair DEF Next
<1>4. CASE UNCHANGED vars
  <2>1. \A d \in Devices : \A n : (Own(d, n)' <=> Own(d, n)) /\ (Other(d, n)' <=> Other(d, n))
    BY <1>4 DEF vars, Own, Other
  <2>2. \A d \in Devices : Socket(d)' = Socket(d) /\ Paired1(d)
    BY <1>1, <1>4 DEF vars, Socket, Pairs
  <2>3. \A d \in Devices : Paired1(d)'
    BY <1>4, <2>1, <2>2, PairedKept DEF vars
  <2>4. QED BY <1>1, <1>4, <2>3 DEF Pairs, NoNews, vars
<1>5. QED BY <1>3, <1>4

LEMMA InitInTouch == Init => InTouch
<1> SUFFICES ASSUME Init PROVE Pairs
  BY DEF InTouch
<1>1. /\ \A d \in Devices : Fresh(call[d]) /\ down[d] = <<>>
      /\ \A s \in Sockets : up[s] = <<>>
      /\ stored = None
  BY DEF Init, Fresh
<1>2. \A d \in Devices : \A n : ~Own(d, n) /\ ~Other(d, n)
  BY <1>1, SaysNothing DEF Own, Other, Fresh
<1>3. \A d \in Devices : Paired1(d)
  BY <1>1, <1>2 DEF Paired1, Mine, Fresh
<1>4. QED BY <1>1, <1>3, EmptyFacts DEF Pairs, NoNews

(* No endpoint of a calm room applies an answer that is not to its latest     *)
(* offer, though an answer names neither its offer nor its call.  Without     *)
(* calliope that takes a room of two: the server tells an answer to everyone.  *)
THEOREM AnswersAreFresh ==
  ASSUME Rooms \cap {"p2p"} = {} \/ AtMostTwo
  PROVE  Spec => []FreshAnswer
<1>1. Inv /\ Told /\ (room = "p2p" => InTouch) => FreshAnswer
  <2> SUFFICES ASSUME Inv, Told, room = "p2p" => InTouch, Calm, NEW d \in Devices
               PROVE  call[d].answered \in {None, call[d].offer}
    BY DEF FreshAnswer
  <2>1. CASE room = "calliope"
    BY <2>1 DEF Told, Announced
  <2>2. CASE room = "p2p"
    <3>1. CASE call[d].active
      BY <2>2, <3>1 DEF InTouch, Pairs, Paired1, Mine
    <3>2. CASE ~call[d].active
      BY <3>2 DEF Inv, Seated, Fresh
    <3>3. QED BY <3>1, <3>2
  <2>3. QED BY <2>1, <2>2 DEF Calm
<1>2. Inv => (room = "p2p" => AtMostTwo)
  BY DEF Inv, Typed, TypeOK
<1>3. QED
  <2>1. CASE AtMostTwo
    <3>1. Inv /\ NoVenue /\ InTouch /\ [Next]_vars => InTouch'
      BY <2>1, InTouchNext
    <3>2. QED BY <1>1, <3>1, InitInv, NextInv, InitVenues, OneNext, NoVenueNext, InitTold, ToldNext, InitInTouch,
                 PTL DEF Spec
  <2>2. CASE ~AtMostTwo
    <3>1. Inv => (room = "p2p" => InTouch)
      BY <1>2, <2>2
    <3>2. QED BY <1>1, <3>1, InitInv, NextInv, InitVenues, OneNext, InitTold, ToldNext, PTL DEF Spec
  <2>3. QED BY <2>1, <2>2
=============================================================================
