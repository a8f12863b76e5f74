----------------------------- MODULE SignalRoom -----------------------------
(***************************************************************************)
(* The devices of one room and the signalling server between them:          *)
(* wsserver.js, the CWsClient of every device, and PeerCall and its         *)
(* Endpoint as far as signalling drives them.                               *)
(*                                                                          *)
(* A device opens a new WebSocket for every call.  The server serves the    *)
(* sockets in any order, so the close of a device's last socket may come    *)
(* after the request of its next one: the room then counts a ghost.         *)
(* Offers and venues are numbered in the order they were made; an answer    *)
(* carries the number of the offer it answers.                              *)
(***************************************************************************)
EXTENDS Integers, Sequences, FiniteSets, SequencesExt

CONSTANTS
  Devices,    (* the devices started with the same room id                       *)
  Rooms,      (* the kinds of room considered, see Kinds                         *)
  Echoes,     (* the keepalive timers fire; FALSE where the count plays no part  *)
  Restarters, (* bound: the devices started a second time in a lossy room        *)
  MaxOpens    (* bound: calls, and sockets, of a device in the other rooms       *)

(* p2p and calliope: TestConfig.m_bCalliope off and on, and once a device was   *)
(* stopped, one is started only in a settled room.  hasty: calliope, started    *)
(* at any time.  lossy: the same, and sockets break with no close.              *)
Kinds == {"p2p", "calliope", "hasty", "lossy"}

ASSUME SignalAssumption ==
  Rooms \subseteq Kinds /\ Echoes \in BOOLEAN /\ Restarters \subseteq Devices /\ MaxOpens \in Nat \ {0, 1}

VARIABLES
  room,     (* what kind of room it is                                            *)
  call,     (* per device: PeerCall, its CWsClient and its Endpoint               *)
  up,       (* per socket: what the server has still to read                      *)
  down,     (* per device: what its present socket has still to deliver           *)
  peers,    (* server: connections[roomId].peers: its order plays no part, and no    *)
            (* socket is pushed twice, as SignalRoomProofs shows                     *)
  stored,   (* server: connections[roomId].venueUrl                               *)
  venues,   (* the venues that exist at Orpheus                                   *)
  hasty,    (* a device was stopped with something under way or a stale count     *)
  made      (* how many offers and venues were made                               *)

vars == <<room, call, up, down, peers, stored, venues, hasty, made>>

None == 0
Sockets == Devices \X (1..MaxOpens)

Calliope == room # "p2p"
Calm     == room \in {"p2p", "calliope"}

Opens(d) == IF room # "lossy" THEN MaxOpens ELSE IF d \in Restarters THEN 2 ELSE 1

Message == [type : {"join", "echo", "request", "close", "venue", "offer", "answer"}, n : Nat]

Sdp == [type : {"offer", "answer"}, n : Nat]

CallType ==
  [active : BOOLEAN,          (* PeerCall::m_bActive; Endpoint::m_pMediaConn exists  *)
   opens : 0..MaxOpens,       (* sockets opened so far; the last one is the present  *)
   linked : BOOLEAN,          (* m_wsChannel carries data                            *)
   timer : BOOLEAN,           (* m_timerKeepAlive is scheduled                       *)
   myId : Int,                (* CWsClient::m_nMyId                                  *)
   startedCall : BOOLEAN,     (* CWsClient::m_bStartedCall                           *)
   venue : Nat,               (* PeerCall::m_sVenueUrl                               *)
   creating : BOOLEAN,        (* m_linusCall is creating a venue                     *)
   flow : Nat,                (* the venue m_linusCall holds a confluence in         *)
   pend : Seq(Sdp),           (* the OnSDPReady callbacks to come                   *)
   offer : Nat,               (* the offer this call made last                       *)
   answered : Nat,            (* the offer whose answer it applied last              *)
   accepted : Nat]            (* the offer of another device it accepted last        *)

TypeOK ==
  /\ room \in Rooms
  /\ call \in [Devices -> CallType]
  /\ up \in [Sockets -> Seq(Message)]
  /\ down \in [Devices -> Seq(Message)]
  /\ peers \subseteq Sockets
  /\ stored \in Nat /\ (peers = {} => stored = None)
  /\ venues \subseteq 1..made
  /\ hasty \in BOOLEAN
  /\ made \in Nat

Init ==
  /\ room \in Rooms
  /\ call = [d \in Devices |->
       [active |-> FALSE, opens |-> 0, linked |-> FALSE, timer |-> FALSE, myId |-> -1,
        startedCall |-> FALSE, venue |-> None, creating |-> FALSE, flow |-> None,
        pend |-> <<>>, offer |-> None, answered |-> None, accepted |-> None]]
  /\ up = [s \in Sockets |-> <<>>]
  /\ down = [d \in Devices |-> <<>>]
  /\ peers = {} /\ stored = None
  /\ venues = {} /\ hasty = FALSE /\ made = 0

-----------------------------------------------------------------------------
Msg(type, n) == [type |-> type, n |-> n]

Socket(d) == <<d, call[d].opens>>

(* CWsClient::SendTo and OnTimer: nothing arrives on a broken channel. *)
Send(d, m) == up' = IF call[d].linked THEN [up EXCEPT ![Socket(d)] = Append(@, m)] ELSE up

Settled == /\ \A s \in Sockets : up[s] = <<>>
           /\ \A d \in Devices : down[d] = <<>> /\ call[d].pend = <<>> /\ ~call[d].creating

-----------------------------------------------------------------------------
(* Endpoint::startCall, acceptCall and answerReceived, on the call record.   *)
StartCall(c, n) == [c EXCEPT !.offer = n, !.pend = Append(@, Msg("offer", n))]

AcceptCall(c, n) == [c EXCEPT !.accepted = n, !.pend = Append(@, Msg("answer", n))]

AnswerReceived(c, n) == [c EXCEPT !.answered = n]

(* startPeer and connect: preview, then a new channel on the same CWsClient. *)
Start(d) ==
  /\ ~call[d].active
  /\ call[d].opens < Opens(d)
  /\ Calm => Settled \/ \A e \in Devices : call[e].active \/ call[e].opens = 0
  /\ call' = [call EXCEPT ![d].active = TRUE, ![d].opens = @ + 1, ![d].linked = TRUE]
  /\ up' = [up EXCEPT ![<<d, call[d].opens + 1>>] = <<Msg("request", 0)>>]
  /\ UNCHANGED <<room, down, peers, stored, venues, made, hasty>>

StopWs_keepsChannel(c) == [c EXCEPT !.timer = FALSE, !.startedCall = FALSE]

(* CWsClient::Stop; m_nMyId stays. *)
StopWs(c) == [c EXCEPT !.linked = FALSE, !.timer = FALSE, !.startedCall = FALSE]

(* Endpoint::stopCall releases the connection. *)
StopCall(c) == [c EXCEPT !.pend = <<>>, !.offer = None, !.answered = None, !.accepted = None]

DeletesVenue_always(d) == TRUE

DeletesVenue_never(d) == FALSE

(* stopPeer: the venue goes with the confluence if no one else was counted.  *)
DeletesVenue(d) == call[d].myId <= 1

(* m_sVenueUrl stays.  m_linusCall forgets a venue it was creating and        *)
(* deletes the confluence it holds.                                          *)
Stop(d) ==
  /\ call[d].active
  /\ hasty' = (hasty \/ ~Settled \/ (call[d].linked /\ call[d].myId # Cardinality(peers)))
  /\ call' = [call EXCEPT ![d] = [StopWs(StopCall(@)) EXCEPT !.active = FALSE,
                                     !.creating = FALSE, !.flow = None]]
  /\ Send(d, Msg("close", 0))
  /\ down' = [down EXCEPT ![d] = <<>>]
  /\ venues' = IF call[d].flow # None /\ DeletesVenue(d) THEN venues \ {call[d].flow} ELSE venues
  /\ UNCHANGED <<room, peers, stored, made>>

(* The channel breaks: what was under way is lost, the server sees a close.  *)
(* CWsClient::OnDisconnect does nothing about it.                            *)
Lose(d) ==
  /\ room = "lossy" /\ call[d].linked
  /\ call' = [call EXCEPT ![d].linked = FALSE]
  /\ up' = [up EXCEPT ![Socket(d)] = IF Socket(d) \in peers THEN <<Msg("close", 0)>> ELSE <<>>]
  /\ down' = [down EXCEPT ![d] = <<>>]
  /\ UNCHANGED <<room, peers, stored, venues, made, hasty>>

(* CWsClient::OnTimer; bound: one echo under way at a time. *)
Keepalive(d) ==
  /\ Echoes /\ call[d].timer /\ call[d].linked
  /\ ~Contains(up[Socket(d)], Msg("echo", 0))
  /\ \A i \in DOMAIN down[d] : down[d][i].type # "echo"
  /\ Send(d, Msg("echo", 0))
  /\ UNCHANGED <<room, call, down, peers, stored, venues, made, hasty>>

-----------------------------------------------------------------------------
(* What the server sends to a socket the device has given up goes nowhere.   *)
SendUTF(box, s, msgs) ==
  IF s = Socket(s[1]) /\ call[s[1]].linked THEN [box EXCEPT ![s[1]] = @ \o msgs] ELSE box

SendToRoom(m, self) ==
  [d \in Devices |-> IF call[d].linked /\ Socket(d) \in peers \ {self}
                     THEN Append(down[d], m) ELSE down[d]]

Greeting_withoutVenue(count) == <<Msg("join", count)>>

(* on request: the head count and, if the room has one, its venue. *)
Greeting(count) ==
  IF stored = None THEN <<Msg("join", count)>> ELSE <<Msg("join", count), Msg("venue", stored)>>

OnRequest(s) ==
  /\ Head(up[s]).type = "request"
  /\ peers' = peers \cup {s}
  /\ down' = SendUTF(down, s, Greeting(Cardinality(peers')))
  /\ UNCHANGED stored

OnMessage(s) ==
  LET m == Head(up[s]) IN
  \/ /\ m.type = "echo"
     /\ down' = SendUTF(down, s, <<Msg("echo", Cardinality(peers))>>)
     /\ UNCHANGED <<peers, stored>>
  \/ /\ m.type \in {"venue", "offer", "answer"}
     /\ down' = SendToRoom(m, s)
     /\ stored' = IF m.type = "venue" THEN m.n ELSE stored
     /\ UNCHANGED peers

RoomAfter_keepsVenue(s) == stored

(* The room goes with its last peer, and its venue with the room. *)
RoomAfter(s) == IF peers = {s} THEN None ELSE stored

OnClose(s) ==
  /\ Head(up[s]).type = "close"
  /\ peers' = peers \ {s}
  /\ stored' = RoomAfter(s)
  /\ UNCHANGED down

Server(s) ==
  /\ up[s] # <<>>
  /\ up' = [up EXCEPT ![s] = Tail(@)]
  /\ OnRequest(s) \/ OnMessage(s) \/ OnClose(s)
  /\ UNCHANGED <<room, call, venues, made, hasty>>

-----------------------------------------------------------------------------
(* PeerCall::OnStartCall, from the first join of a call. *)
OnStartCall_anyCount(c, count) ==
  IF Calliope THEN [c EXCEPT !.creating = TRUE] ELSE StartCall(c, made + 1)

OnStartCall(c, count) ==
  IF Calliope THEN (IF count = 1 THEN [c EXCEPT !.creating = TRUE] ELSE c)
  ELSE IF count > 1 THEN StartCall(c, made + 1) ELSE c

OnJoin(c, count) ==
  LET d == [c EXCEPT !.myId = count, !.timer = TRUE]
  IN  IF c.startedCall THEN d ELSE [OnStartCall(d, count) EXCEPT !.startedCall = TRUE]

OnEcho_ignored(c, count) == c

OnEcho(c, count) == [c EXCEPT !.myId = count]

(* CWsClient::OnReceive and PeerCall::OnSDPReceived.  The timer is scheduled  *)
(* in OnConnect, which precedes everything the channel delivers.              *)
Deliver(d) ==
  /\ down[d] # <<>>
  /\ down' = [down EXCEPT ![d] = Tail(@)]
  /\ LET m == Head(down[d])
         c == call[d]
         after == CASE m.type = "join" -> OnJoin(c, m.n)
                    [] m.type = "echo" -> OnEcho(c, m.n)
                    [] m.type = "venue" -> StartCall([c EXCEPT !.venue = m.n], made + 1)
                    [] m.type = "offer" -> AcceptCall(c, m.n)
                    [] m.type = "answer" -> AnswerReceived(c, m.n)
     IN  /\ call' = [call EXCEPT ![d] = after]
         /\ made' = IF after.offer # c.offer THEN made + 1 ELSE made
  /\ UNCHANGED <<room, up, peers, stored, venues, hasty>>

(* PeerCall::OnVenue: tell the room, then start the call. *)
VenueReady(d) ==
  /\ call[d].creating
  /\ call' = [call EXCEPT ![d] = StartCall([@ EXCEPT !.creating = FALSE, !.venue = made + 1], made + 2)]
  /\ made' = made + 2
  /\ venues' = venues \cup {made + 1}
  /\ Send(d, Msg("venue", made + 1))
  /\ UNCHANGED <<room, down, peers, stored, hasty>>

(* Endpoint::OnSDPReady and PeerCall::onEvent: the SDP goes to the room, or,  *)
(* with calliope, into a confluence of the venue, whose answer is applied.    *)
SDPReady(d) ==
  /\ call[d].pend # <<>>
  /\ LET m == Head(call[d].pend)
         c == [call[d] EXCEPT !.pend = Tail(@)]
     IN  IF Calliope
         THEN /\ call' = [call EXCEPT ![d] = IF c.venue \notin venues THEN c
                             ELSE AnswerReceived([c EXCEPT !.flow = c.venue], m.n)]
              /\ UNCHANGED up
         ELSE /\ call' = [call EXCEPT ![d] = c]
              /\ Send(d, m)
  /\ UNCHANGED <<room, down, peers, stored, venues, made, hasty>>

Next == \/ \E d \in Devices : \/ Start(d) \/ Stop(d) \/ Lose(d) \/ Keepalive(d)
                              \/ Deliver(d) \/ VenueReady(d) \/ SDPReady(d)
        \/ \E s \in Sockets : Server(s)

(* Sockets are served, callbacks come and the timer fires; the user is free. *)
Fairness == /\ \A d \in Devices : /\ WF_vars(Keepalive(d)) /\ WF_vars(Deliver(d))
                                  /\ WF_vars(VenueReady(d)) /\ WF_vars(SDPReady(d))
            /\ \A s \in Sockets : WF_vars(Server(s))

Spec == Init /\ [][Next]_vars
FairSpec == Spec /\ Fairness
-----------------------------------------------------------------------------
(* The properties marked Calm need a room in which nobody starts before what   *)
(* the last stop left is settled: messages carry no call id, and wsserver.js    *)
(* and PeerCall have nothing else to tell an old call's from a new one's.       *)

(* An endpoint applies the answer to its latest offer, never that of a call   *)
(* it has left: SDP messages carry no call id (CWsClient::SendTo).            *)
FreshAnswer == Calm => \A d \in Devices : call[d].answered \in {None, call[d].offer}

(* PeerCall.cpp:169 has only the second one start the call, so that no        *)
(* endpoint meets an offer while its own is still to be answered.             *)
NoGlare == [][Calm => \A d \in Devices :
                 ~hasty /\ call'[d].accepted # call[d].accepted => call[d].offer = call[d].answered]_vars

(* All confluences of a room are in one venue, and it is alive, though         *)
(* stopPeer deletes it by a head count which may be an echo interval old.     *)
OneVenueAlive == Calm => \A d, e \in Devices :
  call[d].flow # None /\ call[e].flow # None =>
    call[d].flow = call[e].flow /\ (~hasty => call[d].flow \in venues)

(* The last one to stop deletes the venue. *)
VenueReclaimed == Calm /\ ~hasty /\ (\A d \in Devices : ~call[d].active) => venues = {}

(* m_nMyId ends up as the head count, ghosts being gone by then.              *)
CountConverges == <>[](\A d \in Devices : call[d].linked => call[d].myId = Cardinality(peers))

Paired(d, e) == call[d].answered # None /\ call[e].accepted = call[d].answered

InCall(d) == IF Calliope THEN call[d].flow # None
             ELSE \E e \in Devices \ {d} : Paired(d, e) \/ Paired(e, d)

Everyone == \A d \in Devices : call[d].linked

(* Once every device of a calm room is started and stays, they get to talk; with *)
(* calliope only if none was stopped before its venue was handed over.        *)
AllMeet == Calm /\ Everyone ~> ((\A d \in Devices : InCall(d)) \/ ~Everyone \/ (Calliope /\ hasty))

(* PeerCall.cpp:163: for calliope, the first one starts the call session. *)
FirstOneStarts == Everyone ~> ((\E d \in Devices : call[d].creating \/ call[d].flow # None) \/ ~Everyone)
=============================================================================
