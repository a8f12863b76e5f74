--------------------------- MODULE ClientSession ---------------------------
(***************************************************************************)
(* CSimpleClientSession, the TCP session CIcerClient keeps with the jingle *)
(* server: it connects, caches what it cannot send, resends it when the    *)
(* transport takes data again, and reconnects by a timer.  The connector,  *)
(* the transport and the timer are the network library's: they call back   *)
(* one at a time, in any order.  Transports and messages are numbered.     *)
(* A connector or a message block that cannot be allocated is left out.    *)
(***************************************************************************)
EXTENDS Integers, Sequences

CONSTANTS
  Reconnects,  (* the values of m_bReconnect a run starts with                   *)
  LateReports, (* a transport the session disconnected may still report its loss *)
  MaxSends,    (* bound: messages of the application                             *)
  MaxCalls,    (* bound: calls of Connect, ReLoad and Close                      *)
  MaxBreaks,   (* bound: connections that break                                  *)
  MaxFails     (* bound: connection attempts that fail                           *)

ASSUME SessionAssumption ==
  /\ Reconnects \subseteq BOOLEAN /\ LateReports \in BOOLEAN
  /\ MaxSends \in Nat /\ MaxCalls \in Nat /\ MaxBreaks \in Nat /\ MaxFails \in Nat

VARIABLES
  reconnect,  (* m_bReconnect                                                    *)
  transport,  (* m_pTransport, None for NULL                                     *)
  connecting, (* AsycConnect was called and has not called back                  *)
  timer,      (* m_reconnectTimer is scheduled                                   *)
  connected,  (* m_bConnected                                                    *)
  cache,      (* m_MBCache                                                       *)
  blocked,    (* the transport refused data and has not called OnSend since      *)
  wire,       (* what the transports took, in order                              *)
  posted,     (* messages given to SendData so far, the sink's binds included    *)
  made,       (* transports made so far                                          *)
  broken,     (* transports whose OnDisconnect is still to come                  *)
  joined,     (* OnClientSessionJoin of success minus Leave since the last Close    *)
  wanted,     (* connected or reloaded, and not closed since                     *)
  upset,      (* what disturbed the session so far                               *)
  sends, calls, breaks, fails

link == <<transport, connecting, timer, connected>>
data == <<cache, blocked, wire, posted>>
bounds == <<sends, calls, breaks, fails>>
vars == <<reconnect, link, data, made, broken, joined, wanted, upset, bounds>>

None == 0

FlagType == /\ reconnect \in BOOLEAN /\ connecting \in BOOLEAN /\ timer \in BOOLEAN
            /\ connected \in BOOLEAN /\ wanted \in BOOLEAN

LinkType == made \in Nat /\ transport \in 0..made /\ broken \in SUBSET (1..made)

DataType == cache \in Seq(Nat) /\ wire \in Seq(Nat) /\ blocked \in BOOLEAN /\ posted \in Nat

CountType == /\ joined \in Int /\ upset \subseteq {"connect", "late", "sink"}
             /\ sends \in 0..MaxSends /\ calls \in 0..MaxCalls
             /\ breaks \in 0..MaxBreaks /\ fails \in 0..MaxFails

TypeOK == FlagType /\ LinkType /\ DataType /\ CountType

Init ==
  /\ reconnect \in Reconnects
  /\ transport = None /\ connecting = FALSE /\ timer = FALSE /\ connected = FALSE
  /\ cache = <<>> /\ blocked = FALSE /\ wire = <<>> /\ posted = 0
  /\ made = 0 /\ broken = {} /\ joined = 0 /\ wanted = FALSE /\ upset = {}
  /\ sends = 0 /\ calls = 0 /\ breaks = 0 /\ fails = 0

-----------------------------------------------------------------------------
(* Mutant: Resend does not erase what it has sent. *)
Flush_keepsSent(q, least) == \E k \in least..Len(q) :
  /\ wire' = wire \o SubSeq(q, 1, k)
  /\ cache' = IF k = Len(q) THEN <<>> ELSE q
  /\ blocked' = (k < Len(q))

(* The transport takes the first few of q, and refuses from there on: what    *)
(* it refused is in the cache, the transport is blocked until OnSend.         *)
Flush(q, least) == \E k \in least..Len(q) : /\ wire' = wire \o SubSeq(q, 1, k)
                                            /\ cache' = SubSeq(q, k + 1, Len(q))
                                            /\ blocked' = (k < Len(q))

(* SendData of the session looks at the transport only, never at the cache. *)
SendData(m) ==
  /\ posted' = m
  /\ \/ /\ transport # None /\ ~blocked
        /\ wire' = Append(wire, m)
        /\ UNCHANGED <<cache, blocked>>
     \/ /\ cache' = Append(cache, m)
        /\ blocked' = (transport # None)
        /\ UNCHANGED wire

Send ==
  /\ sends < MaxSends
  /\ sends' = sends + 1
  /\ SendData(posted + 1)
  /\ UNCHANGED <<reconnect, link, made, broken, joined, wanted, upset, calls, breaks, fails>>

Busy == transport # None \/ connecting \/ timer

(* Connect cancels an attempt under way but neither the timer nor a transport. *)
Connect ==
  /\ calls < MaxCalls
  /\ calls' = calls + 1
  /\ connecting' = TRUE /\ wanted' = TRUE
  /\ upset' = IF Busy THEN upset \cup {"connect"} ELSE upset
  /\ UNCHANGED <<reconnect, transport, timer, connected, data, made, broken, joined, sends, breaks, fails>>

(* What Disconnect of our own makes of the losses that are not yet reported. *)
Unreported == IF LateReports THEN broken ELSE {}

(* Mutant: the timer survives. *)
CloseSession_keepsTimer ==
  /\ connected' = FALSE /\ timer' = timer /\ transport' = None
  /\ cache' = <<>> /\ blocked' = FALSE
  /\ broken' = Unreported
  /\ joined' = 0

CloseSession ==
  /\ connected' = FALSE /\ timer' = FALSE /\ transport' = None
  /\ cache' = <<>> /\ blocked' = FALSE
  /\ broken' = Unreported
  /\ joined' = 0

Close ==
  /\ calls < MaxCalls
  /\ calls' = calls + 1
  /\ CloseSession
  /\ connecting' = FALSE /\ wanted' = FALSE
  /\ UNCHANGED <<reconnect, wire, posted, made, upset, sends, breaks, fails>>

ReLoad ==
  /\ calls < MaxCalls
  /\ calls' = calls + 1
  /\ CloseSession
  /\ connecting' = TRUE /\ wanted' = TRUE
  /\ UNCHANGED <<reconnect, wire, posted, made, upset, sends, breaks, fails>>

-----------------------------------------------------------------------------
(* Mutant: only a session that was connected schedules the timer. *)
ConnectFailed_onlyConnected ==
  /\ connecting /\ fails < MaxFails
  /\ fails' = fails + 1
  /\ connecting' = FALSE
  /\ IF reconnect THEN connected' = FALSE /\ timer' = connected /\ UNCHANGED data
                  ELSE SendData(posted + 1) /\ UNCHANGED <<connected, timer>>
  /\ UNCHANGED <<reconnect, transport, made, broken, joined, wanted, upset, sends, calls, breaks>>

(* OnConnectIndication with an error: a transport of before stays.  A session  *)
(* that does not reconnect tells the sink, which sends its bind all the same.  *)
ConnectFailed ==
  /\ connecting /\ fails < MaxFails
  /\ fails' = fails + 1
  /\ connecting' = FALSE
  /\ IF reconnect THEN connected' = FALSE /\ timer' = TRUE /\ UNCHANGED data
                  ELSE SendData(posted + 1) /\ UNCHANGED <<connected, timer>>
  /\ UNCHANGED <<reconnect, transport, made, broken, joined, wanted, upset, sends, calls, breaks>>

(* SetTransport puts the new transport in the place of the old one, Resend    *)
(* sends the cache, the sink is told and sends its bind after it.             *)
ConnectSucceeded ==
  /\ connecting
  /\ connecting' = FALSE /\ connected' = TRUE
  /\ made' = made + 1 /\ transport' = made + 1
  /\ broken' = Unreported
  /\ posted' = posted + 1
  /\ Flush(Append(cache, posted + 1), 0)
  /\ joined' = joined + 1
  /\ UNCHANGED <<reconnect, timer, wanted, upset, bounds>>

(* Mutant: m_pTransport is assigned before OpenWithSink is asked. *)
SinkFailed_assigned ==
  /\ connecting /\ fails < MaxFails
  /\ fails' = fails + 1
  /\ connecting' = FALSE
  /\ transport' = made + 1 /\ blocked' = FALSE
  /\ broken' = Unreported
  /\ upset' = upset \cup {"sink"}
  /\ UNCHANGED <<reconnect, timer, connected, cache, wire, posted, made, joined, wanted, sends, calls, breaks>>

(* OpenWithSink of the new transport fails: the old one is gone, no timer is   *)
(* set, nobody is told.                                                       *)
SinkFailed ==
  /\ connecting /\ fails < MaxFails
  /\ fails' = fails + 1
  /\ connecting' = FALSE
  /\ transport' = None /\ blocked' = FALSE
  /\ broken' = Unreported
  /\ upset' = upset \cup {"sink"}
  /\ UNCHANGED <<reconnect, timer, connected, cache, wire, posted, made, joined, wanted, sends, calls, breaks>>

(* Mutant: the timer connects only a session that was never connected. *)
OnTimer_neverConnected ==
  /\ timer
  /\ timer' = FALSE /\ connecting' = (made = 0)
  /\ UNCHANGED <<reconnect, transport, connected, data, made, broken, joined, wanted, upset, bounds>>

OnTimer ==
  /\ timer
  /\ timer' = FALSE /\ connecting' = TRUE
  /\ UNCHANGED <<reconnect, transport, connected, data, made, broken, joined, wanted, upset, bounds>>

OnSend ==
  /\ blocked /\ transport \notin broken
  /\ Flush(cache, 1)
  /\ UNCHANGED <<reconnect, link, posted, made, broken, joined, wanted, upset, bounds>>

Break ==
  /\ transport # None /\ transport \notin broken /\ breaks < MaxBreaks
  /\ breaks' = breaks + 1
  /\ broken' = broken \cup {transport}
  /\ UNCHANGED <<reconnect, link, data, made, joined, wanted, upset, sends, calls, fails>>

(* OnDisconnect does not ask which transport was lost. *)
OnDisconnect(t) ==
  /\ broken' = broken \ {t}
  /\ transport' = None /\ blocked' = FALSE
  /\ IF reconnect
     THEN /\ joined' = IF connected THEN joined - 1 ELSE joined
          /\ connected' = FALSE /\ timer' = TRUE
     ELSE joined' = joined - 1 /\ UNCHANGED <<connected, timer>>
  /\ upset' = IF t = transport THEN upset ELSE upset \cup {"late"}
  /\ UNCHANGED <<reconnect, connecting, cache, wire, posted, made, wanted, bounds>>

Reported == \E t \in broken : OnDisconnect(t)

Next == \/ Send \/ Connect \/ Close \/ ReLoad
        \/ ConnectFailed \/ ConnectSucceeded \/ SinkFailed
        \/ OnTimer \/ OnSend \/ Break \/ Reported

(* The library calls back: an attempt ends at the latest by its 20 s timeout, *)
(* the timer fires, a loss is reported, a transport that works drains.        *)
Fairness == /\ WF_vars(ConnectFailed \/ ConnectSucceeded \/ SinkFailed)
            /\ WF_vars(OnTimer) /\ WF_vars(OnSend) /\ WF_vars(Reported)

Spec == Init /\ [][Next]_vars /\ Fairness

-----------------------------------------------------------------------------
(* A message waits only while no transport takes it, and a transport that was *)
(* found full owes the session an OnSend: nothing posted later can overtake   *)
(* what is in the cache although SendData does not look there.                *)
CacheWaits == /\ cache # <<>> => transport = None \/ blocked
              /\ blocked => cache # <<>> /\ transport # None

Box == INSTANCE Outbox WITH delivered <- wire, pending <- cache

(* The session is a FIFO outbox across any number of connections.             *)
Ordered == Box!Spec

(* Unless Connect is called on a busy session or a replaced transport reports *)
(* its loss, the timer, an attempt and a transport exclude each other: no      *)
(* timer fires into a working connection.                                     *)
OneAttempt == upset \cap {"connect", "late"} = {} =>
  /\ ~(timer /\ connecting)
  /\ transport # None => ~timer /\ ~connecting

(* Under the same condition the sink sees joins and leaves in turn, a leave   *)
(* for every connection it was told of.                                       *)
Alternating == upset \cap {"connect", "late"} = {} =>
  joined = IF transport # None THEN 1 ELSE 0

(* A session that reconnects and is wanted always has something under way that *)
(* leads to a connection, unless a transport could not be opened.              *)
NeverStuck == wanted /\ reconnect /\ "sink" \notin upset => Busy

(* A closed session does nothing of its own accord, unless a transport it      *)
(* disconnected still reports its loss.                                        *)
ClosedRests == ~wanted /\ "late" \notin upset => ~Busy

(* What a wanted session caches is on the wire in the end. *)
Flushed == (wanted /\ reconnect /\ cache # <<>>)
             ~> (cache = <<>> \/ ~wanted \/ "sink" \in upset)
=============================================================================
