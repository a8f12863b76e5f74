--------------------------- MODULE MediaHandshake ---------------------------
(***************************************************************************)
(* CMyMediaConnection over UDP (src/ref-app/common/src/                    *)
(* MyMediaConnection.cpp) under the MediaTransport that owns it: a host    *)
(* that listens, a client that asks for a control and a data connection by *)
(* request, acknowledgement and FIN datagrams that are lost, repeated and  *)
(* overtaken, and a timer that repeats the requests and gives up.          *)
(*                                                                         *)
(* The data connection is modelled at both ends. Of the control connection *)
(* the client's end is, and its peer may answer it or end it at any time:  *)
(* the host's end decides nothing but when it does. The TCP mode (desk     *)
(* share) and the ICE mode (compiled out in DemoClient) are left out.      *)
(***************************************************************************)
EXTENDS Naturals, FiniteSets

CONSTANTS
  MAX_TRY_TIME,   \* requests sent for a connection before giving up (5 in the code)
  MaxConnects,    \* bound: how often the client's user connects
  MaxHosts,       \* bound: how often the host's user starts it
  MaxTroubles     \* bound: datagrams lost or delivered twice, connectors that
                  \* fail and transports that break, taken together

ASSUME MediaAssumption ==
  /\ MAX_TRY_TIME \in Nat \ {0} /\ MaxConnects \in Nat
  /\ MaxHosts \in Nat /\ MaxTroubles \in Nat

Chans == {"ctrl", "data"}

(* A local address of the client: every AsycConnect opens new sockets. *)
Addrs == 1..MaxConnects
None == 0

(* A datagram of the data connection names the client's address it comes from *)
(* or goes to: DATA_CONN_REQUEST, DATA_CONN_ACK, DATA_CONN_FIN.               *)
Messages == [to : {"host"}, addr : Addrs, kind : {"req", "fin"}]
            \cup [to : {"client"}, addr : Addrs, kind : {"ack", "fin"}]

VARIABLES
  prompt,     \* environment: an answer comes within the timer's second or never
  net,        \* datagrams under way
  \* the client's CMyMediaConnection
  pending,    \* connectors whose OnConnectIndication is still to come
  addr,       \* the address of the latest ConnectTo
  trpt,       \* m_pCtrlTrpt, m_pDataTrpt
  status,     \* m_CtrlConnectionStatus, m_DataConnectionStatus
  tries,      \* m_n{Ctrl,Data}ConnCtrlMsgRetransmitTimes
  connected,  \* m_bConnected
  \* its MediaTransport
  alive,      \* there is one
  up,         \* m_bConnected
  told,       \* what the user interface heard last of this attempt
  \* the host's two
  listening,  \* InitHost was called
  hTrpt,      \* m_pDataTrpt: the address it is to
  hUp,        \* m_bConnected of its MediaTransport
  heard,      \* history: newest address heard, and whether its FIN was
  upset,      \* history: what happened that weakens the promises
  starts,     \* bound: starts of the host
  troubles    \* bound: troubles so far

clientVars == <<pending, addr, trpt, status, tries, connected, alive, up, told>>
hostVars == <<listening, hTrpt, hUp, heard>>
bounds == <<starts, troubles>>
vars == <<prompt, net, clientVars, hostVars, upset, bounds>>

Upsets == {"failed", "broken", "loss", "refused", "stale", "late", "again", "rehost"}
Calm(what) == upset \cap what = {}

ClientType ==
  /\ pending \subseteq Chans /\ addr \in 0..MaxConnects
  /\ trpt \in [Chans -> 0..MaxConnects]
  /\ status \in [Chans -> {"DISCONNECTED", "SEND_REQUEST", "CONNECTED"}]
  /\ tries \in [Chans -> 0..MAX_TRY_TIME]
  /\ connected \in BOOLEAN /\ alive \in BOOLEAN /\ up \in BOOLEAN
  /\ told \in {"nothing", "connected", "failed", "disconnected"}

HostType ==
  /\ listening \in BOOLEAN /\ hTrpt \in 0..MaxConnects /\ hUp \in BOOLEAN
  /\ heard \in [addr : 0..MaxConnects, fin : BOOLEAN]

(* Requests never exceed MAX_TRY_TIME: tries counts them.                     *)
TypeOK ==
  /\ prompt \in BOOLEAN /\ net \subseteq Messages
  /\ ClientType /\ HostType
  /\ upset \subseteq Upsets
  /\ starts \in 0..MaxHosts /\ troubles \in 0..MaxTroubles

Init ==
  /\ prompt \in BOOLEAN /\ net = {}
  /\ pending = {} /\ addr = 0 /\ trpt = [c \in Chans |-> None]
  /\ status = [c \in Chans |-> "DISCONNECTED"] /\ tries = [c \in Chans |-> 0]
  /\ connected = FALSE /\ alive = FALSE /\ up = FALSE /\ told = "nothing"
  /\ listening = FALSE /\ hTrpt = None /\ hUp = FALSE
  /\ heard = [addr |-> 0, fin |-> FALSE]
  /\ upset = {} /\ starts = 0 /\ troubles = 0

Trouble(what) ==
  /\ troubles < MaxTroubles
  /\ troubles' = troubles + 1
  /\ upset' = upset \cup what

(* SendData: nothing is sent where there is no transport. *)
ToHost(kind, chans) ==
  {[to |-> "host", addr |-> trpt[c], kind |-> kind] : c \in {d \in chans \ {"ctrl"} : trpt[d] # None}}
ToClient(kind, a) ==
  IF a = None THEN {} ELSE {[to |-> "client", addr |-> a, kind |-> kind]}

-----------------------------------------------------------------------------
(* MediaTransport::ConnectRemote and CMyMediaConnection::ConnectTo: refused   *)
(* while either believes it is connected, but not while an attempt is open.   *)
Connect ==
  /\ ~up /\ ~connected /\ addr < MaxConnects
  /\ addr' = addr + 1 /\ pending' = Chans
  /\ alive' = TRUE /\ told' = "nothing"
  /\ upset' = IF pending # {} \/ \E c \in Chans : status[c] = "SEND_REQUEST"
              THEN upset \cup {"again"} ELSE upset
  /\ UNCHANGED <<prompt, net, trpt, status, tries, connected, up, hostVars, bounds>>

(* OnConnectIndication of a connector: the old transport of the channel is    *)
(* closed without a FIN, and the first request goes out.                      *)
ConnectIndication(c) ==
  /\ c \in pending
  /\ pending' = pending \ {c}
  /\ trpt' = [trpt EXCEPT ![c] = addr]
  /\ status' = [status EXCEPT ![c] = "SEND_REQUEST"]
  /\ tries' = [tries EXCEPT ![c] = 1]
  /\ net' = IF c = "data" THEN net \cup {[to |-> "host", addr |-> addr, kind |-> "req"]} ELSE net
  /\ UNCHANGED <<prompt, addr, connected, alive, up, told, hostVars, upset, bounds>>

(* A connector fails: only the data channel's failure is told.                *)
ConnectFailed(c) ==
  /\ c \in pending
  /\ Trouble({"failed"})
  /\ pending' = pending \ {c}
  /\ IF c = "data" THEN up' = FALSE /\ told' = "failed" ELSE UNCHANGED <<up, told>>
  /\ UNCHANGED <<prompt, net, addr, trpt, status, tries, connected, alive, hostVars, starts>>

(* Mutant: the data connection gives up without telling anybody. *)
OnTimer_silent(due) ==
  LET again == {c \in due : tries[c] < MAX_TRY_TIME} IN
  /\ net' = net \cup ToHost("req", again)
  /\ tries' = [c \in Chans |-> IF c \in again THEN tries[c] + 1 ELSE IF c \in due THEN 0 ELSE tries[c]]
  /\ status' = [c \in Chans |-> IF c \in due \ again THEN "DISCONNECTED" ELSE status[c]]
  /\ UNCHANGED <<trpt, up, told>>

(* Mutant: the requests are counted, not sent again. *)
OnTimer_sendsOnce(due) ==
  LET again == {c \in due : tries[c] < MAX_TRY_TIME} IN
  /\ tries' = [c \in Chans |-> IF c \in again THEN tries[c] + 1 ELSE IF c \in due THEN 0 ELSE tries[c]]
  /\ status' = [c \in Chans |-> IF c \in due \ again THEN "DISCONNECTED" ELSE status[c]]
  /\ IF "data" \in due \ again THEN up' = FALSE /\ told' = "failed" ELSE UNCHANGED <<up, told>>
  /\ UNCHANGED <<net, trpt>>

(* Mutant: one request too many. *)
OnTimer_offByOne(due) ==
  LET again == {c \in due : tries[c] <= MAX_TRY_TIME} IN
  /\ net' = net \cup ToHost("req", again)
  /\ tries' = [c \in Chans |-> IF c \in again THEN tries[c] + 1 ELSE IF c \in due THEN 0 ELSE tries[c]]
  /\ status' = [c \in Chans |-> IF c \in due \ again THEN "DISCONNECTED" ELSE status[c]]
  /\ IF "data" \in due \ again THEN up' = FALSE /\ told' = "failed" ELSE UNCHANGED <<up, told>>
  /\ UNCHANGED trpt

(* OnTimer for the channels that are due: control first, then data; when data *)
(* gives up, a control connection that is there goes with it.                 *)
OnTimer(due) ==
  LET again == {c \in due : tries[c] < MAX_TRY_TIME}
      over == due \ again
      drops == "data" \in over /\ status["ctrl"] = "CONNECTED"
  IN  /\ net' = net \cup ToHost("req", again)
      /\ tries' = [c \in Chans |-> IF c \in again THEN tries[c] + 1 ELSE IF c \in over THEN 0 ELSE tries[c]]
      /\ status' = [c \in Chans |-> IF c \in over \/ (c = "ctrl" /\ drops) THEN "DISCONNECTED" ELSE status[c]]
      /\ trpt' = IF drops THEN [trpt EXCEPT !["ctrl"] = None] ELSE trpt
      /\ IF "data" \in over THEN up' = FALSE /\ told' = "failed" ELSE UNCHANGED <<up, told>>

(* A UDP connector concludes before the next second is over.                  *)
Timer ==
  /\ pending = {}
  /\ \E due \in SUBSET {c \in Chans : status[c] = "SEND_REQUEST"} :
       /\ due # {}
       /\ prompt /\ "data" \in due => \A m \in net : m.addr # trpt["data"]
       /\ OnTimer(due)
  /\ UNCHANGED <<prompt, pending, addr, connected, alive, hostVars, upset, bounds>>

(* OnDisconnect: a transport of the client breaks. *)
Broken(c) ==
  /\ trpt[c] # None
  /\ Trouble({"broken"})
  /\ trpt' = [trpt EXCEPT ![c] = None]
  /\ status' = [status EXCEPT ![c] = "DISCONNECTED"]
  /\ tries' = [tries EXCEPT ![c] = 0]
  /\ IF c = "data" THEN connected' = FALSE /\ up' = FALSE /\ told' = "disconnected"
     ELSE UNCHANGED <<connected, up, told>>
  /\ UNCHANGED <<prompt, net, pending, addr, alive, hostVars, starts>>

(* DemoClient::DisConnect: StopTransport and the transport's deletion. *)
Stop ==
  /\ alive
  /\ net' = net \cup ToHost("fin", Chans)
  /\ pending' = {} /\ trpt' = [c \in Chans |-> None]
  /\ status' = [c \in Chans |-> "DISCONNECTED"] /\ tries' = [c \in Chans |-> 0]
  /\ connected' = FALSE /\ alive' = FALSE /\ up' = FALSE /\ told' = "nothing"
  /\ UNCHANGED <<prompt, addr, hostVars, upset, bounds>>

-----------------------------------------------------------------------------
(* ProcessConnCtrlMsg at the client for the control channel.                  *)
CtrlAck ==
  /\ trpt["ctrl"] # None
  /\ status' = [status EXCEPT !["ctrl"] = "CONNECTED"]
  /\ UNCHANGED <<prompt, net, pending, addr, trpt, tries, connected, alive, up, told, hostVars, upset, bounds>>

(* Mutant: the status stays. *)
CtrlFin_keepsStatus ==
  /\ trpt["ctrl"] # None
  /\ trpt' = [trpt EXCEPT !["ctrl"] = None]
  /\ UNCHANGED <<prompt, net, pending, addr, status, tries, connected, alive, up, told, hostVars, upset, bounds>>

CtrlFin ==
  /\ trpt["ctrl"] # None
  /\ trpt' = [trpt EXCEPT !["ctrl"] = None]
  /\ status' = [status EXCEPT !["ctrl"] = "DISCONNECTED"]
  /\ UNCHANGED <<prompt, net, pending, addr, tries, connected, alive, up, told, hostVars, upset, bounds>>

(* ProcessConnCtrlMsg at the client for the data channel; a closed socket     *)
(* receives nothing. rest is what is under way besides m.                     *)
AtClient(m, kind) == m.to = "client" /\ m.kind = kind /\ trpt["data"] = m.addr

(* A message of an attempt that was given up or is being replaced. *)
Lateness == IF status["data"] = "DISCONNECTED" \/ "data" \in pending
            THEN upset \cup {"late"} ELSE upset

(* An ACK is taken whatever the status, also after giving up. *)
DataAck(m, rest) ==
  /\ AtClient(m, "ack")
  /\ net' = rest
  /\ status' = [status EXCEPT !["data"] = "CONNECTED"]
  /\ connected' = TRUE /\ up' = TRUE /\ told' = "connected"
  /\ upset' = Lateness
  /\ UNCHANGED <<pending, addr, trpt, tries, alive, hostVars>>

(* Mutant: the FIN is for the transport, m_bConnected and the sink are not told. *)
DataFin_transportOnly(m, rest) ==
  /\ AtClient(m, "fin")
  /\ net' = rest
  /\ trpt' = [c \in Chans |-> None]
  /\ status' = [status EXCEPT !["data"] = "DISCONNECTED"]
  /\ upset' = Lateness
  /\ UNCHANGED <<connected, up, told, pending, addr, tries, alive, hostVars>>

(* DisConnect closes the control channel too, but keeps its status.           *)
DataFin(m, rest) ==
  /\ AtClient(m, "fin")
  /\ net' = rest
  /\ trpt' = [c \in Chans |-> None]
  /\ status' = [status EXCEPT !["data"] = "DISCONNECTED"]
  /\ connected' = FALSE /\ up' = FALSE /\ told' = "disconnected"
  /\ upset' = Lateness
  /\ UNCHANGED <<pending, addr, tries, alive, hostVars>>

ClientDrops(m, rest) ==
  /\ m.to = "client" /\ trpt["data"] # m.addr
  /\ net' = rest
  /\ UNCHANGED <<clientVars, hostVars, upset>>

-----------------------------------------------------------------------------
(* The host. Its acceptor makes a transport of the first datagram from an     *)
(* address it has none for, and OnConnectIndication puts it in the place of   *)
(* the running one at once: whatever comes in then comes from m_pDataTrpt.    *)
AtHost(m, kind) == m.to = "host" /\ m.kind = kind /\ listening

(* From an address whose successor, or whose FIN, was heard before. *)
Stale(m) == \/ m.addr < heard.addr
            \/ m.addr = heard.addr /\ heard.fin /\ m.kind = "req"

Hears(m) ==
  /\ heard' = IF m.addr < heard.addr THEN heard
              ELSE [addr |-> m.addr, fin |-> m.kind = "fin" \/ (heard.addr = m.addr /\ heard.fin)]
  /\ upset' = IF Stale(m) THEN upset \cup {"stale"} ELSE upset

(* Mutant: the running connection keeps its place. *)
HostReq_keepsFirst(m, rest) ==
  /\ AtHost(m, "req")
  /\ hTrpt' = IF hTrpt = None THEN m.addr ELSE hTrpt
  /\ hUp' = TRUE
  /\ net' = rest \cup ToClient("ack", m.addr)
  /\ Hears(m)
  /\ UNCHANGED <<listening, clientVars>>

HostReq(m, rest) ==
  /\ AtHost(m, "req")
  /\ hTrpt' = m.addr /\ hUp' = TRUE
  /\ net' = rest \cup ToClient("ack", m.addr)
  /\ Hears(m)
  /\ UNCHANGED <<listening, clientVars>>

(* A FIN of any address ends the connection: it has taken its place by then.  *)
HostFin(m, rest) ==
  /\ AtHost(m, "fin")
  /\ hTrpt' = None /\ hUp' = FALSE
  /\ net' = rest
  /\ Hears(m)
  /\ UNCHANGED <<listening, clientVars>>

Refused(m, rest) ==
  /\ m.to = "host" /\ ~listening
  /\ net' = rest
  /\ upset' = upset \cup {"refused"}
  /\ UNCHANGED <<clientVars, hostVars>>

(* InitHost, on a fresh connection: DisConnect deletes the old one. *)
HostStart ==
  /\ ~listening /\ starts < MaxHosts
  /\ starts' = starts + 1
  /\ listening' = TRUE
  /\ upset' = IF starts > 0 THEN upset \cup {"rehost"} ELSE upset
  /\ UNCHANGED <<prompt, net, clientVars, hTrpt, hUp, heard, troubles>>

HostStop ==
  /\ listening
  /\ listening' = FALSE /\ hTrpt' = None /\ hUp' = FALSE
  /\ net' = net \cup ToClient("fin", hTrpt)
  /\ UNCHANGED <<prompt, clientVars, heard, upset, bounds>>

(* OnDisconnect: the host's transport breaks. *)
HostBroken ==
  /\ hTrpt # None
  /\ Trouble({"broken"})
  /\ hTrpt' = None /\ hUp' = FALSE
  /\ UNCHANGED <<prompt, net, clientVars, listening, heard, starts>>

-----------------------------------------------------------------------------
Process(m, rest) ==
  \/ DataAck(m, rest) \/ DataFin(m, rest) \/ ClientDrops(m, rest)
  \/ HostReq(m, rest) \/ HostFin(m, rest) \/ Refused(m, rest)

Receive(m) == m \in net /\ Process(m, net \ {m}) /\ UNCHANGED <<prompt, bounds>>

Repeat(m) ==
  /\ m \in net /\ troubles < MaxTroubles
  /\ troubles' = troubles + 1
  /\ Process(m, net)
  /\ UNCHANGED <<prompt, starts>>

Lose(m) ==
  /\ m \in net
  /\ Trouble({"loss"})
  /\ net' = net \ {m}
  /\ UNCHANGED <<prompt, clientVars, hostVars, starts>>

Next ==
  \/ Connect \/ Stop \/ Timer \/ CtrlAck \/ CtrlFin
  \/ \E c \in Chans : ConnectIndication(c) \/ ConnectFailed(c) \/ Broken(c)
  \/ HostStart \/ HostStop \/ HostBroken
  \/ \E m \in net : Receive(m) \/ Repeat(m) \/ Lose(m)

(* Connectors conclude, the timer runs from the constructor to the destructor *)
(* of the connection, and a datagram arrives unless it is lost.               *)
Fairness == /\ WF_vars(Timer)
            /\ WF_vars(\E c \in Chans : ConnectIndication(c))
            /\ WF_vars(\E m \in net : Receive(m))

Spec == Init /\ [][Next]_vars
FairSpec == Spec /\ Fairness
-----------------------------------------------------------------------------
Attempting == "data" \in pending \/ status["data"] = "SEND_REQUEST"

(* When data gives up and control is connected, OnTimer disconnects the       *)
(* control transport without asking whether it is there: it is, unless its    *)
(* connector failed, or the FIN of a former attempt closed it, after which    *)
(* DisConnect leaves the status at CONNECTED.                                 *)
GiveUpSafe ==
  Calm({"failed", "late"}) /\ pending = {} =>
    (status["data"] = "SEND_REQUEST" /\ status["ctrl"] = "CONNECTED" => trpt["ctrl"] # None)

(* What MediaTransport believes at the client is what the connection believes *)
(* and its transport is there; and if the host believes it too, the host's    *)
(* data transport is to the address the client uses now, not to a former one. *)
Agreement ==
  Calm({"late", "stale"}) /\ up =>
    /\ connected /\ status["data"] = "CONNECTED" /\ trpt["data"] # None
    /\ hUp => hTrpt = trpt["data"]

(* Whatever is lost, every attempt ends in a verdict for the user interface.  *)
VerdictGiven == Attempting ~> (told # "nothing" \/ ~alive)

(* Requests are repeated to some purpose: with answers that come within the   *)
(* timer's second, fewer losses than tries do not keep the client from a host *)
(* that listens; with slow answers it connects even after giving up.          *)
Connects ==
  (Attempting /\ listening) ~>
    \/ up \/ ~alive \/ ~listening
    \/ ~Calm({"failed", "broken", "stale", "refused", "rehost", "again"})
    \/ ~prompt /\ ~Calm({"loss"})

(* One side has hung up and the other believes it is connected. *)
Orphaned == (hUp /\ ~alive) \/ (up /\ ~listening)

(* When one side hangs up the other stops believing it is connected: nothing  *)
(* but the FIN tells it, keepalive being compiled out.                        *)
HangsUp ==
  Orphaned ~> \/ ~Orphaned
              \/ ~Calm({"loss", "stale", "broken", "refused", "rehost", "again", "failed"})
=============================================================================
