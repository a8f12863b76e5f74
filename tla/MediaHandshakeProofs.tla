------------------------ MODULE MediaHandshakeProofs ------------------------
(***************************************************************************)
(* For any number of connects, starts of the host, retries and troubles,   *)
(* and whatever the network does: the two ends keep their types, giving up *)
(* disconnects a control transport that is there, and a client that        *)
(* believes it is connected agrees with its transport and with the host.   *)
(***************************************************************************)
EXTENDS MediaHandshake, TLAPS

(* Addresses only rise: whatever is under way or was heard comes from no      *)
(* later address than the one the client's transport uses.                    *)
Used == /\ \A m \in net : m.addr <= addr /\ (trpt["data"] # None => m.addr <= trpt["data"])
        /\ heard.addr <= addr /\ (trpt["data"] # None => heard.addr <= trpt["data"])
        /\ \A c \in Chans : trpt[c] <= addr

(* What is acknowledged was heard, also what the client took an ACK for.      *)
Acked == /\ \A m \in net : m.kind = "ack" => m.addr <= heard.addr
         /\ status["data"] = "CONNECTED" => trpt["data"] # None /\ trpt["data"] <= heard.addr

(* The host is connected to the newest address it heard.                      *)
HostFollows == /\ hUp <=> hTrpt # None
               /\ hTrpt <= heard.addr
               /\ Calm({"stale"}) => hTrpt \in {None, heard.addr}

(* MediaTransport follows the connection; an attempt begins and stays down.   *)
UpFollows == Calm({"late"}) => /\ up => connected /\ status["data"] = "CONNECTED"
                               /\ up => "data" \notin pending

(* A control status left over from a closed transport is replaced by the next *)
(* attempt before its data connection can give up.                            *)
Leftover == Calm({"failed", "late"}) =>
  (status["ctrl"] = "CONNECTED" /\ trpt["ctrl"] = None =>
     \/ "ctrl" \in pending
     \/ status["data"] # "SEND_REQUEST" /\ "data" \notin pending)

Opened == pending # {} => addr # 0

Client == Opened /\ UpFollows /\ Leftover

Inv == TypeOK /\ Used /\ Acked /\ HostFollows /\ Client

LEMMA ChanFacts == /\ "ctrl" \in Chans /\ "data" \in Chans /\ "ctrl" # "data"
                   /\ \A c \in Chans : c = "ctrl" \/ c = "data"
  BY DEF Chans

LEMMA InitInv == Init => Inv
<1> SUFFICES ASSUME Init PROVE Inv
  OBVIOUS
<1> USE ChanFacts, MediaAssumption DEF Init
<1>1. /\ trpt \in [Chans -> 0..MaxConnects] /\ \A c \in Chans : trpt[c] = 0
  BY DEF None
<1>2. /\ status \in [Chans -> {"DISCONNECTED", "SEND_REQUEST", "CONNECTED"}]
      /\ \A c \in Chans : status[c] = "DISCONNECTED"
  OBVIOUS
<1>3. tries \in [Chans -> 0..MAX_TRY_TIME]
  OBVIOUS
<1>4. heard \in [addr : 0..MaxConnects, fin : BOOLEAN] /\ heard.addr = 0
  OBVIOUS
<1>5. TypeOK
  <2>1. ClientType
    BY <1>1, <1>2, <1>3 DEF ClientType
  <2>2. HostType
    BY <1>4 DEF HostType, None
  <2>3. starts \in 0..MaxHosts /\ troubles \in 0..MaxTroubles
    OBVIOUS
  <2>4. QED BY <2>1, <2>2, <2>3 DEF TypeOK
<1>6. Used /\ Acked /\ HostFollows
  BY <1>1, <1>2, <1>4 DEF Used, Acked, HostFollows, None
<1>7. Client
  BY <1>2 DEF Client, Opened, UpFollows, Leftover
<1>8. QED BY <1>5, <1>6, <1>7 DEF Inv

(* The members of the functions and records, taken apart once.               *)
Typed ==
  /\ addr \in Nat /\ addr <= MaxConnects /\ MaxConnects \in Nat /\ MAX_TRY_TIME \in Nat /\ 1 <= MAX_TRY_TIME
  /\ \A c \in Chans : trpt[c] \in Nat /\ trpt[c] <= MaxConnects
  /\ \A c \in Chans : tries[c] \in Nat /\ tries[c] <= MAX_TRY_TIME
  /\ \A m \in net : /\ m \in Messages /\ m.addr \in Nat /\ 1 <= m.addr /\ m.addr <= MaxConnects
                    /\ m.kind \in {"req", "ack", "fin"}
  /\ hTrpt \in Nat /\ hTrpt <= MaxConnects
  /\ heard.addr \in Nat /\ heard.addr <= MaxConnects

LEMMA TypedFacts == TypeOK => Typed
  BY MediaAssumption DEF TypeOK, ClientType, HostType, Messages, Addrs, Typed

(* What the client sends the host comes from where its transport is.         *)
LEMMA ToHostFacts ==
  ASSUME TypeOK, NEW kind \in {"req", "fin"}, NEW chans \in SUBSET Chans
  PROVE  /\ ToHost(kind, chans) \subseteq Messages
         /\ \A m \in ToHost(kind, chans) : m.addr = trpt["data"] /\ m.kind = kind /\ trpt["data"] # None
<1>1. SUFFICES ASSUME NEW m \in ToHost(kind, chans)
               PROVE  m \in Messages /\ m.addr = trpt["data"] /\ m.kind = kind /\ trpt["data"] # None
  OBVIOUS
<1>2. m = [to |-> "host", addr |-> trpt["data"], kind |-> kind] /\ trpt["data"] # None
  BY <1>1, ChanFacts DEF ToHost
<1>3. trpt["data"] \in Addrs
  BY <1>2, TypedFacts, ChanFacts, MediaAssumption DEF Typed, Addrs, None
<1>4. QED BY <1>2, <1>3 DEF Messages

LEMMA ToClientFacts ==
  ASSUME TypeOK, NEW kind \in {"ack", "fin"}, NEW a \in 0..MaxConnects
  PROVE  /\ ToClient(kind, a) \subseteq Messages
         /\ \A m \in ToClient(kind, a) : m.addr = a /\ m.kind = kind
<1>1. CASE a = None
  BY <1>1 DEF ToClient
<1>2. CASE a # None
  <2>1. ToClient(kind, a) = {[to |-> "client", addr |-> a, kind |-> kind]} /\ a \in Addrs
    BY <1>2, MediaAssumption DEF ToClient, Addrs, None
  <2>2. QED BY <2>1 DEF Messages
<1>3. QED BY <1>1, <1>2

-----------------------------------------------------------------------------
(* What one step keeps, part by part: the types, ...                          *)

(* What the handling of m does, the rest of the network being given: Receive  *)
(* takes m away, Repeat leaves it.                                            *)
LEMMA Messaging ==
  ASSUME NEW m \in net, Receive(m) \/ Repeat(m) \/ Lose(m)
  PROVE  \/ \E rest \in SUBSET net : Process(m, rest) /\ UNCHANGED <<prompt, starts>>
                                     /\ troubles' \in {troubles, troubles + 1}
                                     /\ (troubles' = troubles \/ troubles < MaxTroubles)
         \/ Lose(m)
<1>1. CASE Receive(m)
  BY <1>1 DEF Receive, bounds
<1>2. CASE Repeat(m)
  BY <1>2 DEF Repeat
<1>3. QED BY <1>1, <1>2

LEMMA TypeStep == TypeOK /\ Opened /\ [Next]_vars => TypeOK'
<1> SUFFICES ASSUME TypeOK, Opened, [Next]_vars PROVE TypeOK'
  OBVIOUS
<1> USE ChanFacts, MediaAssumption
<1>0. ClientType /\ HostType /\ net \subseteq Messages /\ prompt \in BOOLEAN /\ upset \subseteq Upsets
      /\ starts \in 0..MaxHosts /\ troubles \in 0..MaxTroubles
  BY DEF TypeOK
<1>t. ASSUME NEW what \in SUBSET Upsets, Trouble(what)
      PROVE  troubles' \in 0..MaxTroubles /\ upset' \subseteq Upsets
  BY <1>0, <1>t DEF Trouble
<1>n. None \in 0..MaxConnects
  BY DEF None
<1>c. UNCHANGED clientVars => ClientType'
  BY <1>0 DEF clientVars, ClientType
<1>h. UNCHANGED hostVars => HostType'
  BY <1>0 DEF hostVars, HostType
<1>1. CASE Connect
  <2>1. ClientType'
    BY <1>0, <1>1 DEF Connect, ClientType
  <2>2. upset' \subseteq Upsets
    BY <1>0, <1>1 DEF Connect, Upsets
  <2>3. QED BY <1>0, <1>1, <1>h, <2>1, <2>2 DEF Connect, TypeOK, bounds
<1>2. CASE Stop
  <2>1. ClientType'
    <3>1. /\ trpt' \in [Chans -> 0..MaxConnects] /\ tries' \in [Chans -> 0..MAX_TRY_TIME]
          /\ status' \in [Chans -> {"DISCONNECTED", "SEND_REQUEST", "CONNECTED"}]
      BY <1>0, <1>2, <1>n DEF Stop, ClientType
    <3>2. QED BY <1>0, <1>2, <3>1 DEF Stop, ClientType
  <2>2. net' \subseteq Messages
    BY <1>0, <1>2, ToHostFacts DEF Stop
  <2>3. QED BY <1>0, <1>2, <1>h, <2>1, <2>2 DEF Stop, TypeOK, bounds
<1>3. CASE Timer
  <2>1. PICK due \in SUBSET Chans : OnTimer(due)
    BY <1>3 DEF Timer
  <2>2. UNCHANGED <<prompt, pending, addr, connected, alive, hostVars, upset, bounds>>
    BY <1>3 DEF Timer
  <2> DEFINE again == {c \in due : tries[c] < MAX_TRY_TIME}
  <2>3. net' = net \cup ToHost("req", again) /\ again \in SUBSET Chans
    BY <2>1 DEF OnTimer
  <2>4. net' \subseteq Messages
    BY <1>0, <2>3, ToHostFacts
  <2>5. tries' \in [Chans -> 0..MAX_TRY_TIME]
    BY <1>0, <2>1 DEF OnTimer, ClientType
  <2>6. trpt' \in [Chans -> 0..MaxConnects] /\ status' \in [Chans -> {"DISCONNECTED", "SEND_REQUEST", "CONNECTED"}]
    BY <1>0, <2>1 DEF OnTimer, ClientType, None
  <2>7. up' \in BOOLEAN /\ told' \in {"nothing", "connected", "failed", "disconnected"}
    BY <1>0, <2>1 DEF OnTimer, ClientType
  <2>8. ClientType'
    BY <1>0, <2>2, <2>5, <2>6, <2>7 DEF ClientType
  <2>9. QED BY <1>0, <1>h, <2>2, <2>4, <2>8 DEF TypeOK, bounds
<1>4. CASE CtrlAck \/ CtrlFin
  <2>1. ClientType'
    BY <1>0, <1>4 DEF CtrlAck, CtrlFin, ClientType, None
  <2>2. QED BY <1>0, <1>4, <1>h, <2>1 DEF CtrlAck, CtrlFin, TypeOK, bounds
<1>5. ASSUME NEW c \in Chans, ConnectIndication(c) PROVE TypeOK'
  <2>1. addr \in Addrs
    BY <1>0, <1>5 DEF ConnectIndication, Opened, ClientType, Addrs
  <2>2. ClientType'
    BY <1>0, <1>5, <2>1 DEF ConnectIndication, ClientType, Addrs
  <2>3. net' \subseteq Messages
    BY <1>0, <1>5, <2>1 DEF ConnectIndication, Messages
  <2>4. QED BY <1>0, <1>5, <1>h, <2>2, <2>3 DEF ConnectIndication, TypeOK, bounds
<1>6. ASSUME NEW c \in Chans, ConnectFailed(c) PROVE TypeOK'
  <2>1. ClientType'
    BY <1>0, <1>6 DEF ConnectFailed, ClientType
  <2>2. troubles' \in 0..MaxTroubles /\ upset' \subseteq Upsets
    BY <1>6, <1>t DEF ConnectFailed, Upsets
  <2>3. QED BY <1>0, <1>6, <1>h, <2>1, <2>2 DEF ConnectFailed, TypeOK
<1>7. ASSUME NEW c \in Chans, Broken(c) PROVE TypeOK'
  <2>1. ClientType'
    <3>1. /\ trpt' \in [Chans -> 0..MaxConnects] /\ tries' \in [Chans -> 0..MAX_TRY_TIME]
          /\ status' \in [Chans -> {"DISCONNECTED", "SEND_REQUEST", "CONNECTED"}]
      BY <1>0, <1>7, <1>n DEF Broken, ClientType
    <3>2. QED BY <1>0, <1>7, <3>1 DEF Broken, ClientType
  <2>2. troubles' \in 0..MaxTroubles /\ upset' \subseteq Upsets
    BY <1>7, <1>t DEF Broken, Upsets
  <2>3. QED BY <1>0, <1>7, <1>h, <2>1, <2>2 DEF Broken, TypeOK
<1>8. CASE HostStart
  BY <1>0, <1>8, <1>c DEF HostStart, TypeOK, HostType, Upsets
<1>9. CASE HostStop
  <2>1. HostType'
    BY <1>0, <1>9, <1>n DEF HostStop, HostType
  <2>2. net' \subseteq Messages
    BY <1>0, <1>9, ToClientFacts DEF HostStop, HostType
  <2>3. QED BY <1>0, <1>9, <1>c, <2>1, <2>2 DEF HostStop, TypeOK, bounds
<1>10. CASE HostBroken
  <2>1. HostType'
    BY <1>0, <1>10, <1>n DEF HostBroken, HostType
  <2>2. troubles' \in 0..MaxTroubles /\ upset' \subseteq Upsets
    BY <1>10, <1>t DEF HostBroken, Upsets
  <2>3. QED BY <1>0, <1>10, <1>c, <2>1, <2>2 DEF HostBroken, TypeOK
<1>11. ASSUME NEW m \in net, NEW rest \in SUBSET net, Process(m, rest), UNCHANGED <<prompt, starts>>,
              troubles' \in {troubles, troubles + 1}, troubles' = troubles \/ troubles < MaxTroubles
       PROVE  TypeOK'
  <2>1. m \in Messages /\ m.addr \in 0..MaxConnects /\ Lateness \subseteq Upsets
    BY <1>0, TypedFacts DEF Typed, Lateness, Upsets
  <2>2. troubles' \in 0..MaxTroubles /\ starts' \in 0..MaxHosts /\ prompt' \in BOOLEAN
    BY <1>0, <1>11
  <2>3. CASE DataAck(m, rest) \/ DataFin(m, rest)
    <3>1. ClientType'
      BY <1>0, <1>n, <2>3 DEF DataAck, DataFin, ClientType
    <3>2. QED BY <1>0, <2>1, <2>2, <2>3, <1>h, <3>1 DEF DataAck, DataFin, TypeOK
  <2>4. CASE ClientDrops(m, rest) \/ Refused(m, rest)
    BY <1>0, <2>2, <2>4, <1>c, <1>h DEF ClientDrops, Refused, TypeOK, Upsets
  <2>5. CASE HostReq(m, rest) \/ HostFin(m, rest)
    <3>1. heard' \in [addr : 0..MaxConnects, fin : BOOLEAN] /\ upset' \subseteq Upsets
      <4> DEFINE fin == m.kind = "fin" \/ (heard.addr = m.addr /\ heard.fin)
      <4>1. heard' \in {heard, [addr |-> m.addr, fin |-> fin]} /\ upset' \subseteq upset \cup {"stale"}
        BY <2>5 DEF HostReq, HostFin, Hears
      <4>2. fin \in BOOLEAN
        OBVIOUS
      <4> HIDE DEF fin
      <4>3. [addr |-> m.addr, fin |-> fin] \in [addr : 0..MaxConnects, fin : BOOLEAN]
        BY <2>1, <4>2
      <4>4. heard \in [addr : 0..MaxConnects, fin : BOOLEAN]
        BY <1>0 DEF HostType
      <4>5. QED BY <1>0, <4>1, <4>3, <4>4 DEF Upsets
    <3>2. HostType'
      BY <1>0, <1>n, <2>1, <2>5, <3>1 DEF HostReq, HostFin, HostType
    <3>3. net' \subseteq Messages
      BY <1>0, <2>1, <2>5, ToClientFacts DEF HostReq, HostFin
    <3>4. QED BY <2>2, <2>5, <1>c, <3>1, <3>2, <3>3 DEF HostReq, HostFin, TypeOK
  <2>6. QED BY <1>11, <2>3, <2>4, <2>5 DEF Process
<1>12. ASSUME NEW m \in net, Lose(m) PROVE TypeOK'
  BY <1>0, <1>12, <1>c, <1>h, <1>t DEF Lose, TypeOK, Upsets
<1>13. CASE UNCHANGED vars
  BY <1>0, <1>13, <1>c, <1>h DEF vars, TypeOK, bounds
<1>14. ASSUME NEW m \in net, Receive(m) \/ Repeat(m) \/ Lose(m) PROVE TypeOK'
  BY <1>11, <1>12, <1>14, Messaging
<1>15. QED
  BY <1>1, <1>2, <1>3, <1>4, <1>5, <1>6, <1>7, <1>8, <1>9, <1>10, <1>13, <1>14 DEF Next

(* No step forgets what upset the call.                                       *)
LEMMA UpsetGrows == [Next]_vars => upset \subseteq upset'
<1> SUFFICES ASSUME [Next]_vars PROVE upset \subseteq upset'
  OBVIOUS
<1>1. ASSUME NEW m \in net, Receive(m) \/ Repeat(m) \/ Lose(m) PROVE upset \subseteq upset'
  <2>1. ASSUME NEW rest \in SUBSET net, Process(m, rest) PROVE upset \subseteq upset'
    BY <2>1 DEF Process, DataAck, DataFin, ClientDrops, HostReq, HostFin, Refused, Hears, Lateness
  <2>2. CASE Lose(m)
    BY <2>2 DEF Lose, Trouble
  <2>3. QED BY <1>1, <2>1, <2>2, Messaging
<1>2. ASSUME NEW c \in Chans, ConnectIndication(c) \/ ConnectFailed(c) \/ Broken(c) PROVE upset \subseteq upset'
  BY <1>2 DEF ConnectIndication, ConnectFailed, Broken, Trouble
<1>3. CASE Connect \/ Stop \/ Timer \/ CtrlAck \/ CtrlFin
  BY <1>3 DEF Connect, Stop, Timer, CtrlAck, CtrlFin
<1>4. CASE HostStart \/ HostStop \/ HostBroken
  BY <1>4 DEF HostStart, HostStop, HostBroken, Trouble
<1>5. CASE UNCHANGED vars
  BY <1>5 DEF vars
<1>6. QED BY <1>1, <1>2, <1>3, <1>4, <1>5 DEF Next

(* What hearing m does to the newest address heard.                           *)
LEMMA HearsFacts ==
  ASSUME TypeOK, NEW m \in net, Hears(m)
  PROVE  /\ heard'.addr = IF m.addr < heard.addr THEN heard.addr ELSE m.addr
         /\ "stale" \notin upset' => ~Stale(m)
  BY TypedFacts DEF Hears, Typed, TypeOK, HostType

(* ... the addresses, ...                                                     *)
LEMMA TrafficStep == TypeOK /\ Used /\ Acked /\ HostFollows /\ [Next]_vars => Used' /\ Acked'
<1> SUFFICES ASSUME TypeOK, Typed, Used, Acked, HostFollows, [Next]_vars PROVE Used' /\ Acked'
  BY TypedFacts
<1> USE ChanFacts DEF None
<1>0. /\ trpt \in [Chans -> 0..MaxConnects] /\ heard.addr \in Nat /\ addr \in Nat
      /\ status \in [Chans -> {"DISCONNECTED", "SEND_REQUEST", "CONNECTED"}]
  BY DEF TypeOK, ClientType, Typed
<1>a. /\ \A m \in net : m.addr <= addr /\ (trpt["data"] # None => m.addr <= trpt["data"])
      /\ heard.addr <= addr /\ (trpt["data"] # None => heard.addr <= trpt["data"])
      /\ \A c \in Chans : trpt[c] <= addr
      /\ \A m \in net : m.kind = "ack" => m.addr <= heard.addr
      /\ status["data"] = "CONNECTED" => trpt["data"] # None /\ trpt["data"] <= heard.addr
  BY DEF Used, Acked
(* Some transports are closed, what is sent comes from where the data one is. *)
<1>b. ASSUME \A m \in net' : m \in net \/ (m.addr = trpt["data"] /\ m.addr # 0 /\ m.kind # "ack"),
             \A c \in Chans : trpt'[c] \in {trpt[c], None},
             status'["data"] = "CONNECTED" => status["data"] = "CONNECTED" /\ trpt'["data"] = trpt["data"],
             UNCHANGED <<addr, heard>>
      PROVE  Used' /\ Acked'
  BY <1>0, <1>a, <1>b DEF Used, Acked, Typed
<1>1. CASE Connect
  BY <1>0, <1>1, <1>a DEF Connect, Used, Acked, hostVars, Typed
<1>2. CASE Stop
  <2>1. \A m \in ToHost("fin", Chans) : m.addr = trpt["data"] /\ m.addr # 0 /\ m.kind # "ack"
    BY ToHostFacts
  <2>2. /\ \A m \in net' : m \in net \/ m \in ToHost("fin", Chans)
        /\ \A c \in Chans : trpt'[c] = None
        /\ status'["data"] = "DISCONNECTED" /\ UNCHANGED <<addr, heard>>
    BY <1>2 DEF Stop, hostVars
  <2>3. QED BY <1>b, <2>1, <2>2
<1>3. CASE Timer
  <2>1. PICK due \in SUBSET Chans : OnTimer(due)
    BY <1>3 DEF Timer
  <2> DEFINE again == {c \in due : tries[c] < MAX_TRY_TIME}
  <2>2. net' = net \cup ToHost("req", again) /\ again \in SUBSET Chans
    BY <2>1 DEF OnTimer
  <2>3. \A m \in ToHost("req", again) : m.addr = trpt["data"] /\ m.addr # 0 /\ m.kind # "ack"
    BY <2>2, ToHostFacts
  <2>4. \A c \in Chans : trpt'[c] \in {trpt[c], None} /\ (c = "data" => trpt'[c] = trpt[c])
    BY <1>0, <2>1 DEF OnTimer
  <2>5. status'["data"] = "CONNECTED" => status["data"] = "CONNECTED"
    BY <1>0, <2>1 DEF OnTimer
  <2>6. UNCHANGED <<addr, heard>>
    BY <1>3 DEF Timer, hostVars
  <2> HIDE DEF again
  <2>7. QED BY <1>b, <2>2, <2>3, <2>4, <2>5, <2>6
<1>4. CASE CtrlAck \/ CtrlFin
  <2>1. /\ \A c \in Chans : trpt'[c] \in {trpt[c], None} /\ (c = "data" => trpt'[c] = trpt[c])
        /\ net' = net /\ status'["data"] = status["data"] /\ UNCHANGED <<addr, heard>>
    BY <1>0, <1>4 DEF CtrlAck, CtrlFin, hostVars
  <2>2. QED BY <1>b, <2>1
<1>5. ASSUME NEW c \in Chans, ConnectIndication(c) PROVE Used' /\ Acked'
  <2>1. /\ \A m \in net' : m \in net \/ (c = "data" /\ m.addr = addr /\ m.kind # "ack")
        /\ trpt'[c] = addr /\ \A d \in Chans : d # c => trpt'[d] = trpt[d]
        /\ status'[c] = "SEND_REQUEST" /\ \A d \in Chans : d # c => status'[d] = status[d]
        /\ UNCHANGED <<addr, heard>>
    BY <1>0, <1>5 DEF ConnectIndication, hostVars
  <2>2. QED BY <1>0, <1>a, <2>1 DEF Used, Acked, Typed
<1>6. ASSUME NEW c \in Chans, ConnectFailed(c) PROVE Used' /\ Acked'
  BY <1>b, <1>6 DEF ConnectFailed, hostVars
<1>7. ASSUME NEW c \in Chans, Broken(c) PROVE Used' /\ Acked'
  <2>1. /\ trpt'[c] = None /\ \A d \in Chans : d # c => trpt'[d] = trpt[d]
        /\ status'[c] = "DISCONNECTED" /\ \A d \in Chans : d # c => status'[d] = status[d]
        /\ net' = net /\ UNCHANGED <<addr, heard>>
    BY <1>0, <1>7 DEF Broken, hostVars
  <2>2. QED BY <1>b, <2>1
<1>8. CASE HostStart \/ HostBroken
  BY <1>b, <1>8 DEF HostStart, HostBroken, clientVars
<1>9. CASE HostStop
  <2>1. /\ \A m \in net' : m \in net \/ (m \in ToClient("fin", hTrpt) /\ m.addr = hTrpt /\ m.kind = "fin")
        /\ UNCHANGED <<trpt, status, addr, heard>>
    BY <1>9, ToClientFacts DEF HostStop, clientVars, TypeOK, HostType
  <2>2. hTrpt <= heard.addr /\ hTrpt \in Nat
    BY DEF HostFollows, Typed
  <2>3. QED BY <1>0, <1>a, <2>1, <2>2 DEF Used, Acked, Typed
<1>10. ASSUME NEW m \in net, NEW rest \in SUBSET net, Process(m, rest) PROVE Used' /\ Acked'
  <2>0. m.addr \in Nat /\ 1 <= m.addr /\ m.addr \in 0..MaxConnects
    BY DEF Typed, TypeOK, HostType
  <2>1. CASE DataAck(m, rest)
    <3>1. /\ net' = rest /\ trpt["data"] = m.addr /\ m.kind = "ack" /\ UNCHANGED <<trpt, addr, heard>>
      BY <2>1 DEF DataAck, AtClient, hostVars
    <3>2. QED BY <1>0, <1>a, <2>0, <3>1 DEF Used, Acked, Typed
  <2>2. CASE DataFin(m, rest)
    <3>1. /\ net' = rest /\ \A c \in Chans : trpt'[c] = None
          /\ status'["data"] = "DISCONNECTED" /\ UNCHANGED <<addr, heard>>
      BY <1>0, <2>2 DEF DataFin, hostVars
    <3>2. QED BY <1>b, <3>1
  <2>3. CASE ClientDrops(m, rest) \/ Refused(m, rest)
    BY <1>b, <2>3 DEF ClientDrops, Refused, clientVars, hostVars
  <2>4. CASE HostReq(m, rest) \/ HostFin(m, rest)
    <3>1. /\ \A k \in net' : k \in net \/ k.addr = m.addr
          /\ UNCHANGED <<trpt, addr, status>> /\ Hears(m)
      BY <2>0, <2>4, ToClientFacts DEF HostReq, HostFin, clientVars
    <3>2. heard'.addr = IF m.addr < heard.addr THEN heard.addr ELSE m.addr
      BY <3>1, HearsFacts
    <3>3. QED BY <1>0, <1>a, <2>0, <3>1, <3>2 DEF Used, Acked, Typed
  <2>5. QED BY <1>10, <2>1, <2>2, <2>3, <2>4 DEF Process
<1>11. ASSUME NEW m \in net, Lose(m) PROVE Used' /\ Acked'
  BY <1>b, <1>11 DEF Lose, clientVars, hostVars
<1>12. CASE UNCHANGED vars
  BY <1>b, <1>12 DEF vars, clientVars, hostVars
<1>13. ASSUME NEW m \in net, Receive(m) \/ Repeat(m) \/ Lose(m) PROVE Used' /\ Acked'
  BY <1>10, <1>11, <1>13, Messaging
<1>14. QED
  BY <1>1, <1>2, <1>3, <1>4, <1>5, <1>6, <1>7, <1>8, <1>9, <1>12, <1>13 DEF Next

(* ... the host, ...                                                          *)
LEMMA HostStep == TypeOK /\ HostFollows /\ [Next]_vars => HostFollows'
<1> SUFFICES ASSUME TypeOK, Typed, HostFollows, [Next]_vars PROVE HostFollows'
  BY TypedFacts
<1>0. upset \subseteq upset'
  BY UpsetGrows
<1>1. CASE UNCHANGED <<hTrpt, hUp, heard>>
  BY <1>0, <1>1 DEF HostFollows, Calm
<1>2. CASE hTrpt' = None /\ hUp' = FALSE /\ heard'.addr \in Nat
  BY <1>2 DEF HostFollows, None
<1>3. ASSUME NEW m \in net, NEW rest \in SUBSET net, Process(m, rest) PROVE HostFollows'
  <2>0. m.addr \in Nat /\ 1 <= m.addr
    BY DEF Typed
  <2>1. CASE UNCHANGED hostVars
    BY <1>1, <2>1 DEF hostVars
  <2>2. CASE HostReq(m, rest) \/ HostFin(m, rest)
    <3>1. /\ heard'.addr = IF m.addr < heard.addr THEN heard.addr ELSE m.addr
          /\ "stale" \notin upset' => ~Stale(m)
      BY <2>2, HearsFacts DEF HostReq, HostFin
    <3>2. CASE HostReq(m, rest)
      BY <2>0, <3>1, <3>2 DEF HostReq, HostFollows, Calm, Stale, None, Typed
    <3>3. CASE HostFin(m, rest)
      BY <1>2, <2>0, <3>1, <3>3 DEF HostFin, Typed
    <3>4. QED BY <2>2, <3>2, <3>3
  <2>3. QED BY <1>3, <2>1, <2>2 DEF Process, DataAck, DataFin, ClientDrops, Refused
<1>4. CASE HostStart \/ HostStop \/ HostBroken
  BY <1>1, <1>2, <1>4 DEF HostStart, HostStop, HostBroken, Typed
<1>5. ASSUME NEW c \in Chans, ConnectIndication(c) \/ ConnectFailed(c) \/ Broken(c) PROVE HostFollows'
  BY <1>1, <1>5 DEF ConnectIndication, ConnectFailed, Broken, hostVars
<1>6. CASE Connect \/ Stop \/ Timer \/ CtrlAck \/ CtrlFin
  BY <1>1, <1>6 DEF Connect, Stop, Timer, CtrlAck, CtrlFin, hostVars
<1>7. ASSUME NEW m \in net, Receive(m) \/ Repeat(m) \/ Lose(m) PROVE HostFollows'
  <2>1. CASE Lose(m)
    BY <1>1, <2>1 DEF Lose, hostVars
  <2>2. QED BY <1>3, <1>7, <2>1, Messaging
<1>8. CASE UNCHANGED vars
  BY <1>1, <1>8 DEF vars, hostVars
<1>9. QED BY <1>4, <1>5, <1>6, <1>7, <1>8 DEF Next

(* ... and the client.                                                        *)
LEMMA ClientStep == TypeOK /\ Client /\ [Next]_vars => Client'
<1> SUFFICES ASSUME TypeOK, Typed, Client, [Next]_vars PROVE Client'
  BY TypedFacts
<1> USE ChanFacts
<1>0. /\ trpt \in [Chans -> 0..MaxConnects] /\ pending \subseteq Chans /\ upset \subseteq upset'
      /\ status \in [Chans -> {"DISCONNECTED", "SEND_REQUEST", "CONNECTED"}]
  BY UpsetGrows DEF TypeOK, ClientType
<1>1. Opened /\ UpFollows /\ Leftover
  BY DEF Client
<1>2. CASE UNCHANGED <<pending, addr, trpt, status, connected, up>>
  BY <1>0, <1>1, <1>2 DEF Client, Opened, UpFollows, Leftover, Calm
<1>3. CASE Connect
  BY <1>0, <1>1, <1>3 DEF Connect, Client, Opened, UpFollows, Leftover, Calm, Typed
<1>4. CASE Stop
  BY <1>4 DEF Stop, Client, Opened, UpFollows, Leftover
<1>5. CASE Timer
  <2>1. PICK due \in SUBSET {c \in Chans : status[c] = "SEND_REQUEST"} : OnTimer(due)
    BY <1>5 DEF Timer
  <2>2. pending = {} /\ UNCHANGED <<pending, addr, connected>>
    BY <1>5 DEF Timer
  <2> DEFINE over == due \ {c \in due : tries[c] < MAX_TRY_TIME}
  <2>3. CASE "data" \in over
    <3>1. status'["data"] = "DISCONNECTED" /\ up' = FALSE
      BY <1>0, <2>1, <2>3 DEF OnTimer
    <3>2. QED BY <2>2, <3>1 DEF Client, Opened, UpFollows, Leftover
  <2>4. CASE "data" \notin over
    <3>1. /\ up' = up /\ trpt' = trpt /\ status'["data"] = status["data"]
          /\ status'["ctrl"] \in {"DISCONNECTED", status["ctrl"]}
      BY <1>0, <2>1, <2>4 DEF OnTimer
    <3>2. QED BY <1>0, <1>1, <2>2, <3>1 DEF Client, Opened, UpFollows, Leftover, Calm
  <2>5. QED BY <2>3, <2>4
<1>6. CASE CtrlAck
  <2>1. /\ trpt["ctrl"] # None /\ UNCHANGED <<trpt, pending, addr, connected, up>>
        /\ status'["data"] = status["data"]
    BY <1>0, <1>6 DEF CtrlAck
  <2>2. QED BY <1>0, <1>1, <2>1 DEF Client, Opened, UpFollows, Leftover, Calm
<1>7. CASE CtrlFin
  <2>1. /\ status'["ctrl"] = "DISCONNECTED" /\ status'["data"] = status["data"]
        /\ UNCHANGED <<pending, addr, connected, up>>
    BY <1>0, <1>7 DEF CtrlFin
  <2>2. QED BY <1>0, <1>1, <2>1 DEF Client, Opened, UpFollows, Leftover, Calm
<1>8. ASSUME NEW c \in Chans, ConnectIndication(c) PROVE Client'
  <2>1. /\ c \in pending /\ pending' = pending \ {c} /\ UNCHANGED <<addr, connected, up>>
        /\ trpt'[c] = addr /\ \A d \in Chans : d # c => trpt'[d] = trpt[d]
        /\ status'[c] = "SEND_REQUEST" /\ \A d \in Chans : d # c => status'[d] = status[d]
    BY <1>0, <1>8 DEF ConnectIndication
  <2>2. addr # 0
    BY <1>1, <2>1 DEF Opened
  <2>3. CASE c = "ctrl"
    BY <1>0, <1>1, <2>1, <2>2, <2>3 DEF Client, Opened, UpFollows, Leftover, Calm, None
  <2>4. CASE c = "data"
    BY <1>0, <1>1, <2>1, <2>2, <2>4 DEF Client, Opened, UpFollows, Leftover, Calm, None
  <2>5. QED BY <2>3, <2>4
<1>9. ASSUME NEW c \in Chans, ConnectFailed(c) PROVE Client'
  <2>1. /\ c \in pending /\ pending' = pending \ {c} /\ UNCHANGED <<addr, connected, status>>
        /\ (c = "data" => up' = FALSE) /\ (c # "data" => up' = up) /\ "failed" \in upset'
    BY <1>9 DEF ConnectFailed, Trouble
  <2>2. QED BY <1>0, <1>1, <2>1 DEF Client, Opened, UpFollows, Leftover, Calm
<1>10. ASSUME NEW c \in Chans, Broken(c) PROVE Client'
  <2>1. /\ UNCHANGED <<pending, addr>>
        /\ trpt'[c] = None /\ \A d \in Chans : d # c => trpt'[d] = trpt[d]
        /\ status'[c] = "DISCONNECTED" /\ \A d \in Chans : d # c => status'[d] = status[d]
        /\ (c = "data" => up' = FALSE) /\ (c # "data" => up' = up /\ connected' = connected)
    BY <1>0, <1>10 DEF Broken
  <2>2. CASE c = "ctrl"
    BY <1>0, <1>1, <2>1, <2>2 DEF Client, Opened, UpFollows, Leftover, Calm, None
  <2>3. CASE c = "data"
    BY <1>0, <1>1, <2>1, <2>3 DEF Client, Opened, UpFollows, Leftover, Calm, None
  <2>4. QED BY <2>2, <2>3
<1>11. ASSUME NEW m \in net, NEW rest \in SUBSET net, Process(m, rest) PROVE Client'
  <2>1. CASE DataAck(m, rest)
    <3>1. /\ status'["data"] = "CONNECTED" /\ status'["ctrl"] = status["ctrl"]
          /\ connected' = TRUE /\ up' = TRUE /\ UNCHANGED <<pending, addr, trpt>>
          /\ "data" \in pending => "late" \in upset'
      BY <1>0, <2>1 DEF DataAck, Lateness
    <3>2. QED BY <1>0, <1>1, <3>1 DEF Client, Opened, UpFollows, Leftover, Calm
  <2>2. CASE DataFin(m, rest)
    <3>1. /\ status'["data"] = "DISCONNECTED" /\ up' = FALSE /\ UNCHANGED <<pending, addr>>
          /\ "data" \in pending => "late" \in upset'
      BY <1>0, <2>2 DEF DataFin, Lateness
    <3>2. QED BY <1>1, <3>1 DEF Client, Opened, UpFollows, Leftover, Calm
  <2>3. QED BY <1>2, <1>11, <2>1, <2>2 DEF Process, ClientDrops, HostReq, HostFin, Refused, clientVars
<1>12. CASE HostStart \/ HostStop \/ HostBroken \/ UNCHANGED vars
  BY <1>2, <1>12 DEF HostStart, HostStop, HostBroken, clientVars, vars
<1>13. ASSUME NEW m \in net, Receive(m) \/ Repeat(m) \/ Lose(m) PROVE Client'
  <2>1. CASE Lose(m)
    BY <1>2, <2>1 DEF Lose, clientVars
  <2>2. QED BY <1>11, <1>13, <2>1, Messaging
<1>14. QED
  BY <1>3, <1>4, <1>5, <1>6, <1>7, <1>8, <1>9, <1>10, <1>12, <1>13 DEF Next

(* The parts hold together in every state.                                    *)
THEOREM InvAlways == Spec => []Inv
<1>1. Inv /\ [Next]_vars => Inv'
  BY TypeStep, TrafficStep, HostStep, ClientStep DEF Inv, Client
<1>2. QED BY <1>1, InitInv, PTL DEF Spec

(* The members of both connections and transports keep their types; above all  *)
(* no more requests are sent for a connection than MAX_TRY_TIME.               *)
THEOREM TypeCorrect == Spec => []TypeOK
<1>1. Inv => TypeOK
  BY DEF Inv
<1>2. QED BY <1>1, InvAlways, PTL

(* OnTimer never calls a control transport that is not there, as long as no    *)
(* connector failed and no message of a former attempt came late.              *)
THEOREM GivesUpSafely == Spec => []GiveUpSafe
<1>1. Inv => GiveUpSafe
  BY DEF Inv, Client, Leftover, GiveUpSafe
<1>2. QED BY <1>1, InvAlways, PTL

(* Whatever is lost, repeated or overtaken: a client that believes it is       *)
(* connected has a connected data transport, and a host that believes it too   *)
(* sends to that transport's address.                                          *)
THEOREM EndsAgree == Spec => []Agreement
<1>1. Inv => Agreement
  <2> SUFFICES ASSUME Inv, Calm({"late", "stale"}), up
               PROVE  /\ connected /\ status["data"] = "CONNECTED" /\ trpt["data"] # None
                      /\ hUp => hTrpt = trpt["data"]
    BY DEF Agreement
  <2>1. Calm({"late"}) /\ Calm({"stale"})
    BY DEF Calm
  <2>2. connected /\ status["data"] = "CONNECTED"
    BY <2>1 DEF Inv, Client, UpFollows
  <2>3. trpt["data"] # None /\ trpt["data"] <= heard.addr /\ heard.addr <= trpt["data"]
    BY <2>2 DEF Inv, Acked, Used
  <2>4. heard.addr = trpt["data"]
    BY <2>3, TypedFacts, ChanFacts DEF Inv, Typed
  <2>5. hUp => hTrpt = heard.addr
    BY <2>1 DEF Inv, HostFollows
  <2>6. QED BY <2>2, <2>3, <2>4, <2>5
<1>2. QED BY <1>1, InvAlways, PTL
=============================================================================
