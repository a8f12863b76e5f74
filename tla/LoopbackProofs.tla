--------------------------- MODULE LoopbackProofs ---------------------------
(***************************************************************************)
(* For any number of calls: the members of both clients keep their types,  *)
(* neither sends a create request without its token, and every callback of *)
(* a client meets endpoints that wait for it.  If the user waits for one   *)
(* operation before the next, two answered ends are in one venue.          *)
(***************************************************************************)
EXTENDS Loopback, OrpheusClientProofs, SequenceTheorems, TLAPS

(* Without calliope no client is ever asked for a venue or a confluence, and   *)
(* only then an endpoint answers the other.                                   *)
Direct ==
  /\ direct => \A s \in Sides : client[s].state \notin Creating \cup {"CREATE_VENUE"}
  /\ \A s \in Sides : conn[s] = "answering" => direct

Fit == Direct /\ CallbacksMeetEndpoints

(* The parts over the clients, the rest of the types, and how they fit.       *)
Clients == \A s \in Sides : client[s] \in GoodClient /\ Covered(client[s])

Inv == TypeOK /\ Clients /\ Fit

LEMMA SideFacts == /\ "caller" \in Sides /\ "callee" \in Sides
                   /\ \A s \in Sides : s = "caller" \/ s = "callee"
                   /\ \A s \in Sides : Other(s) \in Sides /\ Other(s) # s
  BY DEF Sides, Other

LEMMA InitInv == Init => Inv
<1> SUFFICES ASSUME Init PROVE Inv
  OBVIOUS
<1>1. NoRequest \in HttpType
  BY DEF NoRequest, HttpType, Empty
<1>2. PICK mode \in Modes : client = [s \in Sides |-> NewClient(mode)]
  BY LoopbackAssumption DEF Init
<1>3. /\ NewClient(mode) \in ClientType /\ NewClient(mode).authHttp = "none"
      /\ NewClient(mode).http = NoRequest /\ NewClient(mode).state = "INIT"
  BY <1>1 DEF NewClient, ClientType, States, AuthPhases, Empty, Unset
<1>4. client \in [Sides -> ClientType] /\ Clients
  BY <1>2, <1>3 DEF Clients, GoodClient, Covered, NoRequest
<1>5. /\ queue \in Seq(Sides \X {"client", "auth"}) /\ direct \in BOOLEAN
      /\ active = FALSE /\ conn \in [Sides -> Conns] /\ \A s \in Sides : conn[s] = "none"
  BY LoopbackAssumption DEF Init, Conns
<1>6. TypeOK
  BY <1>2, <1>3, <1>4, <1>5, SideFacts DEF Init, TypeOK, Empty
<1>7. Fit
  BY <1>2, <1>3, <1>5, SideFacts DEF Fit, Direct, CallbacksMeetEndpoints, Creating
<1>8. QED BY <1>4, <1>6, <1>7 DEF Inv

(* One client changes and stays good. *)
LEMMA OneClient ==
  ASSUME Inv, NEW s \in Sides, NEW c \in GoodClient, Covered(c), client' = [client EXCEPT ![s] = c]
  PROVE  /\ Clients' /\ client' \in [Sides -> ClientType] /\ client'[s] = c
         /\ \A t \in Sides : client'[t].authHttp \in {"none", client'[t].authState}
         /\ \A t \in Sides : t # s => client'[t] = client[t]
<1>1. client \in [Sides -> ClientType] /\ Clients
  BY DEF Inv, TypeOK
<1>2. c \in ClientType /\ c.authHttp \in {"none", c.authState}
  BY DEF GoodClient
<1>3. /\ client' \in [Sides -> ClientType] /\ client'[s] = c
      /\ \A t \in Sides : t # s => client'[t] = client[t]
  BY <1>1, <1>2
<1>4. QED BY <1>1, <1>2, <1>3 DEF Clients, GoodClient

LEMMA NextInv == Inv /\ [Next]_vars => Inv'
<1> SUFFICES ASSUME Inv, [Next]_vars PROVE Inv'
  OBVIOUS
<1> USE SideFacts
<1>1. /\ client \in [Sides -> ClientType] /\ \A s \in Sides : client[s] \in GoodClient /\ Covered(client[s])
      /\ \A s \in Sides : client[s].authHttp \in {"none", client[s].authState}
      /\ conn \in [Sides -> Conns] /\ direct \in BOOLEAN
      /\ made \in [Sides -> Nat] /\ starts \in Nat /\ venue \in Nat
      /\ offer \in [Sides -> Nat] /\ answered \in [Sides -> Nat]
      /\ (active <=> conn["caller"] # "none") /\ (active <=> conn["callee"] # "none")
      /\ active \in BOOLEAN
  BY DEF Inv, TypeOK, Clients
(* What each step has to show. *)
<1>2. ASSUME Clients', client' \in [Sides -> ClientType],
             \A s \in Sides : client'[s].authHttp \in {"none", client'[s].authState},
             direct' = direct, queue' \in Seq(Sides \X {"client", "auth"}),
             active' \in BOOLEAN, conn' \in [Sides -> Conns],
             active' <=> conn'["caller"] # "none", active' <=> conn'["callee"] # "none",
             venue' \in Nat, made' \in [Sides -> Nat], offer' \in [Sides -> Nat], answered' \in [Sides -> Nat],
             venues' \subseteq Nat, flows' \in [Sides -> SUBSET [url : Nat, venue : Nat]],
             upset' \subseteq {"start", "stop", "floor"}, starts' \in Nat, acts' \in Nat,
             Fit'
      PROVE  Inv'
  BY <1>1, <1>2 DEF Inv, TypeOK
<1>3. /\ venues \subseteq Nat /\ flows \in [Sides -> SUBSET [url : Nat, venue : Nat]]
      /\ queue \in Seq(Sides \X {"client", "auth"})
      /\ upset \subseteq {"start", "stop", "floor"} /\ acts \in Nat /\ Fit /\ Clients
  BY DEF Inv, TypeOK
<1>4. CASE Start
  <2>1. /\ ~active /\ active' = TRUE /\ starts' = starts + 1 /\ acts' = acts + 1 /\ upset' \subseteq {"start", "stop", "floor"}
        /\ UNCHANGED <<direct, queue, offer, answered, made, venues, flows>>
    BY <1>3, <1>4 DEF Start, Upsets, ServerUnchanged
  <2>2. \A s \in Sides : client[s].state \notin Creating \cup {"CREATE_VENUE"}
    BY <1>1, <1>3, <2>1 DEF Fit, CallbacksMeetEndpoints
  <2>3. CASE client' = client
    <3>1. /\ conn' \in [Sides -> Conns] /\ conn'["caller"] # "none" /\ conn'["callee"] # "none"
          /\ \A s \in Sides : conn'[s] # "answering"
      BY <1>4 DEF Start, OnVenue, Conns
    <3>2. venue' \in Nat
      BY <1>1, <1>4, <2>1 DEF Start, OnVenue
    <3>3. Fit'
      BY <2>1, <2>2, <2>3, <3>1 DEF Fit, Direct, CallbacksMeetEndpoints
    <3>4. Clients'
      BY <1>3, <2>3 DEF Clients
    <3>5. QED BY <1>1, <1>2, <1>3, <2>1, <2>3, <3>1, <3>2, <3>3, <3>4
  <2>4. CASE ~direct /\ client["caller"].mode = "orpheus"
    <3> DEFINE c == CreateVenue(client["caller"])
    <3>1. client' = [client EXCEPT !["caller"] = c] /\ conn' = [s \in Sides |-> "preview"] /\ venue' = venue
      BY <1>4, <2>4 DEF Start
    <3>2. c \in GoodClient /\ Covered(c) /\ c.state = "CREATE_VENUE"
      BY <1>1, CreateVenueFacts
    <3> HIDE DEF c
    <3>3. /\ Clients' /\ client' \in [Sides -> ClientType] /\ client'["caller"] = c
          /\ client'["callee"] = client["callee"]
          /\ \A s \in Sides : client'[s].authHttp \in {"none", client'[s].authState}
      BY <3>1, <3>2, OneClient
    <3>4. Fit'
      BY <2>1, <2>2, <2>4, <3>1, <3>2, <3>3 DEF Fit, Direct, CallbacksMeetEndpoints, Creating
    <3>5. conn' \in [Sides -> Conns] /\ conn'["caller"] # "none" /\ conn'["callee"] # "none"
      BY <3>1 DEF Conns
    <3>6. QED BY <1>1, <1>2, <1>3, <2>1, <3>1, <3>3, <3>4, <3>5
  <2>5. QED BY <1>4, <2>3, <2>4 DEF Start
<1>5. CASE Stop
  <2>1. \A s \in Sides : LET d == DeleteConfluence(client[s], s = "caller")
                         IN  d \in GoodClient /\ Covered(d) /\ d.state = "DELETE_CONFLUENCE"
    BY <1>1, DeleteConfluenceFacts
  <2>2. client' = [s \in Sides |-> DeleteConfluence(client[s], s = "caller")]
    BY <1>5 DEF Stop
  <2>3. \A s \in Sides : client'[s] \in GoodClient /\ Covered(client'[s]) /\ client'[s].state = "DELETE_CONFLUENCE"
    BY <2>1, <2>2
  <2>4. /\ Clients' /\ client' \in [Sides -> ClientType]
        /\ \A s \in Sides : client'[s].authHttp \in {"none", client'[s].authState}
    BY <2>2, <2>3 DEF Clients, GoodClient
  <2>5. /\ active' = FALSE /\ conn' = [s \in Sides |-> "none"] /\ acts' = acts + 1
        /\ upset' \subseteq {"start", "stop", "floor"}
        /\ UNCHANGED <<direct, queue, venue, offer, answered, made, starts, venues, flows>>
    BY <1>3, <1>5 DEF Stop, Upsets, ServerUnchanged
  <2>6. Fit'
    BY <2>3, <2>5 DEF Fit, Direct, CallbacksMeetEndpoints, Creating
  <2>7. conn' \in [Sides -> Conns] /\ conn'["caller"] = "none" /\ conn'["callee"] = "none"
    BY <2>5 DEF Conns
  <2>8. UNCHANGED <<venues, flows>> /\ acts' \in Nat
    BY <1>3, <2>5
  <2>9. active' \in BOOLEAN /\ (active' <=> conn'["caller"] # "none") /\ (active' <=> conn'["callee"] # "none")
    BY <2>5, <2>7
  <2>10. QED BY <1>1, <1>2, <1>3, <2>4, <2>5, <2>6, <2>7, <2>8, <2>9
<1>6. CASE Floor
  <2>1. /\ acts' = acts + 1 /\ upset' \subseteq {"start", "stop", "floor"}
        /\ UNCHANGED <<direct, queue, active, conn, venue, offer, answered, made, starts, venues, flows>>
    BY <1>3, <1>6 DEF Floor, Upsets, ServerUnchanged
  <2>2. PICK c \in {RequestFloor(client["caller"]), ReleaseFloor(client["caller"])} :
               client' = [client EXCEPT !["caller"] = c]
    BY <1>6 DEF Floor
  <2>3. c \in GoodClient /\ Covered(c) /\ c.state \in {"REQUEST_FLOOR", "RELEASE_FLOOR"}
    <3>1. client["caller"] \in GoodClient
      BY <1>1
    <3>2. CASE c = RequestFloor(client["caller"])
      BY <3>1, <3>2, OwnStateFacts DEF RequestFloor
    <3>3. CASE c = ReleaseFloor(client["caller"])
      BY <3>1, <3>3, OwnStateFacts DEF ReleaseFloor
    <3>4. QED BY <2>2, <3>2, <3>3
  <2>4. /\ Clients' /\ client' \in [Sides -> ClientType] /\ client'["caller"] = c
        /\ client'["callee"] = client["callee"]
        /\ \A s \in Sides : client'[s].authHttp \in {"none", client'[s].authState}
    BY <2>2, <2>3, OneClient
  <2>5. Fit'
    BY <1>3, <2>1, <2>3, <2>4 DEF Fit, Direct, CallbacksMeetEndpoints, Creating
  <2>6. QED BY <1>1, <1>2, <1>3, <2>1, <2>4, <2>5
(* A step in which one client changes, not to a state that calls back.        *)
<1>7. ASSUME NEW s \in Sides, NEW c \in GoodClient, Covered(c), client' = [client EXCEPT ![s] = c],
             c.state = client[s].state \/ c.state \notin Creating \cup {"CREATE_VENUE"},
             queue' \in Seq(Sides \X {"client", "auth"}), made' \in [Sides -> Nat],
             venues' \subseteq Nat, flows' \in [Sides -> SUBSET [url : Nat, venue : Nat]],
             UserUnchanged, UNCHANGED <<conn, venue, offer, answered>>
      PROVE  Inv'
  <2>1. /\ Clients' /\ client' \in [Sides -> ClientType] /\ client'[s] = c
        /\ \A t \in Sides : client'[t].authHttp \in {"none", client'[t].authState}
        /\ \A t \in Sides : t # s => client'[t] = client[t]
    BY <1>7, OneClient
  <2>2. \A t \in Sides : \/ client'[t].state = client[t].state
                         \/ client'[t].state \notin Creating \cup {"CREATE_VENUE"}
    BY <1>7, <2>1
  <2>3. Fit'
    BY <1>3, <1>7, <2>2 DEF Fit, Direct, CallbacksMeetEndpoints, UserUnchanged, Creating
  <2>4. QED BY <1>1, <1>2, <1>3, <1>7, <2>1, <2>3 DEF UserUnchanged
<1>8. ASSUME NEW s \in Sides, OnOfferReady(s) PROVE Inv'
  <2>1. /\ conn[s] = "offering" /\ offer' = [offer EXCEPT ![s] = starts]
        /\ UNCHANGED <<queue, venue, made, venues, flows, direct, active, upset, starts, acts>>
    BY <1>8 DEF OnOfferReady, ServerUnchanged, UserUnchanged
  <2>2. active /\ conn["caller"] # "none" /\ conn["callee"] # "none" /\ offer' \in [Sides -> Nat]
    BY <1>1, <2>1
  <2>3. /\ client[s].state \notin Creating /\ client["caller"].state # "CREATE_VENUE"
        /\ client["callee"].state # "CREATE_VENUE"
    BY <1>3, <2>1 DEF Fit, CallbacksMeetEndpoints
  <2>4. CASE direct
    <3>1. /\ conn' = [conn EXCEPT ![s] = "offered", ![Other(s)] = "answering"] /\ client' = client
          /\ answered' = [answered EXCEPT ![Other(s)] = starts]
      BY <1>8, <2>4 DEF OnOfferReady
    <3>2. /\ conn' \in [Sides -> Conns] /\ conn'["caller"] # "none" /\ conn'["callee"] # "none"
          /\ answered' \in [Sides -> Nat]
      BY <1>1, <2>2, <3>1 DEF Conns
    <3>3. \A t \in Sides : client[t].state \notin Creating \cup {"CREATE_VENUE"}
      BY <1>3, <2>4 DEF Fit, Direct
    <3>4. Fit'
      BY <2>1, <2>4, <3>1, <3>3 DEF Fit, Direct, CallbacksMeetEndpoints
    <3>5. Clients'
      BY <1>3, <3>1 DEF Clients
    <3>6. QED BY <1>1, <1>2, <1>3, <2>1, <2>2, <3>1, <3>2, <3>4, <3>5
  <2>5. CASE ~direct
    <3> DEFINE c == CreateConfluence(client[s], starts)
    <3>1. conn' = [conn EXCEPT ![s] = "offered"] /\ client' = [client EXCEPT ![s] = c] /\ answered' = answered
      BY <1>8, <2>5 DEF OnOfferReady
    <3>2. c \in GoodClient /\ Covered(c) /\ c.state \in Creating
      <4>1. client[s] \in GoodClient /\ Covered(client[s]) /\ venue \in Nat /\ starts \in Nat
        BY <1>1
      <4>2. CASE client[s].mode = "orpheus"
        BY <4>1, <4>2, CreateFlowFacts DEF CreateConfluence, Creating
      <4>3. CASE client[s].mode # "orpheus"
        BY <4>1, <4>3, CreateLinusConfluenceFacts DEF CreateConfluence, Creating
      <4>4. QED BY <4>2, <4>3
    <3> HIDE DEF c
    <3>3. /\ Clients' /\ client' \in [Sides -> ClientType] /\ client'[s] = c
          /\ \A t \in Sides : client'[t].authHttp \in {"none", client'[t].authState}
          /\ \A t \in Sides : t # s => client'[t] = client[t]
      BY <3>1, <3>2, OneClient
    <3>4. /\ conn' \in [Sides -> Conns] /\ conn'["caller"] # "none" /\ conn'["callee"] # "none"
          /\ conn'[s] = "offered" /\ \A t \in Sides : t # s => conn'[t] = conn[t]
      BY <1>1, <2>2, <3>1 DEF Conns
    <3>5. \A t \in Sides : client'[t].state # "CREATE_VENUE"
      BY <2>3, <3>2, <3>3 DEF Creating
    <3>6. Direct'
      BY <1>3, <2>1, <2>5, <3>4 DEF Fit, Direct
    <3>7. CallbacksMeetEndpoints'
      BY <1>3, <2>1, <3>3, <3>4, <3>5 DEF Fit, CallbacksMeetEndpoints
    <3>8. Fit'
      BY <3>6, <3>7 DEF Fit
    <3>9. QED BY <1>1, <1>2, <1>3, <2>1, <2>2, <3>1, <3>3, <3>4, <3>8
  <2>6. QED BY <2>4, <2>5
<1>9. ASSUME NEW s \in Sides, OnAnswerReady(s) PROVE Inv'
  <2>1. /\ conn[s] = "answering" /\ conn' = [t \in Sides |-> "answered"] /\ client' = client
        /\ answered' = [answered EXCEPT ![Other(s)] = answered[s]]
        /\ UNCHANGED <<queue, venue, offer, made, venues, flows, direct, active, upset, starts, acts>>
    BY <1>9 DEF OnAnswerReady, ServerUnchanged, UserUnchanged
  <2>2. direct /\ \A t \in Sides : client[t].state \notin Creating \cup {"CREATE_VENUE"}
    BY <1>3, <2>1 DEF Fit, Direct
  <2>3. active /\ conn' \in [Sides -> Conns] /\ conn'["caller"] # "none" /\ conn'["callee"] # "none"
        /\ answered' \in [Sides -> Nat]
    BY <1>1, <2>1 DEF Conns
  <2>4. Fit'
    BY <2>1, <2>2 DEF Fit, Direct, CallbacksMeetEndpoints
  <2>5. Clients'
    BY <1>3, <2>1 DEF Clients
  <2>6. QED BY <1>1, <1>2, <1>3, <2>1, <2>3, <2>4, <2>5
<1>10. ASSUME NEW s \in Sides, Serve(s) PROVE Inv'
  <2> DEFINE c == Served(client[s], made[s] + 1)
  <2>1. client[s].http \in HttpType /\ made[s] + 1 \in Nat
    BY <1>1 DEF GoodClient, ClientType
  <2>2. c \in GoodClient /\ Covered(c) /\ c.state = client[s].state
    BY <1>1, <2>1, ServedFacts
  <2>3. made' \in [Sides -> Nat]
    BY <1>1, <1>10 DEF Serve
  <2>4. /\ VenuesAfter(client[s].http, made[s] + 1, venues) \in SUBSET Nat
        /\ FlowsAfter(client[s].http, made[s] + 1, flows[s]) \in SUBSET [url : Nat, venue : Nat]
    BY <1>3, <2>1, ServerFacts
  <2>5. venues' \subseteq Nat /\ flows' \in [Sides -> SUBSET [url : Nat, venue : Nat]]
    BY <1>3, <1>10, <2>4 DEF Serve
  <2>6. client' = [client EXCEPT ![s] = c] /\ UserUnchanged /\ UNCHANGED <<queue, conn, venue, offer, answered>>
    BY <1>10 DEF Serve
  <2> HIDE DEF c
  <2>7. QED BY <1>3, <1>7, <2>2, <2>3, <2>5, <2>6
<1>11. ASSUME NEW s \in Sides, Reply(s) PROVE Inv'
  <2> DEFINE c == OnReceive(client[s])
  <2>1. c \in GoodClient /\ Covered(c) /\ c.state \in {client[s].state, "CREATE_DELETE_VENUE"}
    BY <1>1, OnReceiveFacts
  <2>2. /\ client' = [client EXCEPT ![s] = c] /\ queue' = Append(queue, <<s, "client">>)
        /\ UserUnchanged /\ UNCHANGED <<conn, venue, offer, answered, made, venues, flows>>
    BY <1>11 DEF Reply, ServerUnchanged
  <2>3. queue' \in Seq(Sides \X {"client", "auth"})
    <3>1. \A q \in Seq(Sides \X {"client", "auth"}) : Append(q, <<s, "client">>) \in Seq(Sides \X {"client", "auth"})
      OBVIOUS
    <3>2. QED BY <1>3, <2>2, <3>1
  <2> HIDE DEF c
  <2>4. QED BY <1>1, <1>3, <1>7, <2>1, <2>2, <2>3 DEF Creating
<1>12. ASSUME NEW s \in Sides, AuthReply(s) PROVE Inv'
  <2> DEFINE c == AuthOnReceive(client[s])
  <2>1. c \in GoodClient /\ Covered(c) /\ c.state = client[s].state
    BY <1>1, AuthOnReceiveFacts
  <2>2. /\ client' = [client EXCEPT ![s] = c] /\ (queue' = queue \/ queue' = Append(queue, <<s, "auth">>))
        /\ UserUnchanged /\ UNCHANGED <<conn, venue, offer, answered, made, venues, flows>>
    BY <1>12 DEF AuthReply, ServerUnchanged
  <2>3. queue' \in Seq(Sides \X {"client", "auth"})
    <3>1. \A q \in Seq(Sides \X {"client", "auth"}) : Append(q, <<s, "auth">>) \in Seq(Sides \X {"client", "auth"})
      OBVIOUS
    <3>2. CASE queue' = queue
      BY <1>3, <3>2
    <3>3. CASE queue' = Append(queue, <<s, "auth">>)
      BY <1>3, <3>1, <3>3
    <3>4. QED BY <2>2, <3>2, <3>3
  <2> HIDE DEF c
  <2>4. QED BY <1>1, <1>3, <1>7, <2>1, <2>2, <2>3
<1>13. CASE FireAuth
  <2> DEFINE s == Head(queue)[1]
             c == AuthOnEventFire(client[s])
  <2>1. s \in Sides /\ queue' \in Seq(Sides \X {"client", "auth"})
    BY <1>3, <1>13 DEF FireAuth
  <2>2. c \in GoodClient /\ Covered(c) /\ c.state = client[s].state
    BY <1>1, <2>1, AuthOnEventFireFacts
  <2>3. /\ client' = [client EXCEPT ![s] = c]
        /\ UserUnchanged /\ UNCHANGED <<conn, venue, offer, answered, made, venues, flows>>
    BY <1>13 DEF FireAuth, ServerUnchanged
  <2> HIDE DEF s, c
  <2>4. QED BY <1>1, <1>3, <1>7, <2>1, <2>2, <2>3
<1>14. CASE FireClient
  <2>1. queue' \in Seq(Sides \X {"client", "auth"})
    BY <1>3, <1>14 DEF FireClient
  <2>2. UserUnchanged /\ UNCHANGED <<offer, made, venues, flows>>
    BY <1>14 DEF FireClient, ServerUnchanged
  <2>3. PICK s \in Sides :
               \/ /\ client[s].state = "CREATE_VENUE"
                  /\ client' = [client EXCEPT ![s] = OnEventFire(client[s])]
                  /\ OnVenue(client[s].venueUrl) /\ UNCHANGED answered
               \/ /\ client[s].state \in Creating
                  /\ client' = [client EXCEPT ![s] = IF s = "caller" /\ AutoFloor THEN RequestFloor(OnEventFire(client[s]))
                                                     ELSE OnEventFire(client[s])]
                  /\ OnFlowParameters(s, client[s].remoteSDP) /\ UNCHANGED venue
               \/ /\ client[s].state \notin Creating \cup {"CREATE_VENUE"}
                  /\ client' = [client EXCEPT ![s] = OnEventFire(client[s])]
                  /\ UNCHANGED <<conn, answered, venue>>
    BY <1>14 DEF FireClient
  <2> DEFINE d == OnEventFire(client[s])
             e == RequestFloor(d)
             c == IF s = "caller" /\ AutoFloor THEN e ELSE d
  <2>4. d \in GoodClient /\ Covered(d) /\ d.state = "DONE"
    BY <1>1, OnEventFireFacts
  <2>5. e \in GoodClient /\ Covered(e) /\ e.state = "REQUEST_FLOOR"
    BY <2>4, OwnStateFacts DEF RequestFloor
  <2>6. client[s].venueUrl \in Nat /\ client[s].remoteSDP \in Nat
    BY <1>1 DEF ClientType
  <2> HIDE DEF d, e
  <2>7. CASE /\ client[s].state = "CREATE_VENUE" /\ client' = [client EXCEPT ![s] = d]
             /\ OnVenue(client[s].venueUrl) /\ UNCHANGED answered
    <3>1. s = "caller" /\ ~direct /\ conn = [t \in Sides |-> "preview"] /\ active
      BY <1>1, <1>3, <2>7 DEF Fit, Direct, CallbacksMeetEndpoints
    <3>2. conn' = [t \in Sides |-> "offering"] /\ venue' \in Nat
      BY <2>6, <2>7 DEF OnVenue
    <3>3. /\ Clients' /\ client' \in [Sides -> ClientType] /\ client'["caller"] = d
          /\ client'["callee"] = client["callee"]
          /\ \A t \in Sides : client'[t].authHttp \in {"none", client'[t].authState}
      BY <2>4, <2>7, <3>1, OneClient
    <3>4. client["callee"].state \notin Creating /\ client["callee"].state # "CREATE_VENUE"
      BY <1>3, <3>1 DEF Fit, CallbacksMeetEndpoints
    <3>5. Fit'
      BY <2>2, <2>4, <3>1, <3>2, <3>3, <3>4 DEF Fit, Direct, CallbacksMeetEndpoints, Creating, UserUnchanged
    <3>6. conn' \in [Sides -> Conns] /\ conn'["caller"] # "none" /\ conn'["callee"] # "none"
      BY <3>2 DEF Conns
    <3>7. QED BY <1>1, <1>2, <1>3, <2>1, <2>2, <2>7, <3>1, <3>2, <3>3, <3>5, <3>6 DEF UserUnchanged
  <2>8. CASE /\ client[s].state \in Creating /\ client' = [client EXCEPT ![s] = c]
             /\ OnFlowParameters(s, client[s].remoteSDP) /\ UNCHANGED venue
    <3>1. conn[s] = "offered" /\ ~direct
      BY <1>3, <2>8 DEF Fit, Direct, CallbacksMeetEndpoints
    <3>2. client["caller"].state # "CREATE_VENUE"
      BY <1>3, <3>1 DEF Fit, CallbacksMeetEndpoints
    <3>3. c \in GoodClient /\ Covered(c) /\ c.state \in {"DONE", "REQUEST_FLOOR"}
      BY <2>4, <2>5
    <3> HIDE DEF c
    <3>4. /\ Clients' /\ client' \in [Sides -> ClientType] /\ client'[s] = c
          /\ \A t \in Sides : client'[t].authHttp \in {"none", client'[t].authState}
          /\ \A t \in Sides : t # s => client'[t] = client[t]
      BY <2>8, <3>3, OneClient
    <3>5. /\ conn' = [conn EXCEPT ![s] = "answered"] /\ answered' \in [Sides -> Nat]
      BY <1>1, <2>6, <2>8 DEF OnFlowParameters
    <3>6. /\ conn' \in [Sides -> Conns] /\ conn'[s] = "answered" /\ \A t \in Sides : t # s => conn'[t] = conn[t]
      BY <1>1, <3>5 DEF Conns
    <3>7. Fit'
      BY <1>3, <2>2, <3>1, <3>2, <3>3, <3>4, <3>6
         DEF Fit, Direct, CallbacksMeetEndpoints, Creating, UserUnchanged
    <3>8. active /\ conn'["caller"] # "none" /\ conn'["callee"] # "none"
      BY <1>1, <3>1, <3>6
    <3>9. QED BY <1>1, <1>2, <1>3, <2>1, <2>2, <2>8, <3>4, <3>5, <3>6, <3>7, <3>8 DEF UserUnchanged
  <2>9. CASE /\ client[s].state \notin Creating \cup {"CREATE_VENUE"} /\ client' = [client EXCEPT ![s] = d]
             /\ UNCHANGED <<conn, answered, venue>>
    BY <1>1, <1>3, <1>7, <2>1, <2>2, <2>4, <2>9 DEF Creating
  <2>10. QED BY <2>3, <2>7, <2>8, <2>9 DEF c, d, e
<1>15. CASE UNCHANGED vars
  BY <1>15 DEF vars, Inv, TypeOK, Clients, Fit, Direct, CallbacksMeetEndpoints
<1>16. QED
  BY <1>4, <1>5, <1>6, <1>8, <1>9, <1>10, <1>11, <1>12, <1>13, <1>14, <1>15
     DEF Next, Engine, Network, MainThread

(* The two clients, the endpoints and what the clients' callbacks need of them *)
(* fit in every state.                                                         *)
THEOREM InvAlways == Spec => []Inv
  BY InitInv, NextInv, PTL DEF Spec

(* The members of both clients, the endpoints and the servers keep their       *)
(* types, and each client's auth request in flight is the one of its phase.   *)
THEOREM TypeCorrect == Spec => []TypeOK
<1>1. Inv => TypeOK
  BY DEF Inv
<1>2. QED BY <1>1, InvAlways, PTL

(* However the user, the two ends, the network and the main thread interleave, *)
(* OnVenue and OnFlowParameters, which use both endpoints without a check,     *)
(* meet endpoints that wait for them.                                          *)
THEOREM CallbacksMeetTheirEndpoints == Spec => []CallbacksMeetEndpoints
<1>1. Inv => CallbacksMeetEndpoints
  BY DEF Inv, Fit
<1>2. QED BY <1>1, InvAlways, PTL

-----------------------------------------------------------------------------
(* Both ends in one venue.  The two clients share the queue of the main       *)
(* thread, so what one end has under way is told by its entries in it.        *)
In(q, e) == \E i \in 1..Len(q) : q[i] = e

Once(q, e) == \A i, j \in 1..Len(q) : q[i] = e /\ q[j] = e => i = j

LEMMA AppendEntry ==
  ASSUME NEW S, NEW q \in Seq(S), NEW x \in S, NEW e
  PROVE  /\ In(Append(q, x), e) <=> In(q, e) \/ x = e
         /\ Once(q, e) /\ (x # e \/ ~In(q, e)) => Once(Append(q, x), e)
<1> DEFINE a == Append(q, x)
<1>1. /\ Len(q) \in Nat /\ Len(a) = Len(q) + 1 /\ \A i \in 1..Len(q) : a[i] = q[i]
      /\ a[Len(q) + 1] = x
  BY AppendProperties, LenProperties
<1> HIDE DEF a
<1>2. \A i \in 1..Len(a) : (i \in 1..Len(q) /\ a[i] = q[i]) \/ (i = Len(q) + 1 /\ a[i] = x)
  BY <1>1
<1>3. 1..Len(q) \subseteq 1..Len(a) /\ Len(q) + 1 \in 1..Len(a)
  BY <1>1
<1>4. In(a, e) <=> In(q, e) \/ x = e
  BY <1>1, <1>2, <1>3 DEF In
<1>5. ASSUME Once(q, e), x # e \/ ~In(q, e), NEW i \in 1..Len(a), NEW j \in 1..Len(a), a[i] = e, a[j] = e
      PROVE  i = j
  BY <1>2, <1>5 DEF Once, In
<1>6. QED BY <1>4, <1>5 DEF Once, a

LEMMA TailEntry ==
  ASSUME NEW S, NEW q \in Seq(S), q # <<>>, NEW e
  PROVE  /\ In(Tail(q), e) => In(q, e)
         /\ In(q, Head(q))
         /\ Once(q, e) => Once(Tail(q), e)
         /\ Once(q, e) /\ Head(q) = e => ~In(Tail(q), e)
<1> DEFINE t == Tail(q)
<1>1. /\ Len(q) \in Nat /\ Len(q) > 0 /\ Len(t) = Len(q) - 1
      /\ \A i \in 1..Len(t) : t[i] = q[i + 1]
      /\ Head(q) = q[1]
  BY HeadTailProperties, EmptySeq, LenProperties
<1> HIDE DEF t
<1>2. \A i \in 1..Len(t) : i + 1 \in 1..Len(q) /\ i + 1 # 1 /\ t[i] = q[i + 1]
  BY <1>1
<1>3. 1 \in 1..Len(q) /\ Head(q) = q[1]
  BY <1>1
<1>4. In(t, e) => In(q, e)
  BY <1>2 DEF In
<1>5. In(q, Head(q))
  BY <1>3 DEF In
<1>6. ASSUME Once(q, e), NEW i \in 1..Len(t), NEW j \in 1..Len(t), t[i] = e, t[j] = e PROVE i = j
  <2>1. i + 1 = j + 1
    BY <1>2, <1>6 DEF Once
  <2>2. QED BY <2>1
<1>7. Once(q, e) /\ Head(q) = e => ~In(t, e)
  BY <1>2, <1>3 DEF Once, In
<1>8. QED BY <1>4, <1>5, <1>6, <1>7 DEF Once, t

(* The same for the entries of the two clients. *)
LEMMA EntryFacts ==
  ASSUME NEW q \in Seq(Sides \X {"client", "auth"})
  PROVE  /\ q # <<>> => Head(q) \in Sides \X {"client", "auth"}
         /\ \A s, t \in Sides, x, y \in {"client", "auth"} :
              /\ In(Append(q, <<s, x>>), <<t, y>>) <=> In(q, <<t, y>>) \/ (s = t /\ x = y)
              /\ Once(q, <<t, y>>) /\ (s # t \/ x # y \/ ~In(q, <<t, y>>))
                   => Once(Append(q, <<s, x>>), <<t, y>>)
<1>1. q # <<>> => Head(q) \in Sides \X {"client", "auth"}
  OBVIOUS
<1>2. ASSUME NEW s \in Sides, NEW t \in Sides, NEW x \in {"client", "auth"}, NEW y \in {"client", "auth"}
      PROVE  /\ In(Append(q, <<s, x>>), <<t, y>>) <=> In(q, <<t, y>>) \/ (s = t /\ x = y)
             /\ Once(q, <<t, y>>) /\ (s # t \/ x # y \/ ~In(q, <<t, y>>))
                   => Once(Append(q, <<s, x>>), <<t, y>>)
  <2>1. <<s, x>> \in Sides \X {"client", "auth"} /\ (<<s, x>> = <<t, y>> <=> s = t /\ x = y)
    OBVIOUS
  <2>2. /\ In(Append(q, <<s, x>>), <<t, y>>) <=> In(q, <<t, y>>) \/ <<s, x>> = <<t, y>>
        /\ Once(q, <<t, y>>) /\ (<<s, x>> # <<t, y>> \/ ~In(q, <<t, y>>))
             => Once(Append(q, <<s, x>>), <<t, y>>)
    BY <2>1, AppendEntry
  <2>3. QED BY <2>1, <2>2
<1>3. QED BY <1>1, <1>2

(* The states whose reply the call waits for. *)
Awaited == Creating \cup {"CREATE_VENUE"}

Idle(s, c, q) == /\ c.http = NoRequest /\ c.authHttp = "none"
                 /\ ~In(q, <<s, "client">>) /\ ~In(q, <<s, "auth">>)

(* One thing under way: a request, a request for the token, or one event. *)
OneThing(s, c, q) ==
  /\ c.http.op \in {"none", c.state} /\ (c.http.served => c.http.op # "none")
  /\ Once(q, <<s, "client">>) /\ Once(q, <<s, "auth">>)
  /\ c.http.op # "none" => c.authHttp = "none" /\ ~In(q, <<s, "client">>) /\ ~In(q, <<s, "auth">>)
  /\ c.authHttp # "none" => ~In(q, <<s, "client">>) /\ ~In(q, <<s, "auth">>)
  /\ ~(In(q, <<s, "client">>) /\ In(q, <<s, "auth">>))

Has(F, u, v) == \E f \in F : f.url = u /\ f.venue = v

(* The confluence on its way to an end whose offer is o, in the venue v. *)
OnTheWay(s, c, q, o, F, v) ==
  /\ c.venueUrl = v /\ c.offer = o
  /\ c.http.op # "none" => c.http.venue = v /\ c.http.arg = o
  /\ c.http.served => c.http.sdp = o /\ Has(F, c.http.url, v)
  /\ In(q, <<s, "client">>) => c.remoteSDP = o /\ Has(F, c.confluenceUrl, v)

(* A venue on its way has a name: CreateFlow keeps the venue of the last call *)
(* if it is given none.                                                       *)
NewVenue(s, c, q) ==
  /\ c.http.served => c.http.url # Empty
  /\ In(q, <<s, "client">>) => c.venueUrl # Empty

(* An end that has its answer; nothing left over can still act on its call. *)
Joined(s, c, q, o, a, F, v) ==
  /\ a = o /\ Has(F, c.confluenceUrl, v)
  /\ c.authHttp = "none" /\ ~In(q, <<s, "auth">>)
  /\ c.http.op # "DELETE_CONFLUENCE" /\ c.state \notin Awaited \cup {"DELETE_CONFLUENCE"}

End(s, c, q, k, o, a, F, v) ==
  /\ k = "offering" => v # Empty
  /\ k = "offering" \/ (s = "callee" /\ k = "preview") => Idle(s, c, q)
  /\ c.state \in Awaited => OneThing(s, c, q)
  /\ c.state \in Creating => OnTheWay(s, c, q, o, F, v)
  /\ c.state = "CREATE_VENUE" => NewVenue(s, c, q)
  /\ k = "answered" => Joined(s, c, q, o, a, F, v)

Ends == \A s \in Sides : End(s, client[s], queue, conn[s], offer[s], answered[s], flows[s], venue)

(* Without calliope the two ends hand the offer and the answer over once.     *)
Hands == direct =>
  /\ conn["caller"] # "answering" /\ conn["callee"] # "offering"
  /\ conn["caller"] = "offering" => conn["callee"] = "preview"
  /\ conn["callee"] = "answering" => conn["caller"] = "offered" /\ answered["callee"] = offer["caller"]
  /\ \A s \in Sides : conn[s] = "answered" =>
       \A t \in Sides : conn[t] = "answered" /\ answered[t] = offer["caller"]

Together == Hands /\ (~direct /\ Calm({"start", "stop", "floor"}) => Ends)

(* An end whose entries in the queue only get fewer. *)
Fewer(s, q2, q) ==
  \A x \in {"client", "auth"} : /\ In(q2, <<s, x>>) => In(q, <<s, x>>)
                                /\ Once(q, <<s, x>>) => Once(q2, <<s, x>>)

LEMMA EndKeeps ==
  ASSUME NEW s, NEW c, NEW q, NEW q2, NEW k, NEW o, NEW a, NEW F, NEW v,
         End(s, c, q, k, o, a, F, v), Fewer(s, q2, q)
  PROVE  End(s, c, q2, k, o, a, F, v)
<1>1. /\ In(q2, <<s, "client">>) => In(q, <<s, "client">>)
      /\ In(q2, <<s, "auth">>) => In(q, <<s, "auth">>)
      /\ Once(q, <<s, "client">>) => Once(q2, <<s, "client">>)
      /\ Once(q, <<s, "auth">>) => Once(q2, <<s, "auth">>)
  BY DEF Fewer
<1>2. Idle(s, c, q) => Idle(s, c, q2)
  BY <1>1 DEF Idle
<1>3. OneThing(s, c, q) => OneThing(s, c, q2)
  BY <1>1 DEF OneThing
<1>4. OnTheWay(s, c, q, o, F, v) => OnTheWay(s, c, q2, o, F, v)
  BY <1>1 DEF OnTheWay
<1>5. NewVenue(s, c, q) => NewVenue(s, c, q2)
  BY <1>1 DEF NewVenue
<1>6. Joined(s, c, q, o, a, F, v) => Joined(s, c, q2, o, a, F, v)
  BY <1>1 DEF Joined
<1>7. QED BY <1>2, <1>3, <1>4, <1>5, <1>6 DEF End

(* What the other end appends, or the main thread takes off, is no new entry. *)
LEMMA QueueLess ==
  ASSUME NEW s \in Sides, NEW q \in Seq(Sides \X {"client", "auth"})
  PROVE  /\ Fewer(s, q, q)
         /\ q # <<>> => Fewer(s, Tail(q), q)
         /\ \A t \in Sides, x \in {"client", "auth"} : t # s => Fewer(s, Append(q, <<t, x>>), q)
<1>1. Fewer(s, q, q)
  BY DEF Fewer
<1>2. q # <<>> => Fewer(s, Tail(q), q)
  BY TailEntry DEF Fewer
<1>3. ASSUME NEW t \in Sides, NEW x \in {"client", "auth"}, t # s, NEW y \in {"client", "auth"}
      PROVE  /\ In(Append(q, <<t, x>>), <<s, y>>) => In(q, <<s, y>>)
             /\ Once(q, <<s, y>>) => Once(Append(q, <<t, x>>), <<s, y>>)
  BY <1>3, EntryFacts
<1>4. QED BY <1>1, <1>2, <1>3 DEF Fewer

LEMMA InitTogether == Init => Together
<1> SUFFICES ASSUME Init PROVE Together
  OBVIOUS
<1>1. PICK mode \in Modes : client = [s \in Sides |-> NewClient(mode)]
  BY LoopbackAssumption DEF Init
<1>2. /\ conn["caller"] = "none" /\ conn["callee"] = "none"
      /\ \A s \in Sides : conn[s] = "none" /\ client[s].state = "INIT"
  BY <1>1, SideFacts DEF Init, NewClient
<1>3. Hands
  BY <1>2 DEF Hands
<1>4. Ends
  BY <1>2 DEF Ends, End, Awaited, Creating
<1>5. QED BY <1>3, <1>4 DEF Together

LEMMA NextHands == Inv /\ Hands /\ [Next]_vars => Hands'
<1> SUFFICES ASSUME Inv, Hands, [Next]_vars, direct' PROVE Hands'
  BY DEF Hands
<1> USE SideFacts
<1>1. /\ direct' = direct /\ direct
      /\ \A s \in Sides : client[s].state \notin Creating \cup {"CREATE_VENUE"}
      /\ conn \in [Sides -> Conns] /\ offer \in [Sides -> Nat] /\ answered \in [Sides -> Nat]
  <2>1. direct' = direct
    BY DEF Next, Start, Stop, Floor, MainThread, FireClient, FireAuth, Engine, OnOfferReady,
           OnAnswerReady, Network, Serve, Reply, AuthReply, UserUnchanged, vars
  <2>2. direct
    BY <2>1
  <2>3. QED BY <2>1, <2>2 DEF Inv, TypeOK, Fit, Direct
<1>2. /\ conn["caller"] # "answering" /\ conn["callee"] # "offering"
      /\ conn["caller"] = "offering" => conn["callee"] = "preview"
      /\ conn["callee"] = "answering" => conn["caller"] = "offered" /\ answered["callee"] = offer["caller"]
      /\ \A s \in Sides : conn[s] = "answered" =>
           \A t \in Sides : conn[t] = "answered" /\ answered[t] = offer["caller"]
  BY <1>1 DEF Hands
<1>3. CASE UNCHANGED <<conn, offer, answered>>
  BY <1>2, <1>3 DEF Hands
<1>4. CASE Start
  <2>1. conn' = [s \in Sides |-> IF s = "caller" THEN "offering" ELSE "preview"]
    BY <1>1, <1>4 DEF Start
  <2>2. conn'["caller"] = "offering" /\ conn'["callee"] = "preview"
        /\ \A s \in Sides : conn'[s] # "answered"
    BY <2>1
  <2>3. QED BY <2>2 DEF Hands
<1>5. CASE Stop
  <2>1. conn' = [s \in Sides |-> "none"]
    BY <1>5 DEF Stop
  <2>2. conn'["caller"] = "none" /\ conn'["callee"] = "none" /\ \A s \in Sides : conn'[s] # "answered"
    BY <2>1
  <2>3. QED BY <2>2 DEF Hands
<1>6. ASSUME NEW s \in Sides, OnOfferReady(s) PROVE Hands'
  <2>1. s = "caller" /\ Other(s) = "callee"
    BY <1>2, <1>6 DEF OnOfferReady, Other
  <2>2. /\ conn' = [conn EXCEPT !["caller"] = "offered", !["callee"] = "answering"]
        /\ offer' = [offer EXCEPT !["caller"] = starts]
        /\ answered' = [answered EXCEPT !["callee"] = starts]
    BY <1>1, <1>6, <2>1 DEF OnOfferReady
  <2>3. /\ conn'["caller"] = "offered" /\ conn'["callee"] = "answering"
        /\ offer'["caller"] = starts /\ answered'["callee"] = starts
        /\ \A t \in Sides : conn'[t] # "answered"
    BY <1>1, <2>2
  <2>4. QED BY <2>3 DEF Hands
<1>7. ASSUME NEW s \in Sides, OnAnswerReady(s) PROVE Hands'
  <2>1. s = "callee" /\ Other(s) = "caller" /\ conn["callee"] = "answering"
    BY <1>2, <1>7 DEF OnAnswerReady, Other
  <2>2. /\ conn' = [t \in Sides |-> "answered"] /\ offer' = offer
        /\ answered' = [answered EXCEPT !["caller"] = answered["callee"]]
    BY <1>7, <2>1 DEF OnAnswerReady
  <2>3. \A t \in Sides : conn'[t] = "answered" /\ answered'[t] = offer'["caller"]
    BY <1>1, <1>2, <2>1, <2>2
  <2>4. QED BY <2>3 DEF Hands
<1>8. CASE FireClient
  <2>1. UNCHANGED <<conn, answered>>
    BY <1>1, <1>8 DEF FireClient
  <2>2. UNCHANGED offer
    BY <1>8 DEF FireClient
  <2>3. QED BY <1>3, <2>1, <2>2
<1>9. ASSUME NEW s \in Sides, Network(s) PROVE UNCHANGED <<conn, offer, answered>>
  BY <1>9 DEF Network, Serve, Reply, AuthReply
<1>10. Floor \/ FireAuth => UNCHANGED <<conn, offer, answered>>
  BY DEF Floor, FireAuth
<1>11. QED
  BY <1>3, <1>4, <1>5, <1>6, <1>7, <1>8, <1>9, <1>10 DEF Next, MainThread, Engine, vars

LEMMA UpsetFacts ==
  ASSUME [Next]_vars, Calm({"start", "stop", "floor"})'
  PROVE  Calm({"start", "stop", "floor"}) /\ (Start \/ Stop \/ Floor => Quiet)
<1>1. upset \subseteq upset'
  BY DEF Next, Start, Stop, Floor, MainThread, FireClient, FireAuth, Engine, OnOfferReady,
         OnAnswerReady, Network, Serve, Reply, AuthReply, UserUnchanged, Upsets, vars
<1>2. Start \/ Stop \/ Floor => Quiet
  BY DEF Start, Stop, Floor, Upsets, Calm
<1>3. QED BY <1>1, <1>2 DEF Calm

LEMMA QuietEnds ==
  ASSUME Quiet, NEW s \in Sides
  PROVE  /\ Idle(s, client[s], queue) /\ Once(queue, <<s, "client">>) /\ Once(queue, <<s, "auth">>)
<1>1. queue = <<>> /\ client[s].http = NoRequest /\ client[s].authHttp = "none"
  BY DEF Quiet
<1>2. \A e : ~In(<<>>, e) /\ Once(<<>>, e)
  BY DEF In, Once
<1>3. QED BY <1>1, <1>2 DEF Idle

LEMMA NextEnds ==
  ASSUME Inv, Ends, [Next]_vars, ~direct, Calm({"start", "stop", "floor"})'
  PROVE  Ends'
<1> USE SideFacts
<1>1. /\ client \in [Sides -> ClientType] /\ conn \in [Sides -> Conns]
      /\ \A s \in Sides : client[s] \in GoodClient /\ Covered(client[s]) /\ client[s] \in ClientType
      /\ offer \in [Sides -> Nat] /\ answered \in [Sides -> Nat] /\ made \in [Sides -> Nat]
      /\ flows \in [Sides -> SUBSET [url : Nat, venue : Nat]]
      /\ starts \in Nat /\ venue \in Nat
      /\ queue \in Seq(Sides \X {"client", "auth"})
      /\ \A s \in Sides : client[s].state \in Creating => conn[s] = "offered"
      /\ client["callee"].state # "CREATE_VENUE"
      /\ client["caller"].state = "CREATE_VENUE" => conn = [s \in Sides |-> "preview"]
      /\ \A s \in Sides : conn[s] # "answering"
      /\ ~active => \A s \in Sides : conn[s] = "none"
  BY DEF Inv, TypeOK, Clients, Fit, CallbacksMeetEndpoints, Direct
<1>2. \A s \in Sides : End(s, client[s], queue, conn[s], offer[s], answered[s], flows[s], venue)
  BY DEF Ends
<1>3. Start \/ Stop \/ Floor => Quiet
  BY UpsetFacts
(* A step of one end: the other end has no new entry in the queue. *)
<1>4. ASSUME NEW s \in Sides, venue' = venue,
             \A t \in Sides : t # s =>
               /\ client'[t] = client[t] /\ conn'[t] = conn[t] /\ offer'[t] = offer[t]
               /\ answered'[t] = answered[t] /\ flows'[t] = flows[t] /\ Fewer(t, queue', queue),
             End(s, client'[s], queue', conn'[s], offer'[s], answered'[s], flows'[s], venue')
      PROVE  Ends'
  <2>1. ASSUME NEW t \in Sides, t # s
        PROVE  End(t, client'[t], queue', conn'[t], offer'[t], answered'[t], flows'[t], venue')
    BY <1>2, <1>4, <2>1, EndKeeps
  <2>2. QED BY <1>4, <2>1 DEF Ends
<1>5. CASE Start
  <2>1. /\ Quiet /\ ~active /\ starts' = starts + 1 /\ queue' = queue
        /\ \A s \in Sides : conn[s] = "none" /\ client[s].state \notin Awaited
    BY <1>1, <1>3, <1>5 DEF Start, Awaited
  <2>2. CASE OnVenue(starts') /\ client' = client
    <3>1. venue' # Empty /\ conn' = [s \in Sides |-> "offering"]
      BY <1>1, <2>1, <2>2 DEF OnVenue, Empty
    <3>2. ASSUME NEW s \in Sides
          PROVE  End(s, client'[s], queue', conn'[s], offer'[s], answered'[s], flows'[s], venue')
      BY <2>1, <2>2, <3>1, QuietEnds DEF End, Awaited
    <3>3. QED BY <3>2 DEF Ends
  <2>3. CASE /\ conn' = [s \in Sides |-> "preview"]
             /\ client' = [client EXCEPT !["caller"] = CreateVenue(client["caller"])]
    <3> DEFINE c == CreateVenue(client["caller"])
    <3>1. c.state = "CREATE_VENUE" /\ c.http = NoRequest
      <4>1. Waits(c, client["caller"])
        BY <1>1, CreateOpens
      <4>2. c.state = "CREATE_VENUE"
        BY <1>1, CreateVenueFacts
      <4>3. QED BY <2>1, <4>1, <4>2 DEF Waits, Quiet
    <3> HIDE DEF c
    <3>2. client'["caller"] = c /\ client'["callee"] = client["callee"]
          /\ conn'["caller"] = "preview" /\ conn'["callee"] = "preview"
      BY <1>1, <2>3 DEF c
    <3>3. End("caller", c, queue, "preview", offer'["caller"], answered'["caller"], flows'["caller"], venue')
      <4>1. Idle("caller", client["caller"], queue) /\ Once(queue, <<"caller", "client">>)
            /\ Once(queue, <<"caller", "auth">>)
        BY <2>1, QuietEnds
      <4>2. OneThing("caller", c, queue) /\ NewVenue("caller", c, queue)
        BY <3>1, <4>1 DEF OneThing, NewVenue, Idle, NoRequest
      <4>3. QED BY <3>1, <4>2 DEF End, Creating
    <3>4. End("callee", client["callee"], queue, "preview", offer'["callee"], answered'["callee"],
              flows'["callee"], venue')
      BY <2>1, QuietEnds DEF End, Awaited
    <3>5. ASSUME NEW s \in Sides
          PROVE  End(s, client'[s], queue', conn'[s], offer'[s], answered'[s], flows'[s], venue')
      BY <2>1, <3>2, <3>3, <3>4
    <3>6. QED BY <3>5 DEF Ends
  <2>4. QED BY <1>5, <2>2, <2>3 DEF Start
<1>6. CASE Stop
  <2>1. \A s \in Sides : conn'[s] = "none" /\ client'[s].state = "DELETE_CONFLUENCE"
    BY <1>1, <1>6, DeleteConfluenceFacts DEF Stop
  <2>2. QED BY <2>1 DEF Ends, End, Awaited, Creating
<1>7. CASE Floor
  <2>1. PICK c \in {RequestFloor(client["caller"]), ReleaseFloor(client["caller"])} :
               client' = [client EXCEPT !["caller"] = c]
    BY <1>7 DEF Floor
  <2>2. /\ Quiet /\ conn["caller"] # "offering"
        /\ UNCHANGED <<queue, conn, venue, offer, answered, flows>>
    BY <1>3, <1>7, SideFacts DEF Floor, Quiet, ServerUnchanged
  <2>3. c.state \in {"REQUEST_FLOOR", "RELEASE_FLOOR"} /\ Same(c, client["caller"]) /\ Opened(c)
    <3>1. CASE c = RequestFloor(client["caller"])
      BY <1>1, <3>1, OwnStateFacts, FloorKeeps DEF RequestFloor
    <3>2. CASE c = ReleaseFloor(client["caller"])
      BY <1>1, <3>2, OwnStateFacts, FloorKeeps DEF ReleaseFloor
    <3>3. QED BY <2>1, <3>1, <3>2
  <2>4. End("caller", c, queue, conn["caller"], offer["caller"], answered["caller"], flows["caller"], venue)
    <3>1. conn["caller"] = "answered" =>
            Joined("caller", client["caller"], queue, offer["caller"], answered["caller"], flows["caller"], venue)
      BY <1>2 DEF End
    <3>2. conn["caller"] = "answered" =>
            Joined("caller", c, queue, offer["caller"], answered["caller"], flows["caller"], venue)
      BY <2>3, <3>1 DEF Joined, Same, Opened, NoRequest, Awaited, Creating
    <3>3. QED BY <2>2, <2>3, <3>2 DEF End, Awaited, Creating
  <2>5. client'["caller"] = c /\ client'["callee"] = client["callee"]
    BY <1>1, <2>1
  <2>6. \A t \in Sides : t # "caller" => client'[t] = client[t] /\ Fewer(t, queue', queue)
    BY <1>1, <2>2, <2>5, QueueLess
  <2>7. QED BY <1>4, <2>2, <2>4, <2>5, <2>6
<1>8. ASSUME NEW s \in Sides, OnOfferReady(s) PROVE Ends'
  <2> DEFINE c == CreateConfluence(client[s], starts)
  <2>1. /\ conn[s] = "offering" /\ offer' = [offer EXCEPT ![s] = starts]
        /\ conn' = [conn EXCEPT ![s] = "offered"] /\ client' = [client EXCEPT ![s] = c]
        /\ UNCHANGED <<answered, queue, venue, flows>>
    BY <1>8 DEF OnOfferReady, ServerUnchanged
  <2>2. venue # Empty /\ Idle(s, client[s], queue)
    BY <1>2, <2>1 DEF End
  <2>3. c.state \in Creating /\ Sends(c, client[s], venue, starts)
    <3>0. client[s] \in GoodClient /\ Covered(client[s]) /\ venue \in Nat /\ starts \in Nat
      BY <1>1
    <3>1. CASE client[s].mode = "orpheus"
      <4>1. c = CreateFlow(client[s], venue, starts)
        BY <3>1 DEF CreateConfluence
      <4>2. CreateFlow(client[s], venue, starts).state = "CREATE_FLOW"
        BY <3>0, CreateFlowFacts
      <4>3. Sends(CreateFlow(client[s], venue, starts), client[s], venue, starts)
        BY <1>1, <2>2, CreateFlowKeeps
      <4>4. QED BY <4>1, <4>2, <4>3 DEF Creating
    <3>2. CASE client[s].mode # "orpheus"
      <4>1. c = CreateLinusConfluence(client[s], venue, starts)
        BY <3>2 DEF CreateConfluence
      <4>2. CreateLinusConfluence(client[s], venue, starts).state = "CREATE_LINUS_CONFLUENCE"
        BY <3>0, CreateLinusConfluenceFacts
      <4>3. Sends(CreateLinusConfluence(client[s], venue, starts), client[s], venue, starts)
        BY <1>1, CreateLinusConfluenceKeeps
      <4>4. QED BY <4>1, <4>2, <4>3 DEF Creating
    <3>3. QED BY <3>1, <3>2
  <2> HIDE DEF c
  <2>4. /\ c.venueUrl = venue /\ c.offer = starts
        /\ c.authHttp = "none" \/ c.http.op = "none"
        /\ \/ c.http.op = "none" /\ c.http.served = FALSE
           \/ /\ c.http.op = c.state /\ c.http.venue = venue /\ c.http.arg = starts
              /\ c.http.served = FALSE
    <3>1. CASE Opened(c)
      BY <2>3, <3>1 DEF Sends, Opened, Subject, NoRequest, Creating
    <3>2. CASE Waits(c, client[s])
      BY <2>2, <2>3, <3>2 DEF Sends, Waits, Idle, NoRequest
    <3>3. QED BY <2>3, <3>1, <3>2 DEF Sends
  <2>5. OneThing(s, c, queue) /\ OnTheWay(s, c, queue, starts, flows[s], venue)
    <3>1. Once(queue, <<s, "client">>) /\ Once(queue, <<s, "auth">>)
      BY <2>2 DEF Idle, Once, In
    <3>2. QED BY <2>2, <2>4, <3>1 DEF OneThing, OnTheWay, Idle
  <2>6. End(s, c, queue, "offered", starts, answered[s], flows[s], venue)
    BY <2>3, <2>5 DEF End, Creating
  <2>7. client'[s] = c /\ conn'[s] = "offered" /\ offer'[s] = starts
        /\ \A t \in Sides : t # s => client'[t] = client[t] /\ conn'[t] = conn[t] /\ offer'[t] = offer[t]
    BY <1>1, <2>1
  <2>8. \A t \in Sides : Fewer(t, queue', queue)
    BY <1>1, <2>1, QueueLess
  <2>9. QED BY <1>4, <2>1, <2>6, <2>7, <2>8
<1>9. ASSUME NEW s \in Sides, OnAnswerReady(s) PROVE Ends'
  BY <1>1, <1>9 DEF OnAnswerReady
(* A step in which one client changes and its endpoint does not. *)
<1>10. ASSUME NEW s \in Sides, NEW c, client' = [client EXCEPT ![s] = c],
              UNCHANGED <<conn, offer, answered, venue>>,
              NEW F, flows' = [flows EXCEPT ![s] = F],
              \A t \in Sides : t # s => Fewer(t, queue', queue),
              End(s, c, queue', conn[s], offer[s], answered[s], F, venue)
       PROVE  Ends'
  <2>1. client'[s] = c /\ flows'[s] = F
        /\ \A t \in Sides : t # s => client'[t] = client[t] /\ flows'[t] = flows[t]
    BY <1>1, <1>10
  <2>2. QED BY <1>4, <1>10, <2>1
<1>11. ASSUME NEW s \in Sides, Serve(s) PROVE Ends'
  <2> DEFINE h == client[s].http
             n == made[s] + 1
             c == Served(client[s], n)
             F == FlowsAfter(h, n, flows[s])
  <2>1. /\ h.op # "none" /\ ~h.served /\ client' = [client EXCEPT ![s] = c]
        /\ flows' = [flows EXCEPT ![s] = F] /\ UNCHANGED <<queue, conn, offer, answered, venue>>
    BY <1>11 DEF Serve
  <2>2. /\ n \in Nat /\ n # Empty
    BY <1>1 DEF Empty
  <2>3. /\ c.http.op = h.op /\ c.authHttp = client[s].authHttp /\ c.state = client[s].state
    BY <1>1, <2>2, ServedOpens
  <2>4. /\ Same(c, client[s]) /\ c.http.served = TRUE /\ c.http.arg = h.arg /\ c.http.venue = h.venue
        /\ c.http.url = IF Issues(h) THEN n ELSE Empty
        /\ c.http.sdp = IF h.op \in Creating THEN h.arg ELSE Empty
    BY <1>1, <2>2, ServedKeeps
  <2>5. h.op # "DELETE_CONFLUENCE" => \A u, v : Has(flows[s], u, v) => Has(F, u, v)
    BY DEF FlowsAfter, Has, Creating
  <2>6. h.op \in Creating => Has(F, n, h.venue)
    <3> DEFINE r == [url |-> n, venue |-> h.venue]
    <3>1. r.url = n /\ r.venue = h.venue
      OBVIOUS
    <3>2. h.op \in Creating => F = flows[s] \cup {r}
      BY DEF FlowsAfter, Creating
    <3> HIDE DEF r, F
    <3>3. QED BY <3>1, <3>2 DEF Has
  <2> HIDE DEF c, F, h, n
  <2>7. End(s, client[s], queue, conn[s], offer[s], answered[s], flows[s], venue)
    BY <1>2
  <2>8. End(s, c, queue, conn[s], offer[s], answered[s], F, venue)
    <3>1. ~Idle(s, client[s], queue)
      BY <2>1 DEF Idle, NoRequest, h
    <3>2. OneThing(s, client[s], queue) => OneThing(s, c, queue)
      BY <2>1, <2>3 DEF OneThing, h
    <3>3. c.state \in Creating => OnTheWay(s, c, queue, offer[s], F, venue)
      <4>1. SUFFICES ASSUME c.state \in Creating PROVE OnTheWay(s, c, queue, offer[s], F, venue)
        OBVIOUS
      <4>2. OnTheWay(s, client[s], queue, offer[s], flows[s], venue) /\ OneThing(s, client[s], queue)
        BY <2>3, <2>7, <4>1 DEF End, Awaited
      <4>3. h.op = client[s].state /\ h.op \in Creating /\ h.op # "DELETE_CONFLUENCE"
            /\ ~In(queue, <<s, "client">>)
        BY <2>1, <2>3, <4>1, <4>2 DEF OneThing, h, Creating
      <4>4. c.http.url = n /\ c.http.sdp = h.arg /\ h.arg = offer[s] /\ h.venue = venue
            /\ c.venueUrl = venue
        BY <2>1, <2>4, <4>2, <4>3 DEF OnTheWay, h, Issues, Same
      <4>5. c.offer = offer[s]
        BY <2>4, <4>2 DEF OnTheWay, Same
      <4>6. QED BY <2>4, <2>6, <4>3, <4>4, <4>5 DEF OnTheWay
    <3>4. c.state = "CREATE_VENUE" => NewVenue(s, c, queue)
      <4>1. SUFFICES ASSUME c.state = "CREATE_VENUE" PROVE NewVenue(s, c, queue)
        OBVIOUS
      <4>2. OneThing(s, client[s], queue)
        BY <2>3, <2>7, <4>1 DEF End, Awaited
      <4>3. h.op = "CREATE_VENUE" /\ ~In(queue, <<s, "client">>)
        BY <2>1, <2>3, <4>1, <4>2 DEF OneThing, h
      <4>4. c.http.url = n
        BY <2>4, <4>3 DEF Issues
      <4>5. QED BY <2>2, <4>3, <4>4 DEF NewVenue
    <3>5. Joined(s, client[s], queue, offer[s], answered[s], flows[s], venue)
          => Joined(s, c, queue, offer[s], answered[s], F, venue)
      BY <2>3, <2>4, <2>5 DEF Joined, Same, h
    <3>6. QED BY <2>3, <2>7, <3>1, <3>2, <3>3, <3>4, <3>5 DEF End
  <2>9. \A t \in Sides : Fewer(t, queue', queue)
    BY <1>1, <2>1, QueueLess
  <2>10. QED BY <1>10, <2>1, <2>8, <2>9
<1>12. ASSUME NEW s \in Sides, Reply(s) PROVE Ends'
  <2> DEFINE h == client[s].http
             c == OnReceive(client[s])
  <2>1. /\ h.served /\ client' = [client EXCEPT ![s] = c]
        /\ queue' = Append(queue, <<s, "client">>)
        /\ UNCHANGED <<flows, conn, offer, answered, venue>>
    BY <1>12 DEF Reply, ServerUnchanged
  <2>2. End(s, client[s], queue, conn[s], offer[s], answered[s], flows[s], venue)
    BY <1>2
  <2>3. ~Idle(s, client[s], queue)
    BY <2>1 DEF Idle, NoRequest, h
  <2>4. c.state \in {client[s].state, "CREATE_DELETE_VENUE"}
    BY <1>1, OnReceiveFacts
  <2>5. client[s].authHttp = "none" =>
          /\ c.offer = client[s].offer
          /\ c.venueUrl = IF client[s].state = "CREATE_VENUE" THEN h.url ELSE client[s].venueUrl
          /\ c.remoteSDP = IF client[s].state \in Creating THEN h.sdp ELSE client[s].remoteSDP
          /\ c.confluenceUrl = IF client[s].state \in Creating THEN h.url ELSE client[s].confluenceUrl
          /\ \/ client[s].state = "DELETE_CONFLUENCE"
             \/ c.state = client[s].state /\ c.http = NoRequest /\ c.authHttp = "none"
    BY <1>1, OnReceiveKeeps, OnReceiveOpens
  <2> HIDE DEF c, h
  <2>7. /\ In(queue', <<s, "auth">>) => In(queue, <<s, "auth">>)
        /\ Once(queue, <<s, "auth">>) => Once(queue', <<s, "auth">>)
        /\ Once(queue, <<s, "client">>) /\ ~In(queue, <<s, "client">>) => Once(queue', <<s, "client">>)
    BY <1>1, <2>1, EntryFacts
  <2>8. ASSUME client[s].state \in Awaited
        PROVE  /\ client[s].authHttp = "none" /\ h.op = client[s].state /\ h.op # "none"
               /\ ~In(queue, <<s, "client">>) /\ ~In(queue, <<s, "auth">>)
               /\ c.state = client[s].state /\ c.http = NoRequest /\ c.authHttp = "none"
               /\ OneThing(s, c, queue')
    <3>1. OneThing(s, client[s], queue)
      BY <2>2, <2>8 DEF End
    <3>2. /\ client[s].authHttp = "none" /\ h.op = client[s].state /\ h.op # "none"
          /\ ~In(queue, <<s, "client">>) /\ ~In(queue, <<s, "auth">>)
          /\ Once(queue, <<s, "client">>) /\ Once(queue, <<s, "auth">>)
      BY <2>1, <3>1 DEF OneThing, h
    <3>3. c.state = client[s].state /\ c.http = NoRequest /\ c.authHttp = "none"
      BY <2>5, <2>8, <3>2 DEF Awaited, Creating
    <3>4. OneThing(s, c, queue')
      BY <2>7, <3>2, <3>3 DEF OneThing, NoRequest
    <3>5. QED BY <3>2, <3>3, <3>4
  <2>9. c.state \in Awaited => client[s].state \in Awaited
    BY <2>4 DEF Awaited, Creating
  <2>10. c.state \in Creating => OnTheWay(s, c, queue', offer[s], flows[s], venue)
    <3>1. SUFFICES ASSUME c.state \in Creating PROVE OnTheWay(s, c, queue', offer[s], flows[s], venue)
      OBVIOUS
    <3>2. client[s].state \in Creating /\ client[s].state # "CREATE_VENUE"
      BY <2>8, <2>9, <3>1 DEF Awaited, Creating
    <3>3. OnTheWay(s, client[s], queue, offer[s], flows[s], venue)
      BY <2>2, <3>2 DEF End
    <3>4. /\ c.offer = client[s].offer /\ c.venueUrl = client[s].venueUrl /\ c.remoteSDP = h.sdp
          /\ c.confluenceUrl = h.url /\ c.http = NoRequest
      BY <2>5, <2>8, <3>2 DEF Awaited
    <3>5. QED BY <2>1, <3>3, <3>4 DEF OnTheWay, NoRequest, h
  <2>11. c.state = "CREATE_VENUE" => NewVenue(s, c, queue')
    <3>1. SUFFICES ASSUME c.state = "CREATE_VENUE" PROVE NewVenue(s, c, queue')
      OBVIOUS
    <3>2. client[s].state = "CREATE_VENUE"
      BY <2>8, <2>9, <3>1 DEF Awaited
    <3>3. NewVenue(s, client[s], queue)
      BY <2>2, <3>2 DEF End
    <3>4. c.venueUrl = h.url /\ c.http = NoRequest
      BY <2>5, <2>8, <3>2 DEF Awaited
    <3>5. QED BY <2>1, <3>3, <3>4 DEF NewVenue, NoRequest, h
  <2>12. Joined(s, client[s], queue, offer[s], answered[s], flows[s], venue)
         => Joined(s, c, queue', offer[s], answered[s], flows[s], venue)
    <3>1. SUFFICES ASSUME Joined(s, client[s], queue, offer[s], answered[s], flows[s], venue)
                   PROVE  Joined(s, c, queue', offer[s], answered[s], flows[s], venue)
      OBVIOUS
    <3>2. client[s].authHttp = "none" /\ client[s].state \notin Awaited \cup {"DELETE_CONFLUENCE"}
      BY <3>1 DEF Joined
    <3>3. /\ c.confluenceUrl = client[s].confluenceUrl /\ c.state = client[s].state
          /\ c.http = NoRequest /\ c.authHttp = "none"
      BY <2>5, <3>2 DEF Awaited
    <3>4. QED BY <2>7, <3>1, <3>3 DEF Joined, NoRequest
  <2>13. End(s, c, queue', conn[s], offer[s], answered[s], flows[s], venue)
    BY <2>2, <2>3, <2>8, <2>9, <2>10, <2>11, <2>12 DEF End
  <2>14. \A t \in Sides : t # s => Fewer(t, queue', queue)
    BY <1>1, <2>1, QueueLess
  <2>15. flows' = [flows EXCEPT ![s] = flows[s]]
    BY <1>1, <2>1
  <2>16. QED BY <1>10, <2>1, <2>13, <2>14, <2>15
<1>13. ASSUME NEW s \in Sides, AuthReply(s) PROVE Ends'
  <2> DEFINE c == AuthOnReceive(client[s])
  <2>1. /\ client[s].authHttp # "none" /\ client' = [client EXCEPT ![s] = c]
        /\ queue' = queue \/ queue' = Append(queue, <<s, "auth">>)
        /\ UNCHANGED <<flows, conn, offer, answered, venue>>
    BY <1>13 DEF AuthReply, ServerUnchanged
  <2>2. End(s, client[s], queue, conn[s], offer[s], answered[s], flows[s], venue)
    BY <1>2
  <2>3. /\ c.http = client[s].http /\ c.authHttp = "none" /\ c.state = client[s].state
        /\ Same(c, client[s])
    BY <1>1, AuthOpens, AuthKeeps
  <2> HIDE DEF c
  <2>5. /\ In(queue', <<s, "client">>) => In(queue, <<s, "client">>)
        /\ Once(queue, <<s, "client">>) => Once(queue', <<s, "client">>)
        /\ Once(queue, <<s, "auth">>) /\ ~In(queue, <<s, "auth">>) => Once(queue', <<s, "auth">>)
    <3>1. CASE queue' = queue
      BY <3>1
    <3>2. CASE queue' = Append(queue, <<s, "auth">>)
      BY <1>1, <3>2, EntryFacts
    <3>3. QED BY <2>1, <3>1, <3>2
  <2>6. ~Idle(s, client[s], queue) /\ ~Joined(s, client[s], queue, offer[s], answered[s], flows[s], venue)
    BY <2>1 DEF Idle, Joined
  <2>7. OneThing(s, client[s], queue) => OneThing(s, c, queue')
    BY <2>1, <2>3, <2>5 DEF OneThing
  <2>8. OnTheWay(s, client[s], queue, offer[s], flows[s], venue)
        => OnTheWay(s, c, queue', offer[s], flows[s], venue)
    BY <2>3, <2>5 DEF OnTheWay, Same
  <2>9. NewVenue(s, client[s], queue) => NewVenue(s, c, queue')
    BY <2>3, <2>5 DEF NewVenue, Same
  <2>10. End(s, c, queue', conn[s], offer[s], answered[s], flows[s], venue)
    BY <2>2, <2>3, <2>6, <2>7, <2>8, <2>9 DEF End
  <2>11. \A t \in Sides : t # s => Fewer(t, queue', queue)
    <3>1. CASE queue' = queue
      BY <1>1, <3>1, QueueLess
    <3>2. CASE queue' = Append(queue, <<s, "auth">>)
      BY <1>1, <3>2, QueueLess
    <3>3. QED BY <2>1, <3>1, <3>2
  <2>12. flows' = [flows EXCEPT ![s] = flows[s]]
    BY <1>1, <2>1
  <2>13. QED BY <1>10, <2>1, <2>10, <2>11, <2>12
<1>14. CASE FireAuth
  <2> DEFINE s == Head(queue)[1]
             c == AuthOnEventFire(client[s])
  <2>1. /\ queue # <<>> /\ Head(queue) = <<s, "auth">> /\ s \in Sides /\ queue' = Tail(queue)
        /\ client' = [client EXCEPT ![s] = c]
        /\ UNCHANGED <<flows, conn, offer, answered, venue>>
    <3>1. queue # <<>> /\ Head(queue)[2] = "auth" /\ queue' = Tail(queue)
          /\ client' = [client EXCEPT ![s] = c]
          /\ UNCHANGED <<flows, conn, offer, answered, venue>>
      BY <1>14 DEF FireAuth, ServerUnchanged
    <3>2. Head(queue) \in Sides \X {"client", "auth"}
      BY <1>1, <3>1
    <3>3. QED BY <3>1, <3>2
  <2>2. /\ c.state = client[s].state /\ Same(c, client[s])
        /\ \/ Opened(c) 
           \/ c.http = client[s].http
        /\ \/ Fresh(c)
           \/ c.http = client[s].http /\ c.authHttp = "access"
           \/ c = client[s]
    BY <1>1, <2>1, AuthOpens, AuthKeeps
  <2> HIDE DEF s, c
  <2>3. End(s, client[s], queue, conn[s], offer[s], answered[s], flows[s], venue)
    BY <1>2, <2>1
  <2>4. /\ In(queue, <<s, "auth">>)
        /\ Once(queue, <<s, "auth">>) => ~In(queue', <<s, "auth">>)
        /\ In(queue', <<s, "client">>) => In(queue, <<s, "client">>)
        /\ Once(queue, <<s, "client">>) => Once(queue', <<s, "client">>)
        /\ Once(queue, <<s, "auth">>) => Once(queue', <<s, "auth">>)
    BY <1>1, <2>1, TailEntry
  <2>5. ~Idle(s, client[s], queue) /\ ~Joined(s, client[s], queue, offer[s], answered[s], flows[s], venue)
    BY <2>4 DEF Idle, Joined
  <2>6. ASSUME OneThing(s, client[s], queue)
        PROVE  /\ OneThing(s, c, queue') /\ ~In(queue', <<s, "client">>)
               /\ \/ c.http.op = "none"
                  \/ c.http.arg = Subject(c) /\ c.http.venue = c.venueUrl
               /\ ~c.http.served
    <3>1. /\ client[s].http.op = "none" /\ client[s].authHttp = "none" /\ ~client[s].http.served
          /\ ~In(queue, <<s, "client">>) /\ ~In(queue', <<s, "client">>) /\ ~In(queue', <<s, "auth">>)
          /\ Once(queue', <<s, "client">>) /\ Once(queue', <<s, "auth">>)
      BY <2>4, <2>6 DEF OneThing
    <3>2. ~c.http.served /\ c.http.op \in {"none", c.state}
          /\ (c.authHttp = "none" \/ c.http.op = "none")
      BY <2>2, <3>1 DEF Fresh
    <3>3. c.http.op = "none" \/ (c.http.arg = Subject(c) /\ c.http.venue = c.venueUrl)
      BY <2>2, <3>1 DEF Opened, NoRequest
    <3>4. QED BY <3>1, <3>2, <3>3 DEF OneThing
  <2>7. ASSUME c.state \in Creating
        PROVE  OnTheWay(s, c, queue', offer[s], flows[s], venue)
    <3>1. OneThing(s, client[s], queue) /\ OnTheWay(s, client[s], queue, offer[s], flows[s], venue)
      BY <2>2, <2>3, <2>7 DEF End, Awaited
    <3>2. c.venueUrl = venue /\ c.offer = offer[s]
      BY <2>2, <3>1 DEF OnTheWay, Same
    <3>3. Subject(c) = c.offer
      BY <2>7 DEF Subject, Creating
    <3>4. QED BY <2>6, <3>1, <3>2, <3>3 DEF OnTheWay
  <2>8. ASSUME c.state = "CREATE_VENUE" PROVE NewVenue(s, c, queue')
    <3>1. OneThing(s, client[s], queue)
      BY <2>2, <2>3, <2>8 DEF End, Awaited
    <3>2. QED BY <2>6, <3>1 DEF NewVenue
  <2>9. End(s, c, queue', conn[s], offer[s], answered[s], flows[s], venue)
    BY <2>2, <2>3, <2>5, <2>6, <2>7, <2>8 DEF End
  <2>10. \A t \in Sides : t # s => Fewer(t, queue', queue)
    BY <1>1, <2>1, QueueLess
  <2>11. flows' = [flows EXCEPT ![s] = flows[s]]
    BY <1>1, <2>1
  <2>12. QED BY <1>10, <2>1, <2>9, <2>10, <2>11
<1>15. CASE FireClient
  <2>1. queue # <<>> /\ Head(queue)[2] = "client" /\ queue' = Tail(queue)
        /\ UNCHANGED <<flows, offer>>
    BY <1>15 DEF FireClient, ServerUnchanged
  <2>2. PICK s \in Sides :
          /\ s = Head(queue)[1]
          /\ \/ /\ client[s].state = "CREATE_VENUE"
                /\ client' = [client EXCEPT ![s] = OnEventFire(client[s])]
                /\ OnVenue(client[s].venueUrl) /\ UNCHANGED answered
             \/ /\ client[s].state \in Creating
                /\ client' = [client EXCEPT ![s] = IF s = "caller" /\ AutoFloor THEN RequestFloor(OnEventFire(client[s]))
                                                   ELSE OnEventFire(client[s])]
                /\ OnFlowParameters(s, client[s].remoteSDP) /\ UNCHANGED venue
             \/ /\ client[s].state \notin Creating \cup {"CREATE_VENUE"}
                /\ client' = [client EXCEPT ![s] = OnEventFire(client[s])]
                /\ UNCHANGED <<conn, answered, venue>>
    BY <1>15 DEF FireClient
  <2>3. Head(queue) = <<s, "client">>
    <3>1. Head(queue) \in Sides \X {"client", "auth"}
      BY <1>1, <2>1, EntryFacts
    <3>2. QED BY <2>1, <2>2, <3>1
  <2> DEFINE d == OnEventFire(client[s])
             e == RequestFloor(d)
             c == IF s = "caller" /\ AutoFloor THEN e ELSE d
  <2>4. /\ d \in GoodClient /\ d.state = "DONE" /\ d.http = NoRequest /\ d.authHttp = "none"
        /\ Same(d, client[s])
    BY <1>1, EventOpens, OnEventFireKeeps
  <2>5. e.state = "REQUEST_FLOOR" /\ Same(e, d) /\ Opened(e)
    BY <2>4, OwnStateFacts, FloorKeeps DEF RequestFloor
  <2> HIDE DEF d, e
  <2>6. /\ c.state \in {"DONE", "REQUEST_FLOOR"} /\ c.authHttp = "none"
        /\ c.http = NoRequest \/ c.http.op = "REQUEST_FLOOR"
        /\ c.confluenceUrl = client[s].confluenceUrl
    BY <2>4, <2>5 DEF Same, Opened
  <2>7. End(s, client[s], queue, conn[s], offer[s], answered[s], flows[s], venue)
    BY <1>2
  <2>8. /\ In(queue, <<s, "client">>) /\ ~Idle(s, client[s], queue)
        /\ Once(queue, <<s, "client">>) => ~In(queue', <<s, "client">>)
        /\ In(queue', <<s, "auth">>) => In(queue, <<s, "auth">>)
    BY <1>1, <2>1, <2>3, TailEntry DEF Idle
  <2>9. \A t \in Sides : Fewer(t, queue', queue)
    BY <1>1, <2>1, QueueLess
  <2>10. CASE /\ client[s].state = "CREATE_VENUE" /\ client' = [client EXCEPT ![s] = d]
              /\ OnVenue(client[s].venueUrl) /\ UNCHANGED answered
    <3>1. s = "caller" /\ conn["callee"] = "preview" /\ conn["caller"] = "preview"
      BY <1>1, <2>10
    <3>2. /\ OneThing(s, client[s], queue) /\ NewVenue(s, client[s], queue)
      BY <2>7, <2>10 DEF End, Awaited
    <3>3. venue' # Empty /\ conn' = [t \in Sides |-> "offering"]
      BY <2>8, <2>10, <3>2 DEF NewVenue, OnVenue
    <3>4. Idle(s, d, queue')
      BY <2>4, <2>8, <3>2 DEF Idle, OneThing
    <3>5. Idle("callee", client["callee"], queue) /\ client["callee"].state \notin Awaited
      BY <1>1, <1>2, <3>1 DEF End, Awaited
    <3>6. Idle("callee", client["callee"], queue')
      BY <2>9, <3>5 DEF Idle, Fewer
    <3>7. client'["caller"] = d /\ client'["callee"] = client["callee"]
      BY <1>1, <2>10, <3>1
    <3>8. ASSUME NEW t \in Sides
          PROVE  End(t, client'[t], queue', conn'[t], offer'[t], answered'[t], flows'[t], venue')
      <4>1. conn'[t] = "offering" /\ Idle(t, client'[t], queue') /\ client'[t].state \notin Awaited
        BY <2>4, <3>1, <3>3, <3>4, <3>5, <3>6, <3>7 DEF Awaited, Creating
      <4>2. QED BY <3>3, <4>1 DEF End, Awaited
    <3>9. QED BY <3>8 DEF Ends
  <2>11. CASE /\ client[s].state \in Creating /\ client' = [client EXCEPT ![s] = c]
              /\ OnFlowParameters(s, client[s].remoteSDP) /\ UNCHANGED venue
    <3>1. OneThing(s, client[s], queue) /\ OnTheWay(s, client[s], queue, offer[s], flows[s], venue)
      BY <2>7, <2>11 DEF End, Awaited
    <3>2. /\ conn' = [conn EXCEPT ![s] = "answered"]
          /\ answered' = [answered EXCEPT ![s] = client[s].remoteSDP]
      BY <2>11 DEF OnFlowParameters
    <3>3. client[s].remoteSDP = offer[s] /\ Has(flows[s], client[s].confluenceUrl, venue)
      BY <2>8, <3>1 DEF OnTheWay
    <3>4. ~In(queue', <<s, "auth">>)
      BY <2>8, <3>1 DEF OneThing
    <3> HIDE DEF c
    <3>5. Joined(s, c, queue', offer[s], offer[s], flows[s], venue)
      BY <2>6, <3>3, <3>4 DEF Joined, NoRequest, Awaited, Creating
    <3>6. End(s, c, queue', "answered", offer[s], offer[s], flows[s], venue)
      BY <2>6, <3>5 DEF End, Awaited, Creating
    <3>7. /\ client'[s] = c /\ conn'[s] = "answered" /\ answered'[s] = offer[s]
          /\ \A t \in Sides : t # s => client'[t] = client[t] /\ conn'[t] = conn[t] /\ answered'[t] = answered[t]
      BY <1>1, <2>11, <3>2, <3>3
    <3>8. QED BY <1>4, <2>1, <2>9, <2>11, <3>6, <3>7
  <2>12. CASE /\ client[s].state \notin Creating \cup {"CREATE_VENUE"}
              /\ client' = [client EXCEPT ![s] = d] /\ UNCHANGED <<conn, answered, venue>>
    <3>1. Joined(s, client[s], queue, offer[s], answered[s], flows[s], venue)
          => Joined(s, d, queue', offer[s], answered[s], flows[s], venue)
      BY <2>4, <2>8 DEF Joined, NoRequest, Same, Awaited, Creating
    <3>2. End(s, d, queue', conn[s], offer[s], answered[s], flows[s], venue)
      BY <2>4, <2>7, <2>8, <3>1 DEF End, Awaited, Creating
    <3>3. flows' = [flows EXCEPT ![s] = flows[s]]
      BY <1>1, <2>1
    <3>4. QED BY <1>10, <2>1, <2>9, <2>12, <3>2, <3>3
  <2>13. QED BY <2>2, <2>10, <2>11, <2>12 DEF c, d, e
<1>16. CASE UNCHANGED vars
  BY <1>2, <1>16 DEF vars, Ends
<1>17. QED
  BY <1>5, <1>6, <1>7, <1>8, <1>9, <1>11, <1>12, <1>13, <1>14, <1>15, <1>16
     DEF Next, Engine, Network, MainThread

LEMMA NextTogether == Inv /\ Together /\ [Next]_vars => Together'
<1> SUFFICES ASSUME Inv, Together, [Next]_vars PROVE Together'
  OBVIOUS
<1>1. Hands'
  BY NextHands DEF Together
<1>2. ASSUME ~direct', Calm({"start", "stop", "floor"})' PROVE Ends'
  <2>1. ~direct
    BY <1>2 DEF Next, Start, Stop, Floor, MainThread, FireClient, FireAuth, Engine, OnOfferReady,
                OnAnswerReady, Network, Serve, Reply, AuthReply, UserUnchanged, vars
  <2>2. Ends
    BY <1>2, <2>1, UpsetFacts DEF Together
  <2>3. QED BY <1>2, <2>1, <2>2, NextEnds
<1>3. QED BY <1>1, <1>2 DEF Together

(* When both ends have their answer they are in one venue, each with the       *)
(* answer to its own last offer, for any number of calls of a user who waits   *)
(* for one operation before the next; without calliope also for one who does   *)
(* not.                                                                        *)
THEOREM BothMeet == Spec => []BothInOneVenue
<1>1. Together => BothInOneVenue
  BY SideFacts DEF Together, Hands, Ends, End, Joined, Has, BothInOneVenue
<1>2. Spec => []Together
  BY InitTogether, NextTogether, InvAlways, PTL DEF Spec
<1>3. QED BY <1>1, <1>2, PTL
=============================================================================
