------------------------- MODULE PeerCalliopeProofs -------------------------
(***************************************************************************)
(* For every mode and every number of calls: the client is well typed, no  *)
(* create request leaves without a token, and every sink callback meets    *)
(* the endpoint it is for, whatever the user does at whatever moment.  If  *)
(* the user waits for one operation before the next, a reply is read by    *)
(* the branch of its request, the answer applied is the one to the present *)
(* offer, and no venue is deleted under a confluence.                      *)
(***************************************************************************)
EXTENDS PeerCalliope, OrpheusClientProofs, SequenceTheorems, TLAPS

(* The inductive invariant: the two properties and the types, and that a     *)
(* stopped call has no connection, which is why a start finds m_state in none *)
(* of the states that call the endpoint back.                                *)
Inv == /\ TypeOK
       /\ Covered(client)
       /\ CallbackMeetsEndpoint
       /\ ~active => conn = "none"

LEMMA InvGood == Inv => client \in GoodClient
  BY DEF Inv, TypeOK, GoodClient

LEMMA InitInv == Init => Inv
<1> SUFFICES ASSUME Init
             PROVE  Inv
  OBVIOUS
<1>1. NoRequest \in HttpType
  BY DEF NoRequest, HttpType, Empty
<1>0. PICK mode \in Modes : client = NewClient(mode)
  BY PeerAssumption DEF Init
<1>2. /\ client \in ClientType /\ client.state = "INIT" /\ client.authHttp = "none"
      /\ client.http = NoRequest
  BY <1>0, <1>1 DEF NewClient, ClientType, States, AuthPhases, Empty, Unset
<1>q. <<>> \in Seq({"client", "auth"})
  OBVIOUS
<1>3. TypeOK
  <2>1. client \in ClientType /\ client.authHttp = "none"
    BY <1>2 DEF Init
  <2>2. queue \in Seq({"client", "auth"})
    BY <1>q DEF Init
  <2>3. QED BY <2>1, <2>2 DEF Init, TypeOK, Conns, Empty
<1>4. Covered(client) /\ CallbackMeetsEndpoint
  BY <1>2 DEF Init, Covered, CallbackMeetsEndpoint, NoRequest, Creating
<1>5. QED BY <1>3, <1>4 DEF Init, Inv

LEMMA NextInv == Inv /\ [Next]_vars => Inv'
<1> SUFFICES ASSUME Inv, [Next]_vars
             PROVE  Inv'
  OBVIOUS
<1> USE InvGood, PeerAssumption
<1>g. client \in GoodClient /\ Covered(client)
  BY DEF Inv
<1>1. CASE Start
  <2>1. CASE client.mode # "orpheus"
    <3>1. client.state # "CREATE_VENUE" /\ client.state \notin Creating
      BY <1>1 DEF Start, Inv, CallbackMeetsEndpoint
    <3>2. /\ active' = TRUE /\ conn' = "offering" /\ client' = client
          /\ UNCHANGED <<queue, answered, venues, flows, floors>> /\ upset' \subseteq upset \cup {"start"}
          /\ venue' = made + 1 /\ made' = made + 1 /\ offer' = offer + 1 /\ starts' = starts + 1
      BY <1>1, <2>1 DEF Start, OnVenue, Upsets
    <3>3. TypeOK'
      BY <3>2 DEF Inv, TypeOK, Conns
    <3>4. Covered(client)' /\ CallbackMeetsEndpoint'
      BY <3>1, <3>2, <1>g DEF CallbackMeetsEndpoint, Covered
    <3>5. QED BY <3>2, <3>3, <3>4 DEF Inv
  <2>2. CASE client.mode = "orpheus"
    <3>1. /\ client' \in GoodClient /\ Covered(client') /\ client'.state = "CREATE_VENUE"
          /\ conn' = "preview"
      BY <1>1, <1>g, <2>2, CreateVenueFacts DEF Start
    <3>2. QED BY <1>1, <2>2, <3>1 DEF Start, Upsets, Inv, TypeOK, CallbackMeetsEndpoint, Conns,
                                      Covered, GoodClient, Creating
  <2>3. QED BY <2>1, <2>2
<1>2. CASE Stop
  <2>1. client' \in GoodClient /\ Covered(client') /\ client'.state = "DELETE_CONFLUENCE"
    BY <1>2, <1>g, DeleteConfluenceFacts DEF Stop
  <2>2. QED BY <1>2, <2>1 DEF Stop, Upsets, Inv, TypeOK, CallbackMeetsEndpoint, Conns, Covered,
                              GoodClient, Creating
<1>3. CASE Floor
  <2>1. /\ client' \in GoodClient /\ Covered(client')
        /\ client'.state \in {"REQUEST_FLOOR", "RELEASE_FLOOR"}
    BY <1>3, <1>g, OwnStateFacts DEF Floor, RequestFloor, ReleaseFloor
  <2>2. QED BY <1>3, <2>1 DEF Floor, Upsets, Inv, TypeOK, CallbackMeetsEndpoint, Conns, Covered,
                              GoodClient, Creating
<1>4. CASE OnSDPReady
  <2>0. venue \in Nat /\ offer \in Nat /\ client.state # "CREATE_VENUE" /\ client.state \notin Creating
    BY <1>4 DEF OnSDPReady, Inv, TypeOK, CallbackMeetsEndpoint
  <2>1. /\ client' \in GoodClient /\ Covered(client')
        /\ client'.state # "CREATE_VENUE"
    BY <1>4, <1>g, <2>0, CreateFlowFacts, CreateLinusConfluenceFacts DEF OnSDPReady
  <2>2. QED BY <1>4, <2>1 DEF OnSDPReady, Inv, TypeOK, CallbackMeetsEndpoint, Conns, Covered,
                              GoodClient
<1>5. CASE Serve
  <2>1. made \in Nat /\ made + 1 \in Nat /\ client.http \in HttpType
        /\ venues \in SUBSET Nat /\ flows \in SUBSET [url : Nat, venue : Nat]
    BY <1>g DEF Inv, TypeOK, GoodClient, ClientType
  <2>2. client' \in GoodClient /\ Covered(client') /\ client'.state = client.state
    BY <1>5, <1>g, <2>1, ServedFacts DEF Serve
  <2>3. made' \in Nat
    BY <1>5, <2>1 DEF Serve
  <2>4. venues' \in SUBSET Nat /\ flows' \in SUBSET [url : Nat, venue : Nat]
    BY <1>5, <2>1, ServerFacts DEF Serve
  <2>5. QED BY <1>5, <2>2, <2>3, <2>4 DEF Serve, Inv, TypeOK, CallbackMeetsEndpoint, GoodClient
<1>6. CASE Reply
  <2>1. /\ client' \in GoodClient /\ Covered(client')
        /\ client'.state \in {client.state, "CREATE_DELETE_VENUE"}
    BY <1>6, <1>g, OnReceiveFacts DEF Reply
  <2>2. QED BY <1>6, <2>1 DEF Reply, Inv, TypeOK, CallbackMeetsEndpoint, Covered, GoodClient, Creating
<1>7. CASE ReplyWithoutBody
  <2>1. /\ client' \in GoodClient /\ Covered(client') /\ client'.state = client.state
    BY <1>7, <1>g DEF ReplyWithoutBody, GoodClient, ClientType, Covered, NoRequest, HttpType, Empty
  <2>2. QED BY <1>7, <2>1 DEF ReplyWithoutBody, Inv, TypeOK, CallbackMeetsEndpoint, GoodClient
<1>8. CASE AuthReply
  <2>1. /\ client' \in GoodClient /\ Covered(client') /\ client'.state = client.state
    BY <1>8, <1>g, AuthOnReceiveFacts DEF AuthReply
  <2>2. QED BY <1>8, <2>1 DEF AuthReply, Inv, TypeOK, CallbackMeetsEndpoint, GoodClient
<1>9. CASE FireClient
  <2>1. OnEventFire(client) \in GoodClient /\ Covered(OnEventFire(client))
        /\ OnEventFire(client).state = "DONE"
    BY <1>g, OnEventFireFacts
  <2>2. RequestFloor(OnEventFire(client)) \in GoodClient /\ Covered(RequestFloor(OnEventFire(client)))
        /\ RequestFloor(OnEventFire(client)).state = "REQUEST_FLOOR"
    BY <2>1, OwnStateFacts DEF RequestFloor
  <2>3. /\ client' \in GoodClient /\ Covered(client')
        /\ client'.state \in {"DONE", "REQUEST_FLOOR"}
    BY <1>9, <2>1, <2>2 DEF FireClient
  <2>4. conn' \in Conns /\ venue' \in Nat /\ offer' \in Nat /\ answered' \in Nat
    BY <1>9, <1>g DEF FireClient, OnVenue, Inv, TypeOK, Conns, GoodClient, ClientType
  <2>5. queue' \in Seq({"client", "auth"})
    BY <1>9 DEF FireClient, Inv, TypeOK
  <2>6. QED BY <1>9, <2>3, <2>4, <2>5 DEF FireClient, Inv, TypeOK, CallbackMeetsEndpoint, GoodClient,
                                          Creating
<1>10. CASE FireAuth
  <2>1. /\ client' \in GoodClient /\ Covered(client') /\ client'.state = client.state
    BY <1>10, <1>g, AuthOnEventFireFacts DEF FireAuth
  <2>2. QED BY <1>10, <2>1 DEF FireAuth, Inv, TypeOK, CallbackMeetsEndpoint, GoodClient
<1>11. CASE UNCHANGED vars
  BY <1>11 DEF vars, Inv, TypeOK, Covered, CallbackMeetsEndpoint
<1>12. QED
  BY <1>1, <1>2, <1>3, <1>4, <1>5, <1>6, <1>7, <1>8, <1>9, <1>10, <1>11 DEF Next

(* The client's types, the token rule and what its callbacks need of the       *)
(* endpoint hold together in every state.                                      *)
THEOREM InvAlways == Spec => []Inv
  BY InitInv, NextInv, PTL DEF Spec

(* Every state has the types of the members of the classes, and the auth      *)
(* request in flight is the one of the auth's phase.                          *)
THEOREM TypeCorrect == Spec => []TypeOK
<1>1. Inv => TypeOK
  BY DEF Inv
<1>2. QED BY <1>1, InvAlways, PTL

(* However the user, the network and the main thread interleave, OnVenue and  *)
(* OnFlowParameters meet an endpoint that waits for them.                     *)
THEOREM CallbacksMeetTheirEndpoint == Spec => []CallbackMeetsEndpoint
<1>1. Inv => CallbackMeetsEndpoint
  BY DEF Inv
<1>2. QED BY <1>1, InvAlways, PTL

(* No create request to Orpheus is ever open without the token.               *)
THEOREM RequestsAreAuthorized == Spec => []AuthorizedRequests
<1>1. Inv => AuthorizedRequests
  BY DEF Inv, Covered, AuthorizedRequests
<1>2. QED BY <1>1, InvAlways, PTL
-----------------------------------------------------------------------------
(* One operation at a time.  While the user waits for one operation before   *)
(* the next, at most one thing is under way: an HTTP request, a request for   *)
(* the token, an event in the queue or an offer of the engine.  The one       *)
(* exception is the deletion of the venue, opened by the reply to the         *)
(* deletion of the confluence while that reply's event still waits.           *)
Turn(c, q, k) ==
  /\ c.http.op \in {"none", c.state}
  /\ c.http.served => c.http.op # "none"
  /\ q \in {<<>>, <<"client">>, <<"auth">>, <<"client", "client">>}
  /\ c.http.op # "none" =>
       c.authHttp = "none" /\ (q = <<>> \/ (q = <<"client">> /\ c.state = "CREATE_DELETE_VENUE"))
  /\ c.authHttp # "none" => q = <<>>
  /\ q = <<"client", "client">> => c.state = "CREATE_DELETE_VENUE"
  /\ k = "offering" => c.http.op = "none" /\ c.authHttp = "none" /\ q = <<>>

TakesTurns == Calm({"start", "stop", "floor"}) => Turn(client, queue, conn)

LEMMA AppendSecond == Append(<<"client">>, "client") = <<"client", "client">>
<1> DEFINE s == <<"client">>
           t == <<"client", "client">>
           a == Append(s, "client")
<1>1. s \in Seq({"client"}) /\ Len(s) = 1 /\ s[1] = "client" /\ "client" \in {"client"}
  OBVIOUS
<1>2. t \in Seq({"client"}) /\ Len(t) = 2 /\ t[1] = "client" /\ t[2] = "client"
  OBVIOUS
<1> HIDE DEF s, t
<1>3. /\ a \in Seq({"client"}) /\ Len(a) = Len(s) + 1
      /\ \A i \in 1..Len(s) : a[i] = s[i]
      /\ a[Len(s) + 1] = "client"
  BY <1>1, AppendProperties, Zenon
<1> HIDE DEF a
<1>4. a \in Seq({"client"}) /\ Len(a) = 2 /\ a[1] = "client" /\ a[2] = "client"
  BY <1>1, <1>3
<1>5. a = t
  BY <1>2, <1>4, SeqEqual
<1>6. QED BY <1>5 DEF a, s, t

(* The queues of a calm call, taken apart. *)
LEMMA QueueFacts ==
  /\ Append(<<>>, "client") = <<"client">> /\ Append(<<"client">>, "client") = <<"client", "client">>
  /\ Append(<<>>, "auth") = <<"auth">>
  /\ Head(<<"client">>) = "client" /\ Head(<<"auth">>) = "auth" /\ Head(<<"client", "client">>) = "client"
  /\ Tail(<<"client">>) = <<>> /\ Tail(<<"auth">>) = <<>> /\ Tail(<<"client", "client">>) = <<"client">>
  /\ <<"client">> # <<>> /\ <<"auth">> # <<>> /\ <<"client", "client">> # <<>>
  /\ <<"client">> # <<"client", "client">> /\ <<"auth">> # <<"client", "client">>
  /\ <<"client">> # <<"auth">>
<1>1. Append(<<>>, "client") = <<"client">> /\ Append(<<>>, "auth") = <<"auth">>
  OBVIOUS
<1>2. Append(<<"client">>, "client") = <<"client", "client">>
  BY AppendSecond
<1>3. /\ Head(<<"client">>) = "client" /\ Head(<<"auth">>) = "auth"
      /\ Head(<<"client", "client">>) = "client"
  OBVIOUS
<1>4. Tail(<<"client">>) = <<>> /\ Tail(<<"auth">>) = <<>>
  OBVIOUS
<1>5. Tail(<<"client", "client">>) = <<"client">>
  OBVIOUS
<1>6. <<"client">> # <<>> /\ <<"auth">> # <<>> /\ <<"client", "client">> # <<>>
  OBVIOUS
<1>7. <<"client">> # <<"client", "client">> /\ <<"auth">> # <<"client", "client">>
  OBVIOUS
<1>8. <<"client">> # <<"auth">>
  OBVIOUS
<1>9. QED BY <1>1, <1>2, <1>3, <1>4, <1>5, <1>6, <1>7, <1>8

LEMMA InitTurns == Init => TakesTurns
<1> SUFFICES ASSUME Init PROVE TakesTurns
  OBVIOUS
<1>1. PICK mode \in Modes : client = NewClient(mode)
  BY PeerAssumption DEF Init
<1>2. QED BY <1>1, QueueFacts DEF Init, TakesTurns, Turn, NewClient, NoRequest

(* Users who wait for their own operation keep the turns. *)
LEMMA TurnStep ==
  ASSUME Inv, Turn(client, queue, conn), [Next]_vars, Start \/ Stop \/ Floor => Quiet
  PROVE  Turn(client, queue, conn)'
<1>2. Turn(client, queue, conn) /\ client \in GoodClient
  BY InvGood
<1> USE QueueFacts DEF NoRequest
<1>3. CASE Start
  <2>1. client.http = NoRequest /\ client.authHttp = "none" /\ queue = <<>> /\ queue' = queue
    BY <1>3 DEF Start, Quiet
  <2>2. CASE client' = client
    BY <1>2, <2>1, <2>2 DEF Turn
  <2>3. CASE client.mode = "orpheus"
    <3>1. Waits(client', client) /\ conn' = "preview"
      BY <1>2, <1>3, <2>3, CreateOpens DEF Start
    <3>2. QED BY <2>1, <3>1 DEF Turn, Waits
  <2>4. QED BY <1>3, <2>2, <2>3 DEF Start
<1>4. CASE Stop
  <2>1. client.http = NoRequest /\ client.authHttp = "none" /\ queue = <<>> /\ queue' = queue
        /\ conn' = "none" /\ client' = DeleteConfluence(client, TRUE)
    BY <1>4 DEF Stop, Quiet
  <2>2. Fresh(client')
    BY <1>2, <2>1, DeleteOpens
  <2>3. QED BY <2>1, <2>2 DEF Turn, Fresh
<1>5. CASE Floor
  <2>1. queue' = <<>> /\ conn' # "offering" /\ Fresh(client')
    BY <1>2, <1>5, FloorOpens DEF Floor, Quiet
  <2>2. QED BY <2>1 DEF Turn, Fresh
<1>6. CASE OnSDPReady
  <2>1. client.http.op = "none" /\ client.authHttp = "none" /\ queue = <<>> /\ queue' = queue
        /\ conn' = "offered" /\ ~client.http.served
    BY <1>2, <1>6 DEF OnSDPReady, Turn
  <2>2. venue \in Nat /\ offer \in Nat
    BY DEF Inv, TypeOK
  <2>3. \/ client' = client \/ Fresh(client') \/ Waits(client', client)
    BY <1>2, <1>6, <2>2, CreateOpens DEF OnSDPReady
  <2>4. QED BY <1>2, <2>1, <2>3 DEF Turn, Fresh, Waits
<1>7. CASE Serve
  <2>1. /\ client.http.op # "none" /\ UNCHANGED <<queue, conn>>
        /\ client'.http.op = client.http.op /\ client'.authHttp = client.authHttp
        /\ client'.state = client.state
    BY <1>2, <1>7, ServedOpens DEF Serve, Inv, TypeOK
  <2>2. QED BY <1>2, <2>1 DEF Turn
<1>8. CASE Reply
  <2>1. /\ client.http.op = client.state /\ client.authHttp = "none" /\ conn # "offering"
        /\ queue = <<>> \/ (queue = <<"client">> /\ client.state = "CREATE_DELETE_VENUE")
        /\ conn' = conn /\ queue' = Append(queue, "client")
    BY <1>2, <1>8 DEF Reply, Turn
  <2>2. \/ client.state = "DELETE_CONFLUENCE" /\ client'.state = "CREATE_DELETE_VENUE" /\ Fresh(client')
        \/ client'.state = client.state /\ client'.http = NoRequest /\ client'.authHttp = "none"
    BY <1>2, <1>8, <2>1, OnReceiveOpens DEF Reply
  <2>3. queue' = <<"client">> \/ (queue' = <<"client", "client">> /\ client.state = "CREATE_DELETE_VENUE")
    BY <2>1
  <2>4. CASE client.state = "DELETE_CONFLUENCE" /\ client'.state = "CREATE_DELETE_VENUE" /\ Fresh(client')
    <3>1. queue' = <<"client">>
      BY <2>3, <2>4
    <3>2. QED BY <2>1, <2>4, <3>1 DEF Turn, Fresh
  <2>5. CASE client'.state = client.state /\ client'.http = NoRequest /\ client'.authHttp = "none"
    BY <2>1, <2>3, <2>5 DEF Turn
  <2>6. QED BY <2>2, <2>4, <2>5
<1>9. CASE ReplyWithoutBody
  <2>1. /\ client'.http = NoRequest /\ client'.state = client.state /\ client'.authHttp = client.authHttp
        /\ UNCHANGED <<queue, conn>>
    BY <1>2, <1>9 DEF ReplyWithoutBody, GoodClient, ClientType
  <2>2. QED BY <1>2, <2>1 DEF Turn
<1>10. CASE AuthReply
  <2>1. /\ client'.http = client.http /\ client'.authHttp = "none" /\ client'.state = client.state
        /\ conn' = conn
    BY <1>2, <1>10, AuthOpens DEF AuthReply
  <2>2. client.authHttp # "none" /\ (queue' = queue \/ queue' = Append(queue, "auth"))
    BY <1>10 DEF AuthReply
  <2>3. QED BY <1>2, <2>1, <2>2 DEF Turn
<1>11. CASE FireClient
  <2>1. /\ client.authHttp = "none" /\ queue' \in {<<>>, <<"client">>}
        /\ queue' = <<"client">> => client.state = "CREATE_DELETE_VENUE"
    BY <1>2, <1>11 DEF FireClient, Turn
  <2> DEFINE d == OnEventFire(client)
  <2>2. /\ d \in GoodClient /\ d.state = "DONE" /\ d.http = NoRequest /\ d.authHttp = "none"
        /\ Fresh(RequestFloor(d))
    BY <1>2, EventOpens, FloorOpens
  <2>3. \/ client.state = "CREATE_VENUE" /\ client' = d /\ conn' = "offering"
        \/ client.state \in Creating /\ client' \in {d, RequestFloor(d)} /\ conn' = "answered"
        \/ client' = d /\ conn' = conn
    BY <1>11 DEF FireClient, OnVenue
  <2>4. conn = "offering" => queue = <<>>
    BY <1>2 DEF Turn
  <2>5. queue # <<>>
    BY <1>11 DEF FireClient
  <2>6. conn # "offering"
    BY <2>4, <2>5
  <2> HIDE DEF d
  <2>7. CASE client.state = "CREATE_VENUE" /\ client' = d /\ conn' = "offering"
    BY <2>1, <2>2, <2>7 DEF Turn
  <2>8. CASE client.state \in Creating /\ client' \in {d, RequestFloor(d)} /\ conn' = "answered"
    <3>1. queue' = <<>>
      BY <2>1, <2>8 DEF Creating
    <3>2. QED BY <2>2, <2>8, <3>1 DEF Turn, Fresh
  <2>9. CASE client' = d /\ conn' = conn
    BY <2>1, <2>2, <2>6, <2>9 DEF Turn
  <2>10. QED BY <2>3, <2>7, <2>8, <2>9
<1>12. CASE FireAuth
  <2>1. /\ queue' = <<>> /\ client.http.op = "none" /\ client.authHttp = "none" /\ conn # "offering"
        /\ ~client.http.served /\ conn' = conn
    BY <1>2, <1>12 DEF FireAuth, Turn
  <2>2. \/ Fresh(client')
        \/ client'.http = client.http /\ client'.authHttp = "access"
        \/ client' = client
    BY <1>2, <1>12, AuthOpens DEF FireAuth
  <2>3. QED BY <1>2, <2>1, <2>2 DEF Turn, Fresh
<1>13. CASE UNCHANGED vars
  BY <1>2, <1>13 DEF vars
<1>14. QED
  BY <1>3, <1>4, <1>5, <1>6, <1>7, <1>8, <1>9, <1>10, <1>11, <1>12, <1>13 DEF Next

(* What disturbed the call stays known, and a user who does not disturb it waits. *)
LEMMA UpsetFacts ==
  ASSUME [Next]_vars
  PROVE  /\ upset \subseteq upset'
         /\ (Start \/ Floor) /\ Calm({"start", "floor"})' => Quiet
         /\ (Stop \/ Floor) /\ Calm({"start", "stop", "floor"})' => Quiet
<1>1. upset \subseteq upset'
  BY DEF Next, Start, Stop, Floor, OnSDPReady, Serve, Reply, ReplyWithoutBody, AuthReply,
         FireClient, FireAuth, Upsets, vars
<1>2. (Start \/ Floor) /\ Calm({"start", "floor"})' => Quiet
  BY DEF Start, Floor, Upsets, Calm
<1>3. (Stop \/ Floor) /\ Calm({"start", "stop", "floor"})' => Quiet
  BY DEF Stop, Floor, Upsets, Calm
<1>4. QED BY <1>1, <1>2, <1>3

LEMMA NextTurns == Inv /\ TakesTurns /\ [Next]_vars => TakesTurns'
<1> SUFFICES ASSUME Inv, TakesTurns, [Next]_vars, Calm({"start", "stop", "floor"})'
             PROVE  Turn(client, queue, conn)'
  BY DEF TakesTurns
<1>1. Calm({"start", "stop", "floor"}) /\ Calm({"start", "floor"})'
  BY UpsetFacts DEF Calm
<1>2. Start \/ Stop \/ Floor => Quiet
  BY <1>1, UpsetFacts
<1>3. QED BY <1>1, <1>2, TurnStep DEF TakesTurns

(* A reply is read by the branch of the request it answers, however the        *)
(* network and the main thread interleave, as long as the user waits for one   *)
(* operation before the next.                                                  *)
THEOREM RepliesMatchTheirState == Spec => []ReplyMatchesState
<1>1. TakesTurns => ReplyMatchesState
  BY DEF TakesTurns, Turn, ReplyMatchesState
<1>2. Init => TakesTurns
  BY InitTurns
<1>3. Inv /\ TakesTurns /\ [Next]_vars => TakesTurns'
  BY NextTurns
<1>4. Spec => []TakesTurns
  BY <1>2, <1>3, InvAlways, PTL DEF Spec
<1>5. QED BY <1>1, <1>4, PTL

-----------------------------------------------------------------------------
(* The answer to the present offer.  If calls are only started when the last   *)
(* has settled, a call takes its turns from its start to its answer, however   *)
(* hastily it is stopped: stopping ends it.  So the request for the confluence *)
(* carries the present offer, and its reply the answer to it.                  *)
Asked(c, q, o) ==
  /\ c.offer = o
  /\ c.http.op \in Creating => c.http.arg = o /\ (c.http.served => c.http.sdp = o)
  /\ q = <<"client">> => c.remoteSDP = o

Negotiating == conn \in {"preview", "offering", "offered"}

Current == Calm({"start", "floor"}) =>
  /\ Negotiating => Turn(client, queue, conn)
  /\ client.state \in Creating => Asked(client, queue, offer)
  /\ conn = "answered" => answered = offer

LEMMA QuietTurn ==
  ASSUME Quiet PROVE Turn(client, queue, conn)
  BY QueueFacts DEF Quiet, Turn, NoRequest

LEMMA InitCurrent == Init => Current
<1> SUFFICES ASSUME Init PROVE Current
  OBVIOUS
<1>1. PICK mode \in Modes : client = NewClient(mode)
  BY PeerAssumption DEF Init
<1>2. QED BY <1>1 DEF Init, Current, Negotiating, Creating, NewClient

LEMMA NextCurrent == Inv /\ Current /\ [Next]_vars => Current'
<1> SUFFICES ASSUME Inv, Current, [Next]_vars, Calm({"start", "floor"})'
             PROVE  /\ Negotiating' => Turn(client, queue, conn)'
                    /\ client'.state \in Creating => Asked(client, queue, offer)'
                    /\ conn' = "answered" => answered' = offer'
  BY DEF Current
<1>1. /\ Calm({"start", "floor"}) /\ client \in GoodClient
      /\ Negotiating => Turn(client, queue, conn)
      /\ client.state \in Creating => Asked(client, queue, offer)
      /\ conn = "answered" => answered = offer
      /\ client.state \in Creating => conn = "offered"
      /\ client.state = "CREATE_VENUE" => conn = "preview"
      /\ ~active => conn = "none"
      /\ client \in ClientType /\ made \in Nat /\ offer \in Nat /\ venue \in Nat /\ floors \in Nat
  BY UpsetFacts, InvGood DEF Calm, Current, Inv, CallbackMeetsEndpoint, TypeOK
<1> USE QueueFacts
<1>2. CASE Start
  <2>1. Quiet /\ conn = "none"
    BY <1>1, <1>2, UpsetFacts DEF Start
  <2>2. Turn(client, queue, conn)'
    <3>1. ~Stop /\ ~Floor
      BY <1>1, <1>2 DEF Start, Stop, Floor
    <3>2. QED BY <2>1, QuietTurn, TurnStep
  <2>3. client'.state \notin Creating /\ conn' # "answered"
    <3>1. CASE client.mode # "orpheus"
      BY <1>1, <1>2, <2>1, <3>1 DEF Start, OnVenue, Creating
    <3>2. CASE client.mode = "orpheus"
      <4>1. CreateVenue(client).state = "CREATE_VENUE"
        BY <1>1, CreateVenueFacts DEF Inv
      <4>2. QED BY <1>2, <3>2, <4>1 DEF Start, Creating
    <3>3. QED BY <3>1, <3>2
  <2>4. QED BY <2>2, <2>3
<1>3. CASE Stop
  <2>1. client'.state = "DELETE_CONFLUENCE" /\ conn' = "none"
    BY <1>1, <1>3, DeleteConfluenceFacts DEF Stop, Inv
  <2>2. QED BY <2>1 DEF Negotiating, Creating
<1>4. CASE Floor
  <2>1. client'.state \in {"REQUEST_FLOOR", "RELEASE_FLOOR"} /\ UNCHANGED <<conn, answered, offer>>
    BY <1>1, <1>4, OwnStateFacts DEF Floor, RequestFloor, ReleaseFloor
  <2>2. Quiet
    BY <1>1, <1>4, UpsetFacts
  <2>3. Turn(client, queue, conn)'
    <3>1. ~Start /\ ~Stop
      BY <1>1, <1>4 DEF Start, Stop, Floor
    <3>2. QED BY <1>4, <2>2, QuietTurn, TurnStep
  <2>4. QED BY <1>1, <2>1, <2>3 DEF Creating
(* Nobody but the user disturbs the turns. *)
<1>5. ASSUME active' = active, floors' = floors, Negotiating PROVE Turn(client, queue, conn)'
  <2>1. ~Start /\ ~Stop
    BY <1>5 DEF Start, Stop
  <2>2. ~Floor
    BY <1>1, <1>5 DEF Floor
  <2>3. QED BY <1>1, <1>5, <2>1, <2>2, TurnStep
<1>6. CASE OnSDPReady
  <2>1. /\ conn = "offering" /\ conn' = "offered"
        /\ UNCHANGED <<queue, offer, answered, venue>>
    BY <1>6 DEF OnSDPReady
  <2>2. Turn(client, queue, conn)'
    BY <1>5, <1>6, <2>1 DEF Negotiating, OnSDPReady
  <2>3. client.state \notin Creating /\ queue = <<>> /\ client.http.op = "none"
    BY <1>1, <2>1 DEF Negotiating, Turn
  <2>4. CASE client' = client
    BY <2>1, <2>2, <2>3, <2>4
  <2>5. CASE Sends(client', client, venue, offer)
    <3>1. client'.offer = offer
      BY <2>5 DEF Sends
    <3>2. client'.http.op \in Creating => client'.http.arg = offer /\ client'.http.served = FALSE
      <4>1. CASE Opened(client')
        BY <3>1, <4>1 DEF Opened, Subject, NoRequest, Creating
      <4>2. CASE Waits(client', client)
        BY <2>3, <4>2 DEF Waits, Creating
      <4>3. QED BY <2>5, <4>1, <4>2 DEF Sends
    <3>3. Asked(client, queue, offer)'
      BY <2>1, <2>3, <3>1, <3>2 DEF Asked
    <3>4. QED BY <2>1, <2>2, <3>3
  <2>6. QED BY <1>1, <1>6, <2>4, <2>5, CreateFlowKeeps, CreateLinusConfluenceKeeps DEF OnSDPReady
<1>7. CASE Serve
  <2>1. /\ client' = Served(client, made + 1) /\ UNCHANGED <<queue, conn, offer, answered>>
    BY <1>7 DEF Serve
  <2>2. Negotiating => Turn(client, queue, conn)'
    BY <1>5, <1>7, <2>1 DEF Serve
  <2>3. /\ client'.state = client.state /\ client'.offer = client.offer
        /\ client'.http.op = client.http.op /\ client'.http.arg = client.http.arg
        /\ client'.remoteSDP = client.remoteSDP
        /\ client'.http.op \in Creating => client'.http.sdp = client'.http.arg
    <3>1. made + 1 \in Nat
      BY <1>1
    <3>2. Served(client, made + 1).http.op = client.http.op
          /\ Served(client, made + 1).state = client.state
      BY <1>1, <3>1, ServedOpens
    <3>3. /\ Same(client', client) /\ client'.http.arg = client.http.arg
          /\ client'.http.sdp = IF client.http.op \in Creating THEN client.http.arg ELSE Empty
      BY <1>1, <2>1, <3>1, ServedKeeps
    <3>4. QED BY <2>1, <3>2, <3>3 DEF Same
  <2>4. client'.state \in Creating => Asked(client, queue, offer)'
    BY <1>1, <2>1, <2>3 DEF Asked
  <2>5. QED BY <1>1, <2>1, <2>2, <2>4 DEF Negotiating
<1>8. CASE Reply
  <2>1. /\ client' = OnReceive(client) /\ client.http.served /\ queue' = Append(queue, "client")
        /\ UNCHANGED <<conn, offer, answered>>
    BY <1>8 DEF Reply
  <2>2. Negotiating => Turn(client, queue, conn)'
    BY <1>5, <1>8, <2>1 DEF Reply
  <2>3. client'.state \in Creating => client.state \in Creating /\ client'.state = client.state
    BY <1>1, <2>1, OnReceiveFacts DEF Inv, Creating
  <2>4. ASSUME client.state \in Creating PROVE Asked(client, queue, offer)'
    <3>1. Turn(client, queue, conn) /\ Asked(client, queue, offer)
      BY <1>1, <2>4 DEF Negotiating
    <3>2. client.http.op = client.state /\ client.authHttp = "none"
      BY <2>1, <3>1 DEF Turn
    <3>3. client.http.sdp = offer
      BY <2>1, <2>4, <3>1, <3>2 DEF Asked
    <3>4. client'.remoteSDP = offer /\ client'.offer = offer
      BY <1>1, <2>1, <2>4, <3>1, <3>2, <3>3, OnReceiveKeeps DEF Asked
    <3>5. client'.http = NoRequest
      BY <1>1, <2>1, <2>4, <3>2, OnReceiveOpens DEF Creating
    <3>6. QED BY <2>1, <3>4, <3>5 DEF Asked, NoRequest, Creating
  <2>5. QED BY <1>1, <2>1, <2>2, <2>3, <2>4 DEF Negotiating
<1>9. CASE ReplyWithoutBody
  <2>1. /\ client' = [client EXCEPT !.http = NoRequest] /\ UNCHANGED <<queue, conn, offer, answered>>
    BY <1>9 DEF ReplyWithoutBody
  <2>2. Negotiating => Turn(client, queue, conn)'
    BY <1>5, <1>9, <2>1 DEF ReplyWithoutBody
  <2>3. /\ client'.state = client.state /\ client'.offer = client.offer
        /\ client'.remoteSDP = client.remoteSDP /\ client'.http = NoRequest
    BY <1>1, <2>1 DEF GoodClient, ClientType
  <2>4. client'.state \in Creating => Asked(client, queue, offer)'
    BY <1>1, <2>1, <2>3 DEF Asked, NoRequest, Creating
  <2>5. QED BY <1>1, <2>1, <2>2, <2>4 DEF Negotiating
<1>10. CASE AuthReply
  <2>1. /\ client' = AuthOnReceive(client) /\ queue' \in {queue, Append(queue, "auth")}
        /\ client.authHttp # "none" /\ UNCHANGED <<conn, offer, answered>>
    BY <1>10 DEF AuthReply
  <2>2. Negotiating => Turn(client, queue, conn)'
    BY <1>5, <1>10, <2>1 DEF AuthReply
  <2>3. /\ client'.state = client.state /\ client'.offer = client.offer
        /\ client'.remoteSDP = client.remoteSDP /\ client'.http = client.http
    BY <1>1, <2>1, AuthOpens, AuthKeeps DEF Same
  <2>4. ASSUME client.state \in Creating PROVE Asked(client, queue, offer)'
    <3>1. Turn(client, queue, conn) /\ Asked(client, queue, offer)
      BY <1>1, <2>4 DEF Negotiating
    <3>2. queue' # <<"client">>
      BY <2>1, <3>1 DEF Turn
    <3>3. QED BY <2>1, <2>3, <3>1, <3>2 DEF Asked
  <2>5. QED BY <1>1, <2>1, <2>2, <2>3, <2>4 DEF Negotiating
<1>11. CASE FireClient
  <2>1. queue # <<>> /\ Head(queue) = "client" /\ queue' = Tail(queue)
    BY <1>11 DEF FireClient
  <2>2. Negotiating => Turn(client, queue, conn)'
    BY <1>5, <1>11 DEF FireClient
  <2> DEFINE d == OnEventFire(client)
  <2>3. d.state = "DONE" /\ RequestFloor(d).state = "REQUEST_FLOOR"
    <3>1. d \in GoodClient /\ d.state = "DONE"
      BY <1>1, OnEventFireFacts
    <3>2. QED BY <3>1, OwnStateFacts DEF RequestFloor
  <2>4. \/ client.state = "CREATE_VENUE" /\ client' = d /\ conn' = "offering"
        \/ /\ client.state \in Creating /\ client' \in {d, RequestFloor(d)} /\ conn' = "answered"
           /\ answered' = client.remoteSDP /\ offer' = offer
        \/ client' = d /\ UNCHANGED <<conn, answered, offer>>
    BY <1>11 DEF FireClient, OnVenue
  <2> HIDE DEF d
  <2>5. client'.state \notin Creating
    BY <2>3, <2>4 DEF Creating
  <2>6. CASE client.state = "CREATE_VENUE" /\ client' = d /\ conn' = "offering"
    BY <1>1, <2>2, <2>5, <2>6 DEF Negotiating
  <2>7. CASE /\ client.state \in Creating /\ conn' = "answered"
             /\ answered' = client.remoteSDP /\ offer' = offer
    <3>1. Turn(client, queue, conn) /\ Asked(client, queue, offer)
      BY <1>1, <2>7 DEF Negotiating
    <3>2. queue = <<"client">>
      BY <2>1, <2>7, <3>1 DEF Turn, Creating
    <3>3. QED BY <2>5, <2>7, <3>1, <3>2 DEF Asked, Negotiating
  <2>8. CASE client' = d /\ UNCHANGED <<conn, answered, offer>>
    BY <1>1, <2>2, <2>5, <2>8 DEF Negotiating
  <2>9. QED BY <2>4, <2>6, <2>7, <2>8
<1>12. CASE FireAuth
  <2>1. /\ queue # <<>> /\ Head(queue) = "auth" /\ queue' = Tail(queue)
        /\ client' = AuthOnEventFire(client) /\ UNCHANGED <<conn, offer, answered>>
    BY <1>12 DEF FireAuth
  <2>2. Negotiating => Turn(client, queue, conn)'
    BY <1>5, <1>12, <2>1 DEF FireAuth
  <2>3. /\ client'.state = client.state /\ Same(client', client)
        /\ Opened(client') \/ client'.http = client.http
    BY <1>1, <2>1, AuthOpens, AuthKeeps
  <2>4. ASSUME client.state \in Creating PROVE Asked(client, queue, offer)'
    <3>1. Turn(client, queue, conn) /\ Asked(client, queue, offer)
      BY <1>1, <2>4 DEF Negotiating
    <3>2. queue' = <<>> /\ client.http.op = "none"
      BY <2>1, <3>1 DEF Turn
    <3>3. client'.http.op \in Creating => client'.http.arg = offer /\ client'.http.served = FALSE
      <4>1. CASE Opened(client')
        BY <2>3, <3>1, <4>1 DEF Asked, Same, Opened, Subject, NoRequest, Creating
      <4>2. CASE client'.http = client.http
        BY <3>2, <4>2 DEF Creating
      <4>3. QED BY <2>3, <4>1, <4>2
    <3>4. QED BY <2>1, <2>3, <3>1, <3>2, <3>3 DEF Asked, Same
  <2>5. QED BY <1>1, <2>1, <2>2, <2>3, <2>4 DEF Negotiating
<1>13. CASE UNCHANGED vars
  BY <1>1, <1>13 DEF vars, Negotiating
<1>14. QED
  BY <1>2, <1>3, <1>4, <1>6, <1>7, <1>8, <1>9, <1>10, <1>11, <1>12, <1>13 DEF Next

(* The endpoint applies the answer to the offer of the present call, also if   *)
(* calls before it were stopped in the middle of their negotiation, as long    *)
(* as the user waits for what he stopped before he starts again.               *)
THEOREM AnswersAreFresh == Spec => []FreshAnswer
<1>1. Current => FreshAnswer
  BY DEF Current, FreshAnswer
<1>2. Spec => []Current
  BY InitCurrent, NextCurrent, InvAlways, PTL DEF Spec
<1>3. QED BY <1>1, <1>2, PTL

-----------------------------------------------------------------------------
(* The books.  Which confluences the venue of the present call can still have, *)
(* given what the client knows and what is under way: none before a create     *)
(* request is served, only the one the reply will name or the client knows     *)
(* after it, none again after its deletion is served.                          *)
Vacant(F, v) == \A f \in F : f.venue # v
Only(F, v, u) == \A f \in F : f.venue = v => f.url = u
Ready(V, F, v) == v \in V /\ Vacant(F, v)

(* URLs are new when they are issued, and no confluence has lost its venue. *)
Ledger == venues \subseteq 1..made /\ \A f \in flows : f.venue \in venues

(* Until an offer is out the client knows no confluence; the one it knows is  *)
(* the only one of its venue.                                                 *)
Known ==
  /\ conn \in {"none", "preview", "offering"} => client.confluenceUrl = Empty
  /\ client.confluenceUrl # Empty => Only(flows, client.venueUrl, client.confluenceUrl)

Fetches == client.authHttp # "none" \/ queue = <<"auth">>

(* A token is only fetched to create something. *)
Fetching == Fetches => client.state \in Creating \cup {"CREATE_VENUE"}

(* The venue on its way from the server to the endpoint is new. *)
VenueWay ==
  /\ conn = "offering" => Ready(venues, flows, venue)
  /\ client.state = "CREATE_VENUE" /\ queue = <<"client">> => Ready(venues, flows, client.venueUrl)
  /\ client.state = "CREATE_VENUE" /\ client.http.served => Ready(venues, flows, client.http.url)

(* The confluence on its way is the only one of its venue. *)
FlowWay == client.state \in Creating =>
  /\ client.venueUrl \in venues
  /\ Fetches => Vacant(flows, client.venueUrl) /\ client.confluenceUrl = Empty
  /\ client.http.op # "none" =>
       /\ client.http.venue = client.venueUrl /\ client.confluenceUrl = Empty
       /\ IF client.http.served THEN Only(flows, client.venueUrl, client.http.url)
                                ELSE Vacant(flows, client.venueUrl)

(* What is being deleted is the only confluence of the venue, and then the    *)
(* venue that has none.                                                       *)
Deletion ==
  /\ client.http.op = "DELETE_CONFLUENCE" =>
       IF client.http.served THEN Vacant(flows, client.venueUrl)
                             ELSE Only(flows, client.venueUrl, client.http.arg)
  /\ client.http.op = "CREATE_DELETE_VENUE" => Vacant(flows, client.http.arg)

Books == Ledger /\ Known /\ Fetching /\ VenueWay /\ FlowWay /\ Deletion

Kept == Calm({"start", "stop", "floor"}) /\ client.mode = "orpheus" => Books

LEMMA InitKept == Init => Kept
<1> SUFFICES ASSUME Init PROVE Books
  BY DEF Kept
<1>1. PICK mode \in Modes : client = NewClient(mode)
  BY PeerAssumption DEF Init
<1> USE QueueFacts
<1>2. Ledger /\ Known /\ Fetching
  BY <1>1 DEF Init, Ledger, Known, Fetching, Fetches, NewClient
<1>3. VenueWay /\ FlowWay /\ Deletion
  BY <1>1 DEF Init, VenueWay, FlowWay, Deletion, Creating, NewClient, NoRequest
<1>4. QED BY <1>2, <1>3 DEF Books

(* The server changes what it was asked to change. *)
LEMMA ServeKeepsBooks ==
  ASSUME Inv, Turn(client, queue, conn), Books, client.mode = "orpheus", Serve
  PROVE  Books'
<1> DEFINE h == client.http
           new == made + 1
<1>1. /\ client \in GoodClient /\ made \in Nat /\ new \in Nat /\ new \notin 1..made
      /\ venues \in SUBSET Nat /\ flows \in SUBSET [url : Nat, venue : Nat]
  BY InvGood DEF Inv, TypeOK
<1>2. /\ h.op = client.state /\ h.op # "none" /\ ~h.served /\ client.authHttp = "none"
      /\ queue = <<>> \/ (queue = <<"client">> /\ client.state = "CREATE_DELETE_VENUE")
      /\ conn # "offering" /\ UNCHANGED <<queue, conn, venue>>
      /\ client.state \in Creating => conn = "offered"
  BY DEF Serve, Turn, Inv, CallbackMeetsEndpoint
<1>3. /\ client'.http.op = h.op /\ client'.state = client.state /\ client'.authHttp = "none"
      /\ client'.mode = client.mode /\ client'.venueUrl = client.venueUrl
      /\ client'.confluenceUrl = client.confluenceUrl
      /\ client'.http.served = TRUE /\ client'.http.arg = h.arg /\ client'.http.venue = h.venue
      /\ client'.http.url = IF Issues(h) THEN new ELSE Empty
  <2>1. client' = Served(client, new)
    BY DEF Serve
  <2>2. Served(client, new).http.op = client.http.op /\ Served(client, new).authHttp = client.authHttp
        /\ Served(client, new).state = client.state
    BY <1>1, ServedOpens
  <2>3. /\ Same(Served(client, new), client) /\ Served(client, new).http.served = TRUE
        /\ Served(client, new).http.arg = h.arg /\ Served(client, new).http.venue = h.venue
        /\ Served(client, new).http.url = IF Issues(h) THEN new ELSE Empty
    BY <1>1, ServedKeeps
  <2>4. QED BY <1>2, <2>1, <2>2, <2>3 DEF Same
<1>4. /\ made' = IF Issues(h) THEN new ELSE made
      /\ venues' = VenuesAfter(h, new, venues) /\ flows' = FlowsAfter(h, new, flows)
  BY DEF Serve
<1>5. /\ venues \subseteq 1..made /\ \A f \in flows : f.venue \in venues
      /\ Known /\ FlowWay /\ Deletion
  BY DEF Books, Ledger
<1> HIDE DEF h
<1> USE QueueFacts
<1>6. ~Fetches' /\ Fetching' /\ conn' # "offering"
  BY <1>2, <1>3 DEF Fetching, Fetches
<1>7. CASE h.op = "CREATE_VENUE"
  <2>1. made' = new /\ venues' = venues \cup {new} /\ flows' = flows /\ client'.http.url = new
    BY <1>3, <1>4, <1>7 DEF Issues, VenuesAfter, FlowsAfter, Creating
  <2>2. Ledger'
    <3>1. venues' \subseteq 1..made'
      BY <1>1, <1>5, <2>1
    <3>2. \A f \in flows' : f.venue \in venues'
      BY <1>5, <2>1
    <3>3. QED BY <3>1, <3>2 DEF Ledger
  <2>3. Ready(venues', flows', new)
    BY <1>1, <1>5, <2>1 DEF Ready, Vacant
  <2>4. Known'
    BY <1>2, <1>3, <1>5, <2>1 DEF Known
  <2>5. VenueWay' /\ FlowWay' /\ Deletion'
    BY <1>2, <1>3, <1>6, <1>7, <2>1, <2>3 DEF VenueWay, FlowWay, Deletion, Creating
  <2>6. QED BY <1>6, <2>2, <2>4, <2>5 DEF Books
<1>8. CASE h.op \in Creating
  <2>1. /\ made' = new /\ venues' = venues /\ client'.http.url = new
        /\ flows' = flows \cup {[url |-> new, venue |-> h.venue]}
    BY <1>3, <1>4, <1>8 DEF Issues, VenuesAfter, FlowsAfter, Creating
  <2>2. /\ client.venueUrl \in venues /\ h.venue = client.venueUrl
        /\ client.confluenceUrl = Empty /\ Vacant(flows, client.venueUrl)
    BY <1>2, <1>5, <1>8 DEF FlowWay, h
  <2>3. Ledger'
    <3>1. venues' \subseteq 1..made'
      BY <1>1, <1>5, <2>1
    <3>2. \A f \in flows' : f.venue \in venues'
      BY <1>5, <2>1, <2>2
    <3>3. QED BY <3>1, <3>2 DEF Ledger
  <2>4. Only(flows', client.venueUrl, new)
    BY <2>1, <2>2 DEF Only, Vacant
  <2>5. Known' /\ VenueWay' /\ FlowWay' /\ Deletion'
    BY <1>2, <1>3, <1>6, <1>8, <2>1, <2>2, <2>4 DEF Known, VenueWay, FlowWay, Deletion, Creating
  <2>6. QED BY <1>6, <2>3, <2>5 DEF Books
<1>9. CASE h.op = "DELETE_CONFLUENCE"
  <2>1. made' = made /\ venues' = venues /\ flows' = {f \in flows : f.url # h.arg}
    BY <1>4, <1>9 DEF Issues, VenuesAfter, FlowsAfter, Creating
  <2>2. Only(flows, client.venueUrl, h.arg)
    BY <1>2, <1>5, <1>9 DEF Deletion, h
  <2>3. Vacant(flows', client.venueUrl)
    BY <2>1, <2>2 DEF Vacant, Only
  <2>4. Ledger'
    BY <1>5, <2>1 DEF Ledger
  <2>5. Known'
    <3>1. \A u : Only(flows', client.venueUrl, u)
      BY <2>3 DEF Only, Vacant
    <3>2. QED BY <1>2, <1>3, <1>5, <3>1 DEF Known
  <2>6. VenueWay' /\ FlowWay' /\ Deletion'
    BY <1>2, <1>3, <1>6, <1>9, <2>3 DEF VenueWay, FlowWay, Deletion, Creating
  <2>7. QED BY <1>6, <2>4, <2>5, <2>6 DEF Books
<1>10. CASE h.op = "CREATE_DELETE_VENUE"
  <2>1. made' = made /\ venues' = venues \ {h.arg} /\ flows' = flows
    BY <1>4, <1>10 DEF Issues, VenuesAfter, FlowsAfter, Creating
  <2>2. Vacant(flows, h.arg)
    BY <1>5, <1>10 DEF Deletion, h
  <2>3. Ledger'
    BY <1>5, <2>1, <2>2 DEF Ledger, Vacant
  <2>4. Known'
    BY <1>2, <1>3, <1>5, <2>1 DEF Known
  <2>5. VenueWay' /\ FlowWay' /\ Deletion'
    BY <1>2, <1>3, <1>6, <1>10, <2>1, <2>2 DEF VenueWay, FlowWay, Deletion, Creating
  <2>6. QED BY <1>6, <2>3, <2>4, <2>5 DEF Books
<1>11. CASE h.op \notin Creating \cup {"CREATE_VENUE", "DELETE_CONFLUENCE", "CREATE_DELETE_VENUE"}
  <2>1. made' = made /\ venues' = venues /\ flows' = flows
    BY <1>4, <1>11 DEF Issues, VenuesAfter, FlowsAfter, Creating
  <2>2. Ledger' /\ Known'
    BY <1>2, <1>3, <1>5, <2>1 DEF Ledger, Known
  <2>3. VenueWay' /\ FlowWay' /\ Deletion'
    BY <1>2, <1>3, <1>6, <1>11 DEF VenueWay, FlowWay, Deletion, Creating
  <2>4. QED BY <1>6, <2>2, <2>3 DEF Books
<1>12. QED BY <1>7, <1>8, <1>9, <1>10, <1>11

(* The reply tells the client what the server did. *)
LEMMA ReplyKeepsBooks ==
  ASSUME Inv, Turn(client, queue, conn), Books, client.mode = "orpheus", Reply
  PROVE  Books'
<1> DEFINE h == client.http
<1>1. /\ client \in GoodClient /\ h.served /\ h.op = client.state /\ client.authHttp = "none"
      /\ conn # "offering" /\ UNCHANGED <<conn, venue, venues, flows, made>>
      /\ queue = <<>> \/ (queue = <<"client">> /\ client.state = "CREATE_DELETE_VENUE")
      /\ client' = OnReceive(client) /\ queue' = Append(queue, "client")
      /\ client.state = "CREATE_VENUE" => conn = "preview"
      /\ client.state \in Creating => conn = "offered"
  BY InvGood DEF Reply, Turn, Inv, CallbackMeetsEndpoint
<1> USE QueueFacts
<1>2. queue' # <<"auth">> /\ (queue' = <<"client">> \/ client.state = "CREATE_DELETE_VENUE")
  BY <1>1
<1>3. /\ client'.venueUrl = IF client.state = "CREATE_VENUE" THEN h.url ELSE client.venueUrl
      /\ client'.confluenceUrl = IF client.state \in Creating THEN h.url ELSE client.confluenceUrl
      /\ Opened(client')
  BY <1>1, OnReceiveKeeps
<1>4. \/ /\ client.state = "DELETE_CONFLUENCE" /\ client'.state = "CREATE_DELETE_VENUE"
         /\ client'.http.served = FALSE /\ client'.authHttp = "none"
         /\ client'.http.op \in {"none", "CREATE_DELETE_VENUE"}
      \/ client'.state = client.state /\ client'.http = NoRequest /\ client'.authHttp = "none"
  BY <1>1, OnReceiveOpens DEF Fresh, GoodClient, ClientType, HttpType
<1>5. Ledger' /\ Known /\ VenueWay /\ FlowWay /\ Deletion
  BY <1>1 DEF Books, Ledger
<1>6. ~Fetches' /\ Fetching'
  BY <1>2, <1>4 DEF Fetching, Fetches
<1>7. CASE client.state = "CREATE_VENUE"
  <2>1. Ready(venues, flows, h.url) /\ client.confluenceUrl = Empty
    BY <1>1, <1>5, <1>7 DEF VenueWay, Known
  <2>2. client'.state = "CREATE_VENUE" /\ client'.http = NoRequest
        /\ client'.venueUrl = h.url /\ client'.confluenceUrl = Empty
    BY <1>3, <1>4, <1>7, <2>1 DEF Creating
  <2>3. Known' /\ VenueWay' /\ FlowWay' /\ Deletion'
    BY <1>1, <2>1, <2>2 DEF Known, VenueWay, FlowWay, Deletion, Creating, NoRequest
  <2>4. QED BY <1>5, <1>6, <2>3 DEF Books
<1>8. CASE client.state \in Creating
  <2>1. client.venueUrl \in venues /\ Only(flows, client.venueUrl, h.url)
    <3>1. h.op # "none"
      BY <1>1, <1>8 DEF Creating
    <3>2. QED BY <1>1, <1>5, <1>8, <3>1 DEF FlowWay
  <2>2. client'.state = client.state /\ client'.http = NoRequest
        /\ client'.venueUrl = client.venueUrl /\ client'.confluenceUrl = h.url
    BY <1>3, <1>4, <1>8 DEF Creating
  <2>3. Known' /\ VenueWay' /\ FlowWay' /\ Deletion'
    BY <1>1, <1>6, <1>8, <2>1, <2>2 DEF Known, VenueWay, FlowWay, Deletion, Creating, NoRequest
  <2>4. QED BY <1>5, <1>6, <2>3 DEF Books
<1>9. CASE client.state \notin Creating \cup {"CREATE_VENUE"}
  <2>1. /\ client'.venueUrl = client.venueUrl /\ client'.confluenceUrl = client.confluenceUrl
        /\ client'.state \notin Creating \cup {"CREATE_VENUE"}
    BY <1>3, <1>4, <1>9 DEF Creating
  <2>2. Known' /\ VenueWay' /\ FlowWay'
    BY <1>1, <1>5, <2>1 DEF Known, VenueWay, FlowWay
  <2>3. Deletion'
    <3>1. CASE client'.http = NoRequest
      BY <3>1 DEF Deletion, NoRequest
    <3>2. CASE /\ client.state = "DELETE_CONFLUENCE" /\ client'.state = "CREATE_DELETE_VENUE"
               /\ client'.http.op = "CREATE_DELETE_VENUE"
      <4>1. client'.http.arg = client'.venueUrl
        BY <1>3, <3>2 DEF Opened, NoRequest, Subject, Creating
      <4>2. Vacant(flows, client.venueUrl)
        BY <1>1, <1>5, <3>2 DEF Deletion
      <4>3. QED BY <1>1, <2>1, <3>2, <4>1, <4>2 DEF Deletion
    <3>3. CASE client'.http.op = "none"
      BY <3>3 DEF Deletion
    <3>4. QED BY <1>4, <3>1, <3>2, <3>3
  <2>4. QED BY <1>5, <1>6, <2>2, <2>3 DEF Books
<1>10. QED BY <1>7, <1>8, <1>9

LEMMA NextKept == Inv /\ TakesTurns /\ Kept /\ [Next]_vars => Kept'
<1> SUFFICES ASSUME Inv, TakesTurns, Kept, [Next]_vars, Calm({"start", "stop", "floor"})',
                    client'.mode = "orpheus"
             PROVE  Books'
  BY DEF Kept
<1>1. /\ Calm({"start", "stop", "floor"}) /\ Calm({"start", "floor"})' /\ client \in GoodClient
      /\ Turn(client, queue, conn)
      /\ client \in ClientType /\ made \in Nat /\ offer \in Nat /\ venue \in Nat
      /\ ~active => conn = "none"
      /\ client.state = "CREATE_VENUE" => conn = "preview"
      /\ client.state \in Creating => conn = "offered"
  BY UpsetFacts, InvGood DEF Calm, Inv, TypeOK, TakesTurns, CallbackMeetsEndpoint
<1>2. ASSUME client.mode = "orpheus"
      PROVE  Books /\ Ledger /\ Known /\ Fetching /\ VenueWay /\ FlowWay /\ Deletion
  BY <1>1, <1>2 DEF Kept, Books
<1>3. Start \/ Stop \/ Floor => Quiet
  BY <1>1, UpsetFacts
<1> USE QueueFacts
<1>4. CASE Start
  <2>1. client.http = NoRequest /\ client.authHttp = "none" /\ queue' = <<>> /\ conn = "none"
        /\ UNCHANGED <<venues, flows>>
    BY <1>1, <1>3, <1>4 DEF Quiet, Start
  <2>2. client.mode = "orpheus"
    BY <1>4 DEF Start
  <2>3. /\ client' = CreateVenue(client) /\ conn' = "preview" /\ UNCHANGED made
    BY <1>4, <2>2 DEF Start
  <2>4. client'.state = "CREATE_VENUE" /\ client'.http = NoRequest /\ Same(client', client)
    BY <1>1, <2>1, <2>3, CreateVenueFacts, CreateOpens, CreateVenueKeeps DEF Inv, Waits
  <2>5. Ledger' /\ Known' /\ Fetching'
    BY <1>2, <2>1, <2>2, <2>3, <2>4 DEF Ledger, Known, Fetching, Same
  <2>6. VenueWay' /\ FlowWay' /\ Deletion'
    BY <2>1, <2>3, <2>4 DEF VenueWay, FlowWay, Deletion, Creating, NoRequest
  <2>7. QED BY <2>5, <2>6 DEF Books
<1>5. CASE Stop
  <2>1. client.http = NoRequest /\ client.authHttp = "none" /\ queue' = <<>> /\ conn' = "none"
        /\ client' = DeleteConfluence(client, TRUE) /\ UNCHANGED <<venues, flows, made>>
    BY <1>3, <1>5 DEF Quiet, Stop
  <2>2. /\ client'.mode = client.mode /\ client'.venueUrl = client.venueUrl
        /\ client'.confluenceUrl = Empty /\ client'.authHttp = "none"
        /\ client'.state = "DELETE_CONFLUENCE"
        /\ \/ client'.http = NoRequest
           \/ /\ client'.http.op = "DELETE_CONFLUENCE" /\ client'.http.served = FALSE
              /\ client'.http.arg = client.confluenceUrl /\ client.confluenceUrl # Empty
    BY <1>1, <2>1, DeleteConfluenceKeeps
  <2>3. Ledger' /\ Known' /\ Fetching'
    BY <1>2, <2>1, <2>2 DEF Ledger, Known, Fetching, Fetches
  <2>4. VenueWay' /\ FlowWay'
    BY <2>1, <2>2 DEF VenueWay, FlowWay, Creating
  <2>5. Deletion'
    BY <1>2, <2>1, <2>2 DEF Known, Deletion, NoRequest
  <2>6. QED BY <2>3, <2>4, <2>5 DEF Books
<1>6. CASE Floor
  <2>1. /\ queue' = <<>> /\ conn # "offering" /\ UNCHANGED <<conn, venues, flows, made>>
        /\ client' \in {RequestFloor(client), ReleaseFloor(client)}
    BY <1>3, <1>6 DEF Quiet, Floor
  <2>2. /\ client'.state \in {"REQUEST_FLOOR", "RELEASE_FLOOR"}
        /\ Same(client', client) /\ Opened(client')
    BY <1>1, <2>1, OwnStateFacts, FloorKeeps DEF RequestFloor, ReleaseFloor
  <2>3. Ledger' /\ Known' /\ Fetching'
    BY <1>2, <2>1, <2>2 DEF Ledger, Known, Fetching, Fetches, Same, Opened
  <2>4. VenueWay' /\ FlowWay' /\ Deletion'
    BY <2>1, <2>2 DEF VenueWay, FlowWay, Deletion, Creating, Opened, NoRequest
  <2>5. QED BY <2>3, <2>4 DEF Books
<1>7. CASE OnSDPReady
  <2>1. /\ conn = "offering" /\ conn' = "offered" /\ UNCHANGED <<queue, venue, venues, flows, made>>
        /\ client.http.op = "none" /\ client.authHttp = "none" /\ queue = <<>>
    BY <1>1, <1>7 DEF OnSDPReady, Turn
  <2>2. client'.mode = client.mode
    <3>1. CASE venue = Empty
      BY <1>7, <3>1 DEF OnSDPReady
    <3>2. CASE venue # Empty
      BY <1>1, <1>7, <3>2, CreateFlowKeeps, CreateLinusConfluenceKeeps DEF OnSDPReady, Sends
    <3>3. QED BY <3>1, <3>2
  <2>3. Ready(venues, flows, venue) /\ client.confluenceUrl = Empty
    BY <1>2, <2>1, <2>2 DEF VenueWay, Known
  <2>4. venue # Empty
    BY <1>1, <1>2, <2>2, <2>3 DEF Ledger, Ready, Empty
  <2>5. client' = CreateFlow(client, venue, offer)
    BY <1>7, <2>2, <2>4 DEF OnSDPReady
  <2>6. client'.state = "CREATE_FLOW" /\ Sends(client', client, venue, offer)
    BY <1>1, <2>4, <2>5, CreateFlowFacts, CreateFlowKeeps DEF Inv
  <2>7. /\ client'.venueUrl = venue /\ client'.confluenceUrl = Empty
        /\ \/ client'.http.op = "none"
           \/ /\ client'.http.op = "CREATE_FLOW" /\ client'.http.venue = venue
              /\ client'.http.served = FALSE
    BY <2>1, <2>3, <2>6 DEF Sends, Opened, Waits, NoRequest
  <2>8. Ledger' /\ Known' /\ Fetching'
    BY <1>2, <2>1, <2>2, <2>6, <2>7 DEF Ledger, Known, Fetching, Creating
  <2>9. VenueWay' /\ FlowWay' /\ Deletion'
    BY <2>1, <2>3, <2>6, <2>7 DEF VenueWay, FlowWay, Deletion, Ready
  <2>10. QED BY <2>8, <2>9 DEF Books
<1>8. CASE Serve
  <2>1. client'.mode = client.mode
    <3>1. made + 1 \in Nat
      BY <1>1
    <3>2. QED BY <1>1, <1>8, <3>1, ServedKeeps DEF Serve, Same
  <2>2. QED BY <1>1, <1>2, <1>8, <2>1, ServeKeepsBooks
<1>9. CASE Reply
  <2>1. client'.mode = client.mode
    <3>1. client.authHttp = "none" /\ client' = OnReceive(client)
      BY <1>1, <1>9 DEF Turn, Reply
    <3>2. QED BY <1>1, <3>1, OnReceiveKeeps
  <2>2. QED BY <1>1, <1>2, <1>9, <2>1, ReplyKeepsBooks
<1>10. CASE ReplyWithoutBody
  <2>1. /\ Same(client', client) /\ client'.state = client.state /\ client'.http = NoRequest
        /\ client'.authHttp = client.authHttp /\ UNCHANGED <<queue, conn, venue, venues, flows, made>>
    BY <1>1, <1>10 DEF ReplyWithoutBody, Same, GoodClient, ClientType
  <2>2. Ledger' /\ Known' /\ Fetching'
    BY <1>2, <2>1 DEF Ledger, Known, Fetching, Fetches, Same
  <2>3. VenueWay' /\ FlowWay' /\ Deletion'
    BY <1>2, <2>1 DEF VenueWay, FlowWay, Deletion, Fetches, Same, NoRequest
  <2>4. QED BY <2>2, <2>3 DEF Books
<1>11. CASE AuthReply
  <2>1. /\ client.authHttp # "none" /\ queue = <<>> /\ queue' \in {<<>>, <<"auth">>}
        /\ client.http.op = "none" /\ ~client.http.served
        /\ UNCHANGED <<conn, venue, venues, flows, made>>
    BY <1>1, <1>11 DEF AuthReply, Turn
  <2>2. Same(client', client) /\ client'.state = client.state /\ client'.http = client.http
    BY <1>1, <1>11, AuthOpens, AuthKeeps DEF AuthReply
  <2>3. Ledger' /\ Known' /\ Fetching'
    BY <1>2, <2>1, <2>2 DEF Ledger, Known, Fetching, Fetches, Same
  <2>4. VenueWay' /\ FlowWay' /\ Deletion'
    BY <1>2, <2>1, <2>2 DEF VenueWay, FlowWay, Deletion, Fetches, Same
  <2>5. QED BY <2>3, <2>4 DEF Books
<1>12. CASE FireClient
  <2>1. /\ queue # <<>> /\ Head(queue) = "client" /\ queue' = Tail(queue)
        /\ UNCHANGED <<venues, flows, made>>
    BY <1>12 DEF FireClient
  <2>2. /\ queue' = <<>> \/ (queue' = <<"client">> /\ client.state = "CREATE_DELETE_VENUE")
        /\ client.state # "CREATE_DELETE_VENUE" => queue = <<"client">>
        /\ conn # "offering"
    BY <1>1, <2>1 DEF Turn
  <2> DEFINE d == OnEventFire(client)
  <2>3. /\ d \in GoodClient /\ d.state = "DONE" /\ d.http = NoRequest /\ d.authHttp = "none"
        /\ Same(d, client)
    BY <1>1, EventOpens, OnEventFireKeeps
  <2>4. RequestFloor(d).state = "REQUEST_FLOOR" /\ Same(RequestFloor(d), d) /\ Opened(RequestFloor(d))
    BY <2>3, OwnStateFacts, FloorKeeps DEF RequestFloor
  <2>5. \/ client.state = "CREATE_VENUE" /\ client' = d /\ conn' = "offering" /\ venue' = client.venueUrl
        \/ client.state \in Creating /\ client' \in {d, RequestFloor(d)} /\ conn' = "answered"
        \/ client' = d /\ UNCHANGED <<conn, venue>>
    BY <1>12 DEF FireClient, OnVenue
  <2> HIDE DEF d
  <2>6. /\ Same(client', client) /\ client'.state \in {"DONE", "REQUEST_FLOOR"}
        /\ client'.authHttp = "none"
        /\ client'.http = NoRequest \/ client'.http.op = "REQUEST_FLOOR"
    BY <2>3, <2>4, <2>5 DEF Same, Opened
  <2>7. Ledger' /\ Fetching'
    BY <1>2, <2>1, <2>2, <2>6 DEF Ledger, Fetching, Fetches, Same
  <2>8. FlowWay' /\ Deletion'
    BY <2>6 DEF FlowWay, Deletion, Creating, NoRequest
  <2>9. CASE client.state = "CREATE_VENUE" /\ conn' = "offering" /\ venue' = client.venueUrl
    <3>1. Ready(venues, flows, client.venueUrl) /\ client.confluenceUrl = Empty
      BY <1>1, <1>2, <2>2, <2>6, <2>9 DEF VenueWay, Known, Same
    <3>2. Known' /\ VenueWay'
      BY <2>1, <2>6, <2>9, <3>1 DEF Known, VenueWay, Same
    <3>3. QED BY <2>7, <2>8, <3>2 DEF Books
  <2>10. CASE conn' = "answered" \/ UNCHANGED <<conn, venue>>
    <3>1. Known'
      BY <1>2, <2>1, <2>6, <2>10 DEF Known, Same
    <3>2. VenueWay'
      BY <2>2, <2>6, <2>10 DEF VenueWay
    <3>3. QED BY <2>7, <2>8, <3>1, <3>2 DEF Books
  <2>11. QED BY <2>5, <2>9, <2>10
<1>13. CASE FireAuth
  <2>1. /\ queue = <<"auth">> /\ queue' = <<>> /\ client.http.op = "none" /\ ~client.http.served
        /\ UNCHANGED <<conn, venue, venues, flows, made>>
    BY <1>1, <1>13 DEF FireAuth, Turn
  <2>2. /\ client'.state = client.state /\ Same(client', client)
        /\ Opened(client') \/ client'.http = client.http
    BY <1>1, <1>13, AuthOpens, AuthKeeps DEF FireAuth
  <2>3. client.state \in Creating \cup {"CREATE_VENUE"}
    BY <1>2, <2>1, <2>2 DEF Fetching, Fetches, Same
  <2>4. \/ client'.http.op = "none" /\ ~client'.http.served
        \/ /\ client'.http.op = client.state /\ client'.http.venue = client.venueUrl
           /\ client'.http.served = FALSE
    BY <2>1, <2>2 DEF Opened, Same, NoRequest
  <2>5. Ledger' /\ Known' /\ Fetching'
    BY <1>2, <2>1, <2>2, <2>3 DEF Ledger, Known, Fetching, Same
  <2>6. VenueWay' /\ FlowWay' /\ Deletion'
    <3>1. VenueWay'
      BY <1>2, <2>1, <2>2, <2>4 DEF VenueWay, Same
    <3>2. FlowWay'
      BY <1>2, <2>1, <2>2, <2>4 DEF FlowWay, Fetches, Same
    <3>3. Deletion'
      BY <2>3, <2>4 DEF Deletion, Creating
    <3>4. QED BY <3>1, <3>2, <3>3
  <2>7. QED BY <2>5, <2>6 DEF Books
<1>14. CASE UNCHANGED vars
  <2>1. Books
    BY <1>2, <1>14 DEF vars
  <2>2. QED BY <1>14, <2>1 DEF vars, Books, Ledger, Known, Fetching, Fetches, VenueWay, FlowWay, Deletion
<1>15. QED
  BY <1>4, <1>5, <1>6, <1>7, <1>8, <1>9, <1>10, <1>11, <1>12, <1>13, <1>14 DEF Next

(* Orpheus deletes a venue only when its confluence is gone, if the user waits *)
(* for one operation before the next, whatever replies are lost: stopPeer asks *)
(* for the confluence first, and its reply is what asks for the venue.         *)
THEOREM TeardownInOrder == Spec => []TeardownOrder
<1>1. Kept => TeardownOrder
  BY DEF Kept, Books, Ledger, TeardownOrder
<1>2. Spec => []TakesTurns
  <2>1. Init => TakesTurns
    BY InitTurns
  <2>2. Inv /\ TakesTurns /\ [Next]_vars => TakesTurns'
    BY NextTurns
  <2>3. QED BY <2>1, <2>2, InvAlways, PTL DEF Spec
<1>3. Spec => []Kept
  BY <1>2, InitKept, NextKept, InvAlways, PTL DEF Spec
<1>4. QED BY <1>1, <1>3, PTL
=============================================================================
