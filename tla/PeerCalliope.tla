---------------------------- MODULE PeerCalliope ----------------------------
(***************************************************************************)
(* A calliope call of PeerCall without signalling (TestConfig.m_bNoSignal): *)
(* the user starts and stops the call, PeerCall drives its COrpheusClient   *)
(* and its Endpoint, the network answers, and the main thread fires the     *)
(* events the answers posted.  Each handler runs to its end as one step;    *)
(* the steps of the user, of the media engine, of the network and of the    *)
(* main thread interleave.                                                  *)
(***************************************************************************)
EXTENDS OrpheusClient, FiniteSets

CONSTANTS
  ModesUsed,   (* the modes a run starts the client in                           *)
  AutoFloor,   (* TestConfig: sharer, appshare and m_bAutoRequestFloor           *)
  HttpMayFail, (* a reply without a body may come instead of an answer           *)
  MaxStarts,   (* bound: how often the user starts a call                        *)
  MaxFloors    (* bound: how often the user requests or releases the floor       *)

ASSUME PeerAssumption ==
  /\ ModesUsed \subseteq Modes
  /\ AutoFloor \in BOOLEAN /\ HttpMayFail \in BOOLEAN
  /\ MaxStarts \in Nat /\ MaxFloors \in Nat

VARIABLES
  client,     (* PeerCall::m_linusCall                                            *)
  queue,      (* events posted to the main thread, oldest first                   *)
  active,     (* PeerCall::m_bActive                                              *)
  conn,       (* what m_endCaller's media connection has negotiated               *)
  venue,      (* PeerCall::m_sVenueUrl                                            *)
  offer,      (* the SDP offer of the current call; offers are numbered           *)
  answered,   (* the offer whose answer the endpoint received last                *)
  made,       (* how many URLs and venue UUIDs were issued so far                 *)
  venues,     (* Orpheus: the venues that exist                                   *)
  flows,      (* Orpheus/Linus: the confluences that exist, with their venue      *)
  upset,      (* what disturbed the call so far: a hasty act of the user, a lost reply *)
  starts, floors

vars == <<client, queue, active, conn, venue, offer, answered, made, venues, flows, upset, starts, floors>>

(* none: m_pMediaConn is NULL; offering: CreateOffer was called, OnSDPReady   *)
(* has not come back yet.                                                     *)
Conns == {"none", "preview", "offering", "offered", "answered"}

TypeOK ==
  /\ client \in ClientType
  /\ client.authHttp \in {"none", client.authState}
  /\ queue \in Seq({"client", "auth"})
  /\ active \in BOOLEAN
  /\ conn \in Conns
  /\ venue \in Nat /\ offer \in Nat /\ answered \in Nat /\ made \in Nat
  /\ venues \in SUBSET Nat
  /\ flows \in SUBSET [url : Nat, venue : Nat]
  /\ upset \subseteq {"start", "stop", "floor", "loss"}
  /\ starts \in Nat /\ floors \in Nat

Init ==
  /\ \E mode \in ModesUsed : client = NewClient(mode)
  /\ queue = <<>>
  /\ active = FALSE
  /\ conn = "none"
  /\ venue = Empty /\ offer = Empty /\ answered = Empty /\ made = 0
  /\ venues = {} /\ flows = {}
  /\ upset = {} /\ starts = 0 /\ floors = 0

-----------------------------------------------------------------------------
(* Nothing the user started is still under way. *)
Quiet == /\ client.http = NoRequest /\ client.authHttp = "none" /\ queue = <<>>
         /\ conn # "offering"

(* What the user does while something is under way upsets the call. *)
Upsets(what) == upset' = IF Quiet THEN upset ELSE upset \cup {what}

(* PeerCall::OnVenue: startCall makes the connection create its next offer. *)
OnVenue(url) == /\ venue' = url
                /\ conn' = "offering"
                /\ offer' = offer + 1

(* startPeer previews, connect creates the venue: through the client, or on  *)
(* the spot with a fresh UUID when a Linus address is set.                    *)
Start ==
  /\ ~active /\ starts < MaxStarts
  /\ Upsets("start")
  /\ active' = TRUE
  /\ starts' = starts + 1
  /\ IF client.mode # "orpheus"
     THEN OnVenue(made + 1) /\ made' = made + 1 /\ UNCHANGED client
     ELSE /\ conn' = "preview"
          /\ client' = CreateVenue(client)
          /\ UNCHANGED <<venue, offer, made>>
  /\ UNCHANGED <<queue, answered, venues, flows, floors>>

(* stopPeer: stopCall releases the connection; without m_ws the venue is to  *)
(* be deleted too.  m_sVenueUrl stays.                                        *)
Stop ==
  /\ active
  /\ Upsets("stop")
  /\ active' = FALSE
  /\ conn' = "none"
  /\ client' = DeleteConfluence(client, TRUE)
  /\ UNCHANGED <<queue, venue, offer, answered, made, venues, flows, starts, floors>>

(* requestFloor and releaseFloor, from the user interface or the backdoor, at *)
(* any moment; a floor URL no reply has named yet is a request like another.  *)
Floor ==
  /\ floors < MaxFloors
  /\ Upsets("floor")
  /\ floors' = floors + 1
  /\ client' \in {RequestFloor(client), ReleaseFloor(client)}
  /\ UNCHANGED <<queue, active, conn, venue, offer, answered, made, venues, flows, starts>>

(* OnSDPReady, handed to PeerCall::onEvent: the confluence is created with it. *)
OnSDPReady ==
  /\ conn = "offering"
  /\ conn' = "offered"
  /\ client' = IF venue = Empty THEN client
               ELSE IF client.mode # "orpheus" THEN CreateLinusConfluence(client, venue, offer)
               ELSE CreateFlow(client, venue, offer)
  /\ UNCHANGED <<queue, active, venue, offer, answered, made, venues, flows, upset, starts, floors>>

-----------------------------------------------------------------------------
(* The server acts on the request that is open and fixes the reply.          *)
Serve ==
  /\ client.http.op # "none" /\ ~client.http.served
  /\ client' = Served(client, made + 1)
  /\ made' = IF Issues(client.http) THEN made + 1 ELSE made
  /\ venues' = VenuesAfter(client.http, made + 1, venues)
  /\ flows' = FlowsAfter(client.http, made + 1, flows)
  /\ UNCHANGED <<queue, active, conn, venue, offer, answered, upset, starts, floors>>

(* OnReceive with a body: interpreted, and the client posted to the main thread. *)
Reply ==
  /\ client.http.served
  /\ client' = OnReceive(client)
  /\ queue' = Append(queue, "client")
  /\ UNCHANGED <<active, conn, venue, offer, answered, made, venues, flows, upset, starts, floors>>

(* OnReceive without a body returns at once: no event will come. *)
ReplyWithoutBody ==
  /\ HttpMayFail /\ client.http.op # "none"
  /\ client' = [client EXCEPT !.http = NoRequest]
  /\ upset' = upset \cup {"loss"}
  /\ UNCHANGED <<queue, active, conn, venue, offer, answered, made, venues, flows, starts, floors>>

AuthReply ==
  /\ client.authHttp # "none"
  /\ client' = AuthOnReceive(client)
  /\ queue' = IF AuthPosts(client) THEN Append(queue, "auth") ELSE queue
  /\ UNCHANGED <<active, conn, venue, offer, answered, made, venues, flows, upset, starts, floors>>

(* COrpheusClient::OnEventFire and the sink callback of the state it fires in. *)
FireClient ==
  /\ queue # <<>> /\ Head(queue) = "client"
  /\ queue' = Tail(queue)
  /\ LET d == OnEventFire(client) IN
     \/ /\ client.state = "CREATE_VENUE"
        /\ client' = d
        /\ OnVenue(client.venueUrl)
        /\ UNCHANGED answered
     \/ /\ client.state \in Creating
        /\ client' = IF AutoFloor THEN RequestFloor(d) ELSE d
        /\ conn' = "answered"
        /\ answered' = client.remoteSDP
        /\ UNCHANGED <<venue, offer>>
     \/ /\ client.state \notin Creating \cup {"CREATE_VENUE"}
        /\ client' = d
        /\ UNCHANGED <<conn, answered, venue, offer>>
  /\ UNCHANGED <<active, made, venues, flows, upset, starts, floors>>

FireAuth ==
  /\ queue # <<>> /\ Head(queue) = "auth"
  /\ queue' = Tail(queue)
  /\ client' = AuthOnEventFire(client)
  /\ UNCHANGED <<active, conn, venue, offer, answered, made, venues, flows, upset, starts, floors>>

Next == Start \/ Stop \/ Floor \/ OnSDPReady \/ Serve \/ Reply \/ ReplyWithoutBody
        \/ AuthReply \/ FireClient \/ FireAuth

(* The engine, the network and the main thread keep going; the user need not. *)
Fairness == /\ WF_vars(OnSDPReady) /\ WF_vars(Serve) /\ WF_vars(Reply)
            /\ WF_vars(AuthReply) /\ WF_vars(FireClient) /\ WF_vars(FireAuth)

Spec == Init /\ [][Next]_vars
FairSpec == Spec /\ Fairness
-----------------------------------------------------------------------------
(* A callback of the client always meets the endpoint it is for: OnVenue only *)
(* while a preview waits for it, OnFlowParameters only while an offer is out. *)
(* Endpoint::startCall and answerReceived use m_pMediaConn without a check,   *)
(* and nothing but m_state keeps a late reply of a stopped call away.         *)
CallbackMeetsEndpoint ==
  /\ client.state = "CREATE_VENUE" => conn = "preview"
  /\ client.state \in Creating => conn = "offered"

(* Orpheus is never asked to create anything without a token, whatever the    *)
(* user does while the two token requests and their events are under way.     *)
AuthorizedRequests ==
  client.http.op \in {"CREATE_VENUE", "CREATE_FLOW"} => client.auth

(* calliope_client.cpp:324,333 assert that the reply stored for a confluence  *)
(* carries an SDP: it does if the reply is the one of a create request.       *)
AnswerHasSdp == client.remoteSDP # Empty

Calm(whats) == upset \cap whats = {}

(* A reply is read by the code of the request it answers, as long as the user *)
(* waits for one operation to be over before the next.                        *)
ReplyMatchesState == Calm({"start", "stop", "floor"}) => client.http.op \in {"none", client.state}

(* The endpoint never applies the answer to another call's offer: enough for  *)
(* that is that a call is started only after the last one has settled.        *)
FreshAnswer == Calm({"start", "floor"}) => (conn = "answered" => answered = offer)

(* A venue is deleted only when no confluence is left in it.                  *)
TeardownOrder ==
  Calm({"start", "stop", "floor"}) => \A f \in flows : client.mode # "orpheus" \/ f.venue \in venues

(* A stopped call leaves no confluence behind on the server.                  *)
ConfluenceReleased == ~active ~> (active \/ flows = {} \/ upset # {})
=============================================================================
