------------------------------ MODULE Loopback ------------------------------
(***************************************************************************)
(* A loopback call (LoopbackCall): one process is both ends of the call.    *)
(* Over calliope each endpoint has a COrpheusClient of its own, the two     *)
(* meet only in the venue and in the one queue of the main thread; without  *)
(* calliope the endpoints hand each other their SDP directly.               *)
(***************************************************************************)
EXTENDS OrpheusClient

CONSTANTS
  ModesUsed,   (* the modes a run starts the clients in                          *)
  DirectUsed,  (* the values of ~TestConfig.m_bCalliope a run starts with        *)
  AutoFloor,   (* TestConfig: appshare and m_bAutoRequestFloor                   *)
  MaxActs      (* bound: how often the user starts or stops a call, or requests  *)
               (* or releases the floor                                          *)

ASSUME LoopbackAssumption ==
  /\ ModesUsed \subseteq Modes
  /\ DirectUsed \subseteq BOOLEAN /\ AutoFloor \in BOOLEAN
  /\ MaxActs \in Nat

VARIABLES
  direct,     (* ~TestConfig.m_bCalliope                                          *)
  client,     (* m_linusCaller and m_linusCallee                                  *)
  queue,      (* events posted to the main thread: whose client, which object     *)
  active,     (* the user started the call and has not stopped it                 *)
  conn,       (* what the media connection of each endpoint has negotiated; the   *)
              (* callee is deleted, m_endCallee NULL, exactly when it has none    *)
  venue,      (* LoopbackCall::m_sVenueUrl                                        *)
  offer,      (* the offer each endpoint made last, numbered by calls             *)
  answered,   (* the offer whose answer each endpoint received last               *)
  made,       (* how many URLs were issued to each client so far                  *)
  venues,     (* Orpheus: the venues that exist                                   *)
  flows,      (* the confluences that exist, by the client that created them      *)
  upset,      (* what the user did while something was still under way            *)
  starts,     (* how often the user started a call                                *)
  acts        (* how often the user did anything                                  *)

vars == <<direct, client, queue, active, conn, venue, offer, answered, made, venues, flows,
          upset, starts, acts>>

Sides == {"caller", "callee"}

Conns == {"none", "preview", "offering", "offered", "answering", "answered"}

TypeOK ==
  /\ direct \in BOOLEAN
  /\ client \in [Sides -> ClientType]
  /\ \A s \in Sides : client[s].authHttp \in {"none", client[s].authState}
  /\ queue \in Seq(Sides \X {"client", "auth"})
  /\ active = (conn["caller"] # "none") /\ active = (conn["callee"] # "none")
  /\ conn \in [Sides -> Conns]
  /\ venue \in Nat /\ made \in [Sides -> Nat]
  /\ offer \in [Sides -> Nat] /\ answered \in [Sides -> Nat]
  /\ venues \subseteq Nat
  /\ flows \in [Sides -> SUBSET [url : Nat, venue : Nat]]
  /\ upset \subseteq {"start", "stop", "floor"}
  /\ starts \in Nat /\ acts \in Nat

Init ==
  /\ direct \in DirectUsed
  /\ \E mode \in ModesUsed : client = [s \in Sides |-> NewClient(mode)]
  /\ queue = <<>>
  /\ active = FALSE
  /\ conn = [s \in Sides |-> "none"]
  /\ venue = Empty /\ made = [s \in Sides |-> 0]
  /\ offer = [s \in Sides |-> Empty] /\ answered = [s \in Sides |-> Empty]
  /\ venues = {} /\ flows = [s \in Sides |-> {}]
  /\ upset = {} /\ starts = 0 /\ acts = 0

ServerUnchanged == UNCHANGED <<venues, flows>>
UserUnchanged == UNCHANGED <<direct, active, upset, starts, acts>>

-----------------------------------------------------------------------------
(* Nothing the user started is still under way. *)
Quiet == /\ queue = <<>>
         /\ \A s \in Sides : /\ client[s].http = NoRequest /\ client[s].authHttp = "none"
                             /\ conn[s] \notin {"offering", "answering"}

Upsets(what) == upset' = IF Quiet THEN upset ELSE upset \cup {what}

(* LoopbackCall::OnVenue: startCall makes each endpoint create an offer. *)
OnVenue_callerOnly(url) ==
  /\ venue' = url
  /\ conn' = [conn EXCEPT !["caller"] = "offering"]

OnVenue(url) ==
  /\ venue' = url
  /\ conn' = [s \in Sides |-> "offering"]

(* startLoopback previews on both endpoints; then the venue is created, or   *)
(* without calliope the caller starts the call.                               *)
Start ==
  /\ ~active /\ acts < MaxActs
  /\ Upsets("start")
  /\ active' = TRUE
  /\ starts' = starts + 1 /\ acts' = acts + 1
  /\ \/ /\ direct
        /\ conn' = [s \in Sides |-> IF s = "caller" THEN "offering" ELSE "preview"]
        /\ UNCHANGED <<client, venue>>
     \/ /\ ~direct /\ client["caller"].mode # "orpheus"
        /\ OnVenue(starts')
        /\ UNCHANGED client
     \/ /\ ~direct /\ client["caller"].mode = "orpheus"
        /\ conn' = [s \in Sides |-> "preview"]
        /\ client' = [client EXCEPT !["caller"] = CreateVenue(@)]
        /\ UNCHANGED venue
  /\ ServerUnchanged
  /\ UNCHANGED <<direct, queue, offer, answered, made>>

(* stopLoopback, also when no call is active: the endpoints are released and  *)
(* each client deletes its confluence, the caller's the venue as well.        *)
Stop ==
  /\ acts < MaxActs
  /\ Upsets("stop")
  /\ acts' = acts + 1
  /\ active' = FALSE
  /\ conn' = [s \in Sides |-> "none"]
  /\ client' = [s \in Sides |-> DeleteConfluence(client[s], s = "caller")]
  /\ ServerUnchanged
  /\ UNCHANGED <<direct, queue, venue, offer, answered, made, starts>>

(* requestFloor and releaseFloor are the caller's, at any moment and in any   *)
(* kind of call; a floor URL no reply has named yet is a request like another. *)
Floor ==
  /\ acts < MaxActs
  /\ Upsets("floor")
  /\ acts' = acts + 1
  /\ \E c \in {RequestFloor(client["caller"]), ReleaseFloor(client["caller"])} :
       client' = [client EXCEPT !["caller"] = c]
  /\ ServerUnchanged
  /\ UNCHANGED <<direct, queue, active, conn, venue, offer, answered, made, starts>>

Other(s) == IF s = "caller" THEN "callee" ELSE "caller"

CreateConfluence_ownVenue(c, sdp) ==
  IF c.mode = "orpheus" THEN CreateFlow(c, Empty, sdp)
  ELSE CreateLinusConfluence(c, c.venueUrl, sdp)

(* LoopbackCall::createConfluence: both clients are given the venue. *)
CreateConfluence(c, sdp) ==
  IF c.mode = "orpheus" THEN CreateFlow(c, venue, sdp)
  ELSE CreateLinusConfluence(c, venue, sdp)

(* Endpoint::OnSDPReady of an offer, handed to LoopbackCall::onEvent: a       *)
(* confluence is created with it, or the other endpoint accepts it.           *)
OnOfferReady(s) ==
  /\ conn[s] = "offering"
  /\ offer' = [offer EXCEPT ![s] = starts]
  /\ IF direct
     THEN /\ conn' = [conn EXCEPT ![s] = "offered", ![Other(s)] = "answering"]
          /\ answered' = [answered EXCEPT ![Other(s)] = starts]
          /\ UNCHANGED client
     ELSE /\ conn' = [conn EXCEPT ![s] = "offered"]
          /\ client' = [client EXCEPT ![s] = CreateConfluence(@, starts)]
          /\ UNCHANGED answered
  /\ ServerUnchanged /\ UserUnchanged
  /\ UNCHANGED <<queue, venue, made>>

(* OnSDPReady of an answer: the other endpoint receives it. *)
OnAnswerReady(s) ==
  /\ conn[s] = "answering"
  /\ conn' = [t \in Sides |-> "answered"]
  /\ answered' = [answered EXCEPT ![Other(s)] = answered[s]]
  /\ ServerUnchanged /\ UserUnchanged
  /\ UNCHANGED <<client, queue, venue, offer, made>>
-----------------------------------------------------------------------------
(* The server acts on the request a client has open. *)
Serve(s) ==
  /\ client[s].http.op # "none" /\ ~client[s].http.served
  /\ client' = [client EXCEPT ![s] = Served(@, made[s] + 1)]
  /\ made' = IF Issues(client[s].http) THEN [made EXCEPT ![s] = @ + 1] ELSE made
  /\ venues' = VenuesAfter(client[s].http, made[s] + 1, venues)
  /\ flows' = [flows EXCEPT ![s] = FlowsAfter(client[s].http, made[s] + 1, @)]
  /\ UserUnchanged
  /\ UNCHANGED <<queue, conn, venue, offer, answered>>

Reply(s) ==
  /\ client[s].http.served
  /\ client' = [client EXCEPT ![s] = OnReceive(@)]
  /\ queue' = Append(queue, <<s, "client">>)
  /\ ServerUnchanged /\ UserUnchanged
  /\ UNCHANGED <<conn, venue, offer, answered, made>>

AuthReply(s) ==
  /\ client[s].authHttp # "none"
  /\ client' = [client EXCEPT ![s] = AuthOnReceive(@)]
  /\ queue' = IF AuthPosts(client[s]) THEN Append(queue, <<s, "auth">>) ELSE queue
  /\ ServerUnchanged /\ UserUnchanged
  /\ UNCHANGED <<conn, venue, offer, answered, made>>

(* LoopbackCall::OnFlowParameters: the answer goes to the endpoint of the     *)
(* client it came from; the callee's is used without a look at m_endCallee.   *)
OnFlowParameters(s, sdp) ==
  /\ conn' = [conn EXCEPT ![s] = "answered"]
  /\ answered' = [answered EXCEPT ![s] = sdp]

(* COrpheusClient::OnEventFire and the sink callback of the state it fires in. *)
FireClient ==
  /\ queue # <<>> /\ Head(queue)[2] = "client"
  /\ queue' = Tail(queue)
  /\ \E s \in Sides :
       LET c == client[s]
           d == OnEventFire(c)
       IN  /\ s = Head(queue)[1]
           /\ \/ /\ c.state = "CREATE_VENUE"
                 /\ client' = [client EXCEPT ![s] = d]
                 /\ OnVenue(c.venueUrl)
                 /\ UNCHANGED answered
              \/ /\ c.state \in Creating
                 /\ client' = [client EXCEPT ![s] =
                                 IF s = "caller" /\ AutoFloor THEN RequestFloor(d) ELSE d]
                 /\ OnFlowParameters(s, c.remoteSDP)
                 /\ UNCHANGED venue
              \/ /\ c.state \notin Creating \cup {"CREATE_VENUE"}
                 /\ client' = [client EXCEPT ![s] = d]
                 /\ UNCHANGED <<conn, answered, venue>>
  /\ ServerUnchanged /\ UserUnchanged
  /\ UNCHANGED <<offer, made>>

FireAuth ==
  /\ queue # <<>> /\ Head(queue)[2] = "auth"
  /\ queue' = Tail(queue)
  /\ client' = [client EXCEPT ![Head(queue)[1]] = AuthOnEventFire(@)]
  /\ ServerUnchanged /\ UserUnchanged
  /\ UNCHANGED <<conn, venue, offer, answered, made>>

Engine(s) == OnOfferReady(s) \/ OnAnswerReady(s)
Network(s) == Serve(s) \/ Reply(s) \/ AuthReply(s)
MainThread == FireClient \/ FireAuth

Next == Start \/ Stop \/ Floor \/ MainThread \/ \E s \in Sides : Engine(s) \/ Network(s)

(* The engine, the network and the main thread keep going; the user need not. *)
Fairness == /\ WF_vars(MainThread)
            /\ \A s \in Sides : /\ WF_vars(Engine(s)) /\ WF_vars(Serve(s))
                                /\ WF_vars(Reply(s)) /\ WF_vars(AuthReply(s))

Spec == Init /\ [][Next]_vars
FairSpec == Spec /\ Fairness
-----------------------------------------------------------------------------
Calm(whats) == upset \cap whats = {}

(* Loopback.cpp:233,245 use both endpoints without a check: whatever the user *)
(* stops and starts, a venue comes only to two endpoints that wait for it,    *)
(* and an answer only to the endpoint whose offer is out.                     *)
CallbacksMeetEndpoints ==
  /\ client["callee"].state # "CREATE_VENUE"
  /\ client["caller"].state = "CREATE_VENUE" => conn = [s \in Sides |-> "preview"]
  /\ \A s \in Sides : client[s].state \in Creating => conn[s] = "offered"

(* The two ends can hear each other: once both have their answer, it is the   *)
(* one to the offer they made last, and over a server each one's own          *)
(* confluence exists and the two are in the same venue (onEvent passes        *)
(* m_sVenueUrl to both clients; the callee's never asked for a venue).        *)
BothInOneVenue ==
  Calm({"start", "stop", "floor"}) /\ (\A s \in Sides : conn[s] = "answered") =>
    IF direct THEN \A s \in Sides : answered[s] = offer["caller"]
    ELSE \A s \in Sides :
           /\ answered[s] = offer[s]
           /\ \E f \in flows[s] : f.url = client[s].confluenceUrl /\ f.venue = venue

(* A call that was started connects both ends, or is stopped.  A start or a   *)
(* floor while something is under way may end it: RequestFloor's Close drops  *)
(* the create request, and nothing asks for it again.                         *)
CallSetUp ==
  active ~> ((\A s \in Sides : conn[s] = "answered") \/ ~active \/ ~Calm({"start", "floor"}))
=============================================================================
