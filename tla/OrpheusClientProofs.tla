------------------------ MODULE OrpheusClientProofs ------------------------
(***************************************************************************)
(* What each method of COrpheusClient and CWX2Auth does to the types of    *)
(* its members, to the token rule and to m_state: the lemmas both callers, *)
(* PeerCall and LoopbackCall, rest on.                                     *)
(***************************************************************************)
EXTENDS OrpheusClient, TLAPS

(* A client record whose open auth request is the one of its auth phase. *)
GoodClient == {c \in ClientType : c.authHttp \in {"none", c.authState}}

(* Close keeps everything but the two requests in flight.                 *)
LEMMA CloseFacts ==
  ASSUME NEW c \in GoodClient
  PROVE  /\ CloseClient(c) \in GoodClient
         /\ CloseClient(c).state = c.state
         /\ CloseClient(c).auth = c.auth
         /\ CloseClient(c).http.op = "none"
  BY DEF CloseClient, GoodClient, ClientType, NoRequest, HttpType, Empty

(* DoTask keeps m_state and the token and opens at most the request of m_state. *)
LEMMA DoTaskFacts ==
  ASSUME NEW c \in GoodClient
  PROVE  /\ DoTask(c) \in GoodClient
         /\ DoTask(c).state = c.state
         /\ DoTask(c).auth = c.auth
         /\ DoTask(c).http.op \in {"none", c.state}
<1> DEFINE d == CloseClient(c)
           r == [NoRequest EXCEPT !.op = d.state, !.arg = Subject(d), !.venue = d.venueUrl]
<1>1. d \in GoodClient /\ d.state = c.state /\ d.auth = c.auth /\ d.http.op = "none"
  BY CloseFacts
<1>2. Subject(d) \in Nat /\ d.venueUrl \in Nat
  BY <1>1 DEF Subject, Creating, Empty, GoodClient, ClientType
<1>3. CASE d.state \notin Requests
  <2>1. DoTask(c) = [d EXCEPT !.nullSend = TRUE]
    BY <1>3 DEF DoTask
  <2>2. QED BY <1>1, <2>1 DEF GoodClient, ClientType
<1>4. CASE d.state \in Requests /\ Opens(d)
  <2>1. DoTask(c) = [d EXCEPT !.http = r]
    BY <1>4 DEF DoTask
  <2>2. r \in HttpType /\ r.op = c.state
    BY <1>1, <1>2, <1>4 DEF NoRequest, HttpType, Empty
  <2>3. QED BY <1>1, <2>1, <2>2 DEF GoodClient, ClientType
<1>5. CASE d.state \in Requests /\ ~Opens(d)
  <2>1. DoTask(c) = d
    BY <1>5 DEF DoTask
  <2>2. QED BY <1>1, <2>1
<1>6. QED BY <1>3, <1>4, <1>5

-----------------------------------------------------------------------------
(* The token rule, as a predicate of one client record. *)
Covered(c) == c.http.op \in {"CREATE_VENUE", "CREATE_FLOW"} => c.auth

(* Each method keeps the record good and covered, and says in which state it *)
(* leaves the client.                                                        *)
LEMMA GetAuthenticationHeaderFacts ==
  ASSUME NEW c \in GoodClient, Covered(c)
  PROVE  LET d == GetAuthenticationHeader(c)
         IN  d \in GoodClient /\ Covered(d) /\ d.state = c.state
  BY DEF GetAuthenticationHeader, GoodClient, ClientType, AuthPhases, Covered

LEMMA SendFacts ==
  ASSUME NEW c \in GoodClient, c.auth \/ c.state \notin {"CREATE_VENUE", "CREATE_FLOW"}
  PROVE  LET d == DoTask(c)
         IN  d \in GoodClient /\ Covered(d) /\ d.state = c.state
  BY DoTaskFacts DEF Covered

LEMMA CreateVenueFacts ==
  ASSUME NEW c \in GoodClient, Covered(c)
  PROVE  LET d == CreateVenue(c)
         IN  d \in GoodClient /\ Covered(d) /\ d.state = "CREATE_VENUE"
<1> DEFINE e == [c EXCEPT !.state = "CREATE_VENUE"]
<1>1. e \in GoodClient /\ Covered(e) /\ e.state = "CREATE_VENUE"
  BY DEF GoodClient, ClientType, States, Covered
<1>2. QED BY <1>1, GetAuthenticationHeaderFacts DEF CreateVenue

LEMMA CreateFlowFacts ==
  ASSUME NEW c \in GoodClient, Covered(c), NEW v \in Nat, NEW o \in Nat
  PROVE  LET d == CreateFlow(c, v, o)
         IN  d \in GoodClient /\ Covered(d) /\ d.state = "CREATE_FLOW"
<1> DEFINE e == [c EXCEPT !.venueUrl = IF v # Empty THEN v ELSE @,
                          !.offer = o, !.state = "CREATE_FLOW"]
<1>1. e \in GoodClient /\ Covered(e) /\ e.state = "CREATE_FLOW"
  BY DEF GoodClient, ClientType, States, Covered
<1>2. CASE e.auth
  BY <1>1, <1>2, SendFacts DEF CreateFlow
<1>3. CASE ~e.auth
  BY <1>1, <1>3, GetAuthenticationHeaderFacts DEF CreateFlow
<1>4. QED BY <1>2, <1>3

LEMMA CreateLinusConfluenceFacts ==
  ASSUME NEW c \in GoodClient, Covered(c), NEW v \in Nat, NEW o \in Nat
  PROVE  LET d == CreateLinusConfluence(c, v, o)
         IN  d \in GoodClient /\ Covered(d) /\ d.state = "CREATE_LINUS_CONFLUENCE"
<1> DEFINE e == [c EXCEPT !.venueUrl = v, !.offer = o, !.state = "CREATE_LINUS_CONFLUENCE"]
<1>1. e \in GoodClient /\ Covered(e) /\ e.state = "CREATE_LINUS_CONFLUENCE"
  BY DEF GoodClient, ClientType, States, Covered
<1>2. CASE c.mode = "linus_auto"
  BY <1>1, <1>2, GetAuthenticationHeaderFacts DEF CreateLinusConfluence, GoodClient, ClientType
<1>3. CASE c.mode # "linus_auto"
  BY <1>1, <1>3, SendFacts DEF CreateLinusConfluence, GoodClient, ClientType
<1>4. QED BY <1>2, <1>3

LEMMA DeleteConfluenceFacts ==
  ASSUME NEW c \in GoodClient, Covered(c), NEW b \in BOOLEAN
  PROVE  LET d == DeleteConfluence(c, b)
         IN  d \in GoodClient /\ Covered(d) /\ d.state = "DELETE_CONFLUENCE"
<1> DEFINE d == [c EXCEPT !.state = "DELETE_CONFLUENCE", !.urlForDelete = c.confluenceUrl]
           e == IF d.urlForDelete # Empty THEN DoTask(d) ELSE d
<1>1. d \in GoodClient /\ Covered(d) /\ d.state = "DELETE_CONFLUENCE"
  BY DEF GoodClient, ClientType, States, Covered
<1>2. e \in GoodClient /\ Covered(e) /\ e.state = "DELETE_CONFLUENCE"
  BY <1>1, SendFacts
<1>3. DeleteConfluence(c, b) = [e EXCEPT !.confluenceUrl = Empty, !.deleteVenue = b]
  BY DEF DeleteConfluence
<1>4. ASSUME NEW x \in GoodClient, Covered(x), x.state = "DELETE_CONFLUENCE"
      PROVE  LET y == [x EXCEPT !.confluenceUrl = Empty, !.deleteVenue = b]
             IN  y \in GoodClient /\ Covered(y) /\ y.state = "DELETE_CONFLUENCE"
  BY <1>4 DEF GoodClient, ClientType, Covered, Empty
<1> HIDE DEF e
<1>5. QED BY <1>2, <1>3, <1>4

(* DeleteVenue, RequestFloor and ReleaseFloor are DoTask in a state of their own. *)
LEMMA OwnStateFacts ==
  ASSUME NEW c \in GoodClient,
         NEW s \in {"CREATE_DELETE_VENUE", "REQUEST_FLOOR", "RELEASE_FLOOR"}
  PROVE  LET d == DoTask([c EXCEPT !.state = s])
         IN  d \in GoodClient /\ Covered(d) /\ d.state = s
<1>1. /\ [c EXCEPT !.state = s] \in GoodClient
      /\ [c EXCEPT !.state = s].state = s
  BY DEF GoodClient, ClientType, States
<1>2. QED BY <1>1, SendFacts

LEMMA OnAuthenicateHeaderFacts ==
  ASSUME NEW c \in GoodClient
  PROVE  LET d == OnAuthenicateHeader(c)
         IN  d \in GoodClient /\ Covered(d) /\ d.state = c.state
<1>1. /\ [c EXCEPT !.auth = TRUE] \in GoodClient
      /\ [c EXCEPT !.auth = TRUE].auth
      /\ [c EXCEPT !.auth = TRUE].state = c.state
  BY DEF GoodClient, ClientType
<1>2. QED BY <1>1, SendFacts DEF OnAuthenicateHeader

LEMMA OnReceiveFacts ==
  ASSUME NEW c \in GoodClient, Covered(c)
  PROVE  LET d == OnReceive(c)
         IN  /\ d \in GoodClient /\ Covered(d)
             /\ d.state \in {c.state, "CREATE_DELETE_VENUE"}
<1> DEFINE e == [c EXCEPT !.http = NoRequest]
           f == [e EXCEPT !.deleteVenue = FALSE]
<1>1. e \in GoodClient /\ Covered(e) /\ e.state = c.state
  BY DEF GoodClient, ClientType, Covered, NoRequest, HttpType, Empty
<1>2. c.http.url \in Nat /\ c.http.sdp \in Nat
  BY DEF GoodClient, ClientType, HttpType
<1>3. CASE c.state = "CREATE_VENUE"
  <2>1. OnReceive(c) = [e EXCEPT !.venueUrl = c.http.url]
    BY <1>3 DEF OnReceive, Creating
  <2>2. QED BY <1>1, <1>2, <2>1 DEF GoodClient, ClientType, Covered
<1>4. CASE c.state \in Creating
  <2>1. OnReceive(c) = [e EXCEPT !.remoteSDP = c.http.sdp, !.confluenceUrl = c.http.url]
    BY <1>4 DEF OnReceive, Creating
  <2>2. QED BY <1>1, <1>2, <2>1 DEF GoodClient, ClientType, Covered
<1>5. CASE c.state = "DELETE_CONFLUENCE" /\ c.deleteVenue
  <2>1. OnReceive(c) = DoTask([f EXCEPT !.state = "CREATE_DELETE_VENUE"])
    BY <1>5 DEF OnReceive, Creating, DeleteVenue
  <2>2. f \in GoodClient
    BY <1>1 DEF GoodClient, ClientType
  <2>3. QED BY <2>1, <2>2, OwnStateFacts
<1>6. CASE ~(c.state = "CREATE_VENUE" \/ c.state \in Creating
             \/ (c.state = "DELETE_CONFLUENCE" /\ c.deleteVenue))
  <2>1. OnReceive(c) = e
    BY <1>6 DEF OnReceive, Creating
  <2>2. QED BY <1>1, <2>1
<1>7. QED BY <1>3, <1>4, <1>5, <1>6

LEMMA OnEventFireFacts ==
  ASSUME NEW c \in GoodClient
  PROVE  LET d == OnEventFire(c)
         IN  d \in GoodClient /\ Covered(d) /\ d.state = "DONE"
<1>1. CloseClient(c) \in GoodClient /\ CloseClient(c).http.op = "none"
  BY CloseFacts
<1>2. ASSUME NEW x \in GoodClient, x.http.op = "none"
      PROVE  LET y == [x EXCEPT !.state = "DONE"]
             IN  y \in GoodClient /\ Covered(y) /\ y.state = "DONE"
  BY <1>2 DEF GoodClient, ClientType, States, Covered
<1>3. QED BY <1>1, <1>2 DEF OnEventFire

LEMMA AuthOnReceiveFacts ==
  ASSUME NEW c \in GoodClient, Covered(c)
  PROVE  LET d == AuthOnReceive(c)
         IN  d \in GoodClient /\ Covered(d) /\ d.state = c.state
  BY DEF AuthOnReceive, GoodClient, ClientType, AuthPhases, Covered

LEMMA AuthOnEventFireFacts ==
  ASSUME NEW c \in GoodClient, Covered(c)
  PROVE  LET d == AuthOnEventFire(c)
         IN  d \in GoodClient /\ Covered(d) /\ d.state = c.state
<1> DEFINE e == [c EXCEPT !.authHttp = "none"]
<1>1. CASE c.authState = "access"
  <2>1. AuthOnEventFire(c) = [c EXCEPT !.authHttp = "access"]
    BY <1>1 DEF AuthOnEventFire
  <2>2. QED BY <1>1, <2>1 DEF GoodClient, ClientType, Covered
<1>2. CASE c.authState = "done"
  <2>1. AuthOnEventFire(c) = OnAuthenicateHeader(e)
    BY <1>2 DEF AuthOnEventFire
  <2>2. e \in GoodClient /\ e.state = c.state
    BY DEF GoodClient, ClientType
  <2>3. QED BY <2>1, <2>2, OnAuthenicateHeaderFacts
<1>3. CASE c.authState \notin {"access", "done"}
  BY <1>3 DEF AuthOnEventFire
<1>4. QED BY <1>1, <1>2, <1>3

-----------------------------------------------------------------------------
(* The servers. *)
LEMMA ServedFacts ==
  ASSUME NEW c \in GoodClient, Covered(c), NEW new \in Nat
  PROVE  LET d == Served(c, new)
         IN  d \in GoodClient /\ Covered(d) /\ d.state = c.state
<1> DEFINE h == c.http
           url == IF Issues(h) THEN new ELSE Empty
           sdp == IF h.op \in Creating THEN h.arg ELSE Empty
           r == [h EXCEPT !.served = TRUE, !.url = url, !.sdp = sdp]
<1>1. h \in HttpType /\ url \in Nat /\ sdp \in Nat
  BY DEF GoodClient, ClientType, HttpType, Empty
<1>2. ASSUME NEW x \in HttpType, NEW u \in Nat, NEW t \in Nat
      PROVE  LET y == [x EXCEPT !.served = TRUE, !.url = u, !.sdp = t]
             IN  y \in HttpType /\ y.op = x.op
  BY DEF HttpType
<1> HIDE DEF url, sdp
<1>3. r \in HttpType /\ r.op = h.op
  BY <1>1, <1>2
<1> USE DEF url, sdp
<1>4. Served(c, new) = [c EXCEPT !.http = r]
  BY DEF Served, GoodClient, ClientType, HttpType
<1>5. QED BY <1>3, <1>4 DEF GoodClient, ClientType, Covered

LEMMA ServerFacts ==
  ASSUME NEW h \in HttpType, NEW new \in Nat,
         NEW V \in SUBSET Nat, NEW F \in SUBSET [url : Nat, venue : Nat]
  PROVE  VenuesAfter(h, new, V) \in SUBSET Nat /\ FlowsAfter(h, new, F) \in SUBSET [url : Nat, venue : Nat]
<1>1. VenuesAfter(h, new, V) \in SUBSET Nat
  BY DEF VenuesAfter
<1>2. \/ FlowsAfter(h, new, F) = F \/ FlowsAfter(h, new, F) = {f \in F : f.url # h.arg}
      \/ FlowsAfter(h, new, F) = F \cup {[url |-> new, venue |-> h.venue]}
  BY DEF FlowsAfter
<1>3. h.venue \in Nat
  BY DEF HttpType
<1>4. QED BY <1>1, <1>2, <1>3
-----------------------------------------------------------------------------
(* What a method that ends in DoTask leaves open: nothing, or the unanswered  *)
(* request of m_state.                                                        *)
Fresh(c) == c.authHttp = "none" /\ ~c.http.served /\ c.http.op \in {"none", c.state}

LEMMA DoTaskOpens ==
  ASSUME NEW c \in GoodClient PROVE Fresh(DoTask(c)) /\ DoTask(c).state = c.state
<1> DEFINE d == CloseClient(c)
           r == [NoRequest EXCEPT !.op = d.state, !.arg = Subject(d), !.venue = d.venueUrl]
<1>1. /\ d \in GoodClient /\ d.state = c.state
      /\ d.authHttp = "none" /\ d.http.op = "none" /\ d.http.served = FALSE
  BY CloseFacts DEF CloseClient, NoRequest, GoodClient, ClientType
<1>2. r.op = d.state /\ r.served = FALSE
  BY DEF NoRequest
<1> HIDE DEF d, r
<1>3. DoTask(c) \in {[d EXCEPT !.nullSend = TRUE], [d EXCEPT !.http = r], d}
  BY DEF DoTask, d, r
<1>4. QED BY <1>1, <1>2, <1>3 DEF Fresh, GoodClient, ClientType

(* The methods that may only ask for the token first. *)
Waits(d, c) == d.http = c.http /\ d.authHttp = "bearer"

LEMMA CreateOpens ==
  ASSUME NEW c \in GoodClient, NEW v \in Nat, NEW o \in Nat
  PROVE  /\ Waits(CreateVenue(c), c)
         /\ Fresh(CreateFlow(c, v, o)) \/ Waits(CreateFlow(c, v, o), c)
         /\ Fresh(CreateLinusConfluence(c, v, o)) \/ Waits(CreateLinusConfluence(c, v, o), c)
<1> DEFINE f == [c EXCEPT !.venueUrl = IF v # Empty THEN v ELSE @, !.offer = o, !.state = "CREATE_FLOW"]
           l == [c EXCEPT !.venueUrl = v, !.offer = o, !.state = "CREATE_LINUS_CONFLUENCE"]
<1>1. Waits(CreateVenue(c), c)
  BY DEF CreateVenue, GetAuthenticationHeader, Waits, GoodClient, ClientType
<1>2. f \in GoodClient /\ l \in GoodClient /\ f.http = c.http /\ l.http = c.http
  BY DEF GoodClient, ClientType, States
<1>3. ASSUME NEW x \in GoodClient, x.http = c.http PROVE Waits(GetAuthenticationHeader(x), c)
  BY <1>3 DEF GetAuthenticationHeader, Waits, GoodClient, ClientType
<1>4. Fresh(DoTask(f)) /\ Fresh(DoTask(l))
  BY <1>2, DoTaskOpens
<1>5. CreateFlow(c, v, o) \in {DoTask(f), GetAuthenticationHeader(f)}
  BY DEF CreateFlow
<1>6. CreateLinusConfluence(c, v, o) \in {DoTask(l), GetAuthenticationHeader(l)}
  BY DEF CreateLinusConfluence
<1> HIDE DEF f, l
<1>7. QED BY <1>1, <1>2, <1>3, <1>4, <1>5, <1>6

LEMMA DeleteOpens ==
  ASSUME NEW c \in GoodClient, c.http = NoRequest, c.authHttp = "none"
  PROVE  Fresh(DeleteConfluence(c, TRUE))
<1> DEFINE d == [c EXCEPT !.state = "DELETE_CONFLUENCE", !.urlForDelete = c.confluenceUrl]
           e == IF d.urlForDelete # Empty THEN DoTask(d) ELSE d
<1>0. d \in GoodClient /\ d.http = NoRequest /\ d.authHttp = "none"
  BY DEF GoodClient, ClientType, States
<1>1. d \in GoodClient /\ Fresh(d)
  BY <1>0 DEF Fresh, NoRequest
<1>2. e \in GoodClient /\ Fresh(e)
  BY <1>1, DoTaskOpens, DoTaskFacts
<1>3. DeleteConfluence(c, TRUE) = [e EXCEPT !.confluenceUrl = Empty, !.deleteVenue = TRUE]
  BY DEF DeleteConfluence
<1> HIDE DEF e
<1>4. QED BY <1>2, <1>3 DEF Fresh, GoodClient, ClientType

LEMMA FloorOpens ==
  ASSUME NEW c \in GoodClient PROVE Fresh(RequestFloor(c)) /\ Fresh(ReleaseFloor(c))
<1>1. /\ [c EXCEPT !.state = "REQUEST_FLOOR"] \in GoodClient
      /\ [c EXCEPT !.state = "RELEASE_FLOOR"] \in GoodClient
  BY DEF GoodClient, ClientType, States
<1>2. QED BY <1>1, DoTaskOpens DEF RequestFloor, ReleaseFloor

(* A reply to the deletion of a confluence may open the deletion of the venue; *)
(* every other reply closes its request.                                       *)
LEMMA OnReceiveOpens ==
  ASSUME NEW c \in GoodClient, c.authHttp = "none"
  PROVE  LET d == OnReceive(c)
         IN  \/ c.state = "DELETE_CONFLUENCE" /\ d.state = "CREATE_DELETE_VENUE" /\ Fresh(d)
             \/ d.state = c.state /\ d.http = NoRequest /\ d.authHttp = "none"
<1> DEFINE f == [c EXCEPT !.http = NoRequest, !.deleteVenue = FALSE, !.state = "CREATE_DELETE_VENUE"]
<1>1. CASE c.state = "DELETE_CONFLUENCE" /\ c.deleteVenue
  <2>1. OnReceive(c) = DoTask(f)
    BY <1>1 DEF OnReceive, Creating, DeleteVenue
  <2>2. f \in GoodClient /\ f.state = "CREATE_DELETE_VENUE"
    BY DEF GoodClient, ClientType, States, NoRequest, HttpType, Empty
  <2>3. QED BY <1>1, <2>1, <2>2, DoTaskOpens
<1>2. CASE ~(c.state = "DELETE_CONFLUENCE" /\ c.deleteVenue)
  BY <1>2 DEF OnReceive, Creating, GoodClient, ClientType
<1>3. QED BY <1>1, <1>2

LEMMA EventOpens ==
  ASSUME NEW c \in GoodClient
  PROVE  /\ OnEventFire(c) \in GoodClient /\ OnEventFire(c).state = "DONE"
         /\ OnEventFire(c).http = NoRequest /\ OnEventFire(c).authHttp = "none"
  BY OnEventFireFacts DEF OnEventFire, CloseClient, GoodClient, ClientType

LEMMA AuthOpens ==
  ASSUME NEW c \in GoodClient
  PROVE  /\ AuthOnReceive(c).http = c.http /\ AuthOnReceive(c).authHttp = "none"
         /\ AuthOnReceive(c).state = c.state
         /\ LET d == AuthOnEventFire(c)
            IN  /\ d.state = c.state
                /\ \/ Fresh(d)
                   \/ d.http = c.http /\ d.authHttp = "access"
                   \/ d = c
<1>1. /\ AuthOnReceive(c).http = c.http /\ AuthOnReceive(c).authHttp = "none"
      /\ AuthOnReceive(c).state = c.state
  BY DEF AuthOnReceive, GoodClient, ClientType
<1> DEFINE e == [c EXCEPT !.authHttp = "none", !.auth = TRUE]
<1>2. e \in GoodClient /\ e.state = c.state
  BY DEF GoodClient, ClientType
<1>3. Fresh(DoTask(e)) /\ DoTask(e).state = c.state
  BY <1>2, DoTaskOpens
<1>4. AuthOnEventFire(c) \in {[c EXCEPT !.authHttp = "access"], DoTask(e), c}
  BY DEF AuthOnEventFire, OnAuthenicateHeader
<1> HIDE DEF e
<1>5. QED BY <1>1, <1>3, <1>4 DEF GoodClient, ClientType

LEMMA ServedOpens ==
  ASSUME NEW c \in GoodClient, NEW n \in Nat
  PROVE  /\ Served(c, n).http.op = c.http.op /\ Served(c, n).authHttp = c.authHttp
         /\ Served(c, n).state = c.state
  BY DEF Served, GoodClient, ClientType, HttpType

-----------------------------------------------------------------------------
(* What each method keeps of the members, and what the request is about that   *)
(* it opens: the lemmas the properties over several requests rest on.          *)
Same(d, c) == /\ d.mode = c.mode /\ d.offer = c.offer /\ d.venueUrl = c.venueUrl
              /\ d.remoteSDP = c.remoteSDP /\ d.confluenceUrl = c.confluenceUrl

(* Nothing is open, or the unanswered request of m_state for the members. *)
Opened(c) == /\ c.authHttp = "none"
             /\ \/ c.http = NoRequest
                \/ /\ c.http.op = c.state /\ c.http.arg = Subject(c)
                   /\ c.http.venue = c.venueUrl /\ c.http.served = FALSE

LEMMA DoTaskKeeps ==
  ASSUME NEW c \in GoodClient
  PROVE  Same(DoTask(c), c) /\ Opened(DoTask(c))
<1> DEFINE d == CloseClient(c)
           r == [NoRequest EXCEPT !.op = d.state, !.arg = Subject(d), !.venue = d.venueUrl]
<1>1. /\ d \in GoodClient /\ Same(d, c) /\ d.state = c.state
      /\ d.authHttp = "none" /\ d.http = NoRequest
  BY CloseFacts DEF CloseClient, Same, GoodClient, ClientType
<1>2. r.op = d.state /\ r.arg = Subject(d) /\ r.venue = d.venueUrl /\ r.served = FALSE
  BY DEF NoRequest
<1> HIDE DEF d, r
<1>3. CASE DoTask(c) = d
  BY <1>1, <1>3 DEF Opened
<1>4. CASE DoTask(c) = [d EXCEPT !.nullSend = TRUE]
  BY <1>1, <1>4 DEF Opened, Same, GoodClient, ClientType
<1>5. CASE DoTask(c) = [d EXCEPT !.http = r]
  <2> DEFINE e == [d EXCEPT !.http = r]
  <2>1. /\ Same(e, d) /\ e.state = d.state /\ e.http = r /\ e.authHttp = d.authHttp
        /\ e.urlForDelete = d.urlForDelete
    BY <1>1 DEF Same, GoodClient, ClientType
  <2>2. Subject(e) = Subject(d)
    BY <2>1 DEF Subject, Same
  <2> HIDE DEF e
  <2>3. Opened(e) /\ Same(e, c)
    BY <1>1, <1>2, <2>1, <2>2 DEF Opened, Same
  <2>4. QED BY <1>5, <2>3 DEF e
<1>6. QED BY <1>3, <1>4, <1>5 DEF DoTask, d, r

(* The method that opens a venue only asks for the token. *)
LEMMA CreateVenueKeeps ==
  ASSUME NEW c \in GoodClient
  PROVE  Same(CreateVenue(c), c)
  BY DEF CreateVenue, GetAuthenticationHeader, Same, GoodClient, ClientType

(* The methods that create a confluence send the offer for the venue, at once  *)
(* or when there is a token.                                                   *)
Sends(d, c, v, o) ==
  /\ d.mode = c.mode /\ d.offer = o /\ d.venueUrl = v
  /\ d.remoteSDP = c.remoteSDP /\ d.confluenceUrl = c.confluenceUrl
  /\ Opened(d) \/ Waits(d, c)

LEMMA CreateFlowKeeps ==
  ASSUME NEW c \in GoodClient, NEW v \in Nat, NEW o \in Nat, v # Empty
  PROVE  Sends(CreateFlow(c, v, o), c, v, o)
<1> DEFINE f == [c EXCEPT !.venueUrl = IF v # Empty THEN v ELSE @, !.offer = o, !.state = "CREATE_FLOW"]
<1>1. /\ f \in GoodClient /\ f.mode = c.mode /\ f.offer = o /\ f.venueUrl = v
      /\ f.remoteSDP = c.remoteSDP /\ f.confluenceUrl = c.confluenceUrl /\ f.http = c.http
  BY DEF GoodClient, ClientType, States
<1>2. CreateFlow(c, v, o) \in {DoTask(f), GetAuthenticationHeader(f)}
  BY DEF CreateFlow
<1> HIDE DEF f
<1>3. Sends(DoTask(f), c, v, o)
  BY <1>1, DoTaskKeeps DEF Sends, Same
<1>4. Sends(GetAuthenticationHeader(f), c, v, o)
  BY <1>1 DEF Sends, Waits, GetAuthenticationHeader, GoodClient, ClientType
<1>5. QED BY <1>2, <1>3, <1>4

LEMMA CreateLinusConfluenceKeeps ==
  ASSUME NEW c \in GoodClient, NEW v \in Nat, NEW o \in Nat
  PROVE  Sends(CreateLinusConfluence(c, v, o), c, v, o)
<1> DEFINE f == [c EXCEPT !.venueUrl = v, !.offer = o, !.state = "CREATE_LINUS_CONFLUENCE"]
<1>1. /\ f \in GoodClient /\ f.mode = c.mode /\ f.offer = o /\ f.venueUrl = v
      /\ f.remoteSDP = c.remoteSDP /\ f.confluenceUrl = c.confluenceUrl /\ f.http = c.http
  BY DEF GoodClient, ClientType, States
<1>2. CreateLinusConfluence(c, v, o) \in {DoTask(f), GetAuthenticationHeader(f)}
  BY DEF CreateLinusConfluence
<1> HIDE DEF f
<1>3. Sends(DoTask(f), c, v, o)
  BY <1>1, DoTaskKeeps DEF Sends, Same
<1>4. Sends(GetAuthenticationHeader(f), c, v, o)
  BY <1>1 DEF Sends, Waits, GetAuthenticationHeader, GoodClient, ClientType
<1>5. QED BY <1>2, <1>3, <1>4

(* What is deleted is the confluence the client knew, and it is forgotten. *)
LEMMA DeleteConfluenceKeeps ==
  ASSUME NEW c \in GoodClient, c.http = NoRequest, c.authHttp = "none"
  PROVE  LET d == DeleteConfluence(c, TRUE)
         IN  /\ d.mode = c.mode /\ d.venueUrl = c.venueUrl /\ d.confluenceUrl = Empty
             /\ d.authHttp = "none" /\ d.state = "DELETE_CONFLUENCE"
             /\ \/ d.http = NoRequest
                \/ /\ d.http.op = "DELETE_CONFLUENCE" /\ d.http.served = FALSE
                   /\ d.http.arg = c.confluenceUrl /\ c.confluenceUrl # Empty
<1> DEFINE f == [c EXCEPT !.state = "DELETE_CONFLUENCE", !.urlForDelete = c.confluenceUrl]
           e == IF f.urlForDelete # Empty THEN DoTask(f) ELSE f
<1>1. /\ f \in GoodClient /\ f.mode = c.mode /\ f.venueUrl = c.venueUrl /\ f.state = "DELETE_CONFLUENCE"
      /\ f.urlForDelete = c.confluenceUrl /\ f.http = NoRequest /\ f.authHttp = "none"
  BY DEF GoodClient, ClientType, States
<1>2. DeleteConfluence(c, TRUE) = [e EXCEPT !.confluenceUrl = Empty, !.deleteVenue = TRUE]
  BY DEF DeleteConfluence
<1>3. DoTask(f) \in GoodClient /\ DoTask(f).state = "DELETE_CONFLUENCE"
  BY <1>1, DoTaskFacts
<1>4. Same(DoTask(f), f) /\ Opened(DoTask(f)) /\ DoTask(f).urlForDelete = f.urlForDelete
  <2>1. DoTask(f).urlForDelete = f.urlForDelete
    BY <1>1 DEF DoTask, CloseClient, GoodClient, ClientType
  <2>2. QED BY <1>1, <2>1, DoTaskKeeps
<1> HIDE DEF f
<1>5. /\ e \in GoodClient /\ e.mode = c.mode /\ e.venueUrl = c.venueUrl /\ e.state = "DELETE_CONFLUENCE"
      /\ e.authHttp = "none"
      /\ \/ e.http = NoRequest
         \/ /\ e.http.op = "DELETE_CONFLUENCE" /\ e.http.served = FALSE
            /\ e.http.arg = c.confluenceUrl /\ c.confluenceUrl # Empty
  <2>1. CASE f.urlForDelete = Empty
    BY <1>1, <2>1
  <2>2. CASE f.urlForDelete # Empty
    <3>1. Subject(DoTask(f)) = c.confluenceUrl
      BY <1>1, <1>3, <1>4 DEF Subject, Creating
    <3>2. QED BY <1>1, <1>3, <1>4, <2>2, <3>1 DEF Same, Opened
  <2>3. QED BY <2>1, <2>2
<1> HIDE DEF e
<1>6. QED BY <1>2, <1>5 DEF GoodClient, ClientType

LEMMA FloorKeeps ==
  ASSUME NEW c \in GoodClient
  PROVE  /\ Same(RequestFloor(c), c) /\ Opened(RequestFloor(c))
         /\ Same(ReleaseFloor(c), c) /\ Opened(ReleaseFloor(c))
<1>1. ASSUME NEW s \in States
      PROVE  [c EXCEPT !.state = s] \in GoodClient /\ Same([c EXCEPT !.state = s], c)
  BY DEF GoodClient, ClientType, Same
<1>2. "REQUEST_FLOOR" \in States /\ "RELEASE_FLOOR" \in States
  BY DEF States
<1>3. QED BY <1>1, <1>2, DoTaskKeeps DEF RequestFloor, ReleaseFloor, Same

(* A reply is stored where m_state says. *)
LEMMA OnReceiveKeeps ==
  ASSUME NEW c \in GoodClient, c.authHttp = "none"
  PROVE  LET d == OnReceive(c)
         IN  /\ d.mode = c.mode /\ d.offer = c.offer
             /\ d.venueUrl = IF c.state = "CREATE_VENUE" THEN c.http.url ELSE c.venueUrl
             /\ d.remoteSDP = IF c.state \in Creating THEN c.http.sdp ELSE c.remoteSDP
             /\ d.confluenceUrl = IF c.state \in Creating THEN c.http.url ELSE c.confluenceUrl
             /\ Opened(d)
<1> DEFINE f == [c EXCEPT !.http = NoRequest, !.deleteVenue = FALSE, !.state = "CREATE_DELETE_VENUE"]
<1>1. CASE c.state = "DELETE_CONFLUENCE" /\ c.deleteVenue
  <2>1. OnReceive(c) = DoTask(f)
    BY <1>1 DEF OnReceive, Creating, DeleteVenue
  <2>2. f \in GoodClient /\ Same(f, c)
    BY DEF GoodClient, ClientType, States, NoRequest, HttpType, Empty, Same
  <2> HIDE DEF f
  <2>3. Same(DoTask(f), c) /\ Opened(DoTask(f))
    BY <2>2, DoTaskKeeps DEF Same
  <2>4. QED BY <1>1, <2>1, <2>3 DEF Same, Creating
<1>2. CASE ~(c.state = "DELETE_CONFLUENCE" /\ c.deleteVenue)
  <2>1. OnReceive(c).http = NoRequest /\ OnReceive(c).authHttp = "none"
    BY <1>2 DEF OnReceive, Creating, GoodClient, ClientType
  <2>2. QED BY <1>2, <2>1 DEF OnReceive, Creating, GoodClient, ClientType, Opened
<1>3. QED BY <1>1, <1>2

LEMMA OnEventFireKeeps ==
  ASSUME NEW c \in GoodClient
  PROVE  Same(OnEventFire(c), c)
  BY DEF OnEventFire, CloseClient, Same, GoodClient, ClientType

LEMMA AuthKeeps ==
  ASSUME NEW c \in GoodClient
  PROVE  /\ Same(AuthOnReceive(c), c)
         /\ LET d == AuthOnEventFire(c)
            IN  Same(d, c) /\ (Opened(d) \/ d.http = c.http)
<1>1. Same(AuthOnReceive(c), c)
  BY DEF AuthOnReceive, Same, GoodClient, ClientType
<1> DEFINE e == [c EXCEPT !.authHttp = "none", !.auth = TRUE]
<1>2. e \in GoodClient /\ Same(e, c)
  BY DEF GoodClient, ClientType, Same
<1>3. AuthOnEventFire(c) \in {[c EXCEPT !.authHttp = "access"], DoTask(e), c}
  BY DEF AuthOnEventFire, OnAuthenicateHeader
<1> HIDE DEF e
<1>4. Same(DoTask(e), c) /\ Opened(DoTask(e))
  BY <1>2, DoTaskKeeps DEF Same
<1>5. QED BY <1>1, <1>3, <1>4 DEF Same, GoodClient, ClientType

(* The server answers what it was asked. *)
LEMMA ServedKeeps ==
  ASSUME NEW c \in GoodClient, NEW n \in Nat
  PROVE  LET d == Served(c, n)
         IN  /\ Same(d, c) /\ d.http.served = TRUE
             /\ d.http.arg = c.http.arg /\ d.http.venue = c.http.venue
             /\ d.http.url = IF Issues(c.http) THEN n ELSE Empty
             /\ d.http.sdp = IF c.http.op \in Creating THEN c.http.arg ELSE Empty
  BY DEF Served, Same, GoodClient, ClientType, HttpType
=============================================================================
