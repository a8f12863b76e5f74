---------------------------- MODULE OrpheusClient ----------------------------
(***************************************************************************)
(* COrpheusClient (calliope_client.cpp) and the CWX2Auth it owns           *)
(* (bearer_oauth.cpp): the REST client that creates and deletes venues and *)
(* confluences on Orpheus/Linus.  One member, m_state, is shared by every  *)
(* request: a method overwrites it, a reply is interpreted by it, and the  *)
(* event that the reply posts to the main thread is dispatched by it.      *)
(*                                                                         *)
(* A client is a record; each method is an operator from the record before *)
(* the call to the record after it, so that a call that makes other calls  *)
(* is one step.  PeerCalliope drives one client, Loopback two.             *)
(***************************************************************************)
EXTENDS Naturals, Sequences

(* How TestConfig points the client: at Orpheus, or at Linus (m_sLinusUrl),   *)
(* there with or without a token to be fetched (m_sAuthHeader is "auto").     *)
Modes == {"orpheus", "linus", "linus_auto"}

(* Venue and confluence URLs and SDP texts are numbers; 0 is the empty string. *)
Empty == 0

States == {"INIT", "CREATE_VENUE", "CREATE_FLOW", "CREATE_DELETE_VENUE",
           "CREATE_LINUS_CONFLUENCE", "DELETE_CONFLUENCE", "REQUEST_FLOOR",
           "RELEASE_FLOOR", "DONE"}

(* The states in which DoTask opens and sends a request. *)
Requests == States \ {"INIT", "DONE"}

(* The states whose completion is handed to the sink as an SDP answer. *)
Creating == {"CREATE_FLOW", "CREATE_LINUS_CONFLUENCE"}

(* m_pHttpClient with nothing sent on it: NULL, or created and never opened. *)
NoRequest == [op |-> "none", arg |-> Empty, venue |-> Empty, served |-> FALSE,
              url |-> Empty, sdp |-> Empty]

(* The request open on m_pHttpClient: what was asked, about which URL or SDP *)
(* offer and which venue, whether the server has acted on it, and the fields *)
(* of its reply.                                                             *)
HttpType == [op : Requests \cup {"none"}, arg : Nat, venue : Nat, served : BOOLEAN,
             url : Nat, sdp : Nat]

AuthPhases == {"none", "bearer", "access", "done"}

ClientType ==
  [mode : Modes, state : States, http : HttpType, authState : AuthPhases, authHttp : {"none", "bearer", "access"},
   auth : BOOLEAN, offer : Nat, venueUrl : Nat, remoteSDP : Nat, confluenceUrl : Nat,
   urlForDelete : Nat, deleteVenue : BOOLEAN, nullSend : BOOLEAN]

(* The number no reply carries: m_sRemoteSDP before the first reply. *)
Unset == 1000

NewClient(mode) ==
  [mode |-> mode, state |-> "INIT", http |-> NoRequest, authState |-> "none", authHttp |-> "none",
   auth |-> FALSE, offer |-> Empty, venueUrl |-> Empty, remoteSDP |-> Unset,
   confluenceUrl |-> Empty, urlForDelete |-> Empty, deleteVenue |-> FALSE, nullSend |-> FALSE]

-----------------------------------------------------------------------------
(* Close cancels the request in flight and the auth request in flight.  An   *)
(* event already posted to the main thread is not cancelled.                 *)
CloseClient(c) == [c EXCEPT !.http = NoRequest, !.authHttp = "none"]

(* What the request for m_state is about. *)
Subject(c) ==
  CASE c.state \in Creating -> c.offer
    [] c.state = "DELETE_CONFLUENCE" -> c.urlForDelete
    [] c.state = "CREATE_DELETE_VENUE" -> c.venueUrl
    [] OTHER -> Empty

(* A Linus venue is a UUID: no URL, so its delete request is never opened.   *)
Opens(c) == c.state # "CREATE_DELETE_VENUE" \/ (c.mode = "orpheus" /\ c.venueUrl # Empty)

(* With no branch for m_state, m_pHttpClient is NULL when Send is called.    *)
DoTask(c) ==
  LET d == CloseClient(c)
  IN  IF d.state \notin Requests THEN [d EXCEPT !.nullSend = TRUE]
      ELSE IF Opens(d)
           THEN [d EXCEPT !.http = [NoRequest EXCEPT !.op = d.state, !.arg = Subject(d),
                                                    !.venue = d.venueUrl]]
           ELSE d

GetAuthenticationHeader_keepsPhase(c) == [c EXCEPT !.authHttp = "bearer"]

(* CWX2Auth::GetAuthenticationHeader restarts at the bearer token. *)
GetAuthenticationHeader(c) == [c EXCEPT !.authState = "bearer", !.authHttp = "bearer"]

CreateVenue_withoutToken(c) == DoTask([c EXCEPT !.state = "CREATE_VENUE"])

CreateVenue(c) == GetAuthenticationHeader([c EXCEPT !.state = "CREATE_VENUE"])

CreateFlow(c, venueUrl, offer) ==
  LET d == [c EXCEPT !.venueUrl = IF venueUrl # Empty THEN venueUrl ELSE @,
                     !.offer = offer, !.state = "CREATE_FLOW"]
  IN  IF d.auth THEN DoTask(d) ELSE GetAuthenticationHeader(d)

CreateLinusConfluence(c, venueUrl, offer) ==
  LET d == [c EXCEPT !.venueUrl = venueUrl, !.offer = offer, !.state = "CREATE_LINUS_CONFLUENCE"]
  IN  IF c.mode = "linus_auto" THEN GetAuthenticationHeader(d) ELSE DoTask(d)

DeleteConfluence_keepsState(c, deleteVenue) ==
  IF c.confluenceUrl = Empty THEN [c EXCEPT !.deleteVenue = deleteVenue]
  ELSE [DoTask([c EXCEPT !.state = "DELETE_CONFLUENCE", !.urlForDelete = c.confluenceUrl])
          EXCEPT !.confluenceUrl = Empty, !.deleteVenue = deleteVenue]

DeleteConfluence_clearsFirst(c, deleteVenue) ==
  [c EXCEPT !.state = "DELETE_CONFLUENCE", !.urlForDelete = Empty, !.confluenceUrl = Empty,
            !.deleteVenue = deleteVenue]

DeleteConfluence_venueFirst(c, deleteVenue) ==
  [DoTask([c EXCEPT !.state = "CREATE_DELETE_VENUE"])
     EXCEPT !.confluenceUrl = Empty, !.deleteVenue = FALSE]

(* Nothing is sent when no confluence URL is known, but m_state and           *)
(* m_bDeleteVenue are overwritten all the same.                               *)
DeleteConfluence(c, deleteVenue) ==
  LET d == [c EXCEPT !.state = "DELETE_CONFLUENCE", !.urlForDelete = c.confluenceUrl]
      e == IF d.urlForDelete # Empty THEN DoTask(d) ELSE d
  IN  [e EXCEPT !.confluenceUrl = Empty, !.deleteVenue = deleteVenue]

DeleteVenue_restoresState(c) ==
  [DoTask([c EXCEPT !.state = "CREATE_DELETE_VENUE"]) EXCEPT !.state = c.state]

DeleteVenue(c) == DoTask([c EXCEPT !.state = "CREATE_DELETE_VENUE"])

RequestFloor(c) == DoTask([c EXCEPT !.state = "REQUEST_FLOOR"])

ReleaseFloor(c) == DoTask([c EXCEPT !.state = "RELEASE_FLOOR"])

OnAuthenicateHeader(c) == DoTask([c EXCEPT !.auth = TRUE])

-----------------------------------------------------------------------------
OnReceive_keepsFirstSdp(c) ==
  LET d == [c EXCEPT !.http = NoRequest]
  IN  CASE c.state = "CREATE_VENUE" -> [d EXCEPT !.venueUrl = c.http.url]
        [] c.state \in Creating ->
             [d EXCEPT !.confluenceUrl = c.http.url,
                       !.remoteSDP = IF @ \in {Empty, Unset} THEN c.http.sdp ELSE @]
        [] c.state = "DELETE_CONFLUENCE" /\ c.deleteVenue ->
             DeleteVenue([d EXCEPT !.deleteVenue = FALSE])
        [] OTHER -> d

(* The network callback with a body: the reply of the open request is stored *)
(* as the reply m_state asks for.  Every such callback also posts the client *)
(* to the main thread, which the caller of this operator appends.            *)
OnReceive(c) ==
  LET d == [c EXCEPT !.http = NoRequest]
  IN  CASE c.state = "CREATE_VENUE" -> [d EXCEPT !.venueUrl = c.http.url]
        [] c.state \in Creating ->
             [d EXCEPT !.remoteSDP = c.http.sdp, !.confluenceUrl = c.http.url]
        [] c.state = "DELETE_CONFLUENCE" /\ c.deleteVenue ->
             DeleteVenue([d EXCEPT !.deleteVenue = FALSE])
        [] OTHER -> d

(* What the server does with the open request: the number new is the URL of  *)
(* what it creates, and the answer to an offer carries the offer's number.    *)
Issues(h) == h.op \in Creating \cup {"CREATE_VENUE"}

Served(c, new) ==
  [c EXCEPT !.http.served = TRUE,
            !.http.url = IF Issues(c.http) THEN new ELSE Empty,
            !.http.sdp = IF c.http.op \in Creating THEN c.http.arg ELSE Empty]

VenuesAfter(h, new, venues) ==
  CASE h.op = "CREATE_VENUE" -> venues \cup {new}
    [] h.op = "CREATE_DELETE_VENUE" -> venues \ {h.arg}
    [] OTHER -> venues

FlowsAfter(h, new, flows) ==
  CASE h.op \in Creating -> flows \cup {[url |-> new, venue |-> h.venue]}
    [] h.op = "DELETE_CONFLUENCE" -> {f \in flows : f.url # h.arg}
    [] OTHER -> flows

(* The main thread's event: whatever request is open by now is closed.  The  *)
(* sink callback that goes with c.state is made by the caller.               *)
OnEventFire(c) == [CloseClient(c) EXCEPT !.state = "DONE"]

(* CWX2Auth::OnReceive: the next phase, which is also posted as an event. *)
AuthOnReceive(c) ==
  [c EXCEPT !.authHttp = "none",
            !.authState = CASE @ = "bearer" -> "access" [] @ = "access" -> "done" [] OTHER -> @]

AuthPosts(c) == c.authState \in {"bearer", "access"}

(* CWX2Auth::OnEventFire acts on the phase the auth is in when it fires. *)
AuthOnEventFire(c) ==
  CASE c.authState = "access" -> [c EXCEPT !.authHttp = "access"]
    [] c.authState = "done" -> OnAuthenicateHeader([c EXCEPT !.authHttp = "none"])
    [] OTHER -> c
=============================================================================
