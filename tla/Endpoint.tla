------------------------------ MODULE Endpoint ------------------------------
(***************************************************************************)
(* Endpoint of ClickCall.cpp over several calls: the tracks the engine       *)
(* announces and the endpoint keeps references to, the SVS input pins and    *)
(* their timers, muting by the user, the network and the remote direction of *)
(* an SDP, and the external transport of the train mode.                     *)
(*                                                                          *)
(* PeerCall makes one Endpoint and uses it for every call, so what stopCall  *)
(* leaves is there in the next one.  Everything runs on the main thread; the *)
(* engine announces tracks in the order they were asked for, between any two *)
(* other steps.  Screen sharing, remote mute and windows are left out, and    *)
(* whether a track runs: a stopped track keeps its mute.                     *)
(***************************************************************************)
EXTENDS Integers, FiniteSets

CONSTANTS
  Modes,      (* of the calls: TestConfig m_bTrain, else m_bHasSVS, else neither *)
  MutedStart, (* TestConfig m_bMuteAudio and m_bMuteVideo                         *)
  NetWarning, (* TestConfig m_bTestNetWarnning                                    *)
  Restarts,   (* bound: whether tracks are started again (resume, startStopTrack) *)
  NoTrack,    (* NULL                                                             *)
  MaxCalls,   (* bound: calls                                                     *)
  MaxSdps,    (* bound: SDPs of the remote side in a call                         *)
  MaxVideos   (* bound: remote video tracks of a call                             *)

Media == {"audio", "video"}
Track == [call : 1..MaxCalls, svs : BOOLEAN, medium : Media, way : {"send", "recv"}, n : Nat]

ASSUME EndpointAssumption ==
  /\ Modes \subseteq {"plain", "svs", "train"} /\ MutedStart \subseteq BOOLEAN
  /\ NetWarning \in BOOLEAN /\ Restarts \in BOOLEAN
  /\ NoTrack \notin Track
  /\ MaxCalls \in Nat /\ MaxSdps \in Nat /\ MaxVideos \in Nat

VARIABLES
  mode,      (* TestConfig of the present call                                    *)
  mute,      (* m_bMuteAudio, m_bMuteVideo                                        *)
  calls,     (* how many calls there were                                         *)
  conn,      (* m_pMediaConn: the call it was made for, or 0                      *)
  phase,     (* how far the negotiation is                                        *)
  sdps,      (* SDPs of the remote side in this call                              *)
  sending,   (* m_pAudioTrackCaller, m_pVideoTrackCaller                          *)
  receiving, (* m_pAudioTrackCallee, m_pVideoTrackCallee, their order apart        *)
  second,    (* m_pSvsLocalAudio2, m_pSvsLocalVideo2                              *)
  refs,      (* the tracks the endpoint holds a reference to                      *)
  pin,       (* m_pSvsAudioInputPin, m_pSvsInputPin: the track whose input it is  *)
  timers,    (* which of the four timers are scheduled                            *)
  extra,     (* the engine was asked for a second local video track               *)
  recvs,     (* m_audioRemoteDirection, m_videoRemoteDirection contain Recv       *)
  muted,     (* the tracks of this call that are muted                            *)
  ext,       (* the ExternalTransport of one medium                               *)
  wants,     (* history: the last word of the user, or of the configuration, on a *)
             (* medium is that it be muted                                        *)
  off,       (* history: the last word of the network on the video sent is off    *)
  overruled  (* history: since the user's last word the remote side was on hold,  *)
             (* the network recovered, or the track was started again             *)

tracks == <<sending, receiving, second, refs>>
svs    == <<pin, timers, extra>>
mutes  == <<recvs, muted, wants, off, overruled>>
life   == <<mode, mute, calls, conn>>
vars   == <<life, phase, sdps, tracks, svs, mutes, ext>>

TypeOK ==
  /\ mode \in {"plain", "svs", "train"} /\ mute \in BOOLEAN
  /\ calls \in 0..MaxCalls /\ conn \in {0, calls}
  /\ phase \in {"none", "preview", "offered", "talking"} /\ (phase = "none" <=> conn = 0)
  /\ sdps \in 0..MaxSdps
  /\ sending \in [Media -> Track \cup {NoTrack}]
  /\ receiving \in [Media -> SUBSET Track]
  /\ second \in [Media -> Track \cup {NoTrack}]
  /\ refs \subseteq Track /\ muted \subseteq Track
  /\ pin \in [Media -> Track \cup {NoTrack}]
  /\ timers \subseteq {"svs", "svsAudio", "stats", "delayAdd"}
  /\ extra \in BOOLEAN
  /\ recvs \in [Media -> BOOLEAN] /\ wants \in [Media -> BOOLEAN]
  /\ off \in BOOLEAN /\ overruled \in [Media -> BOOLEAN]
  /\ ext \in [acceptor : BOOLEAN, transport : BOOLEAN, engine : BOOLEAN]
  /\ ext.acceptor => mode = "train"

NoTracks == [m \in Media |-> NoTrack]
Closed   == [acceptor |-> FALSE, transport |-> FALSE, engine |-> FALSE]

Init ==
  /\ mode = "plain" /\ mute = FALSE /\ calls = 0 /\ conn = 0 /\ phase = "none" /\ sdps = 0
  /\ sending = NoTracks /\ receiving = [m \in Media |-> {}] /\ second = NoTracks /\ refs = {}
  /\ pin = NoTracks /\ timers = {} /\ extra = FALSE
  /\ recvs = [m \in Media |-> TRUE] /\ muted = {} /\ ext = Closed
  /\ wants = [m \in Media |-> FALSE] /\ off = FALSE /\ overruled = [m \in Media |-> FALSE]

-----------------------------------------------------------------------------
(* ExternalTransport.  Disconnect tells the engine while there is one; engine *)
(* says that it sends by this ExternalTransport.                              *)
Disconnect_keepsEngine(e) == [e EXCEPT !.acceptor = FALSE, !.transport = FALSE]

Disconnect(e) == Closed

StartExternalTrans_always(e) == [e EXCEPT !.acceptor = TRUE]

StartExternalTrans(e) == IF mode = "train" THEN [e EXCEPT !.acceptor = TRUE] ELSE e

DisconnectExternalTrans(e) == IF mode = "train" THEN Disconnect(e) ELSE e

(* OnConnectIndication: Connect succeeded, or the other side sent first.      *)
TransportReady ==
  /\ ext.acceptor
  /\ ext' = [ext EXCEPT !.transport = TRUE, !.engine = TRUE]
  /\ UNCHANGED <<life, phase, sdps, tracks, svs, mutes>>

(* OnDisconnect.  The acceptor goes too: the next SDP update listens again.   *)
TransportLost ==
  /\ ext.transport
  /\ ext' = Disconnect(ext)
  /\ UNCHANGED <<life, phase, sdps, tracks, svs, mutes>>

-----------------------------------------------------------------------------
(* preview: a new connection, and in five seconds a second local track.       *)
Preview(m, b) ==
  /\ conn = 0 /\ calls < MaxCalls
  /\ mode' = m /\ mute' = b /\ calls' = calls + 1 /\ conn' = calls + 1
  /\ phase' = "preview"
  /\ timers' = IF m = "svs" THEN timers \cup {"delayAdd"} ELSE timers
  /\ UNCHANGED <<sdps, tracks, pin, extra, mutes, ext>>

(* startCall; a holdCall in the preview has made an offer before it. *)
StartCall ==
  /\ phase \in {"preview", "offered"}
  /\ phase' = "offered"
  /\ ext' = StartExternalTrans(ext)
  /\ UNCHANGED <<life, sdps, tracks, svs, mutes>>

(* holdCall, to hold or to resume, offers, whatever is under way. *)
HoldCall ==
  /\ conn # 0 /\ sdps < MaxSdps
  /\ phase' = "offered"
  /\ UNCHANGED <<life, sdps, tracks, svs, mutes, ext>>

(* checkDirection, d saying for each medium whether the remote side receives.  *)
CheckDirection_neverUnmutes(d) ==
  /\ muted' = muted \cup {sending[m] : m \in {k \in Media : sending[k] # NoTrack /\ ~d[k] /\ recvs[k]}}
  /\ recvs' = d
  /\ overruled' = [m \in Media |-> overruled[m] \/ (~d[m] /\ sending[m] # NoTrack)]
  /\ UNCHANGED <<wants, off>>

CheckDirection_whateverBefore(d) ==
  /\ muted' = (muted \cup {sending[m] : m \in {k \in Media : sending[k] # NoTrack /\ ~d[k]}})
                 \ {sending[m] : m \in {k \in Media : d[k]}}
  /\ recvs' = d
  /\ overruled' = [m \in Media |-> overruled[m] \/ (~d[m] /\ sending[m] # NoTrack)]
  /\ UNCHANGED <<wants, off>>

CheckDirection(d) ==
  /\ muted' = (muted \cup {sending[m] : m \in {k \in Media : sending[k] # NoTrack /\ ~d[k] /\ recvs[k]}})
                 \ {sending[m] : m \in {k \in Media : d[k] /\ ~recvs[k]}}
  /\ recvs' = d
  /\ overruled' = [m \in Media |-> overruled[m] \/ (~d[m] /\ sending[m] # NoTrack)]
  /\ UNCHANGED <<wants, off>>

Directions == [Media -> BOOLEAN]

(* SetReceivedSDP: the engine may refuse an SDP, above all one that crosses an *)
(* offer.                                                                     *)
Received == UNCHANGED mutes \/ \E d \in Directions : CheckDirection(d)

(* acceptCall, with a first offer or an update of a call. *)
AcceptCall ==
  /\ conn # 0 /\ sdps < MaxSdps
  /\ phase' = "talking" /\ sdps' = sdps + 1
  /\ Received
  /\ ext' = StartExternalTrans(ext)
  /\ UNCHANGED <<life, tracks, svs>>

AnswerReceived ==
  /\ phase = "offered" /\ sdps < MaxSdps
  /\ phase' = "talking" /\ sdps' = sdps + 1
  /\ Received
  /\ UNCHANGED <<life, tracks, svs, ext>>

-----------------------------------------------------------------------------
(* Tracks of this call announced so far. *)
Announced(m, way) == {t \in refs : t.call = conn /\ t.medium = m /\ t.way = way}

NewTrack(m, way) == [call |-> conn, svs |-> mode = "svs", medium |-> m, way |-> way,
                     n |-> Cardinality(Announced(m, way)) + 1]

(* OnMediaReady: a track to send on becomes the second one of its medium in   *)
(* an SVS call if there is a pin already, though it be of an earlier call.    *)
SecondReady(m) ==
  LET t == NewTrack(m, "send") IN
  /\ mode = "svs" /\ pin[m] # NoTrack
  /\ second' = [second EXCEPT ![m] = t]
  /\ timers' = IF m = "video" THEN timers \cup {"stats"} ELSE timers
  /\ UNCHANGED <<sending, pin, muted, wants, off, overruled>>

FirstReady(m) ==
  LET t == NewTrack(m, "send") IN
  /\ mode = "svs" => pin[m] = NoTrack
  /\ sending' = [sending EXCEPT ![m] = t]
  /\ IF mode = "svs"
     THEN /\ pin' = [pin EXCEPT ![m] = t]
          /\ timers' = timers \cup {IF m = "video" THEN "svs" ELSE "svsAudio"}
     ELSE UNCHANGED <<pin, timers>>
  /\ muted' = IF mute THEN muted \cup {t} ELSE muted \ {t}
  /\ wants' = [wants EXCEPT ![m] = mute]
  /\ overruled' = [overruled EXCEPT ![m] = ~recvs[m]]
  /\ off' = (off /\ m # "video")
  /\ UNCHANGED second

SendReady(m) ==
  /\ conn # 0
  /\ Cardinality(Announced(m, "send")) < (IF extra /\ m = "video" THEN 2 ELSE 1)
  /\ SecondReady(m) \/ FirstReady(m)
  /\ refs' = refs \cup {NewTrack(m, "send")}
  /\ UNCHANGED <<life, phase, sdps, receiving, extra, recvs, ext>>

RecvReady(m) ==
  LET t == NewTrack(m, "recv") IN
  /\ phase \in {"offered", "talking"}
  /\ Cardinality(Announced(m, "recv")) < (IF m = "video" THEN MaxVideos ELSE 1)
  /\ receiving' = [receiving EXCEPT ![m] = @ \cup {t}]
  /\ refs' = refs \cup {t}
  /\ UNCHANGED <<life, phase, sdps, sending, second, svs, mutes, ext>>

(* OnTimer, m_svsDelayAddTimer: AddLocalTrack.  The other three only feed the  *)
(* pins and read statistics.                                                  *)
DelayAdd ==
  /\ "delayAdd" \in timers
  /\ timers' = timers \ {"delayAdd"} /\ extra' = TRUE
  /\ UNCHANGED <<life, phase, sdps, tracks, pin, mutes, ext>>

(* startSVS: the user, or a test, changes back from the camera. *)
StartSVS ==
  /\ pin["video"] = NoTrack /\ sending["video"] # NoTrack
  /\ pin' = [pin EXCEPT !["video"] = sending["video"]]
  /\ timers' = timers \cup {"svs"}
  /\ UNCHANGED <<life, phase, sdps, tracks, extra, mutes, ext>>

SetCamera_keepsTimer ==
  /\ timers' = timers \ {"delayAdd"}
  /\ pin' = [pin EXCEPT !["video"] = NoTrack]
  /\ UNCHANGED <<life, phase, sdps, tracks, extra, mutes, ext>>

(* setCamera(NULL): change to the camera. *)
SetCamera ==
  /\ timers' = timers \ {"svs", "delayAdd"}
  /\ pin' = [pin EXCEPT !["video"] = NoTrack]
  /\ UNCHANGED <<life, phase, sdps, tracks, extra, mutes, ext>>

(* mute, of what is sent. *)
SetMute(m, b) == muted' = IF b THEN muted \cup {sending[m]} ELSE muted \ {sending[m]}

(* The user mutes and unmutes. *)
Mute(m, b) ==
  /\ sending[m] # NoTrack
  /\ SetMute(m, b)
  /\ wants' = [wants EXCEPT ![m] = b]
  /\ overruled' = [overruled EXCEPT ![m] = ~recvs[m]]
  /\ UNCHANGED <<life, phase, sdps, tracks, svs, recvs, off, ext>>

(* OnNetworkStatus of the uplink, video_off or recovered: the network mutes   *)
(* and unmutes the video as the user does.                                    *)
OnNetworkStatus(isOff) ==
  /\ NetWarning /\ sending["video"] # NoTrack
  /\ SetMute("video", isOff)
  /\ off' = isOff
  /\ overruled' = [overruled EXCEPT !["video"] = @ \/ ~isOff]
  /\ UNCHANGED <<life, phase, sdps, tracks, svs, recvs, wants, ext>>

(* Start(FALSE) on the tracks that send a medium of M.  MediaConnection.h:441 *)
(* leaves open whether a track that runs already keeps its mute.              *)
StartTracks(M) ==
  /\ Restarts /\ \E m \in M : sending[m] # NoTrack
  /\ \E s \in SUBSET {sending[m] : m \in M} : muted' = muted \ s
  /\ overruled' = [m \in Media |-> overruled[m] \/ (m \in M /\ sending[m] # NoTrack)]
  /\ UNCHANGED <<life, phase, sdps, tracks, svs, recvs, wants, off, ext>>

(* resume(true), as the app comes back to the foreground. *)
Resume == StartTracks(Media)

(* startStopTrack, to start a track that sends. *)
StartStopTrack(m) == StartTracks({m})

(* stopCall cancels three of the timers, and those in an SVS call only.       *)
TimersAfterStop == IF mode = "svs" THEN timers \ {"svs", "stats", "delayAdd"} ELSE timers

Released_firstCallee == {sending[m] : m \in Media} \cup {t \in UNION {receiving[m] : m \in Media} : t.n = 1}

Released == {sending[m] : m \in Media} \cup UNION {receiving[m] : m \in Media}

(* The pins, the second tracks and the remote directions stay as they are.    *)
StopCall ==
  /\ conn # 0
  /\ ext' = DisconnectExternalTrans(ext)
  /\ conn' = 0 /\ phase' = "none" /\ sdps' = 0 /\ extra' = FALSE
  /\ refs' = refs \ Released
  /\ sending' = NoTracks /\ receiving' = [m \in Media |-> {}]
  /\ timers' = TimersAfterStop
  /\ muted' = {} /\ off' = FALSE
  /\ wants' = [m \in Media |-> FALSE] /\ overruled' = [m \in Media |-> FALSE]
  /\ UNCHANGED <<mode, mute, calls, second, pin, recvs>>

Next ==
  \/ \E m \in Modes, b \in MutedStart : Preview(m, b)
  \/ StartCall \/ HoldCall \/ AcceptCall \/ AnswerReceived \/ StopCall
  \/ \E m \in Media : SendReady(m) \/ RecvReady(m) \/ \E b \in BOOLEAN : Mute(m, b)
  \/ Resume \/ \E m \in Media : StartStopTrack(m)
  \/ \E isOff \in BOOLEAN : OnNetworkStatus(isOff)
  \/ DelayAdd \/ StartSVS \/ SetCamera
  \/ TransportReady \/ TransportLost

Spec == Init /\ [][Next]_vars
-----------------------------------------------------------------------------
(* A timer that is scheduled finds what OnTimer uses without asking: the pin  *)
(* it feeds (ClickCall.cpp:1070) and the connection it adds a track to (1114). *)
(* setCamera, startSVS and stopCall may come between any two announcements.   *)
TimersMeetState ==
  /\ "svs" \in timers => pin["video"] # NoTrack
  /\ "delayAdd" \in timers => conn # 0

(* MediaConnection.h:580 has the client keep a reference to a track while it   *)
(* uses it and drop it with the connection.  Every track a member points to   *)
(* is of this call and referenced; of ended calls only tracks to send on in   *)
(* an SVS call keep a reference, which nothing drops.                          *)
TracksCounted ==
  /\ \A m \in Media : receiving[m] \cup ({sending[m]} \ {NoTrack}) \subseteq {t \in refs : t.call = conn}
  /\ \A t \in refs : t.call = conn \/ (t.svs /\ t.way = "send")

(* The engine sends by the external transport exactly while that has a        *)
(* transport, and none is left when there is no connection, whatever is lost, *)
(* replaced or updated on the way.                                            *)
TransportAgrees ==
  /\ ext.engine = ext.transport
  /\ conn = 0 => ~ext.transport /\ ~ext.acceptor

(* Whoever put the call on hold, once the remote side receives again a medium *)
(* that neither the user nor the network wants muted is not                   *)
(* (ta_features/sdp_update.feature:21).                                       *)
Unheld == \A m \in Media :
  recvs[m] /\ ~wants[m] /\ ~(off /\ m = "video") => sending[m] \notin muted

(* What the user muted stays muted, whatever SDPs come, until the user, the    *)
(* remote side's coming back from a hold, the network's recovery or a new      *)
(* start of the track says otherwise.                                         *)
MuteKept == \A m \in Media :
  wants[m] /\ ~overruled[m] /\ sending[m] # NoTrack => sending[m] \in muted

(* ClickCall.cpp:97: no unmute the first time, by the first SDP of a call.    *)
NoUnmuteFirstTime == \A m \in Media :
  sdps <= 1 /\ wants[m] /\ sending[m] # NoTrack => sending[m] \in muted
=============================================================================
