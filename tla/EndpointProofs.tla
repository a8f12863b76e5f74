--------------------------- MODULE EndpointProofs ---------------------------
(***************************************************************************)
(* For any number of calls, SDPs and remote tracks: the timers of an         *)
(* Endpoint find what they use, its references to tracks are dropped with    *)
(* the connection, the engine knows whether there is an external transport,  *)
(* and muting by the remote direction takes no word of the user's away.      *)
(*                                                                          *)
(* Its windows, for any participants and any number of windows: no two       *)
(* entries of m_csivids hold the same vid, no participant has more than two   *)
(* entries although entries are never erased, and who is on a vid has a       *)
(* window unless a status named him or he is shown on vid 0.                 *)
(*                                                                          *)
(* Inv is inductive in four parts, each over variables of its own. The        *)
(* windows share no variable with them; LayoutInv is about them alone.        *)
(***************************************************************************)
EXTENDS Endpoint, VideoLayout, FiniteSetTheorems, SequenceTheorems, TLAPS

(* An external transport is of the train mode and of a connection. *)
Transported == TransportAgrees /\ (ext.transport => mode = "train")

Typed == TypeOK /\ IsFiniteSet(refs) /\ Transported

(* A second track is only ever asked for in an SVS call. *)
Scheduled ==
  /\ TimersMeetState
  /\ conn = 0 => ~extra
  /\ "delayAdd" \in timers \/ extra => mode = "svs"

(* Which tracks of the present call are referenced: those received, the one  *)
(* sent, and, in an SVS call, others to send on.                             *)
Covered ==
  /\ \A m \in Media : sending[m] # NoTrack => sending[m].medium = m
  /\ \A t \in refs : t.call <= calls
  /\ \A t \in refs : t.call = conn =>
       \/ t.way = "recv" /\ t \in receiving[t.medium]
       \/ t.way = "send" /\ t.svs
       \/ t.way = "send" /\ t = sending[t.medium]
  /\ \A t \in refs : t.call = conn => (t.svs <=> mode = "svs")

Kept == Covered /\ TracksCounted

Heard == Unheld /\ MuteKept /\ \A m \in Media : ~overruled[m] /\ sending[m] # NoTrack => recvs[m]

Inv == Typed /\ Scheduled /\ Kept /\ Heard

-----------------------------------------------------------------------------
LEMMA MediaFacts == "audio" \in Media /\ "video" \in Media
  BY DEF Media

(* What engine announces next is a track of the call, with a number of its own. *)
LEMMA NewTrackTyped ==
  ASSUME Typed, conn # 0, NEW m \in Media, NEW way \in {"send", "recv"}
  PROVE  /\ NewTrack(m, way) \in Track
         /\ NewTrack(m, way) # NoTrack
         /\ NewTrack(m, way).call = conn /\ NewTrack(m, way).medium = m
         /\ NewTrack(m, way).way = way /\ (NewTrack(m, way).svs <=> mode = "svs")
<1>1. IsFiniteSet(Announced(m, way))
  BY FS_Subset DEF Announced, Typed
<1>2. Cardinality(Announced(m, way)) \in Nat
  BY <1>1, FS_CardinalityType
<1>3. conn \in 1..MaxCalls
  BY EndpointAssumption DEF Typed, TypeOK
<1>4. NewTrack(m, way) \in Track
  BY <1>2, <1>3 DEF NewTrack, Track
<1>5. QED BY <1>4, EndpointAssumption DEF NewTrack

LEMMA TypedStep == Typed /\ [Next]_vars => Typed'
<1> SUFFICES ASSUME Typed, [Next]_vars PROVE Typed'
  OBVIOUS
<1> USE DEF Typed, Transported, TransportAgrees
<1>1. ASSUME NEW m \in Modes, NEW b \in MutedStart, Preview(m, b) PROVE Typed'
  <2>1. m \in {"plain", "svs", "train"} /\ b \in BOOLEAN
    BY EndpointAssumption
  <2>2. calls + 1 \in 0..MaxCalls /\ calls + 1 # 0
    BY <1>1, EndpointAssumption DEF Preview, TypeOK
  <2>4. ~ext.acceptor /\ ~ext.transport /\ ~ext.engine
    BY <1>1 DEF Preview
  <2>5. UNCHANGED <<sdps, sending, receiving, second, refs, pin, extra, recvs, muted, wants, off, overruled, ext>>
    BY <1>1 DEF Preview, tracks, mutes
  <2>6. TypeOK'
    <3>1. mode' \in {"plain", "svs", "train"} /\ mute' \in BOOLEAN /\ phase' = "preview"
      BY <1>1, <2>1 DEF Preview
    <3>2. calls' \in 0..MaxCalls /\ conn' = calls' /\ conn' # 0
      BY <1>1, <2>2 DEF Preview
    <3>4. timers' \subseteq {"svs", "svsAudio", "stats", "delayAdd"}
      BY <1>1 DEF Preview, TypeOK
    <3>5. QED BY <2>4, <2>5, <3>1, <3>2, <3>4 DEF TypeOK
  <2>7. IsFiniteSet(refs)'
    BY <2>5
  <2>8. Transported'
    BY <2>4, <2>5
  <2>9. QED BY <2>6, <2>7, <2>8
<1>2. CASE StartCall
  BY <1>2 DEF StartCall, StartExternalTrans, TypeOK, life, tracks, svs, mutes
<1>3. CASE HoldCall
  BY <1>3 DEF HoldCall, TypeOK, life, tracks, svs, mutes
<1>4. Received => /\ muted' \subseteq Track /\ recvs' \in [Media -> BOOLEAN]
                  /\ overruled' \in [Media -> BOOLEAN] /\ wants' = wants /\ off' = off
  <2>1. CASE UNCHANGED mutes
    BY <2>1 DEF mutes, TypeOK
  <2>2. ASSUME NEW d \in Directions, CheckDirection(d)
        PROVE  /\ muted' \subseteq Track /\ recvs' \in [Media -> BOOLEAN]
               /\ overruled' \in [Media -> BOOLEAN] /\ wants' = wants /\ off' = off
    <3>1. {sending[m] : m \in {k \in Media : sending[k] # NoTrack /\ ~d[k] /\ recvs[k]}} \subseteq Track
      BY DEF TypeOK
    <3>2. muted' \subseteq Track
      BY <2>2, <3>1 DEF CheckDirection, TypeOK
    <3>3. \A m \in Media : (overruled[m] \/ (~d[m] /\ sending[m] # NoTrack)) \in BOOLEAN
      OBVIOUS
    <3>4. overruled' \in [Media -> BOOLEAN]
      BY <2>2, <3>3 DEF CheckDirection
    <3>5. QED BY <2>2, <3>2, <3>4 DEF CheckDirection, Directions
  <2>3. QED BY <2>1, <2>2 DEF Received
<1>5. CASE AcceptCall
  <2>1. sdps' \in 0..MaxSdps
    BY <1>5, EndpointAssumption DEF AcceptCall, TypeOK
  <2>2. /\ muted' \subseteq Track /\ recvs' \in [Media -> BOOLEAN]
        /\ overruled' \in [Media -> BOOLEAN] /\ wants' = wants /\ off' = off
    BY <1>4, <1>5 DEF AcceptCall
  <2>3. /\ ext' \in [acceptor : BOOLEAN, transport : BOOLEAN, engine : BOOLEAN]
        /\ ext'.acceptor => mode = "train"
        /\ ext'.transport = ext.transport /\ ext'.engine = ext.engine
    BY <1>5 DEF AcceptCall, StartExternalTrans, TypeOK
  <2>4. QED BY <1>5, <2>1, <2>2, <2>3 DEF AcceptCall, TypeOK, life, tracks, svs
<1>6. CASE AnswerReceived
  BY <1>4, <1>6, EndpointAssumption DEF AnswerReceived, TypeOK, life, tracks, svs
<1>7. ASSUME NEW m \in Media, SendReady(m) PROVE Typed'
  <2> DEFINE t == NewTrack(m, "send")
  <2>1. t \in Track
    BY <1>7, NewTrackTyped DEF SendReady
  <2>2. refs' = refs \cup {t} /\ UNCHANGED <<life, phase, sdps, receiving, extra, recvs, ext>>
    BY <1>7 DEF SendReady
  <2>3. IsFiniteSet(refs')
    BY <2>2, FS_AddElement
  <2>4. CASE SecondReady(m)
    BY <2>1, <2>2, <2>3, <2>4 DEF SecondReady, TypeOK, life
  <2>5. CASE FirstReady(m)
    <3> HIDE DEF t
    <3>1. /\ sending' = [sending EXCEPT ![m] = t]
          /\ wants' = [wants EXCEPT ![m] = mute]
          /\ muted' = IF mute THEN muted \cup {t} ELSE muted \ {t}
          /\ overruled' = [overruled EXCEPT ![m] = ~recvs[m]]
          /\ off' = (off /\ m # "video")
          /\ second' = second
      BY <2>5 DEF FirstReady, t
    <3>2. /\ pin' = pin \/ pin' = [pin EXCEPT ![m] = t]
          /\ timers' = timers \/ timers' = timers \cup {IF m = "video" THEN "svs" ELSE "svsAudio"}
      BY <2>5 DEF FirstReady, t
    <3>3. pin' \in [Media -> Track \cup {NoTrack}]
      <4>1. pin \in [Media -> Track \cup {NoTrack}]
        BY DEF TypeOK
      <4>2. QED BY <2>1, <3>2, <4>1
    <3>6. timers' \subseteq {"svs", "svsAudio", "stats", "delayAdd"}
      <4>1. timers \subseteq {"svs", "svsAudio", "stats", "delayAdd"}
        BY DEF TypeOK
      <4>2. QED BY <3>2, <4>1
    <3>4. /\ sending' \in [Media -> Track \cup {NoTrack}] /\ wants' \in [Media -> BOOLEAN]
          /\ muted' \subseteq Track /\ overruled' \in [Media -> BOOLEAN] /\ off' \in BOOLEAN
      BY <2>1, <3>1 DEF TypeOK
    <3>5. QED BY <2>1, <2>2, <2>3, <3>1, <3>3, <3>4, <3>6 DEF TypeOK, life
  <2>6. QED BY <1>7, <2>4, <2>5 DEF SendReady
<1>8. ASSUME NEW m \in Media, RecvReady(m) PROVE Typed'
  <2> DEFINE t == NewTrack(m, "recv")
  <2>1. t \in Track
    BY <1>8, NewTrackTyped DEF RecvReady, TypeOK
  <2>2. IsFiniteSet(refs')
    BY <1>8, FS_AddElement DEF RecvReady
  <2>3. QED BY <1>8, <2>1, <2>2 DEF RecvReady, TypeOK, life, svs, mutes
<1>9. ASSUME NEW m \in Media, NEW b \in BOOLEAN, Mute(m, b) PROVE Typed'
  BY <1>9 DEF Mute, SetMute, TypeOK, life, tracks, svs
<1>18. ASSUME NEW M \in SUBSET Media, StartTracks(M) PROVE Typed'
  BY <1>18 DEF StartTracks, TypeOK, life, tracks, svs
<1>19. ASSUME NEW b \in BOOLEAN, OnNetworkStatus(b) PROVE Typed'
  BY <1>19, MediaFacts DEF OnNetworkStatus, SetMute, TypeOK, life, tracks, svs
<1>10. CASE DelayAdd
  BY <1>10 DEF DelayAdd, TypeOK, life, tracks, mutes
<1>11. CASE StartSVS
  BY <1>11 DEF StartSVS, TypeOK, life, tracks, mutes
<1>12. CASE SetCamera
  BY <1>12 DEF SetCamera, TypeOK, life, tracks, mutes
<1>13. CASE StopCall
  <2>1. IsFiniteSet(refs')
    BY <1>13, FS_Subset DEF StopCall
  <2>2. 0 \in 0..MaxSdps
    BY EndpointAssumption
  <2>3. timers' \subseteq {"svs", "svsAudio", "stats", "delayAdd"}
    BY <1>13 DEF StopCall, TimersAfterStop, TypeOK
  <2>4. /\ ext' \in [acceptor : BOOLEAN, transport : BOOLEAN, engine : BOOLEAN]
        /\ ~ext'.acceptor /\ ~ext'.transport /\ ~ext'.engine
    BY <1>13 DEF StopCall, DisconnectExternalTrans, Disconnect, Closed, TypeOK
  <2>5. /\ sending' \in [Media -> Track \cup {NoTrack}] /\ receiving' \in [Media -> SUBSET Track]
        /\ wants' \in [Media -> BOOLEAN] /\ overruled' \in [Media -> BOOLEAN]
        /\ refs' \subseteq Track
    BY <1>13 DEF StopCall, NoTracks, TypeOK
  <2>6. QED BY <1>13, <2>1, <2>2, <2>3, <2>4, <2>5 DEF StopCall, TypeOK
<1>14. CASE TransportReady
  BY <1>14 DEF TransportReady, TypeOK, life, tracks, svs, mutes
<1>15. CASE TransportLost
  BY <1>15 DEF TransportLost, Disconnect, Closed, TypeOK, life, tracks, svs, mutes
<1>16. CASE UNCHANGED vars
  BY <1>16 DEF vars, TypeOK, life, tracks, svs, mutes
<1>20. CASE Resume \/ \E m \in Media : StartStopTrack(m)
  <2>1. Media \in SUBSET Media /\ \A m \in Media : {m} \in SUBSET Media
    OBVIOUS
  <2>2. QED BY <1>18, <1>20, <2>1 DEF Resume, StartStopTrack
<1>17. QED BY <1>1, <1>2, <1>3, <1>5, <1>6, <1>7, <1>8, <1>9, <1>10, <1>11, <1>12, <1>13, <1>14, <1>15,
               <1>16, <1>19, <1>20 DEF Next

-----------------------------------------------------------------------------
(* Timers: preview, startSVS and the first track of an SVS call arm them,     *)
(* setCamera and stopCall cancel them with what they use.                     *)
LEMMA ScheduledStep == Typed /\ Scheduled /\ [Next]_vars => Scheduled'
<1> SUFFICES ASSUME Typed, Scheduled, [Next]_vars PROVE Scheduled'
  OBVIOUS
<1> USE DEF Scheduled, TimersMeetState
<1>1. ASSUME NEW m \in Modes, NEW b \in MutedStart, Preview(m, b) PROVE Scheduled'
  <2>1. "delayAdd" \notin timers /\ conn' # 0
    BY <1>1 DEF Preview, Typed, TypeOK
  <2>2. QED BY <1>1, <2>1 DEF Preview
<1>2. ASSUME UNCHANGED <<life, svs>> PROVE Scheduled'
  BY <1>2 DEF life, svs
<1>3. ASSUME NEW m \in Media, SendReady(m) PROVE Scheduled'
  <2>1. UNCHANGED <<life, extra>>
    BY <1>3 DEF SendReady
  <2>2. CASE SecondReady(m)
    BY <2>1, <2>2 DEF SecondReady, life
  <2>3. CASE FirstReady(m)
    <3>1. conn # 0 /\ NewTrack(m, "send") # NoTrack
      BY <1>3, NewTrackTyped DEF SendReady
    <3>2. CASE mode # "svs"
      BY <2>1, <2>3, <3>2 DEF FirstReady, life
    <3>3. CASE mode = "svs"
      BY <2>1, <2>3, <3>1, <3>3, MediaFacts DEF FirstReady, life, Typed, TypeOK
    <3>4. QED BY <3>2, <3>3
  <2>4. QED BY <1>3, <2>2, <2>3 DEF SendReady
<1>4. CASE DelayAdd
  BY <1>4 DEF DelayAdd, life
<1>5. CASE StartSVS
  BY <1>5, MediaFacts DEF StartSVS, life, Typed, TypeOK
<1>6. CASE SetCamera
  BY <1>6 DEF SetCamera, life
<1>7. CASE StopCall
  BY <1>7 DEF StopCall, TimersAfterStop
<1>8. CASE StartCall \/ HoldCall \/ TransportReady \/ TransportLost \/ UNCHANGED vars
  BY <1>2, <1>8 DEF StartCall, HoldCall, TransportReady, TransportLost, vars
<1>9. CASE AcceptCall \/ AnswerReceived
  BY <1>2, <1>9 DEF AcceptCall, AnswerReceived
<1>10. ASSUME NEW m \in Media, RecvReady(m) PROVE Scheduled'
  BY <1>2, <1>10 DEF RecvReady
<1>11. ASSUME NEW m \in Media, NEW b \in BOOLEAN, Mute(m, b) PROVE Scheduled'
  BY <1>2, <1>11 DEF Mute
<1>12. CASE Resume \/ \E m \in Media : StartStopTrack(m)
  BY <1>2, <1>12 DEF Resume, StartStopTrack, StartTracks
<1>13. ASSUME NEW b \in BOOLEAN, OnNetworkStatus(b) PROVE Scheduled'
  BY <1>2, <1>13 DEF OnNetworkStatus
<1>14. QED BY <1>1, <1>3, <1>4, <1>5, <1>6, <1>7, <1>8, <1>9, <1>10, <1>11, <1>12, <1>13 DEF Next

-----------------------------------------------------------------------------
(* References: stopCall drops what the members hold, which is every track of  *)
(* the call but the superseded ones of an SVS call.                           *)
LEMMA KeptStep == Typed /\ Scheduled /\ Kept /\ [Next]_vars => Kept'
<1> SUFFICES ASSUME Typed, Scheduled, Kept, [Next]_vars PROVE Kept'
  OBVIOUS
<1>1. ASSUME NEW m \in Modes, NEW b \in MutedStart, Preview(m, b) PROVE Kept'
  <2>1. \A t \in refs : t.call # conn' /\ t.call <= calls' /\ t.call # conn
    BY <1>1 DEF Preview, Kept, Covered, Typed, TypeOK, Track
  <2>2. UNCHANGED <<sending, receiving, refs>>
    BY <1>1 DEF Preview, tracks
  <2>3. \A k \in Media : receiving[k] = {} /\ sending[k] = NoTrack
    BY <2>1 DEF Kept, TracksCounted
  <2>4. QED BY <2>1, <2>2, <2>3 DEF Kept, Covered, TracksCounted
<1>2. ASSUME UNCHANGED <<life, tracks>> PROVE Kept'
  BY <1>2 DEF life, tracks, Kept, Covered, TracksCounted
<1>3. ASSUME NEW m \in Media, SendReady(m) PROVE Kept'
  <2> DEFINE t == NewTrack(m, "send")
  <2>1. /\ t # NoTrack /\ t \in Track /\ t.call = conn /\ t.medium = m /\ t.way = "send"
        /\ (t.svs <=> mode = "svs")
    BY <1>3, NewTrackTyped DEF SendReady
  <2>2. refs' = refs \cup {t} /\ receiving' = receiving /\ UNCHANGED life
    BY <1>3 DEF SendReady
  <2>3. t.call <= calls
    BY <2>1 DEF Typed, TypeOK
  <2> HIDE DEF t
  <2>4. CASE SecondReady(m)
    <3>1. sending' = sending /\ mode = "svs"
      BY <2>4 DEF SecondReady
    <3>2. Covered'
      BY <2>1, <2>2, <2>3, <3>1 DEF Covered, Kept, life
    <3>3. QED BY <2>1, <2>2, <3>1, <3>2 DEF Kept, TracksCounted, life
  <2>5. CASE FirstReady(m)
    <3>1. sending' = [sending EXCEPT ![m] = t]
      BY <2>5 DEF FirstReady, t
    <3>2. sending'[m] = t /\ \A k \in Media : k # m => sending'[k] = sending[k]
      BY <3>1 DEF Typed, TypeOK
    <3>3. mode # "svs" => \A r \in refs : ~(r.call = conn /\ r.medium = m /\ r.way = "send")
      <4> SUFFICES ASSUME mode # "svs" PROVE Announced(m, "send") = {}
        BY DEF Announced
      <4>1. ~extra
        BY DEF Scheduled
      <4>2. IsFiniteSet(Announced(m, "send"))
        BY FS_Subset DEF Announced, Typed
      <4>3. Cardinality(Announced(m, "send")) < 1
        BY <1>3, <4>1 DEF SendReady
      <4>4. Cardinality(Announced(m, "send")) = 0
        BY <4>2, <4>3, FS_CardinalityType
      <4>5. QED BY <4>2, <4>4, FS_EmptySet
    <3>4. Covered'
      <4>1. \A k \in Media : sending'[k] # NoTrack => sending'[k].medium = k
        BY <2>1, <3>2 DEF Kept, Covered
      <4>2. \A r \in refs' : r.call <= calls' /\ (r.call = conn' => (r.svs <=> mode' = "svs"))
        BY <2>1, <2>2, <2>3 DEF Kept, Covered, life
      <4>3. ASSUME NEW r \in refs', r.call = conn'
            PROVE  \/ r.way = "recv" /\ r \in receiving'[r.medium]
                   \/ r.way = "send" /\ r.svs
                   \/ r.way = "send" /\ r = sending'[r.medium]
        <5>1. CASE r = t
          BY <2>1, <3>2, <5>1
        <5>2. CASE r \in refs
          <6>1. r.call = conn /\ r.medium \in Media
            BY <2>2, <4>3, <5>2 DEF life, Typed, TypeOK, Track
          <6>2. \/ r.way = "recv" /\ r \in receiving[r.medium]
                \/ r.way = "send" /\ r.svs
                \/ r.way = "send" /\ ~r.svs /\ r = sending[r.medium]
            BY <5>2, <6>1 DEF Kept, Covered
          <6>3. CASE r.way = "send" /\ ~r.svs /\ r = sending[r.medium]
            <7>1. mode # "svs"
              BY <5>2, <6>1, <6>3 DEF Kept, Covered
            <7>2. r.medium # m
              BY <3>3, <5>2, <6>1, <6>3, <7>1
            <7>3. QED BY <3>2, <6>1, <6>3, <7>2
          <6>4. QED BY <2>2, <6>2, <6>3
        <5>3. QED BY <2>2, <5>1, <5>2
      <4>4. QED BY <4>1, <4>2, <4>3 DEF Covered
    <3>5. TracksCounted'
      BY <2>1, <2>2, <3>2 DEF Kept, TracksCounted, life
    <3>6. QED BY <3>4, <3>5 DEF Kept
  <2>6. QED BY <1>3, <2>4, <2>5 DEF SendReady
<1>4. ASSUME NEW m \in Media, RecvReady(m) PROVE Kept'
  <2> DEFINE t == NewTrack(m, "recv")
  <2>1. /\ t \in Track /\ t.call = conn /\ t.medium = m /\ t.way = "recv" /\ t # NoTrack
        /\ (t.svs <=> mode = "svs") /\ t.call <= calls
    BY <1>4, NewTrackTyped DEF RecvReady, Typed, TypeOK
  <2>2. /\ refs' = refs \cup {t} /\ sending' = sending /\ UNCHANGED life
        /\ receiving' = [receiving EXCEPT ![m] = @ \cup {t}]
    BY <1>4 DEF RecvReady
  <2> HIDE DEF t
  <2>3. receiving'[m] = receiving[m] \cup {t} /\ \A k \in Media : k # m => receiving'[k] = receiving[k]
    BY <2>2 DEF Typed, TypeOK
  <2>4. \A r \in refs : r.medium \in Media
    BY DEF Typed, TypeOK, Track
  <2>5. Covered'
    BY <2>1, <2>2, <2>3, <2>4 DEF Kept, Covered, life
  <2>6. TracksCounted'
    BY <2>1, <2>2, <2>3 DEF Kept, TracksCounted, life
  <2>7. QED BY <2>5, <2>6 DEF Kept
<1>5. CASE StopCall
  <2>1. /\ refs' = refs \ Released /\ conn' = 0 /\ calls' = calls /\ mode' = mode
        /\ \A k \in Media : sending'[k] = NoTrack /\ receiving'[k] = {}
    BY <1>5 DEF StopCall, NoTracks
  <2>2. \A t \in refs : t.call # 0 /\ t.medium \in Media
    BY DEF Typed, TypeOK, Track
  <2>3. ASSUME NEW t \in refs', t.call = conn PROVE t.svs /\ t.way = "send"
    <3>1. t \in refs /\ t \notin Released
      BY <2>1
    <3>2. t # sending[t.medium] /\ t \notin receiving[t.medium]
      BY <2>2, <3>1 DEF Released
    <3>3. QED BY <2>3, <3>1, <3>2 DEF Kept, Covered
  <2>4. Covered'
    BY <2>1, <2>2 DEF Kept, Covered
  <2>5. TracksCounted'
    BY <2>1, <2>3 DEF Kept, TracksCounted
  <2>6. QED BY <2>4, <2>5 DEF Kept
<1>6. CASE StartCall \/ HoldCall \/ TransportReady \/ TransportLost \/ UNCHANGED vars
  BY <1>2, <1>6 DEF StartCall, HoldCall, TransportReady, TransportLost, vars
<1>7. CASE AcceptCall \/ AnswerReceived
  BY <1>2, <1>7 DEF AcceptCall, AnswerReceived
<1>8. CASE DelayAdd \/ StartSVS \/ SetCamera
  BY <1>2, <1>8 DEF DelayAdd, StartSVS, SetCamera
<1>9. ASSUME NEW m \in Media, NEW b \in BOOLEAN, Mute(m, b) PROVE Kept'
  BY <1>2, <1>9 DEF Mute
<1>10. CASE Resume \/ \E m \in Media : StartStopTrack(m)
  BY <1>2, <1>10 DEF Resume, StartStopTrack, StartTracks
<1>11. ASSUME NEW b \in BOOLEAN, OnNetworkStatus(b) PROVE Kept'
  BY <1>2, <1>11 DEF OnNetworkStatus
<1>12. QED BY <1>1, <1>3, <1>4, <1>5, <1>6, <1>7, <1>8, <1>9, <1>10, <1>11 DEF Next

-----------------------------------------------------------------------------
(* Muting: what checkDirection does to the track of one medium it does to no  *)
(* other, and it unmutes only what an SDP of before had muted or might have.  *)
LEMMA CheckDirectionHeard ==
  ASSUME Typed, Kept, Heard, NEW d \in Directions, CheckDirection(d), sending' = sending
  PROVE  Heard'
<1>1. \A m, k \in Media : sending[m] # NoTrack /\ sending[m] = sending[k] => m = k
  BY DEF Kept, Covered
<1>2. \A m \in Media : sending[m] \in muted => sending[m] # NoTrack
  BY EndpointAssumption DEF Typed, TypeOK
<1>3. /\ recvs' = d /\ wants' = wants /\ off' = off
      /\ \A m \in Media : overruled'[m] = (overruled[m] \/ (~d[m] /\ sending[m] # NoTrack))
  BY DEF CheckDirection
<1>4. ASSUME NEW m \in Media, sending[m] # NoTrack
      PROVE  (sending[m] \in muted') <=> ((~d[m] /\ recvs[m]) \/ (sending[m] \in muted /\ ~(d[m] /\ ~recvs[m])))
  BY <1>1, <1>4 DEF CheckDirection
<1>5. ASSUME NEW m \in Media PROVE sending[m] \in muted' => sending[m] # NoTrack
  BY <1>2 DEF CheckDirection
<1>6. Unheld'
  BY <1>3, <1>4, <1>5 DEF Heard, Unheld
<1>7. MuteKept'
  BY <1>3, <1>4 DEF Heard, MuteKept
<1>8. \A m \in Media : ~overruled'[m] /\ sending'[m] # NoTrack => recvs'[m]
  BY <1>3
<1>9. QED BY <1>6, <1>7, <1>8 DEF Heard

LEMMA HeardStep == Typed /\ Kept /\ Heard /\ [Next]_vars => Heard'
<1> SUFFICES ASSUME Typed, Kept, Heard, [Next]_vars PROVE Heard'
  OBVIOUS
<1>1. ASSUME NEW m \in Modes, NEW b \in MutedStart, Preview(m, b) PROVE Heard'
  <2>2. UNCHANGED <<sending, mutes>>
    BY <1>1 DEF Preview, tracks
  <2>3. QED BY <2>2 DEF mutes, Heard, Unheld, MuteKept
<1>2. ASSUME UNCHANGED <<sending, mutes>> PROVE Heard'
  BY <1>2 DEF mutes, Heard, Unheld, MuteKept
<1>3. ASSUME NEW m \in Media, SendReady(m) PROVE Heard'
  <2> DEFINE t == NewTrack(m, "send")
  <2>1. t # NoTrack /\ t.medium = m
    BY <1>3, NewTrackTyped DEF SendReady
  <2>2. UNCHANGED recvs
    BY <1>3 DEF SendReady
  <2> HIDE DEF t
  <2>3. CASE SecondReady(m)
    BY <1>2, <2>2, <2>3 DEF SecondReady, mutes
  <2>4. CASE FirstReady(m)
    <3>1. /\ sending' = [sending EXCEPT ![m] = t] /\ wants' = [wants EXCEPT ![m] = mute]
          /\ overruled' = [overruled EXCEPT ![m] = ~recvs[m]] /\ off' = (off /\ m # "video")
      BY <2>4 DEF FirstReady, t
    <3>2. muted' = IF mute THEN muted \cup {t} ELSE muted \ {t}
      BY <2>4 DEF FirstReady, t
    <3>3. sending'[m] = t /\ wants'[m] = mute /\ overruled'[m] = ~recvs[m]
      BY <3>1 DEF Typed, TypeOK
    <3>4. ASSUME NEW k \in Media, k # m
          PROVE  /\ sending'[k] = sending[k] /\ wants'[k] = wants[k] /\ overruled'[k] = overruled[k]
                 /\ (off' /\ k = "video" <=> off /\ k = "video")
                 /\ sending[k] # t /\ (sending[k] \in muted' <=> sending[k] \in muted)
      <4>1. sending[k] # t
        BY <2>1, <3>4 DEF Kept, Covered
      <4>2. QED BY <3>1, <3>2, <3>4, <4>1 DEF Typed, TypeOK
    <3>5. t \in muted' <=> mute
      BY <3>2
    <3>6. Unheld'
      BY <2>2, <3>3, <3>4, <3>5 DEF Heard, Unheld
    <3>7. MuteKept'
      BY <2>2, <3>3, <3>4, <3>5 DEF Heard, MuteKept
    <3>8. \A k \in Media : ~overruled'[k] /\ sending'[k] # NoTrack => recvs'[k]
      BY <2>2, <3>3, <3>4 DEF Heard
    <3>9. QED BY <3>6, <3>7, <3>8 DEF Heard
  <2>5. QED BY <1>3, <2>3, <2>4 DEF SendReady
<1>4. ASSUME NEW m \in Media, NEW b \in BOOLEAN, Mute(m, b) PROVE Heard'
  <2>1. UNCHANGED <<sending, recvs, off>> /\ sending[m] # NoTrack
    BY <1>4 DEF Mute, tracks
  <2>2. wants'[m] = b /\ (sending[m] \in muted' <=> b) /\ overruled'[m] = ~recvs[m]
    BY <1>4 DEF Mute, SetMute, Typed, TypeOK
  <2>3. ASSUME NEW k \in Media, k # m
        PROVE  /\ wants'[k] = wants[k] /\ (sending[k] \in muted' <=> sending[k] \in muted)
               /\ overruled'[k] = overruled[k]
    <3>1. sending[k] # sending[m]
      BY <2>1, <2>3 DEF Kept, Covered
    <3>2. QED BY <1>4, <2>3, <3>1 DEF Mute, SetMute, Typed, TypeOK
  <2>4. Unheld'
    BY <2>1, <2>2, <2>3 DEF Heard, Unheld
  <2>5. MuteKept'
    BY <2>1, <2>2, <2>3 DEF Heard, MuteKept
  <2>6. QED BY <2>1, <2>2, <2>3, <2>4, <2>5 DEF Heard
<1>5. CASE StopCall
  <2>1. muted' = {} /\ \A k \in Media : sending'[k] = NoTrack
    BY <1>5 DEF StopCall, NoTracks
  <2>2. QED BY <2>1 DEF Heard, Unheld, MuteKept
<1>6. CASE StartCall \/ HoldCall \/ TransportReady \/ TransportLost \/ UNCHANGED vars
  BY <1>2, <1>6 DEF StartCall, HoldCall, TransportReady, TransportLost, vars, tracks
<1>7. CASE AcceptCall \/ AnswerReceived
  <2>1. sending' = sending /\ Received
    BY <1>7 DEF AcceptCall, AnswerReceived, tracks
  <2>2. QED BY <1>2, <2>1, CheckDirectionHeard DEF Received
<1>8. CASE DelayAdd \/ StartSVS \/ SetCamera
  BY <1>2, <1>8 DEF DelayAdd, StartSVS, SetCamera, tracks
<1>9. ASSUME NEW m \in Media, RecvReady(m) PROVE Heard'
  BY <1>2, <1>9 DEF RecvReady
(* The network: like the user, but what it says is not the user's word.       *)
<1>10. ASSUME NEW b \in BOOLEAN, OnNetworkStatus(b) PROVE Heard'
  <2>1. UNCHANGED <<sending, recvs, wants>> /\ sending["video"] # NoTrack
    BY <1>10 DEF OnNetworkStatus, tracks
  <2>2. /\ off' = b /\ (sending["video"] \in muted' <=> b)
        /\ overruled'["video"] = (overruled["video"] \/ ~b)
    BY <1>10, MediaFacts DEF OnNetworkStatus, SetMute, Typed, TypeOK
  <2>3. ASSUME NEW k \in Media, k # "video"
        PROVE  (sending[k] \in muted' <=> sending[k] \in muted) /\ overruled'[k] = overruled[k]
    <3>1. sending[k] # sending["video"]
      BY <2>1, <2>3, MediaFacts DEF Kept, Covered
    <3>2. QED BY <1>10, <2>3, <3>1 DEF OnNetworkStatus, SetMute, Typed, TypeOK
  <2>4. Unheld'
    BY <2>1, <2>2, <2>3 DEF Heard, Unheld
  <2>5. MuteKept'
    BY <2>1, <2>2, <2>3 DEF Heard, MuteKept
  <2>6. QED BY <2>1, <2>2, <2>3, <2>4, <2>5 DEF Heard
(* A new start mutes nothing, and whom it unmutes it overrules.               *)
<1>11. ASSUME NEW M \in SUBSET Media, StartTracks(M) PROVE Heard'
  <2>1. UNCHANGED <<sending, recvs, wants, off>> /\ muted' \subseteq muted
    BY <1>11 DEF StartTracks, tracks
  <2>2. \A k \in Media : overruled'[k] = (overruled[k] \/ (k \in M /\ sending[k] # NoTrack))
    BY <1>11 DEF StartTracks
  <2>3. ASSUME NEW k \in Media \ M, sending[k] # NoTrack, sending[k] \in muted
        PROVE  sending[k] \in muted'
    <3>1. \A m \in M : sending[m] # sending[k]
      BY <2>3 DEF Kept, Covered
    <3>2. QED BY <1>11, <2>3, <3>1 DEF StartTracks
  <2>4. Unheld'
    BY <2>1 DEF Heard, Unheld
  <2>5. MuteKept'
    BY <2>1, <2>2, <2>3 DEF Heard, MuteKept
  <2>6. QED BY <2>1, <2>2, <2>4, <2>5 DEF Heard
<1>12. CASE Resume \/ \E m \in Media : StartStopTrack(m)
  <2>1. Media \in SUBSET Media /\ \A m \in Media : {m} \in SUBSET Media
    OBVIOUS
  <2>2. QED BY <1>11, <1>12, <2>1 DEF Resume, StartStopTrack
<1>13. QED BY <1>1, <1>3, <1>4, <1>5, <1>6, <1>7, <1>8, <1>9, <1>10, <1>12 DEF Next

-----------------------------------------------------------------------------
LEMMA InvInit == Init => Inv
<1> SUFFICES ASSUME Init PROVE Inv
  OBVIOUS
<1> USE DEF Init, NoTracks, Closed
<1>1. Typed
  <2>1. 0 \in 0..MaxCalls /\ 0 \in 0..MaxSdps
    BY EndpointAssumption
  <2>2. TypeOK
    BY <2>1 DEF TypeOK
  <2>3. QED BY <2>2, FS_EmptySet DEF Typed, Transported, TransportAgrees
<1>2. Scheduled
  BY DEF Scheduled, TimersMeetState
<1>3. Kept
  BY DEF Kept, Covered, TracksCounted
<1>4. Heard
  BY DEF Heard, Unheld, MuteKept
<1>5. QED BY <1>1, <1>2, <1>3, <1>4 DEF Inv

LEMMA InvAlways == Spec => []Inv
<1>1. Inv /\ [Next]_vars => Inv'
  BY TypedStep, ScheduledStep, KeptStep, HeardStep DEF Inv
<1>2. QED BY InvInit, <1>1, PTL DEF Spec

(* Every variable keeps its type, and only a train call listens. *)
THEOREM TypeCorrect == Spec => []TypeOK
<1>1. Inv => TypeOK
  BY DEF Inv, Typed
<1>2. QED BY <1>1, InvAlways, PTL

(* No timer fires into a pin or a connection that is gone. *)
THEOREM TimersSafe == Spec => []TimersMeetState
<1>1. Inv => TimersMeetState
  BY DEF Inv, Scheduled
<1>2. QED BY <1>1, InvAlways, PTL

(* No member points to a track of an ended call, and outside SVS calls no     *)
(* track of an ended call stays referenced.                                   *)
THEOREM TracksReturned == Spec => []TracksCounted
<1>1. Inv => TracksCounted
  BY DEF Inv, Kept
<1>2. QED BY <1>1, InvAlways, PTL

(* The engine is told of every external transport that comes and goes. *)
THEOREM TransportTold == Spec => []TransportAgrees
<1>1. Inv => TransportAgrees
  BY DEF Inv, Typed, Transported
<1>2. QED BY <1>1, InvAlways, PTL

(* After any sequence of holds, announcements and new starts a medium the     *)
(* remote side receives is silent only if the user, or the network, wants it. *)
THEOREM HoldEnds == Spec => []Unheld
<1>1. Inv => Unheld
  BY DEF Inv, Heard
<1>2. QED BY <1>1, InvAlways, PTL

(* What the user mutes stays silent, unless the remote side comes back from a *)
(* hold, the network recovers, or the track is started again.                 *)
THEOREM HoldRespectsMute == Spec => []MuteKept
<1>1. Inv => MuteKept
  BY DEF Inv, Heard
<1>2. QED BY <1>1, InvAlways, PTL

-----------------------------------------------------------------------------
(* The windows.                                                              *)
(* The first of some positions is one of them. *)
LEMMA FirstIn ==
  ASSUME NEW S, S \subseteq Nat, S # {}
  PROVE  FirstOf(S) \in S
<1> DEFINE R == StrictSubsetOrdering(Nat)
           T == {1..i : i \in S}
<1>1. IsWellFoundedOn(R, FiniteSubsetsOf(Nat))
  BY FS_StrictSubsetOrderingWellFounded
<1>2. T \subseteq FiniteSubsetsOf(Nat) /\ T # {}
  <2>1. \A i \in S : IsFiniteSet(1..i) /\ 1..i \in SUBSET Nat
    BY FS_Interval
  <2>2. QED BY <2>1 DEF FiniteSubsetsOf
<1> HIDE DEF R
<1>3. PICK x \in T : \A y \in T : ~ (<<y, x>> \in R)
  BY <1>1, <1>2, WFMin
<1>4. PICK i \in S : x = 1..i
  OBVIOUS
<1>5. \A j \in S : i <= j
  <2> SUFFICES ASSUME NEW j \in S, j < i PROVE FALSE
    OBVIOUS
  <2>1. 1..j \subseteq 1..i /\ i \in 1..i /\ i \notin 1..j /\ 1..j \in SUBSET Nat /\ 1..i \in SUBSET Nat
    OBVIOUS
  <2>2. <<1..j, 1..i>> \in R
    BY <2>1 DEF R, StrictSubsetOrdering
  <2>3. QED BY <1>3, <1>4, <2>2
<1>6. QED BY <1>5 DEF FirstOf

-----------------------------------------------------------------------------
NoVidTwice(s) == \A i, j \in DOMAIN s : s[i].vid = s[j].vid /\ s[i].vid # NoVid => i = j

AtMostTwo(s) == \A i, j, k \in DOMAIN s :
  i < j /\ j < k => ~(s[i].csi = s[j].csi /\ s[j].csi = s[k].csi)

GoodList(s) == s \in Seq(Entry) /\ NoVidTwice(s) /\ AtMostTwo(s)

SetEntry(s, i, e) == [s EXCEPT ![i] = e]

LEMMA SetEntryFacts ==
  ASSUME NEW s \in Seq(Entry), NEW i \in DOMAIN s, NEW e \in Entry
  PROVE  /\ SetEntry(s, i, e) \in Seq(Entry)
         /\ DOMAIN SetEntry(s, i, e) = DOMAIN s
         /\ \A j \in DOMAIN s : SetEntry(s, i, e)[j] = IF j = i THEN e ELSE s[j]
<1>1. i \in 1..Len(s)
  BY LenProperties
<1>2. QED BY <1>1, ExceptSeq, LenProperties DEF SetEntry

(* An entry may give up its vid or take one that nobody holds. *)
LEMMA SetEntryGood ==
  ASSUME NEW s, GoodList(s), NEW i \in DOMAIN s, NEW e \in Entry,
         e.csi = s[i].csi, e.vid = NoVid \/ e.vid \notin Held(s)
  PROVE  GoodList(SetEntry(s, i, e))
<1> DEFINE t == SetEntry(s, i, e)
<1>1. /\ t \in Seq(Entry) /\ DOMAIN t = DOMAIN s
      /\ \A j \in DOMAIN s : t[j] = IF j = i THEN e ELSE s[j]
  BY SetEntryFacts DEF GoodList
<1> HIDE DEF t
<1>2. NoVidTwice(t)
  <2> SUFFICES ASSUME NEW j \in DOMAIN s, NEW k \in DOMAIN s,
                      t[j].vid = t[k].vid, t[j].vid # NoVid
               PROVE  j = k
    BY <1>1 DEF NoVidTwice
  <2>1. CASE j # i /\ k # i
    BY <1>1, <2>1 DEF GoodList, NoVidTwice
  <2>2. CASE j = i /\ k # i
    BY <1>1, <2>2 DEF Held
  <2>3. CASE j # i /\ k = i
    BY <1>1, <2>3 DEF Held
  <2>4. QED BY <2>1, <2>2, <2>3
<1>3. \A j \in DOMAIN s : t[j].csi = s[j].csi
  BY <1>1
<1>4. AtMostTwo(t)
  BY <1>1, <1>3 DEF GoodList, AtMostTwo
<1>5. QED BY <1>1, <1>2, <1>4 DEF GoodList, t

(* Positions of a sequence are natural numbers, and its entries are entries. *)
LEMMA Positions ==
  ASSUME NEW s \in Seq(Entry)
  PROVE  DOMAIN s \subseteq Nat /\ \A i \in DOMAIN s : s[i] \in Entry
<1>1. DOMAIN s = 1..Len(s) /\ Len(s) \in Nat
  BY LenProperties
<1>2. QED BY <1>1, ElementOfSeq

LEMMA EvictedFacts ==
  ASSUME NEW e \in Entry, NEW vid \in Vids
  PROVE  Evicted(e, vid) \in Entry /\ Evicted(e, vid).vid = NoVid /\ Evicted(e, vid).csi = e.csi
<1>1. (e.hide \/ vid = 0) \in BOOLEAN
  OBVIOUS
<1>2. QED BY <1>1 DEF Evicted, Entry

LEMMA SeatedFacts ==
  ASSUME NEW e \in Entry, NEW vid \in Vids
  PROVE  Seated(e, vid) \in Entry /\ Seated(e, vid).vid = vid /\ Seated(e, vid).csi = e.csi
  BY DEF Seated, Entry

LEMMA EvictGood ==
  ASSUME NEW s, GoodList(s), NEW vid \in Vids
  PROVE  GoodList(Evict(s, vid)) /\ vid \notin Held(Evict(s, vid))
<1> DEFINE at == {i \in DOMAIN s : s[i].vid = vid}
           f == FirstOf(at)
           e == Evicted(s[f], vid)
<1>1. CASE at = {}
  <2>1. Evict(s, vid) = s
    BY <1>1 DEF Evict
  <2>2. QED BY <1>1, <2>1 DEF Held
<1>2. CASE at # {}
  <2>1. f \in at
    BY <1>2, FirstIn, Positions DEF GoodList
  <2>2. f \in DOMAIN s /\ s[f].vid = vid /\ s[f] \in Entry
    BY <2>1, Positions DEF GoodList
  <2>3. Evict(s, vid) = SetEntry(s, f, e)
    BY <1>2 DEF Evict, SetEntry
  <2> HIDE DEF f
  <2>4. e \in Entry /\ e.vid = NoVid /\ e.csi = s[f].csi
    BY <2>2, EvictedFacts
  <2>5. vid # NoVid
    BY LayoutAssumption DEF Vids, NoVid
  <2> HIDE DEF e
  <2>6. GoodList(SetEntry(s, f, e))
    BY <2>2, <2>4, SetEntryGood
  <2>7. /\ DOMAIN SetEntry(s, f, e) = DOMAIN s
        /\ \A j \in DOMAIN s : SetEntry(s, f, e)[j] = IF j = f THEN e ELSE s[j]
    BY <2>2, <2>4, SetEntryFacts DEF GoodList
  <2>8. \A j \in DOMAIN s : SetEntry(s, f, e)[j].vid # vid
    BY <2>2, <2>4, <2>5, <2>7 DEF GoodList, NoVidTwice
  <2>9. vid \notin Held(SetEntry(s, f, e))
    BY <2>7, <2>8 DEF Held
  <2>10. QED BY <2>3, <2>6, <2>9
<1>3. QED BY <1>1, <1>2

LEMMA VacateGood ==
  ASSUME NEW s, GoodList(s), NEW csi, NEW vid
  PROVE  GoodList(Vacate(s, csi, vid))
<1> DEFINE at == {i \in DOMAIN s : s[i].csi = csi /\ s[i].vid = vid}
           f == FirstOf(at)
           e == [s[f] EXCEPT !.vid = NoVid]
<1>1. CASE at = {}
  BY <1>1 DEF Vacate
<1>2. CASE at # {}
  <2>1. f \in at
    BY <1>2, FirstIn, Positions DEF GoodList
  <2>2. f \in DOMAIN s /\ s[f] \in Entry
    BY <2>1, Positions DEF GoodList
  <2>3. Vacate(s, csi, vid) = SetEntry(s, f, e)
    BY <1>2 DEF Vacate, SetEntry
  <2> HIDE DEF f
  <2>4. e \in Entry /\ e.vid = NoVid /\ e.csi = s[f].csi
    BY <2>2 DEF Entry
  <2> HIDE DEF e
  <2>5. QED BY <2>2, <2>3, <2>4, SetEntryGood
<1>3. QED BY <1>1, <1>2

LEMMA RestoreGood ==
  ASSUME NEW s, GoodList(s)
  PROVE  GoodList(Restore(s))
<1> DEFINE waiting == {i \in DOMAIN s : s[i].hide /\ s[i].vid = NoVid /\ s[i].o_vid # NoVid}
           f == FirstOf(waiting)
           e == [s[f] EXCEPT !.hide = FALSE, !.vid = s[f].o_vid]
<1>1. CASE waiting = {} \/ \E i \in DOMAIN s : s[i].vid = s[f].o_vid
  BY <1>1 DEF Restore
<1>2. CASE waiting # {} /\ ~ \E i \in DOMAIN s : s[i].vid = s[f].o_vid
  <2>1. f \in waiting
    BY <1>2, FirstIn, Positions DEF GoodList
  <2>2. f \in DOMAIN s /\ s[f] \in Entry
    BY <2>1, Positions DEF GoodList
  <2>3. Restore(s) = SetEntry(s, f, e)
    BY <1>2 DEF Restore, SetEntry
  <2>4. s[f].o_vid \notin Held(s)
    BY <1>2 DEF Held
  <2> HIDE DEF f
  <2>5. e \in Entry /\ e.vid = s[f].o_vid /\ e.csi = s[f].csi
    BY <2>2 DEF Entry
  <2> HIDE DEF e
  <2>6. QED BY <2>2, <2>3, <2>4, <2>5, SetEntryGood
<1>3. QED BY <1>1, <1>2

(* A third entry of a participant would mean that two of his hold vid 0. *)
LEMMA SeatGood ==
  ASSUME NEW s, GoodList(s), NEW csi \in Csis, NEW vid \in Vids, vid \notin Held(s)
  PROVE  GoodList(Seat(s, csi, vid))
<1> DEFINE of == {i \in DOMAIN s : s[i].csi = csi /\ s[i].vid # 0}
           f == FirstOf(of)
           e == Seated(s[f], vid)
           n == [csi |-> csi, vid |-> vid, o_vid |-> IF vid # 0 THEN vid ELSE NoVid, hide |-> FALSE]
<1>1. CASE of # {}
  <2>1. f \in of
    BY <1>1, FirstIn, Positions DEF GoodList
  <2>2. f \in DOMAIN s /\ s[f] \in Entry
    BY <2>1, Positions DEF GoodList
  <2>3. Seat(s, csi, vid) = SetEntry(s, f, e)
    BY <1>1 DEF Seat, SetEntry
  <2> HIDE DEF f
  <2>4. e \in Entry /\ e.vid = vid /\ e.csi = s[f].csi
    BY <2>2, SeatedFacts
  <2> HIDE DEF e
  <2>5. QED BY <2>2, <2>3, <2>4, SetEntryGood
<1>2. CASE of = {}
  <2> DEFINE t == Append(s, n)
  <2>1. n \in Entry /\ n.csi = csi /\ n.vid = vid
    BY DEF Entry
  <2>2. Seat(s, csi, vid) = t
    BY <1>2 DEF Seat
  <2> HIDE DEF n
  <2>3. s \in Seq(Entry) /\ Len(s) \in Nat /\ DOMAIN s = 1..Len(s)
    BY LenProperties DEF GoodList
  <2>4. /\ t \in Seq(Entry) /\ DOMAIN t = 1..(Len(s) + 1)
        /\ t[Len(s) + 1] = n /\ \A i \in 1..Len(s) : t[i] = s[i]
    BY <2>1, <2>3
  <2> HIDE DEF t
  <2>5. \A i \in DOMAIN t : i \in DOMAIN s \/ i = Len(s) + 1
    BY <2>3, <2>4
  <2>6. \A i \in DOMAIN s : s[i].vid # vid
    BY DEF Held
  <2>7. NoVidTwice(t)
    <3> SUFFICES ASSUME NEW i \in DOMAIN t, NEW j \in DOMAIN t,
                        t[i].vid = t[j].vid, t[i].vid # NoVid
                 PROVE  i = j
      BY DEF NoVidTwice
    <3>1. CASE i \in DOMAIN s /\ j \in DOMAIN s
      BY <2>3, <2>4, <3>1 DEF GoodList, NoVidTwice
    <3>2. CASE i \in DOMAIN s /\ j = Len(s) + 1
      BY <2>1, <2>3, <2>4, <2>6, <3>2
    <3>3. CASE i = Len(s) + 1 /\ j \in DOMAIN s
      BY <2>1, <2>3, <2>4, <2>6, <3>3
    <3>4. QED BY <2>5, <3>1, <3>2, <3>3
  <2>8. \A i, j \in DOMAIN s : s[i].csi = csi /\ s[j].csi = csi => i = j
    <3> SUFFICES ASSUME NEW i \in DOMAIN s, NEW j \in DOMAIN s, s[i].csi = csi, s[j].csi = csi
                 PROVE  i = j
      OBVIOUS
    <3>1. s[i].vid = 0 /\ s[j].vid = 0
      BY <1>2
    <3>2. QED BY <3>1 DEF GoodList, NoVidTwice, NoVid
  <2>9. AtMostTwo(t)
    <3> SUFFICES ASSUME NEW i \in DOMAIN t, NEW j \in DOMAIN t, NEW k \in DOMAIN t,
                        i < j, j < k, t[i].csi = t[j].csi, t[j].csi = t[k].csi
                 PROVE  FALSE
      BY DEF AtMostTwo
    <3>1. i \in DOMAIN s /\ j \in DOMAIN s /\ t[i] = s[i] /\ t[j] = s[j]
      BY <2>3, <2>4
    <3>2. CASE k \in DOMAIN s
      BY <2>3, <2>4, <3>1, <3>2 DEF GoodList, AtMostTwo
    <3>3. CASE k = Len(s) + 1
      <4>1. s[i].csi = csi /\ s[j].csi = csi
        BY <2>1, <2>4, <3>1, <3>3
      <4>2. i = j
        BY <2>8, <3>1, <4>1
      <4>3. QED BY <2>3, <3>1, <4>2
    <3>4. QED BY <2>5, <3>2, <3>3
  <2>10. QED BY <2>2, <2>4, <2>7, <2>9 DEF GoodList
<1>3. QED BY <1>1, <1>2

(* One callback of the engine, whatever it says, keeps the list good. *)
LEMMA ListedGood ==
  ASSUME NEW s, GoodList(s), NEW vid \in Vids, NEW old, NEW new \in Csis \cup {Nobody}
  PROVE  GoodList(Listed(s, vid, old, new))
<1>1. CASE new # Nobody
  <2>1. GoodList(Seat(Evict(s, vid), new, vid))
    BY <1>1, EvictGood, SeatGood
  <2>2. QED BY <1>1, <2>1, RestoreGood DEF Listed
<1>2. CASE new = Nobody /\ old # Nobody
  BY <1>2, VacateGood, RestoreGood DEF Listed
<1>3. CASE new = Nobody /\ old = Nobody
  BY <1>3, RestoreGood DEF Listed
<1>4. QED BY <1>1, <1>2, <1>3

-----------------------------------------------------------------------------
LEMMA ListStep == GoodList(csivids) /\ [LayoutNext]_layoutVars => GoodList(csivids)'
<1> SUFFICES ASSUME GoodList(csivids), [LayoutNext]_layoutVars PROVE GoodList(csivids')
  OBVIOUS
<1>1. CASE csivids' = csivids
  BY <1>1
<1>2. CASE \E vid \in Vids, new \in Csis \cup {Nobody} : OnCSIsChanged(vid, new)
  <2>1. PICK vid \in Vids, new \in Csis \cup {Nobody} : OnCSIsChanged(vid, new)
    BY <1>2
  <2>2. csivids' = csivids \/ csivids' = Listed(csivids, vid, engine[vid], new)
    BY <2>1 DEF OnCSIsChanged
  <2>3. QED BY <2>2, ListedGood
<1>3. CASE OnMediaReady \/ Restart \/ UNCHANGED layoutVars
  BY <1>1, <1>3 DEF OnMediaReady, Restart, layoutVars
<1>4. ASSUME NEW video, NEW csi, OnMediaStatus(video, csi) PROVE csivids' = csivids
  BY <1>4 DEF OnMediaStatus
<1>5. QED BY <1>1, <1>2, <1>3, <1>4 DEF LayoutNext

(* The list never gives a window to two entries and never grows beyond two     *)
(* entries for a participant.                                                  *)
THEOREM ListConsistent == LayoutSpec => [](OneEntryPerVid /\ TwoPerCsi)
<1>1. LayoutInit => GoodList(csivids)
  <2> SUFFICES ASSUME LayoutInit PROVE GoodList(<<>>)
    BY DEF LayoutInit
  <2>1. <<>> \in Seq(Entry) /\ DOMAIN <<>> = {}
    BY EmptySeq
  <2>2. QED BY <2>1 DEF GoodList, NoVidTwice, AtMostTwo
<1>2. GoodList(csivids) => OneEntryPerVid /\ TwoPerCsi
  BY DEF GoodList, NoVidTwice, AtMostTwo, OneEntryPerVid, TwoPerCsi
<1>3. QED BY <1>1, <1>2, ListStep, PTL DEF LayoutSpec

-----------------------------------------------------------------------------
(* Who holds which vid after each loop. *)
Holds(s, w, c) == \E i \in DOMAIN s : s[i].vid = w /\ s[i].csi = c

LEMMA SetEntryHolds ==
  ASSUME NEW s \in Seq(Entry), NEW i \in DOMAIN s, NEW e \in Entry, NEW w, NEW c
  PROVE  /\ w = e.vid /\ c = e.csi => Holds(SetEntry(s, i, e), w, c)
         /\ Holds(s, w, c) /\ (w # s[i].vid \/ c # s[i].csi) => Holds(SetEntry(s, i, e), w, c)
<1>1. /\ DOMAIN SetEntry(s, i, e) = DOMAIN s
      /\ \A j \in DOMAIN s : SetEntry(s, i, e)[j] = IF j = i THEN e ELSE s[j]
  BY SetEntryFacts
<1>2. QED BY <1>1 DEF Holds

LEMMA EvictHolds ==
  ASSUME NEW s, GoodList(s), NEW vid \in Vids, NEW w, NEW c, Holds(s, w, c), w # vid
  PROVE  Holds(Evict(s, vid), w, c)
<1> DEFINE at == {i \in DOMAIN s : s[i].vid = vid}
           f == FirstOf(at)
           e == Evicted(s[f], vid)
<1>1. CASE at = {}
  BY <1>1 DEF Evict
<1>2. CASE at # {}
  <2>1. f \in at
    BY <1>2, FirstIn, Positions DEF GoodList
  <2>2. f \in DOMAIN s /\ s[f].vid = vid /\ s[f] \in Entry
    BY <2>1, Positions DEF GoodList
  <2>3. Evict(s, vid) = SetEntry(s, f, e)
    BY <1>2 DEF Evict, SetEntry
  <2> HIDE DEF f
  <2>4. e \in Entry
    BY <2>2, EvictedFacts
  <2> HIDE DEF e
  <2>5. QED BY <2>2, <2>3, <2>4, SetEntryHolds DEF GoodList
<1>3. QED BY <1>1, <1>2

LEMMA VacateHolds ==
  ASSUME NEW s, GoodList(s), NEW csi, NEW vid, NEW w, NEW c, Holds(s, w, c), w # vid
  PROVE  Holds(Vacate(s, csi, vid), w, c)
<1> DEFINE at == {i \in DOMAIN s : s[i].csi = csi /\ s[i].vid = vid}
           f == FirstOf(at)
           e == [s[f] EXCEPT !.vid = NoVid]
<1>1. CASE at = {}
  BY <1>1 DEF Vacate
<1>2. CASE at # {}
  <2>1. f \in at
    BY <1>2, FirstIn, Positions DEF GoodList
  <2>2. f \in DOMAIN s /\ s[f].vid = vid /\ s[f] \in Entry
    BY <2>1, Positions DEF GoodList
  <2>3. Vacate(s, csi, vid) = SetEntry(s, f, e)
    BY <1>2 DEF Vacate, SetEntry
  <2> HIDE DEF f
  <2>4. e \in Entry
    BY <2>2 DEF Entry
  <2> HIDE DEF e
  <2>5. QED BY <2>2, <2>3, <2>4, SetEntryHolds DEF GoodList
<1>3. QED BY <1>1, <1>2

(* Nobody who waits for his vid holds one. *)
LEMMA RestoreHolds ==
  ASSUME NEW s, GoodList(s), NEW w, NEW c, Holds(s, w, c), w # NoVid
  PROVE  Holds(Restore(s), w, c)
<1> DEFINE waiting == {i \in DOMAIN s : s[i].hide /\ s[i].vid = NoVid /\ s[i].o_vid # NoVid}
           f == FirstOf(waiting)
           e == [s[f] EXCEPT !.hide = FALSE, !.vid = s[f].o_vid]
<1>1. CASE waiting = {} \/ \E i \in DOMAIN s : s[i].vid = s[f].o_vid
  BY <1>1 DEF Restore
<1>2. CASE waiting # {} /\ ~ \E i \in DOMAIN s : s[i].vid = s[f].o_vid
  <2>1. f \in waiting
    BY <1>2, FirstIn, Positions DEF GoodList
  <2>2. f \in DOMAIN s /\ s[f].vid = NoVid /\ s[f] \in Entry
    BY <2>1, Positions DEF GoodList
  <2>3. Restore(s) = SetEntry(s, f, e)
    BY <1>2 DEF Restore, SetEntry
  <2> HIDE DEF f
  <2>4. e \in Entry
    BY <2>2 DEF Entry
  <2> HIDE DEF e
  <2>5. QED BY <2>2, <2>3, <2>4, SetEntryHolds DEF GoodList
<1>3. QED BY <1>1, <1>2

(* Who is put on a vid holds it, and nobody else gives up his. *)
LEMMA SeatHolds ==
  ASSUME NEW s, GoodList(s), NEW csi \in Csis, NEW vid \in Vids
  PROVE  /\ Holds(Seat(s, csi, vid), vid, csi)
         /\ \A w, c : Holds(s, w, c) /\ c # csi => Holds(Seat(s, csi, vid), w, c)
<1> DEFINE of == {i \in DOMAIN s : s[i].csi = csi /\ s[i].vid # 0}
           f == FirstOf(of)
           e == Seated(s[f], vid)
           n == [csi |-> csi, vid |-> vid, o_vid |-> IF vid # 0 THEN vid ELSE NoVid, hide |-> FALSE]
<1>1. CASE of # {}
  <2>1. f \in of
    BY <1>1, FirstIn, Positions DEF GoodList
  <2>2. f \in DOMAIN s /\ s[f].csi = csi /\ s[f] \in Entry
    BY <2>1, Positions DEF GoodList
  <2>3. Seat(s, csi, vid) = SetEntry(s, f, e)
    BY <1>1 DEF Seat, SetEntry
  <2> HIDE DEF f
  <2>4. e \in Entry /\ e.vid = vid /\ e.csi = csi
    BY <2>2, SeatedFacts
  <2> HIDE DEF e
  <2>5. QED BY <2>2, <2>3, <2>4, SetEntryHolds DEF GoodList
<1>2. CASE of = {}
  <2> DEFINE t == Append(s, n)
  <2>1. n \in Entry /\ n.vid = vid /\ n.csi = csi
    BY DEF Entry
  <2>2. Seat(s, csi, vid) = t
    BY <1>2 DEF Seat
  <2> HIDE DEF n
  <2>3. s \in Seq(Entry) /\ Len(s) \in Nat /\ DOMAIN s = 1..Len(s)
    BY LenProperties DEF GoodList
  <2>4. /\ DOMAIN t = 1..(Len(s) + 1)
        /\ t[Len(s) + 1] = n /\ \A i \in 1..Len(s) : t[i] = s[i]
    BY <2>1, <2>3
  <2> HIDE DEF t
  <2>5. Holds(t, vid, csi)
    BY <2>1, <2>3, <2>4 DEF Holds
  <2>6. \A w, c : Holds(s, w, c) => Holds(t, w, c)
    BY <2>3, <2>4 DEF Holds
  <2>7. QED BY <2>2, <2>5, <2>6
<1>3. QED BY <1>1, <1>2

(* A callback for one vid leaves everybody else where he was, and whom it puts *)
(* on the vid holds it.                                                       *)
LEMMA ListedHolds ==
  ASSUME NEW s, GoodList(s), NEW vid \in Vids, NEW old, NEW new \in Csis \cup {Nobody}
  PROVE  /\ new # Nobody => Holds(Listed(s, vid, old, new), vid, new)
         /\ \A w \in Vids : \A c : Holds(s, w, c) /\ w # vid /\ c # new => Holds(Listed(s, vid, old, new), w, c)
<1>0. NoVid \notin Vids /\ Nobody \notin Csis
  BY LayoutAssumption DEF Vids, NoVid, Nobody
<1>1. CASE new # Nobody
  <2> DEFINE t == Seat(Evict(s, vid), new, vid)
  <2>1. GoodList(Evict(s, vid)) /\ GoodList(t)
    BY <1>1, EvictGood, SeatGood
  <2>2. /\ Holds(t, vid, new)
        /\ \A w \in Vids : \A c : Holds(s, w, c) /\ w # vid /\ c # new => Holds(t, w, c)
    BY <1>1, <2>1, EvictHolds, SeatHolds
  <2> HIDE DEF t
  <2>3. /\ Holds(Restore(t), vid, new)
        /\ \A w \in Vids : \A c : Holds(t, w, c) => Holds(Restore(t), w, c)
    BY <1>0, <2>1, <2>2, RestoreHolds
  <2>4. QED BY <1>1, <2>2, <2>3 DEF Listed, t
<1>2. CASE new = Nobody /\ old # Nobody
  <2>1. GoodList(Vacate(s, old, vid))
    BY VacateGood
  <2>2. \A w, c : Holds(s, w, c) /\ w # vid => Holds(Vacate(s, old, vid), w, c)
    BY VacateHolds
  <2>3. Listed(s, vid, old, new) = Restore(Vacate(s, old, vid))
    BY <1>2 DEF Listed
  <2>4. QED BY <1>0, <1>2, <2>1, <2>2, <2>3, RestoreHolds
<1>3. CASE new = Nobody /\ old = Nobody
  BY <1>0, <1>3, RestoreHolds DEF Listed
<1>4. QED BY <1>1, <1>2, <1>3

-----------------------------------------------------------------------------
(* What the windows rest on: only vids with a track carry somebody; without    *)
(* duplication the list knows who it is, and with it nothing takes the         *)
(* speaker's window away.                                                      *)
OnTracks == \A v \in Vids : engine[v] # Nobody => v < callees

OnList == ~duplication => \A v \in Vids : engine[v] # Nobody => Holds(csivids, v, engine[v])

Windowed == duplication /\ callees > 0 => 0 \in shown

LayoutInv == LayoutTypeOK /\ GoodList(csivids) /\ OnTracks /\ OnList /\ Windowed /\ RightWindows

LEMMA LayoutInvInit == LayoutInit => LayoutInv
<1> SUFFICES ASSUME LayoutInit PROVE LayoutInv
  OBVIOUS
<1> USE LayoutAssumption DEF LayoutInit
<1>1. csivids \in Seq(Entry) /\ DOMAIN csivids = {}
  BY EmptySeq
<1>2. GoodList(csivids)
  BY <1>1 DEF GoodList, NoVidTwice, AtMostTwo
<1>3. \A v \in Vids : engine[v] = Nobody
  OBVIOUS
<1>4. 0 \in Vids
  BY DEF Vids
<1>5. LayoutTypeOK
  BY <1>1 DEF LayoutTypeOK
<1>6. RightWindows
  BY <1>3, <1>4 DEF RightWindows, Hidden
<1>7. QED BY <1>2, <1>3, <1>5, <1>6 DEF LayoutInv, OnTracks, OnList, Windowed

(* What HideDuplication leaves hidden, if the speaker's window is there. *)
LEMMA HiddenAfter ==
  ASSUME NEW c, NEW on, \A v \in Vids : on[v] # Nobody => v \in HasTrack,
         0 \in Vids, HasTrack \subseteq Vids, on[0] # Nobody => 0 \in shown
  PROVE  {v \in Vids \ HideDuplication(c, on) : on[v] # Nobody}
           = {v \in Vids \ {0} : on[v] # Nobody /\ on[v] = c}
BY DEF HideDuplication

LEMMA LayoutStep == LayoutInv /\ [LayoutNext]_layoutVars => LayoutInv'
<1> SUFFICES ASSUME LayoutInv, [LayoutNext]_layoutVars PROVE LayoutInv'
  OBVIOUS
<1> USE LayoutAssumption
<1>0. /\ LayoutTypeOK /\ GoodList(csivids) /\ OnTracks /\ OnList /\ Windowed /\ RightWindows
      /\ 0 \in Vids /\ Nobody \notin Csis /\ HasTrack \subseteq Vids
      /\ GoodList(csivids)'
  <2>1. MaxVid \in Nat /\ 0 \in Vids /\ Nobody \notin Csis
    <3>1. MaxVid \in Nat
      BY DEF NoVid
    <3>2. Nobody \notin Csis
      OBVIOUS
    <3>3. QED BY <3>1, <3>2 DEF Vids
  <2>2. HasTrack \subseteq Vids
    BY <2>1 DEF LayoutInv, LayoutTypeOK, HasTrack, Vids
  <2>3. QED BY <2>1, <2>2, ListStep DEF LayoutInv
<1>1. csivids' \in Seq(Entry)
  BY <1>0 DEF GoodList
<1>8. \A v \in Vids : engine[v] # Nobody => v \in HasTrack
  BY <1>0 DEF LayoutTypeOK, OnTracks, HasTrack, Vids
<1>9. engine[0] # Nobody => 0 \in shown
  BY <1>0 DEF RightWindows, Hidden
<1>2. CASE OnMediaReady
  <2>1. /\ callees <= MaxVid /\ callees' = callees + 1 /\ shown' = shown \cup {callees}
        /\ UNCHANGED <<duplication, engine, available, csivids, possible, rounds, named>>
    BY <1>2 DEF OnMediaReady
  <2>2. LayoutTypeOK'
    BY <1>0, <2>1 DEF LayoutTypeOK, Vids
  <2>3. OnTracks'
    BY <1>0, <2>1 DEF LayoutTypeOK, OnTracks, Vids
  <2>4. OnList'
    BY <1>0, <2>1 DEF OnList
  <2>5. Windowed'
    BY <1>0, <2>1 DEF Windowed, LayoutTypeOK
  <2>6. \A v \in Vids : engine[v] # Nobody => (v \in shown' <=> v \in shown)
    BY <1>0, <2>1 DEF LayoutTypeOK, OnTracks, Vids
  <2>7. Hidden' = Hidden
    BY <2>1, <2>6 DEF Hidden
  <2>8. RightWindows'
    BY <1>0, <2>1, <2>7 DEF RightWindows, Duplicate
  <2>9. QED BY <1>0, <2>2, <2>3, <2>4, <2>5, <2>8 DEF LayoutInv
<1>3. ASSUME NEW video \in BOOLEAN, NEW csi \in Csis \cup {Nobody}, OnMediaStatus(video, csi)
      PROVE  LayoutInv'
  <2>1. /\ available' \in BOOLEAN
        /\ csi = Nobody /\ engine[0] # Nobody => available' = available
        /\ \/ csi # Nobody /\ shown' = HideDuplication(csi, engine) /\ possible' = csi /\ named' = csi
           \/ csi = Nobody /\ UNCHANGED <<shown, possible, named>>
        /\ UNCHANGED <<duplication, engine, callees, csivids, rounds>>
    <3>1. available \in BOOLEAN
      BY <1>0 DEF LayoutTypeOK
    <3>2. QED BY <1>3, <3>1 DEF OnMediaStatus
  <2>2. LayoutTypeOK'
    <3>1. shown' \subseteq Vids
      BY <1>0, <2>1 DEF LayoutTypeOK, HideDuplication
    <3>2. QED BY <1>0, <2>1, <3>1 DEF LayoutTypeOK
  <2>3. OnTracks' /\ OnList' /\ Windowed'
    BY <1>0, <2>1 DEF OnTracks, OnList, Windowed, HideDuplication
  <2>4. CASE csi = Nobody
    <3>1. Hidden' = Hidden /\ Duplicate' = Duplicate
      BY <2>1, <2>4 DEF Hidden, Duplicate
    <3>2. RightWindows'
      BY <1>0, <2>1, <2>4, <3>1 DEF RightWindows
    <3>3. QED BY <1>0, <2>2, <2>3, <3>2 DEF LayoutInv
  <2>5. CASE csi # Nobody
    <3>1. Hidden' = {v \in Vids \ {0} : engine[v] # Nobody /\ engine[v] = csi}
      BY <1>0, <1>8, <1>9, <2>1, <2>5, HiddenAfter DEF Hidden
    <3>2. Duplicate' = csi /\ named' = csi
      BY <2>1, <2>5 DEF Duplicate
    <3>3. RightWindows'
      BY <2>1, <3>1, <3>2 DEF RightWindows
    <3>4. QED BY <1>0, <2>2, <2>3, <3>3 DEF LayoutInv
  <2>6. QED BY <2>4, <2>5
<1>4. CASE Restart
  <2>1. /\ callees' = 0 /\ shown' = {} /\ engine' = [v \in Vids |-> Nobody] /\ available' = TRUE
        /\ rounds <= MaxRounds /\ rounds' = rounds + 1 /\ named' = Nobody
        /\ UNCHANGED <<duplication, csivids, possible>>
    BY <1>4 DEF Restart
  <2>2. \A v \in Vids : engine'[v] = Nobody
    BY <2>1
  <2>3. LayoutTypeOK'
    BY <1>0, <2>1 DEF LayoutTypeOK
  <2>4. RightWindows'
    BY <1>0, <2>2 DEF RightWindows, Hidden
  <2>5. QED BY <1>0, <2>1, <2>2, <2>3, <2>4 DEF LayoutInv, OnTracks, OnList, Windowed
<1>5. ASSUME NEW vid \in Vids, NEW new \in Csis \cup {Nobody}, OnCSIsChanged(vid, new)
      PROVE  LayoutInv'
  <2>1. /\ vid < callees /\ (new # Nobody => Free(new, vid))
        /\ engine' = [engine EXCEPT ![vid] = new]
        /\ named' = IF duplication /\ new = Nobody THEN named ELSE Nobody
        /\ UNCHANGED <<duplication, available, callees, possible, rounds>>
    BY <1>5 DEF OnCSIsChanged
  <2>2. /\ engine' \in [Vids -> Csis \cup {Nobody}] /\ engine'[vid] = new
        /\ \A v \in Vids : v # vid => engine'[v] = engine[v]
    BY <1>0, <2>1 DEF LayoutTypeOK
  <2>3. OnTracks'
    BY <1>0, <2>1, <2>2 DEF OnTracks
  <2>4. \A v \in Vids : engine'[v] # Nobody => v \in HasTrack
    BY <1>0, <2>1, <2>3 DEF LayoutTypeOK, OnTracks, HasTrack, Vids
  <2>5. CASE ~duplication
    <3>1. csivids' = Listed(csivids, vid, engine[vid], new) /\ shown' = ShowListed(csivids')
      BY <1>5, <2>5 DEF OnCSIsChanged
    <3>2. \A v \in Vids : engine'[v] # Nobody => Holds(csivids', v, engine'[v])
      <4> SUFFICES ASSUME NEW v \in Vids, engine'[v] # Nobody PROVE Holds(csivids', v, engine'[v])
        OBVIOUS
      <4>1. CASE v = vid
        BY <1>0, <2>2, <3>1, <4>1, ListedHolds
      <4>2. CASE v # vid
        <5>1. engine'[v] = engine[v] /\ Holds(csivids, v, engine[v])
          BY <1>0, <2>2, <2>5, <4>2 DEF OnList
        <5>2. engine[v] # new
          BY <2>1, <2>2, <2>5, <4>2, <5>1 DEF Free
        <5>3. QED BY <1>0, <3>1, <4>2, <5>1, <5>2, ListedHolds
      <4>3. QED BY <4>1, <4>2
    <3>3. OnList' /\ Windowed'
      BY <2>1, <2>5, <3>2 DEF OnList, Windowed
    <3>4. LayoutTypeOK'
      <4>1. shown' \subseteq Vids
        BY <1>0, <3>1 DEF LayoutTypeOK, ShowListed
      <4>2. named' \in Csis \cup {Nobody}
        BY <2>1, <2>5
      <4>3. QED BY <1>0, <1>1, <2>1, <2>2, <4>1, <4>2 DEF LayoutTypeOK
    <3>5. \A v \in Vids : engine'[v] # Nobody => v \in shown'
      <4>1. \A v \in Vids : engine'[v] # Nobody => v \in Held(csivids')
        BY <3>2 DEF Held, Holds
      <4>2. QED BY <2>4, <3>1, <4>1 DEF ShowListed
    <3>6. Hidden' = {}
      BY <3>5 DEF Hidden
    <3>7. RightWindows'
      BY <2>1, <2>5, <3>6 DEF RightWindows
    <3>8. QED BY <1>0, <2>3, <3>3, <3>4, <3>7 DEF LayoutInv
  <2>6. CASE duplication
    <3>1. /\ csivids' = csivids
          /\ shown' = IF new = Nobody THEN shown
                      ELSE IF vid = 0 THEN HideDuplication(new, engine')
                      ELSE HideDuplication(IF available THEN engine[0] ELSE possible, engine')
      BY <1>5, <2>6 DEF OnCSIsChanged
    <3>2. 0 \in shown
      BY <1>0, <2>1, <2>6 DEF Windowed, LayoutTypeOK, Vids
    <3>3. OnList' /\ Windowed'
      BY <2>1, <2>6, <3>1, <3>2 DEF OnList, Windowed, HideDuplication
    <3>4. LayoutTypeOK'
      <4>1. shown' \subseteq Vids
        BY <1>0, <3>1 DEF LayoutTypeOK, HideDuplication
      <4>2. named' \in Csis \cup {Nobody}
        BY <1>0, <2>1 DEF LayoutTypeOK
      <4>3. QED BY <1>0, <1>1, <2>1, <2>2, <4>1, <4>2 DEF LayoutTypeOK
    <3>5. RightWindows'
      <4>1. CASE new = Nobody
        <5>1. shown' = shown /\ named' = named
          BY <2>1, <2>6, <3>1, <4>1
        <5>2. Hidden' = Hidden \ {vid}
          BY <2>2, <4>1, <5>1 DEF Hidden
        <5>3. \A v \in Hidden' : v # vid /\ engine'[v] = engine[v] /\ v \in Hidden
          BY <2>2, <5>2 DEF Hidden
        <5>4. engine'[0] # Nobody => engine'[0] = engine[0]
          BY <1>0, <2>2, <4>1
        <5>5. 0 \notin Hidden' /\ \A v, w \in Hidden' : engine'[v] = engine'[w]
          BY <1>0, <5>3 DEF RightWindows
        <5>6. ASSUME named # Nobody \/ (available /\ engine'[0] # Nobody)
              PROVE  Hidden' = {v \in Vids \ {0} : engine'[v] # Nobody /\ engine'[v] = Duplicate'}
          <6>1. Duplicate' = Duplicate
            BY <5>1, <5>4, <5>6 DEF Duplicate
          <6>2. Hidden = {v \in Vids \ {0} : engine[v] # Nobody /\ engine[v] = Duplicate}
            BY <1>0, <2>6, <5>4, <5>6 DEF RightWindows
          <6>3. QED BY <2>2, <4>1, <5>2, <6>1, <6>2
        <5>7. QED BY <2>1, <2>6, <5>1, <5>5, <5>6 DEF RightWindows
      <4>2. ASSUME new # Nobody, NEW c, shown' = HideDuplication(c, engine'),
                   available /\ engine'[0] # Nobody => c = engine'[0]
            PROVE  RightWindows'
        <5>1. Hidden' = {v \in Vids \ {0} : engine'[v] # Nobody /\ engine'[v] = c}
          BY <1>0, <2>4, <3>2, <4>2, HiddenAfter DEF Hidden
        <5>2. named' = Nobody /\ available' = available /\ duplication'
          BY <2>1, <2>6, <4>2
        <5>3. QED BY <4>2, <5>1, <5>2 DEF RightWindows, Duplicate
      <4>3. CASE new # Nobody /\ vid = 0
        BY <2>2, <3>1, <4>2, <4>3
      <4>4. CASE new # Nobody /\ vid # 0
        <5>1. engine'[0] = engine[0]
          BY <1>0, <2>2, <4>4
        <5>2. QED BY <3>1, <4>2, <4>4, <5>1
      <4>5. QED BY <4>1, <4>3, <4>4
    <3>6. QED BY <1>0, <2>3, <3>3, <3>4, <3>5 DEF LayoutInv
  <2>7. QED BY <2>5, <2>6
<1>6. CASE UNCHANGED layoutVars
  BY <1>6 DEF layoutVars, LayoutInv, LayoutTypeOK, GoodList, NoVidTwice, AtMostTwo, OnTracks, OnList, Windowed,
              RightWindows, Hidden, Duplicate, Holds
<1>7. QED BY <1>2, <1>3, <1>4, <1>5, <1>6 DEF LayoutNext

(* The parts hold together in every state.                                    *)
LEMMA LayoutAlways == LayoutSpec => []LayoutInv
BY LayoutInvInit, LayoutStep, PTL DEF LayoutSpec

(* The list, the engine's vids and the windows keep their types. *)
THEOREM LayoutTypeCorrect == LayoutSpec => []LayoutTypeOK
<1>1. LayoutInv => LayoutTypeOK
  BY DEF LayoutInv
<1>2. QED BY <1>1, LayoutAlways, PTL

(* However participants come, go and speak, and whatever statuses come,        *)
(* whoever is on a vid has his window, but for whom a status named last and,  *)
(* with duplication, for the speaker's own.                                   *)
THEOREM WindowsRight == LayoutSpec => []RightWindows
<1>1. LayoutInv => RightWindows
  BY DEF LayoutInv
<1>2. QED BY <1>1, LayoutAlways, PTL
=============================================================================
