---------------------------- MODULE VideoLayout ----------------------------
(***************************************************************************)
(* Which remote video windows an Endpoint shows.  The engine has one       *)
(* remote track per vid, vid 0 for the active speaker, and reports which   *)
(* participant (CSI) is on it; OnCSIsChanged keeps the list m_csivids and   *)
(* hides and shows windows by it.  With m_bDuplication the speaker is on   *)
(* vid 0 and on a vid of his own, and the latter's window is hidden.       *)
(* Its names are not those of Endpoint: EndpointProofs extends both.        *)
(***************************************************************************)
EXTENDS Integers, Sequences, FiniteSets

CONSTANTS
  Csis,         (* the participants, positive numbers                        *)
  MaxVid,       (* vids and windows are 0..MaxVid                            *)
  Duplications, (* the values of TestConfig.m_bDuplication a run starts with *)
  MaxRounds     (* bound: calls made one after the other                     *)

Nobody == 0
NoVid == 255
Vids == 0..MaxVid

ASSUME LayoutAssumption ==
  /\ Csis \subseteq Nat \ {Nobody} /\ IsFiniteSet(Csis)
  /\ MaxVid \in 1..(NoVid - 1)
  /\ Duplications \subseteq BOOLEAN
  /\ MaxRounds \in Nat

VARIABLES
  duplication, (* m_bDuplication                                              *)
  engine,      (* who is on which vid                                         *)
  available,   (* the media status of vid 0                                   *)
  callees,     (* m_pVideoTrackCallee: the tracks of vids 0..callees-1        *)
  csivids,     (* m_csivids                                                   *)
  possible,    (* m_possibleActiveCsi                                         *)
  shown,       (* the windows that have a track to render                     *)
  rounds,      (* how many calls there were                                   *)
  named        (* history: whom a status named since the windows were last set *)
               (* by who is on the vids                                       *)

layoutVars == <<duplication, engine, available, callees, csivids, possible, shown, rounds, named>>

Entry == [csi : Csis, vid : Vids \cup {NoVid}, o_vid : Vids \cup {NoVid}, hide : BOOLEAN]

LayoutTypeOK ==
  /\ duplication \in BOOLEAN /\ available \in BOOLEAN
  /\ engine \in [Vids -> Csis \cup {Nobody}]
  /\ callees \in 0..(MaxVid + 1)
  /\ csivids \in Seq(Entry)
  /\ possible \in Csis \cup {Nobody}
  /\ shown \subseteq Vids
  /\ rounds \in 1..(MaxRounds + 1)
  /\ named \in Csis \cup {Nobody}

LayoutInit ==
  /\ duplication \in Duplications
  /\ engine = [v \in Vids |-> Nobody] /\ available = TRUE
  /\ callees = 0 /\ csivids = <<>> /\ possible = Nobody /\ shown = {}
  /\ rounds = 1 /\ named = Nobody

-----------------------------------------------------------------------------
(* The loops over m_csivids change the first entry that fits and break. The    *)
(* caller knows that one fits.                                                *)
FirstOf(S) == CHOOSE i \in S : \A j \in S : i <= j

(* Whoever was on the vid is off it; who was the speaker is hidden for now. *)
Evicted(e, vid) == [e EXCEPT !.vid = NoVid, !.hide = e.hide \/ vid = 0]

Evict(s, vid) ==
  LET at == {i \in DOMAIN s : s[i].vid = vid}
  IN  IF at = {} THEN s
      ELSE [s EXCEPT ![FirstOf(at)] = Evicted(@, vid)]

Seated(e, vid) == [e EXCEPT !.vid = vid, !.o_vid = IF vid # 0 THEN vid ELSE e.o_vid]

(* The entry of the participant, unless it is the speaker's, moves to the vid. *)
Seat(s, csi, vid) ==
  LET of == {i \in DOMAIN s : s[i].csi = csi /\ s[i].vid # 0}
  IN  IF of = {}
      THEN Append(s, [csi |-> csi, vid |-> vid, o_vid |-> IF vid # 0 THEN vid ELSE NoVid, hide |-> FALSE])
      ELSE [s EXCEPT ![FirstOf(of)] = Seated(@, vid)]

Vacate(s, csi, vid) ==
  LET at == {i \in DOMAIN s : s[i].csi = csi /\ s[i].vid = vid}
  IN  IF at = {} THEN s ELSE [s EXCEPT ![FirstOf(at)] = [@ EXCEPT !.vid = NoVid]]

(* Mutant: whether the vid is free is not asked. *)
Restore_collides(s) ==
  LET waiting == {i \in DOMAIN s : s[i].hide /\ s[i].vid = NoVid /\ s[i].o_vid # NoVid}
      first == FirstOf(waiting)
  IN  IF waiting = {} THEN s
      ELSE [s EXCEPT ![first] = [@ EXCEPT !.hide = FALSE, !.vid = s[first].o_vid]]

(* A speaker of before gets the vid back that he had, if it is free. *)
Restore(s) ==
  LET waiting == {i \in DOMAIN s : s[i].hide /\ s[i].vid = NoVid /\ s[i].o_vid # NoVid}
      first == FirstOf(waiting)
  IN  IF waiting = {} \/ (\E i \in DOMAIN s : s[i].vid = s[first].o_vid) THEN s
      ELSE [s EXCEPT ![first] = [@ EXCEPT !.hide = FALSE, !.vid = s[first].o_vid]]

Listed(s, vid, old, new) ==
  Restore(IF new # Nobody THEN Seat(Evict(s, vid), new, vid)
          ELSE IF old # Nobody THEN Vacate(s, old, vid) ELSE s)

HasTrack == 0..(callees - 1)
Held(s) == {s[i].vid : i \in DOMAIN s}

(* vidEmpty is {true} in its first element only: no window but 0 is hidden.   *)
ShowListed(s) == (shown \cup (Held(s) \cap HasTrack)) \ ({0} \ Held(s))

(* Mutant: the windows of the others are not shown again. *)
HideDuplication_onlyHides(csi, on) == shown \ {v \in HasTrack \ {0} : on[v] = csi}

(* HideDuplication: the windows of the tracks but the speaker's, by what the   *)
(* tracks carry now.                                                          *)
HideDuplication(csi, on) ==
  (shown \ (HasTrack \ {0})) \cup {v \in HasTrack \ {0} : on[v] # csi}

-----------------------------------------------------------------------------
(* Mutant: m_trackIndex is incremented before it is used. *)
OnMediaReady_preIncrement ==
  /\ callees <= MaxVid
  /\ callees' = callees + 1
  /\ shown' = shown \cup {callees + 1}
  /\ UNCHANGED <<duplication, engine, available, csivids, possible, rounds, named>>

(* OnMediaReady for the next remote track: its window is the next, too. *)
OnMediaReady ==
  /\ callees <= MaxVid
  /\ callees' = callees + 1
  /\ shown' = shown \cup {callees}
  /\ UNCHANGED <<duplication, engine, available, csivids, possible, rounds, named>>

(* The engine puts a participant on a vid or takes it off. He is on one vid,   *)
(* or on two if one of them is the speaker's and duplication is on.            *)
Free(csi, vid) == \A v \in Vids \ {vid} : engine[v] = csi => duplication /\ (v = 0 \/ vid = 0)

OnCSIsChanged(vid, new) ==
  /\ vid < callees /\ engine[vid] # new
  /\ new # Nobody => Free(new, vid)
  /\ engine' = [engine EXCEPT ![vid] = new]
  /\ IF ~duplication
     THEN /\ csivids' = Listed(csivids, vid, engine[vid], new)
          /\ shown' = ShowListed(csivids')
     ELSE /\ UNCHANGED csivids
          /\ shown' = IF new = Nobody THEN shown
                      ELSE IF vid = 0 THEN HideDuplication(new, engine')
                      ELSE HideDuplication(IF available THEN engine[0] ELSE possible, engine')
  /\ named' = IF duplication /\ new = Nobody THEN named ELSE Nobody
  /\ UNCHANGED <<duplication, available, callees, possible, rounds>>

(* The status of a medium with vid 0 that has a CSI.  OnMediaStatus asks       *)
(* neither for the medium nor for m_bDuplication: the status of the audio or  *)
(* of the share, too, hides the windows of the participant it names.  That of *)
(* the video says that the speaker's stream stops or comes back, and names    *)
(* somebody at least if somebody is on vid 0.                                 *)
OnMediaStatus(video, csi) ==
  /\ video => callees > 0 /\ (engine[0] # Nobody => csi # Nobody)
  /\ available' = (available # video)
  /\ IF csi # Nobody
     THEN shown' = HideDuplication(csi, engine) /\ possible' = csi /\ named' = csi
     ELSE UNCHANGED <<shown, possible, named>>
  /\ UNCHANGED <<duplication, engine, callees, csivids, rounds>>

(* stopCall drops tracks and windows, not m_csivids nor m_possibleActiveCsi. *)
Restart ==
  /\ rounds <= MaxRounds
  /\ rounds' = rounds + 1
  /\ callees' = 0 /\ shown' = {}
  /\ engine' = [v \in Vids |-> Nobody] /\ available' = TRUE /\ named' = Nobody
  /\ UNCHANGED <<duplication, csivids, possible>>

LayoutNext ==
  \/ OnMediaReady \/ Restart
  \/ \E vid \in Vids, new \in Csis \cup {Nobody} : OnCSIsChanged(vid, new)
  \/ \E video \in BOOLEAN, csi \in Csis \cup {Nobody} : OnMediaStatus(video, csi)

LayoutSpec == LayoutInit /\ [][LayoutNext]_layoutVars

-----------------------------------------------------------------------------
(* No vid is held by two entries: what is restored never collides. *)
OneEntryPerVid == \A i, j \in DOMAIN csivids :
  csivids[i].vid = csivids[j].vid /\ csivids[i].vid # NoVid => i = j

(* Entries are never erased, yet a participant has two at most. *)
TwoPerCsi == \A i, j, k \in DOMAIN csivids :
  i < j /\ j < k => ~(csivids[i].csi = csivids[j].csi /\ csivids[j].csi = csivids[k].csi)

(* The vids that carry somebody who has no window there. *)
Hidden == {v \in Vids \ shown : engine[v] # Nobody}

(* Whose window duplicates another: who was named last, else the speaker.      *)
Duplicate == IF named # Nobody THEN named ELSE engine[0]

(* Who is on a vid has a window there, unless a status named him since or,     *)
(* with duplication, he is the speaker: then his own is hidden, and no other.  *)
(* Nothing is said of who stays hidden while the speaker's stream is stopped  *)
(* and nobody was named since, but that it is one participant at most.        *)
RightWindows ==
  /\ 0 \notin Hidden /\ \A v, w \in Hidden : engine[v] = engine[w]
  /\ ~duplication => \A v \in Hidden : engine[v] = named
  /\ duplication /\ (named # Nobody \/ (available /\ engine[0] # Nobody)) =>
       Hidden = {v \in Vids \ {0} : engine[v] # Nobody /\ engine[v] = Duplicate}
=============================================================================
