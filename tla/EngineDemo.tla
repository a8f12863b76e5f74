----------------------------- MODULE EngineDemo -----------------------------
(***************************************************************************)
(* The Windows demo: its dialog (src/ref-app/windows/EngineDemo/src/       *)
(* EngineDemoDlg.cpp) over DemoClient (src/ref-app/common/src/             *)
(* DemoClient.cpp), which owns for each medium a MediaTransport, a sender  *)
(* and a receiver, wired to the medium's engine session.                   *)
(*                                                                         *)
(* Everything runs in the one thread that reads the window's messages, and *)
(* a message box reads them too: while a handler shows one, the network's  *)
(* callbacks run inside it and the preview's window may be closed, though  *)
(* the dialog takes no click. `stack` has the handlers under way, innermost *)
(* first; a handler is cut into steps where it may show a box, and boxes   *)
(* with nothing between them are one box.                                  *)
(*                                                                         *)
(* Left out: files instead of devices, rendering, device settings, QoS,    *)
(* ICE (compiled out in DemoClient) and the command-line modes.            *)
(***************************************************************************)
EXTENDS Naturals, Sequences

CONSTANTS
  Choices,      \* bound: what the enable boxes may say at a click on Connect
  MaxConnects,  \* bound: clicks on Connect
  MaxFails,     \* bound: calls in which the engine fails a track
  MaxStack      \* bound: handlers inside each other

ASSUME DemoAssumption == MaxConnects \in Nat /\ MaxFails \in Nat /\ MaxStack \in Nat \ {0}

AV == {"audio", "video"}
Media == AV \cup {"share"}

VARIABLES
  host,       \* m_cFlagHostOrReceiverAtFirst
  wanted,     \* IDC_CHECK_ENABLE_*: locked while connected
  check,      \* IDC_CHECK_SEND_VIDEO, IDC_CHECK_SEND_AUDIO
  active,     \* m_e{Video,Audio}ConnectionStatus # CONNECTION_STATUS_DISABLED
  connectOn,  \* IDC_CONNECT is enabled, IDC_DISCONNECT is not
  preview,    \* m_bVideoInPreview
  window,     \* m_previewerWindowHandle # NULL
  client,     \* DemoClient's members of each medium
  stack,      \* handlers under way
  connects,   \* bound: clicks on Connect so far
  fails,      \* bound: failures so far
  upset       \* history: "shared", "preview": see the properties

dialogVars == <<host, wanted, check, preview, window>>
vars == <<host, wanted, check, active, connectOn, preview, window, client, stack, connects, fails, upset>>

(* `option` is WmeTrackOption_SendingData of the sender's track; `session` is  *)
(* the transport the engine session has, `rptr` the receiver the transport    *)
(* has: "live" is the present one, "dead" one that was deleted.                *)
Client == [transport : BOOLEAN, sender : {"none", "bare", "track"}, receiver : {"none", "bare", "track"},
           option : BOOLEAN, flag : BOOLEAN, mine : BOOLEAN,
           session : {"none", "live", "dead"}, rptr : {"none", "live", "dead"},
           listens : BOOLEAN, link : {"idle", "waiting", "connecting", "connected"}]

Frame == [op : {"connect", "disconnect", "lost", "preview"}, todo : SUBSET Media,
          next : {"init", "link", "uninit", "close", "end"}, box : BOOLEAN]

TypeOK ==
  /\ host \in BOOLEAN /\ connectOn \in BOOLEAN
  /\ preview \in BOOLEAN /\ window \in BOOLEAN
  /\ wanted \subseteq Media /\ check \in [AV -> BOOLEAN] /\ active \in [AV -> BOOLEAN]
  /\ client \in [Media -> Client]
  /\ stack \in Seq(Frame) /\ Len(stack) <= MaxStack
  /\ connects \in 0..MaxConnects /\ fails \in 0..MaxFails
  /\ upset \subseteq {"shared", "preview"}

Init ==
  /\ host = TRUE /\ wanted = Media /\ check = [m \in AV |-> TRUE]
  /\ active = [m \in AV |-> FALSE] /\ connectOn = TRUE /\ preview = FALSE /\ window = FALSE
  /\ client = [m \in Media |->
       [transport |-> FALSE, sender |-> "none", receiver |-> "none", option |-> FALSE, flag |-> FALSE,
        mine |-> TRUE, session |-> "none", rptr |-> "none", listens |-> FALSE, link |-> "idle"]]
  /\ stack = <<>> /\ connects = 0 /\ fails = 0 /\ upset = {}
-----------------------------------------------------------------------------
(* DemoClient: what its methods do to the members of one medium.              *)
EnableMyMedia(c, b) == [c EXCEPT !.mine = b]

StartMediaSending(c) ==
  IF c.flag \/ ~c.mine \/ c.sender = "none" THEN c
  ELSE IF c.sender = "bare" THEN [c EXCEPT !.flag = TRUE]
  ELSE [c EXCEPT !.flag = TRUE, !.option = TRUE]

StopMediaSending(c) ==
  IF c.flag /\ c.sender # "none" THEN [c EXCEPT !.flag = FALSE, !.option = FALSE] ELSE c

(* A sender or receiver that exists stays; `bare` has those whose track the    *)
(* engine fails to create.                                                    *)
NewEnd(old, way, bare) == IF old # "none" THEN old ELSE IF way \in bare THEN "bare" ELSE "track"

(* Only the desk share has its transport made here. *)
CreateMediaClient(c, m, bare) ==
  LET open == c.transport \/ m = "share" IN
  [c EXCEPT !.transport = IF m = "share" THEN TRUE ELSE @,
            !.sender = NewEnd(@, "sender", bare),
            !.receiver = NewEnd(@, "receiver", bare),
            !.session = IF open /\ c.sender = "none" THEN "live" ELSE @,
            !.rptr = IF open /\ c.receiver = "none" THEN "live" ELSE @]

(* The sender takes the transport out of its session, the transport is told   *)
(* of the receiver's end; the flag of sending stays.                           *)
DeleteMediaClient(c) ==
  [c EXCEPT !.sender = "none", !.receiver = "none", !.option = FALSE,
            !.session = IF c.sender # "none" THEN "none" ELSE @, !.rptr = "none"]

(* InitHost or ConnectRemote: MediaTransport refuses when it is connected.     *)
Connect_unwired(c, h) ==
  [c EXCEPT !.transport = TRUE,
            !.listens = IF c.link = "connected" THEN @ ELSE h,
            !.link = IF @ = "connected" THEN @ ELSE IF h THEN "waiting" ELSE "connecting"]

Connect(c, h) ==
  [c EXCEPT !.transport = TRUE,
            !.session = IF c.sender # "none" THEN "live" ELSE @,
            !.rptr = IF c.receiver # "none" THEN "live" ELSE @,
            !.listens = IF c.link = "connected" THEN @ ELSE h,
            !.link = IF @ = "connected" THEN @ ELSE IF h THEN "waiting" ELSE "connecting"]

(* Forgets to clear the flag. *)
DisConnect_flag(c) ==
  [c EXCEPT !.transport = FALSE, !.link = "idle", !.listens = FALSE, !.rptr = "none",
            !.session = IF @ = "live" THEN "dead" ELSE @]

DisConnect(c) ==
  [c EXCEPT !.transport = FALSE, !.link = "idle", !.listens = FALSE, !.flag = FALSE, !.rptr = "none",
            !.session = IF @ = "live" THEN "dead" ELSE @]

(* A sender or receiver without its track cannot be stopped, and one that is   *)
(* not there cannot either.                                                   *)
CanStop(c) == c.sender = "track" /\ c.receiver = "track"

(* The send box decides: OnBnClickedCheckSend{Video,Audio}. *)
SendAs(c, b) ==
  IF b THEN StartMediaSending(EnableMyMedia(c, TRUE)) ELSE StopMediaSending(EnableMyMedia(c, FALSE))

(* What OnBnClickedConnect does once connected: boxes decide for audio and    *)
(* video, being the host for the screen.                                      *)
StopUnlessAsked(c, b) ==
  IF b THEN EnableMyMedia(c, TRUE) ELSE StopMediaSending(EnableMyMedia(c, FALSE))
-----------------------------------------------------------------------------
(* The window's thread. *)
Top == stack[1]
Listening == stack # <<>> => Top.box
Quiet == stack = <<>>
At(step) == stack # <<>> /\ ~Top.box /\ Top.next = step

(* OnBnClickedConnect takes the video, the screen, the audio; the disconnect   *)
(* has the screen last.                                                       *)
Rank(op, m) == IF m = "video" THEN 1 ELSE IF (m = "share") = (op = "connect") THEN 2 ELSE 3
Current(op, todo) == CHOOSE m \in todo : \A n \in todo : Rank(op, m) <= Rank(op, n)

Then(step, box) == [stack EXCEPT ![1] = [@ EXCEPT !.next = step, !.box = box]]

(* On to the next medium of the handler, which starts at `step`. *)
NextMedium(step, box) ==
  LET rest == Top.todo \ {Current(Top.op, Top.todo)}
  IN [stack EXCEPT ![1] = [@ EXCEPT !.todo = rest, !.next = IF rest = {} THEN "end" ELSE step, !.box = box]]

Call(op, todo, step) == <<[op |-> op, todo |-> todo, next |-> step, box |-> FALSE]>> \o stack

CheckSend(m) ==
  /\ Quiet
  /\ check' = [check EXCEPT ![m] = ~@]
  /\ client' = [client EXCEPT ![m] = SendAs(@, ~check[m])]
  /\ UNCHANGED <<host, wanted, active, connectOn, preview, window, stack, connects, fails, upset>>

(* OnBnClickedButtonPreview makes the video client or deletes it, whoever uses *)
(* it. If the preview's track does not start, or stop, it returns before it    *)
(* marks what it made, or deletes anything. `open`: a window is there now.     *)
Toggle(bare, ok, open) ==
  /\ ~ok \/ bare # {} => fails < MaxFails
  /\ fails' = IF ok /\ bare = {} THEN fails ELSE fails + 1
  /\ \A way \in bare : ~preview /\ client["video"][way] = "none"
  /\ client' = [client EXCEPT !["video"] = IF ~preview THEN CreateMediaClient(@, "video", bare)
                                          ELSE IF ok THEN DeleteMediaClient(@) ELSE @]
  /\ preview' = (preview # ok)
  /\ window' = (~preview \/ (open /\ ~ok))

(* The preview deletes a client that a call uses. *)
Spoilt(ok) == {x \in {"preview"} : preview /\ ok /\ (client["video"].flag \/ client["video"].transport)}

(* The button, which "Use camera" enables in a call too, or the user closing   *)
(* the preview's window, which a box over the dialog does not lock.            *)
Preview(close, bare, ok) ==
  /\ IF close THEN Listening /\ window /\ Len(stack) < MaxStack ELSE Quiet
  /\ Toggle(bare, ok, window /\ ~close)
  /\ upset' = upset \cup Spoilt(ok)
  /\ stack' = IF ok THEN stack ELSE <<[op |-> "preview", todo |-> {}, next |-> "end", box |-> TRUE]>> \o stack
  /\ UNCHANGED <<host, wanted, check, active, connectOn, connects>>

(* The enable boxes and the role change only while Connect is enabled, and at *)
(* least one medium stays enabled; what counts is how they are at the click.  *)
(* A preview that does not stop reports it and goes on.                        *)
ClickConnect(W, h, ok) ==
  /\ Quiet /\ connectOn /\ connects < MaxConnects
  /\ W # {} /\ W \in Choices
  /\ wanted' = W /\ host' = h
  /\ IF preview THEN Toggle({}, ok, window) ELSE ok /\ UNCHANGED <<preview, window, client, fails>>
  /\ upset' = upset \cup Spoilt(ok) \cup {x \in {"shared"} : "share" \in W}
  /\ stack' = <<[op |-> "connect", todo |-> W, next |-> "init", box |-> ~ok]>>
  /\ connects' = connects + 1
  /\ UNCHANGED <<check, active, connectOn>>

(* Init{Video,Screen,Audio}Client. What cannot start is reported in a box;    *)
(* the host starts its screen track later, the receiver its remote one here.  *)
InitClient(bare) ==
  LET m == Current(Top.op, Top.todo)
      c == CreateMediaClient(client[m], m, bare)
      failed == IF m = "share" THEN ~host /\ c.receiver = "bare" ELSE "bare" \in {c.sender, c.receiver}
  IN /\ At("init")
     /\ bare # {} => fails < MaxFails
     /\ \A way \in bare : client[m][way] = "none"
     /\ client' = [client EXCEPT ![m] = c]
     /\ stack' = Then("link", failed)
     /\ fails' = IF bare = {} THEN fails ELSE fails + 1
     /\ UNCHANGED <<dialogVars, active, connectOn, connects, upset>>

(* ConnectMediaDirectly, and whether to send. *)
Link ==
  LET m == Current(Top.op, Top.todo)
      c == Connect(client[m], host)
  IN /\ At("link")
     /\ client' = [client EXCEPT ![m] = IF m = "share" THEN SendAs(c, host) ELSE StopUnlessAsked(c, check[m])]
     /\ active' = [n \in AV |-> n = m \/ active[n]]
     /\ stack' = NextMedium("init", m = "share" /\ c.sender = "bare")
     /\ UNCHANGED <<dialogVars, connectOn, connects, fails, upset>>

ClickDisconnect ==
  /\ Quiet /\ ~connectOn
  /\ stack' = Call("disconnect", wanted, "uninit")
  /\ UNCHANGED <<dialogVars, active, connectOn, client, connects, fails, upset>>

(* Uninit{Video,Audio,Screen}Client return at the first track that does not   *)
(* stop, after a box, and then delete nothing.                                 *)
Uninit ==
  LET m == Current(Top.op, Top.todo) IN
  /\ At("uninit")
  /\ IF CanStop(client[m])
     THEN client' = [client EXCEPT ![m] = DeleteMediaClient(@)] /\ stack' = Then("close", FALSE)
     ELSE UNCHANGED client /\ stack' = Then("close", TRUE)
  /\ UNCHANGED <<dialogVars, active, connectOn, connects, fails, upset>>

(* The status the callbacks ask: the screen's is the video's. *)
StatusOf(m) == IF m = "share" THEN active["video"] ELSE active[m]

(* DisconnectMedia: a click does it always, a callback if the medium is       *)
(* active, and then reports the loss in a box.                                 *)
Close ==
  LET m == Current(Top.op, Top.todo)
      does == Top.op = "disconnect" \/ StatusOf(m)
  IN /\ At("close")
     /\ client' = IF does THEN [client EXCEPT ![m] = DisConnect(@)] ELSE client
     /\ active' = [n \in AV |-> IF does /\ n = m THEN FALSE ELSE active[n]]
     /\ stack' = NextMedium("uninit", Top.op = "lost")
     /\ UNCHANGED <<dialogVars, connectOn, connects, fails, upset>>

(* Asks for either medium. *)
ConnectAgain_either ==
  CASE Top.op = "connect" -> FALSE
    [] Top.op = "disconnect" -> TRUE
    [] Top.op = "preview" -> connectOn
    [] OTHER -> connectOn \/ ~active["audio"] \/ ~active["video"]

(* The buttons at a handler's end; a loss enables Connect when both are gone. *)
ConnectAgain ==
  CASE Top.op = "connect" -> FALSE
    [] Top.op = "disconnect" -> TRUE
    [] Top.op = "preview" -> connectOn
    [] OTHER -> connectOn \/ (~active["audio"] /\ ~active["video"])

Finish ==
  /\ At("end")
  /\ connectOn' = ConnectAgain
  /\ stack' = Tail(stack)
  /\ UNCHANGED <<dialogVars, active, client, connects, fails, upset>>

CloseBox ==
  /\ stack # <<>> /\ Top.box
  /\ stack' = Then(Top.next, FALSE)
  /\ UNCHANGED <<dialogVars, active, connectOn, client, connects, fails, upset>>

(* DemoClient::OnConnected(TRUE), connectRemoteOKFromClient: all that is not  *)
(* audio counts as video there.                                               *)
OnConnected(m) ==
  LET c == [client[m] EXCEPT !.link = "connected"]
      up == [client EXCEPT ![m] = IF m = "share" THEN StartMediaSending(c) ELSE c]
      n == IF m = "audio" THEN "audio" ELSE "video"
  IN /\ Listening
     /\ client[m].link \in {"waiting", "connecting"}
     /\ active' = [active EXCEPT ![n] = TRUE]
     /\ client' = [up EXCEPT ![n] = SendAs(@, check[n])]
     /\ UNCHANGED <<dialogVars, connectOn, stack, connects, fails, upset>>

Lost(m) == stack' = Call("lost", {m}, "uninit")

(* DemoClient::OnConnected(FALSE): the client gave up. *)
OnConnectFailed(m) ==
  /\ Listening /\ Len(stack) < MaxStack
  /\ client[m].link = "connecting"
  /\ client' = [client EXCEPT ![m].link = "idle"]
  /\ Lost(m)
  /\ UNCHANGED <<dialogVars, active, connectOn, connects, fails, upset>>

(* DemoClient::OnDisConnected: a host's connection listens on. *)
OnDisConnected(m) ==
  LET c == [client[m] EXCEPT !.link = IF client[m].listens THEN "waiting" ELSE "idle"] IN
  /\ Listening /\ Len(stack) < MaxStack
  /\ client[m].link # "idle"
  /\ client' = [client EXCEPT ![m] = IF m = "share" THEN StopMediaSending(c) ELSE [c EXCEPT !.flag = FALSE]]
  /\ Lost(m)
  /\ UNCHANGED <<dialogVars, active, connectOn, connects, fails, upset>>

Next ==
  \/ \E m \in AV : CheckSend(m)
  \/ \E close, ok \in BOOLEAN, bare \in SUBSET {"sender", "receiver"} : Preview(close, bare, ok)
  \/ \E W \in SUBSET Media, h, ok \in BOOLEAN : ClickConnect(W, h, ok)
  \/ \E bare \in SUBSET {"sender", "receiver"} : InitClient(bare)
  \/ Link \/ ClickDisconnect \/ Uninit \/ Close \/ Finish \/ CloseBox
  \/ \E m \in Media : OnConnected(m) \/ OnConnectFailed(m) \/ OnDisConnected(m)

Spec == Init /\ [][Next]_vars
-----------------------------------------------------------------------------
(* As long as the engine gives every track, no session is left with a         *)
(* transport that was deleted, and every sender and receiver that meets a     *)
(* transport is wired to it, whatever order they were made, lost and kept in. *)
WiredUp ==
  fails = 0 => \A m \in Media :
    /\ client[m].session # "dead" /\ client[m].rptr # "dead"
    /\ client[m].transport /\ client[m].sender # "none" => client[m].session = "live"
    /\ client[m].transport /\ client[m].receiver # "none" => client[m].rptr = "live"

(* A connected medium is sent exactly when it should be: audio and video as   *)
(* their boxes say, the screen by the host; but for tracks the engine failed, *)
(* and a video client that the preview deleted while it was counted as sending *)
(* or in a call.                                                               *)
SendsAsAsked ==
  Quiet /\ fails = 0 /\ "preview" \notin upset => \A m \in Media :
    LET c == client[m] IN
    c.link = "connected" /\ c.sender = "track" => c.option = IF m = "share" THEN c.mine ELSE check[m]

(* When Connect is enabled no audio or video transport is open, and without   *)
(* screen sharing it is enabled again when the last one is gone, whatever     *)
(* callbacks ran inside whose boxes.                                          *)
IdleIsClosed ==
  Quiet =>
    /\ connectOn => \A m \in AV : ~client[m].transport
    /\ "shared" \notin upset /\ ~connectOn => \E m \in AV : client[m].transport
=============================================================================
