# Verification project for the WME reference applications

TLA+ models, TLC configurations and TLAPS proofs for the control logic of the
Cisco WME (Web Media Engine) reference applications: the call drivers on top of
the engine (`src/ta/ref-app/src`), the signalling server they meet at
(`src/ta/ref-app/wsserver.js`), and the older Windows demo with its own media
connection and jingle session (`src/ref-app/windows/EngineDemo`,
`src/ref-app/common/src`).

The media engine and the network library (`IWmeMediaConnection`, `ICmTransport`,
timers, the event queue of the main thread) are not in the repository. They are
modelled from how the code uses them: they call back one at a time, in any
order the interface allows.

Commands, inside `tla/`: `tlc -workers 2 -config <run>.cfg <module>` for a run of
`PROJECT.json`, `tlapm <module>Proofs.tla` for a proof module.

## 1. The system

### Components, their state and operations

| Component | Code | State | Operations | Modelled in |
|---|---|---|---|---|
| REST client | `calliope_client.cpp`, `bearer_oauth.cpp` | `m_state`, one HTTP client, URLs, SDPs, token phase | create/delete venue and confluence, floor, token; OnReceive, OnEventFire | `OrpheusClient` |
| Peer call driver | `PeerCall.cpp` | `m_bActive`, venue URL, its REST client, its endpoint, `m_ws` | startPeer, stopPeer, floor, OnStartCall, OnSDPReceived, OnVenue, OnFlowParameters, onEvent | `PeerCalliope`, `SignalRoom` |
| Signalling server | `wsserver.js` | per room: peers, venue | on request, message, close | `SignalRoom` |
| WebSocket client | `wsclient.cpp` | channel, keepalive timer, `m_nMyId`, `m_bStartedCall` | Open, Stop, OnReceive, OnTimer, OnDisconnect | `SignalRoom` |
| Loopback call | `Loopback.cpp` | two endpoints, two REST clients, venue URL | startLoopback, stopLoopback, floor, the callbacks of both ends | `Loopback` |
| Endpoint | `ClickCall.cpp` | media connection, tracks, windows, `m_csivids`, SVS pins and timers, mute and direction | preview, startCall, acceptCall, answerReceived, holdCall, stopCall, mute, resume, startStopTrack, setCamera, startSVS, OnMediaReady, OnCSIsChanged, OnMediaStatus, OnNetworkStatus, OnTimer | `Endpoint` (tracks, pins, timers, mute), `VideoLayout` (windows); negotiation in the call modules |
| External transport | `externaltransport.cpp` | acceptor, connector, transport | Start, Stop, OnConnectIndication, OnDisconnect | `Endpoint` |
| Client session | `SimpleClientSession.cpp` | transport, connector, reconnect timer, cache | Connect, Close, ReLoad, SendData, OnConnectIndication, OnDisconnect, OnSend, OnTimer | `ClientSession`, promise in `Outbox` |
| ICE client | `IcerClient.cpp` | a session, candidates | bind on every join | its use of the session, in `ClientSession` |
| UDP media connection | `MyMediaConnection.cpp` | control and data transport, status and retries of each, `m_bConnected` | InitHost, ConnectTo, DisConnect, OnConnectIndication, ProcessConnCtrlMsg, OnTimer, OnDisconnect | `MediaHandshake` |
| Media transport | `MediaTransport.cpp` | `m_bConnected`, its connection | InitHost, ConnectRemote, StopTransport, OnConnected, OnDisconnected | `MediaHandshake` |
| Demo client | `DemoClient.cpp` | a transport, a sender and a receiver per medium, sending flags | Create/DeleteMediaClient, Connect, DisConnect, Start/StopMediaSending, OnConnected, OnDisConnected | `EngineDemo` |
| Demo dialog | `EngineDemoDlg.cpp` | the role, the boxes, `m_eVideoConnectionStatus`, buttons | connect, disconnect, preview, send boxes, the client's callbacks | `EngineDemo` |
| the rest | see `PROJECT.json` | | | not modelled, section 7 |

### How they interact

- A user (or the backdoor agent, a table of test commands over HTTP) starts and
  stops calls at any moment.
- `PeerCall` and `LoopbackCall` own `Endpoint`s and `COrpheusClient`s. The
  endpoint calls back with its SDP (`onEvent`), the client calls back with a
  venue (`OnVenue`) or an answer (`OnFlowParameters`).
- A REST reply arrives in `OnReceive`, which interprets it, stores what it says
  in members and posts the client to the main thread; `OnEventFire` runs later
  and calls the sink. User commands and other replies come in between.
- `CWsClient` and `wsserver.js` exchange join, echo, venue and SDP messages. The
  head count in the join decides who creates the venue (calliope) or makes the
  offer (peer to peer); the last count decides who deletes the venue.
- `CIcerClient` gives messages to `CSimpleClientSession`, which sends them,
  caches them, and reconnects by a timer.
- `MediaTransport` starts one `CMyMediaConnection`, which meets another one in
  a second process by request, acknowledgement and FIN datagrams.
- The dialog of the demo creates senders and receivers in `DemoClient`, which plugs
  transports into their engine sessions, and shows message boxes; a box reads the
  window's messages, so the network's callbacks run inside the handler that shows it.

### What is hard here

1. One `m_state` and one HTTP client for all requests: what a reply means depends
   on what the user did since the request (`calliope_client.cpp:308`).
2. The gap between `OnReceive` and `OnEventFire`, with stopCall in it.
3. A head count that is as old as the last join or echo, or counts a socket whose
   close the server has not seen (`PeerCall.cpp:83,164`).
4. SDP messages without a call identity (`wsclient.cpp:69`).
5. Connector, transport, timer and user of a session, each able to come when the
   others were not expected (`SimpleClientSession.cpp`).
6. Lost, repeated, late and overtaking datagrams, with retries and give-up
   (`MyMediaConnection.cpp:1414-1521`), and no keepalive (1420, `#if 0`).
7. A list of participants that is patched, never rebuilt (`ClickCall.cpp:1500-1570`).
8. Timers of an endpoint that use pins and tracks without asking, with setCamera,
   startSVS and stopCall between scheduling and firing (`ClickCall.cpp:1060-1130`).
9. One `Endpoint` for all calls: what stopCall leaves is there in the next one
   (`ClickCall.cpp:97,2068`).
10. Handlers of the demo inside each other's message boxes, over flags and buttons each
    of them sets for itself (`EngineDemoDlg.cpp:3071-3178`).

Each is listed with its line under `hazards` in `PROJECT.json`, with the properties
that would catch it going wrong, or the reason why none does.

## 2. Modules

| Module | Stands for | How it corresponds to the code |
|---|---|---|
| `OrpheusClient` | `COrpheusClient` and `CWX2Auth` | a client is a record of the members; each method is an operator from record to record (`CreateVenue`, `DoTask`, `OnReceive`, ...), so that two callers can be built from it. `Served`, `VenuesAfter` and `FlowsAfter` are the servers (external). |
| `PeerCalliope` | one device in calliope mode without signalling | extends `OrpheusClient`; one action per user command (`Start`, `Stop`, `Floor`), per callback of the engine (`OnSDPReady`), per step of the server (`Serve`), reply (`Reply`, `ReplyWithoutBody`, `AuthReply`) and posted event (`FireClient`, `FireAuth`). |
| `Loopback` | `LoopbackCall`, both ends in one process | extends `OrpheusClient`; the same for two clients that share one queue of the main thread; `direct` is the mode without calliope. |
| `SignalRoom` | one room: server, `CWsClient`, `PeerCall` and `Endpoint` per device | a FIFO of messages per socket in each direction, the server serves sockets in any order. `room` is the kind of room: with calliope or without, and how careful its users are. |
| `ClientSession` | `CSimpleClientSession` under `CIcerClient` | one action per entry point, library faults as their callbacks. |
| `Outbox` | the promise of a session: a FIFO that may drop what waits, together | abstract; `ClientSession!Box` is it with `delivered <- wire`, `pending <- cache`. |
| `MediaHandshake` | two `CMyMediaConnection`s over UDP with their `MediaTransport`s | one action per entry point; `net` is a set of datagrams, so they overtake each other, `Repeat` and `Lose` are the network's faults. |
| `VideoLayout` | remote video of an `Endpoint` | `csivids` is `m_csivids`; `Evict`, `Seat`, `Vacate`, `Restore` are the loops over it in their order; `shown` are the windows with a renderer; `OnMediaStatus` takes the status of any medium, as the code does. |
| `Endpoint` | an `Endpoint` over several calls, with its `ExternalTransport` | one action per command of the user (`Preview`, `StartCall`, `Mute`, `SetCamera`, ...), SDP (`AcceptCall`, `AnswerReceived`), track the engine announces (`SendReady`, `RecvReady`), timer (`DelayAdd`), warning of the network (`OnNetworkStatus`), new start of a track (`Resume`, `StartStopTrack`) and transport event; `refs` are the tracks with a reference of the client. |
| `EngineDemo` | `EngineDemoDlg` over `DemoClient` | `DemoClient`'s methods are operators on the record of one medium's members; the handlers of the dialog are cut where they may show a box, and `stack` has those under way. |
| `*Proofs` | theorems about `PeerCalliope`, `Loopback`, `SignalRoom`, `ClientSession` with its `Outbox`, `MediaHandshake`, `Endpoint` and its windows, `VideoLayout` (both in `EndpointProofs`), `EngineDemo`; `OrpheusClientProofs` holds the lemmas the first two share | section 5 |

The exact lines of every definition are in `PROJECT.json` under `map`.

Data is abstracted to what the properties tell apart: URLs, SDPs, offers,
messages and transports are numbers in the order they were made, 0 where the code
has an empty string or NULL.

Some variables are not in the code. `upset` (`PeerCalliope`, `Loopback`,
`ClientSession`, `MediaHandshake`, `EngineDemo`), `hasty` (`SignalRoom`), `wants`, `off` and
`overruled` (`Endpoint`), `named` (`VideoLayout`) are histories of what happened that weakens
a promise: a user who starts, stops or asks for the floor before the last operation settled, a
lost reply, a late report, a datagram of a former attempt, a preview that deletes what a call
uses, the last word of the user and of the network on a track, a hold, a recovered network or
a new start since, a participant whom a status named. They guard no action.
A property that names one says under which conditions the
code keeps its promise, and section 6 says what happens otherwise. `heard` of
`MediaHandshake` recognises a stale datagram; `prompt` is an environment in which
answers come within the timer's second.

## 3. Runs

| Run | What it asks | Bounds | Distinct states |
|---|---|---|---|
| `peer_calls` | `PeerCalliope`: callbacks meet their endpoint, nothing is created without a token, replies are read by the code of their request, answers are fresh, teardown is in order and complete | two starts, two floor commands, at any moment; all three server modes; replies may have no body | 821 387 |
| `peer_hasty_linus` (violation) | the assertion `!m_sRemoteSDP.empty()` of `calliope_client.cpp:333` | two starts, no floor command | (ends at the counterexample) |
| `room_meet` | `SignalRoom`: an empty room keeps no venue (types), answers are fresh, no glare, one venue per room, alive while used and reclaimed by the last, counts converge, all meet | two devices; up to three calls of each in the calm rooms (peer to peer, calliope), one restart and broken sockets in the lossy one | 565 330 |
| `room_alone` (violation) | "the first one start the call session" (`PeerCall.cpp:163`) | one device, two calls | (ends at the counterexample) |
| `loopback` | both ends in one venue with the answer to their own offer; callbacks meet endpoints; a call is set up | three acts of the user in any order: start, stop, floor; three modes and direct | 247 251 |
| `session` | `ClientSession`: FIFO across connections (refinement of `Outbox`), one attempt at a time, never stuck, what is cached is sent | two messages of the application (and one bind per connection), two calls, two breaks, one failure | 14 999 |
| `layout` | `VideoLayout`: one entry per vid, the right windows show | two participants, three vids, two calls; statuses of any medium | 99 536 |
| `media_safety` | `MediaHandshake`: not more requests than `MAX_TRY_TIME`, give-up is safe, both ends believe in the same connection | two tries, two attempts, host started twice, one trouble | 1 392 608 |
| `endpoint` | `Endpoint`: a timer that fires finds its pin and its connection, references to tracks go with the connection, the engine knows the external transport, a hold ends, a mute lasts | two calls, each with SVS or in the train mode, started muted, two SDPs, two remote videos, network warnings and restarted tracks | 703 829 |
| `endpoint_again` (violation) | "avoid unmute first time" (`ClickCall.cpp:97`) | two plain calls, two SDPs, no warnings or restarts | (ends at the counterexample) |
| `demo` | `EngineDemo`: sessions, transports, senders and receivers stay wired, a connected medium is sent as asked, Connect is offered when the calls are gone | two connects, each of the video alone, with audio or with the screen, one failing track, two handlers inside each other | 3 174 527 |
| `media_liveness` | each attempt has a verdict, fewer losses than tries do not keep the two apart, a hang-up is noticed | the same, host started once | 380 986 |

Why these bounds are enough: every conflict found or excluded here is between two
calls, two devices, two connections or two attempts, so two of each let the old one
meet the new one. `room_meet` has three calls because a rejoin of either device must meet a
survivor of an earlier rejoin. Two handlers of the demo are one inside the box of another,
which is where their decisions cross; the proofs hold for any number. A plain call of `Endpoint`
is one of the train mode whose acceptor never gets a transport, and one that starts unmuted is one
whose user unmutes at once; the proofs hold for every set of modes. The demo's three choices are a
call of one medium, of two that count in the dialog, and with the screen, which does not.
`MAX_TRY_TIME` 2 (5 in the code) has a retry and a give-up; `Connects` is then one loss against two
requests. Two participants and three vids (one the speaker's) allow a speaker to change, to leave and
to find his own vid taken.

Each property has a mutant in `PROJECT.json`: a plausible mistake in one mapped
definition (`..._keepsState`, `..._offByOne`, ...) under which TLC finds that very
property violated in that very run, so none holds by the shape of the model.

Deadlock is not checked (`CHECK_DEADLOCK FALSE`) where the bounds make a
model stop: the user has used up his starts, and nothing is under way.
`layout` never stops and is checked.

## 4. Fairness

Only what the code or the library schedules is fair; no user action is.

- `PeerCalliope`, `Loopback`: the engine produces its SDP, the server serves, the
  reply (with a body) arrives, the main thread fires posted events. `ReplyWithoutBody` is
  not fair, it may happen, and the liveness properties name it (`"loss"`).
- `Endpoint` and `EngineDemo` state safety only and assume no fairness.
- `SignalRoom`: sockets are served, callbacks delivered, the keepalive timer (5 s,
  periodic) fires.
- `ClientSession`: an attempt ends (AsycConnect has a 20 s timeout), the timer fires,
  a loss is reported, a transport that refused data calls OnSend once it drains.
- `MediaHandshake`: connectors conclude, the timer of the connection runs from its
  constructor to its destructor, and a datagram arrives unless it is lost.

All are weak: each of these steps stays enabled until it happens, or until
somebody takes its reason away.

## 5. What is proved

With TLAPS, for every value of the constants that meets the named `ASSUME`
(`PeerAssumption`, `LoopbackAssumption`, `SignalAssumption`, `SessionAssumption`, `LayoutAssumption`,
`EndpointAssumption`, `MediaAssumption`, `DemoAssumption`): any number of starts, messages, devices,
failures, participants, windows, calls, remote tracks, retries and nested handlers.

**`PeerCalliopeProofs`**, with the lemmas of `OrpheusClientProofs`: one per operator of
`OrpheusClient` and per question, namely what it does to the client's types and to
`state` (`GoodClient`, `Covered`), which requests it opens (`*Opens`) and what of the
venue it keeps (`*Keeps`).

- `TypeCorrect`, `CallbacksMeetTheirEndpoint`, `RequestsAreAuthorized`. Inductive only together
  with what the REST client keeps: `GoodClient` (types, and the token's HTTP request in the phase
  the token object believes in) and `Covered` (an open create request of Orpheus is covered by a
  token). The point of the argument: each user command overwrites `m_state` first, so a late
  event finds either the state it was posted for or one whose callback is empty.
- `RepliesMatchTheirState` needs more: `TakesTurns` says that in calm at most one of
  an HTTP request, a token request, a posted event and an offer of the engine is under way, with one
  exception, the deletion of the venue, which the reply to the deletion of the confluence opens
  while its own event still waits.
- `AnswersAreFresh` holds under a weaker condition, stops at any moment included: `Current` is
  the turn-taking of one call from its start until its answer, which only a hasty start or floor
  command disturbs: a stop ends the call and with it the claim.
- `TeardownInOrder`: `Books` joins the servers' confluences to what the client knows of
  them (`Known`), to the requests and events under way (`Fetching`, `VenueWay`, `FlowWay`) and to the
  order of the deletion. It says which confluences the venue can still have at each
  step of the teardown.

**`LoopbackProofs`**, on the same lemmas.

- `TypeCorrect`, `CallbacksMeetTheirEndpoints`. Three
  parts: `TypeOK`; `Clients`, what the lemmas keep of each client; `Fit`, which joins the callbacks'
  needs to `Direct`: without calliope a client is never asked for more than a delete, and only
  there an endpoint answers the other. Without `Direct` a posted reply could meet an endpoint that
  the other end is just answering. Starting is safe because stopping left both clients in
  `DELETE_CONFLUENCE`, whatever was posted before.
- `BothMeet`: per end, one thing is under way (`OneThing`) although both share the queue
  of posted events, and the venue goes from the caller's reply (`NewVenue`) through the
  callee's start (`OnTheWay`) to both confluences (`Joined`); without calliope the offer and the
  answer pass from hand to hand (`Hands`).

**`SignalRoomProofs`.** For any set of devices.

- `TypeCorrect`, `CountedOnceAlways`. `Wired` is the life of one socket, read off
  what the server has yet to read of it: requested once, counted, closed, and only
  the live socket of a device has no close under way. So the server's `peers`, an array in the
  code, is a set in the model: no socket is pushed twice. `Seated` is the life of a
  device's call: it hears nothing before its socket is counted, and the head count that starts it
  comes first and once.
- `OneVenueAlways`: `OneVenue` follows the one permission to create a venue of a calm
  calliope room. The join message that says one, the venue that is being created, the
  message that brings it to the server and the venue stored there are the places where it can be
  (`Token` before, `InOne` after); whoever has heard of a venue heard of that one. `Alive` (it is not
  deleted under anybody) rests on what a device knows of the head count when it stops.
- `VenueReclaimedAlways`: `Kept` says that every venue that exists is in the custody of the room or on its
  way there, that every active device has heard of it or will, and that none exists when no
  device is active. `NoGhost` says that without hasty stops a closed socket is counted no longer than
  its close is under way (`Tidy`), so that the last device to stop knows that it is the last.
- `AnswersAreFresh`: an answer names neither its offer nor its call. In a calliope room
  no SDP crosses the server, and `Announced` says that a device hears of the venue once, before
  it makes its offer. Peer to peer, `InTouch` says what of an exchange is
  under way between the two devices (`Pairs`): an answer comes from a device that took the
  offer, and a restart on either side takes the rest of the exchange with its socket.
  The theorem's hypothesis, that a room without calliope has at most two devices
  (`AtMostTwo`), is needed: the server relays an answer to everyone else in the room, so among
  three it may reach one whom it does not answer. The demo calls between two.

**`ClientSessionProofs`.** `Inv` is `TypeOK`, `CacheWaits`, `OneAttempt`, `Alternating`,
`NeverStuck`, `ClosedRests` and the strengthening `ConnectedIsOpen` (without it the leave
that OnDisconnect sends only if `m_bConnected` could be missing). `TypeStep`, `CacheStep`
and `ControlStep` prove it step by step. `SessionIsOutbox`: every step is a step of
`Outbox` or stutters. That rests on `CacheWaits`: `SendData` hands a message to the
transport without looking at the cache, so it is FIFO only because a transport that
takes data never finds a cache. `OutboxInOrder`: in an `Outbox`, what is delivered and what waits,
one after the other, rises strictly and was posted; `SessionInOrder` carries that over the refinement
to the session. `CacheWaits`, `Alternating` (joins and leaves) and
`ClosedRests` are proved and not among the run's properties.

**`MediaHandshakeProofs`.** `TypeCorrect`, `GivesUpSafely`, `EndsAgree`. Every attempt of the
client sends from a new address, and addresses only rise: `Used` bounds what is
under way and what was heard by the present one, `Acked` says that what is acknowledged was heard,
`HostFollows` that the host is connected to the newest address it heard unless a stale datagram
took it back, `UpFollows` that the transport above is only up over a connected connection. `Leftover` is
what giving up needs: a control status that outlived its transport is replaced by the next
attempt before the data connection of that attempt can give up.

**`EndpointProofs`.** `TypeCorrect`, `TimersSafe`, `TracksReturned`, `TransportTold`,
`HoldEnds`, `HoldRespectsMute`: all that `endpoint` checks. The invariant
has four parts, each over variables of its own: `Typed` (the external transport belongs to a
connection of the train mode), `Scheduled` (a second track is only asked for in an SVS call), `Kept`
(which tracks of the present call are referenced) and `Heard` (the remote side receives a medium
that nothing overruled since the user's last word, so that no SDP unmutes it).

**`EndpointProofs`, the windows.** The module extends `Endpoint` and `VideoLayout`, which share
no variable and no name. `LayoutTypeCorrect`; `ListConsistent`: no two entries for a vid
(`OneEntryPerVid`) and no more than two for a participant (`TwoPerCsi`, so the list that is
never erased stays bounded); `WindowsRight`. The argument follows the four loops: `Evict` frees the vid,
`Seat` takes a free one and finds a participant's entry unless it is the speaker's,
`Restore` asks whether the vid is free. `FirstIn` is what a loop with a break picks. For the windows,
`OnTracks` says that the engine only uses tracks it announced, `OnList` that without duplication
the list has each participant on the vid the engine has him on, `Windowed` that with duplication
window 0 shows. The `*Holds` lemmas say which vids are still held after each loop, and
`HiddenAfter` which windows `HideDuplication` leaves hidden.

**`EngineDemoProofs`.**

- `TypeCorrect` and `AlwaysWired`. A transport is deleted in `Close` only,
  so a session is safe if its sender is gone by then, which `Uninit` sees to; `Framed` says why
  nothing undoes that in between: a connect is alone on the stack and shows no box, as long as
  the engine gives every track, and a preview's window that is closed inside a box can only delete
  senders, because there is such a window only while the preview is on. `Wired` is the wiring of
  one medium, and one lemma per operator says that it keeps it.
- `IdleMeansClosed`: `Doors` relates the open transports to `active`, to the media asked for and
  to what each handler on the stack has yet to do. `Nested` says what may run inside what,
  `Opened` which transports a connect has made so far, `Alone` that without the screen Connect is off
  only as long as a transport is open or a handler has yet to decide; a handler of the preview
  decides nothing (`Idle`).
- `SendingAsAsked`: `Sent` says that DemoClient's sending flag of a connected medium equals the option of its
  track, but for the one medium that a handler has in hand (`Hand`), where it equals what that
  handler set out to do, and that an open audio or video transport has a sender as long as the
  preview deleted no client in use.

Only model-checked:

- all liveness (`CallSetUp`, `ConfluenceReleased`, `CountConverges`, `AllMeet`, `Flushed`,
  `VerdictGiven`, `Connects`, `HangsUp`): liveness under fairness is beyond this prover;
- `NoGlare` of `SignalRoom`, an action property of two devices that call peer to peer: it needs
  the exchange of offer and answer in order, from the head count on. Planned next.

## 6. Findings and observations

Findings, each with a run that shows it:

- **The reply to a delete read as the reply to a create** (`peer_hasty_linus`): a call
  stopped while its create waits for the token has the token send DELETE_CONFLUENCE instead
  (240-244). The next call's `CreateLinusConfluence` overwrites `m_state` at once (216) and, with an
  automatic token, leaves `DoTask` and its `Close` to when the token comes (217-218). The reply
  to the delete comes before, and its missing SDP is stored as the create's;
  `calliope_client.cpp:333` asserts it cannot.
- **A device alone in its room does not start the session** (`room_alone`): after a quick
  restart the count includes its own last socket.
- **A call unmuted by its first SDP** (`endpoint_again`): only the constructor sets the
  remembered direction "to sendrecv first to avoid unmute first time" (`ClickCall.cpp:97`);
  `PeerCall` uses one endpoint for all its calls, so after a call that ended on hold the first
  SDP of the next one unmutes a track that was started muted.

Observations met while modelling, where the code keeps its promise only under the
condition the property names:

- Hasty user, REST client: the answer to an earlier offer can be applied to the
  present one; the delete of the venue, issued from the reply to the confluence's
  delete, can be cancelled by the `Close` in `OnEventFire`; two token events can create
  two venues, the first of which nobody deletes; `DoTask` in a state without a request
  reaches `Send` with `m_pHttpClient` NULL (kept as `nullSend` of a client). A floor command during
  the set-up overwrites `m_state`, and its `Close` drops the create request; nothing asks again, so
  the call is never answered (`PeerCall.cpp:43`, `Loopback.cpp:222`).
- Signalling: a stop in the middle of a negotiation and a quick rejoin leave a device with an
  offer of its own open meeting another (`NoGlare` with `hasty`); a stale count deletes
  a venue under a newcomer or leaves it behind; if the first device stops before it
  has sent the venue, the second waits for ever.
- Loopback: the callee's confluence may outlive the venue; only the caller's client
  deletes that.
- Session: an explicit `Connect` on a session that waits for its timer leaves the timer on,
  which then replaces the new connection; `OnDisconnect` does not compare transports,
  so a late report drops the working one, or reconnects a closed session; a failing
  `OpenWithSink` strands the session without a timer; after a reconnect the cache goes
  out before the bind; without reconnect a failed join sends its bind all the same
  (`IcerClient.cpp:104-137`), into the cache of a session that is closed.
- Windows: `vidEmpty[255] = {true}` sets one element, so windows of other vids are never
  hidden; `m_csivids` and `m_possibleActiveCsi` survive `stopCall`, so an entry of the last
  call can hold window 0 open; with duplication a speaker's own window stays hidden
  when he leaves vid 0; a status of the audio or the share with vid 0 hides the windows of the
  participant it names, with duplication or without (`ClickCall.cpp:1473-1483`).
- Endpoint: the tracks to send on of an SVS call, and its pins, keep their references after
  `stopCall`, as does the SVS timer if startSVS was used in a plain call, and
  `m_svsAudioTimer` is never cancelled; a user's mute is lost when the remote side ends a hold or the
  network recovers (`ClickCall.cpp:1614`), and may be when the app comes back to the foreground
  (854) or a test starts the track again (966);
  the loss of an external transport stops its acceptor too, so no other comes in that call.
- Demo: the preview, whose button "Use camera" enables in a call too (`EngineDemoDlg.cpp:3596-3611`)
  and whose window can be closed inside any box (698-706), deletes the video client of a call, or
  one that counts as sending: the flag stays up, and the video of the next call is not sent until
  its box is toggled (`DemoClient.cpp:418`); a preview that does not start leaves its client, one
  that does not stop stays marked as on (`EngineDemoDlg.cpp:2729-2747`);
  after a failed CreateTrack, Uninit returns early and the transport is deleted while the engine
  session still has it; the callbacks of the desk share ask the video's status
  (`EngineDemoDlg.cpp:3101,3148,3173`), so a share lost after the video leaves its
  transport open while Connect is enabled.
- Media connection: an ACK after give-up connects an attempt that was reported failed,
  without control connection; a second `ConnectRemote` while an attempt is open, followed by a
  FIN of the first, or a control connector that failed after an earlier connected
  attempt, leaves `m_CtrlConnectionStatus` at CONNECTED with a NULL transport, which give-up
  dereferences (`MyMediaConnection.cpp:1488`); a lost FIN leaves a side connected to nobody; a
  datagram of any new address takes the host's running connection; a host restarted
  within an attempt keeps a connection the client has left.

Assumptions about what is not in the repository: a transport that refused data calls
`OnSend` when it can take more; the engine puts a participant on one vid, or two if
one is the speaker's and duplication is on; a UDP connector concludes within a second;
the user interface does not start a loopback call before it stopped the last; a UDP
acceptor makes one transport per remote address; what `Start(false)` does to a running track is
open (`MediaConnection.h:441`), so it may keep its mute or lose it.

## 7. Not modelled, and why

- Of `Endpoint`: share tracks, dumpers, `resume(false)` and whether a track runs (a stopped
  track keeps its mute), and commands on remote tracks (what a read past the end
  of `m_pVideoTrackCallee` gives is up to the build, `ClickCall.cpp:950`).
- Of the demo: device and format settings, volumes, statistics, render windows, files instead
  of devices, the command-line modes.
- The TCP mode of `CMyMediaConnection`, `FileMediaConnection`, `CASEnum`. Planned.
- ICE (`DemoClient`, `IcerClient::StartICE`) is compiled out; `FileCaptureEngineImp` is not used.
- `BackdoorAgent`, `TAHTTPServer`: no state but the call's, whose commands are already free
  actions. Configuration: constants of the models. Statistics, traces, Calabash
  history: output. Screen analysis: image data.
- Senders and receivers are in `EngineDemo` as far as a track was made for them; the rest of
  them, and `MediaManager`, are thin wrappers over the engine.
- Shells, scripts, builds, engine unit tests, vendored code.
- Within the modelled parts: allocation failures, text formats, logging, packets.

## 8. Plan

Done, in this order: `OrpheusClient`, `PeerCalliope`, `SignalRoom`, `ClientSession` with
`Outbox`, `VideoLayout`, `Loopback`, `MediaHandshake`, `Endpoint`, `EngineDemo`, and the proofs
of section 5.

Next, models:

1. TCP mode of the media connection as a second module over the same operators, with
   partial reads (`m_nCtrlRemain`, `m_nDataRemain`) refining a reliable stream of packets
   (hazard `MyMediaConnection.cpp:452`).
2. Three devices in `SignalRoom` (calliope), if the state space allows.
3. `CASEnum` reference counts; `FileMediaConnection`; `BackdoorAgent`'s own state.

Next, abstract specifications: a call as seen by its user (idle, calling, talking,
ended), implemented by `PeerCalliope` and `Loopback` in calm; a datagram connection
(closed, opening, open) implemented by each end of `MediaHandshake`.

Next, theorems: `NoGlare` of `SignalRoom` for two devices, on top of `InTouch`; then that
`PeerCalliope` and `Loopback` implement the abstract call.

All runs together take a quarter of an hour; a later property should replace a
shallower one rather than be added to it.
