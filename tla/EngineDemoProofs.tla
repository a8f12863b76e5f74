-------------------------- MODULE EngineDemoProofs --------------------------
(***************************************************************************)
(* That EngineDemo keeps its types and, over any number of connects and    *)
(* any nesting of handlers,                                                *)
(*   - its wiring, as long as the engine gives every track: a transport is *)
(*     deleted only in Close, so the session is safe if the medium has no  *)
(*     sender by then. Uninit sees to that; what could undo it in between  *)
(*     is a connect that runs inside the disconnect's box, and Framed says *)
(*     that there is none;                                                 *)
(*   - its buttons: Doors relates the open transports to `active`, to the  *)
(*     media asked for and to what each handler has yet to do;             *)
(*   - what it sends: Sent relates DemoClient's flag to the option of the  *)
(*     track, but for the one medium a handler has in hand.                *)
(***************************************************************************)
EXTENDS EngineDemo, TLAPS

Typed ==
  /\ TypeOK
  /\ wanted # {}
  /\ \A i \in 1..Len(stack) : stack[i].next = "end" <=> stack[i].todo = {}

(* The wiring of one medium whose tracks the engine gave. *)
Wired(c, m) ==
  /\ c.sender # "bare" /\ c.receiver # "bare"
  /\ c.sender = "none" <=> c.receiver = "none"
  /\ c.session # "dead" /\ c.rptr # "dead"
  /\ c.sender = "none" => c.session = "none"
  /\ c.transport /\ c.sender # "none" => c.session = "live" /\ c.rptr = "live"
  /\ m = "share" /\ c.sender # "none" => c.transport

Framed == \A i \in 1..Len(stack) :
  /\ stack[i].next \in {"init", "link"} => stack[i].op = "connect"
  /\ stack[i].next \in {"uninit", "close"} => stack[i].op # "connect"
  /\ stack[i].op = "connect" => Len(stack) = 1 /\ ~stack[i].box
  /\ stack[i].next = "close" => client[Current(stack[i].op, stack[i].todo)].sender = "none"

(* What the preview's window, closed inside a box, must not do is make a       *)
(* client: it is open only while the preview is on.                           *)
Sound == fails = 0 => Framed /\ (window => preview) /\ \A m \in Media : Wired(client[m], m)

IInv == Typed /\ Sound
-----------------------------------------------------------------------------
(* What the operators on one medium's members do to their types and wiring.   *)
LEMMA CurrentIn ==
  ASSUME NEW op, NEW todo \in SUBSET Media, todo # {}
  PROVE  Current(op, todo) \in todo
<1>1. \A m \in Media : Rank(op, m) \in 1..3
  BY DEF Rank
<1>2. \E m \in todo : \A n \in todo : Rank(op, m) <= Rank(op, n)
  <2>1. CASE \E m \in todo : Rank(op, m) = 1
    BY <1>1, <2>1
  <2>2. CASE (\A m \in todo : Rank(op, m) # 1) /\ \E m \in todo : Rank(op, m) = 2
    BY <1>1, <2>2
  <2>3. CASE \A m \in todo : Rank(op, m) = 3
    BY <2>3
  <2>4. QED BY <1>1, <2>1, <2>2, <2>3
<1>3. QED BY <1>2 DEF Current

LEMMA SendingKeeps ==
  ASSUME NEW m \in Media, NEW c \in Client, NEW b \in BOOLEAN
  PROVE  /\ SendAs(c, b) \in Client /\ StopUnlessAsked(c, b) \in Client
         /\ StartMediaSending(c) \in Client /\ StopMediaSending(c) \in Client
         /\ SendAs(c, b).sender = c.sender /\ StopUnlessAsked(c, b).sender = c.sender
         /\ StartMediaSending(c).sender = c.sender /\ StopMediaSending(c).sender = c.sender
         /\ Wired(c, m) => /\ Wired(SendAs(c, b), m) /\ Wired(StopUnlessAsked(c, b), m)
                        /\ Wired(StartMediaSending(c), m) /\ Wired(StopMediaSending(c), m)
<1>1. ASSUME NEW e \in Client
      PROVE  /\ StartMediaSending(e) \in Client /\ StartMediaSending(e).sender = e.sender
             /\ Wired(e, m) => Wired(StartMediaSending(e), m)
  <2>1. CASE e.flag \/ ~e.mine \/ e.sender = "none"
    BY <2>1 DEF StartMediaSending
  <2>2. CASE ~e.flag /\ e.mine /\ e.sender = "bare"
    BY <2>2 DEF StartMediaSending, Client, Wired
  <2>3. CASE ~e.flag /\ e.mine /\ e.sender = "track"
    BY <2>3 DEF StartMediaSending, Client, Wired
  <2>4. QED BY <2>1, <2>2, <2>3 DEF Client
<1>2. ASSUME NEW e \in Client
      PROVE  /\ StopMediaSending(e) \in Client /\ StopMediaSending(e).sender = e.sender
             /\ Wired(e, m) => Wired(StopMediaSending(e), m)
  <2>1. CASE e.flag /\ e.sender # "none"
    BY <2>1 DEF StopMediaSending, Client, Wired
  <2>2. CASE ~(e.flag /\ e.sender # "none")
    BY <2>2 DEF StopMediaSending
  <2>3. QED BY <2>1, <2>2
<1>3. ASSUME NEW e \in Client, NEW v \in BOOLEAN
      PROVE  /\ EnableMyMedia(e, v) \in Client /\ EnableMyMedia(e, v).sender = e.sender
             /\ Wired(e, m) => Wired(EnableMyMedia(e, v), m)
  BY DEF EnableMyMedia, Client, Wired
<1>4. QED BY <1>1, <1>2, <1>3 DEF SendAs, StopUnlessAsked

LEMMA CreateKeeps ==
  ASSUME NEW m \in Media, NEW c \in Client, NEW bare \in SUBSET {"sender", "receiver"}
  PROVE  /\ CreateMediaClient(c, m, bare) \in Client
         /\ Wired(c, m) /\ bare = {} => Wired(CreateMediaClient(c, m, bare), m)
<1>1. CreateMediaClient(c, m, bare) \in Client
  BY DEF CreateMediaClient, NewEnd, Client
<1>2. ASSUME Wired(c, m), bare = {} PROVE Wired(CreateMediaClient(c, m, bare), m)
  <2> DEFINE d == CreateMediaClient(c, m, bare)
  <2>1. /\ d.transport <=> c.transport \/ m = "share"
        /\ d.sender = IF c.sender # "none" THEN c.sender ELSE "track"
        /\ d.receiver = IF c.receiver # "none" THEN c.receiver ELSE "track"
    BY <1>2 DEF CreateMediaClient, NewEnd, Client
  <2>2. /\ d.session = IF (c.transport \/ m = "share") /\ c.sender = "none" THEN "live" ELSE c.session
        /\ d.rptr = IF (c.transport \/ m = "share") /\ c.receiver = "none" THEN "live" ELSE c.rptr
    BY DEF CreateMediaClient, Client
  <2>3. QED BY <1>2, <2>1, <2>2 DEF Wired
<1>3. QED BY <1>1, <1>2

LEMMA DeleteKeeps ==
  ASSUME NEW m \in Media, NEW c \in Client
  PROVE  /\ DeleteMediaClient(c) \in Client /\ DeleteMediaClient(c).sender = "none"
         /\ Wired(c, m) => Wired(DeleteMediaClient(c), m)
  BY DEF DeleteMediaClient, Client, Wired

LEMMA ConnectKeeps ==
  ASSUME NEW m \in Media, NEW c \in Client, NEW h \in BOOLEAN
  PROVE  /\ Connect(c, h) \in Client /\ Connect(c, h).sender = c.sender
         /\ Wired(c, m) => Wired(Connect(c, h), m)
<1> DEFINE d == Connect(c, h)
<1>1. d \in Client
  BY DEF Connect, Client
<1>2. /\ d.sender = c.sender /\ d.receiver = c.receiver /\ d.transport
      /\ d.session = IF c.sender # "none" THEN "live" ELSE c.session
      /\ d.rptr = IF c.receiver # "none" THEN "live" ELSE c.rptr
  BY DEF Connect, Client
<1> HIDE DEF d
<1>3. QED BY <1>1, <1>2 DEF Wired, d

(* The one step that needs the sender to be gone. *)
LEMMA DisConnectKeeps ==
  ASSUME NEW m \in Media, NEW c \in Client
  PROVE  /\ DisConnect(c) \in Client /\ DisConnect(c).sender = c.sender
         /\ Wired(c, m) /\ c.sender = "none" => Wired(DisConnect(c), m)
  BY DEF DisConnect, Client, Wired

LEMMA LinkKeeps ==
  ASSUME NEW m \in Media, NEW c \in Client, NEW l \in {"idle", "waiting", "connecting", "connected"}, NEW b \in BOOLEAN
  PROVE  LET d == [c EXCEPT !.link = l]
             e == [d EXCEPT !.flag = b]
         IN /\ d \in Client /\ e \in Client /\ d.sender = c.sender /\ e.sender = c.sender
            /\ Wired(c, m) => Wired(d, m) /\ Wired(e, m)
  BY DEF Client, Wired

(* Which of them open or close its transport.                                 *)
LEMMA DoorFacts ==
  ASSUME NEW c \in Client
  PROVE  /\ StartMediaSending(c).transport = c.transport /\ StartMediaSending(c).link = c.link
         /\ StopMediaSending(c).transport = c.transport /\ StopMediaSending(c).link = c.link
         /\ DeleteMediaClient(c).transport = c.transport /\ DeleteMediaClient(c).link = c.link
         /\ ~DisConnect(c).transport /\ DisConnect(c).link = "idle"
         /\ \A b \in BOOLEAN :
              /\ SendAs(c, b).transport = c.transport /\ SendAs(c, b).link = c.link
              /\ StopUnlessAsked(c, b).transport = c.transport /\ StopUnlessAsked(c, b).link = c.link
              /\ Connect(c, b).transport
<1>1. ASSUME NEW e \in Client
      PROVE  /\ StartMediaSending(e).transport = e.transport /\ StartMediaSending(e).link = e.link
             /\ StopMediaSending(e).transport = e.transport /\ StopMediaSending(e).link = e.link
  BY DEF StartMediaSending, StopMediaSending, Client
<1>2. ASSUME NEW b \in BOOLEAN
      PROVE  /\ SendAs(c, b).transport = c.transport /\ SendAs(c, b).link = c.link
             /\ StopUnlessAsked(c, b).transport = c.transport /\ StopUnlessAsked(c, b).link = c.link
  <2>1. ASSUME NEW v \in BOOLEAN
        PROVE  /\ EnableMyMedia(c, v) \in Client
               /\ EnableMyMedia(c, v).transport = c.transport /\ EnableMyMedia(c, v).link = c.link
    BY DEF EnableMyMedia, Client
  <2>2. QED BY <1>1, <2>1 DEF SendAs, StopUnlessAsked
<1>3. /\ DeleteMediaClient(c).transport = c.transport /\ DeleteMediaClient(c).link = c.link
      /\ ~DisConnect(c).transport /\ DisConnect(c).link = "idle"
      /\ \A b \in BOOLEAN : Connect(c, b).transport
  BY DEF DeleteMediaClient, Connect, DisConnect, Client
<1>4. QED BY <1>1, <1>2, <1>3

LEMMA CreateDoor ==
  ASSUME NEW m \in Media, NEW c \in Client, NEW bare \in SUBSET {"sender", "receiver"}
  PROVE  /\ CreateMediaClient(c, m, bare).link = c.link
         /\ m # "share" => CreateMediaClient(c, m, bare).transport = c.transport
         /\ m = "share" => CreateMediaClient(c, m, bare).transport
  BY DEF CreateMediaClient, Client
-----------------------------------------------------------------------------
(* What the steps of the window's thread do to the stack: the handlers below   *)
(* the top stay, and are where they were or one lower or higher.              *)
Steps == {"init", "link", "uninit", "close", "end"}

LEMMA ThenKeeps ==
  ASSUME Typed, stack # <<>>, NEW step \in Steps, NEW box \in BOOLEAN, stack' = Then(step, box)
  PROVE  /\ stack' # <<>> /\ stack' \in Seq(Frame) /\ Len(stack') = Len(stack)
         /\ stack'[1].op = Top.op /\ stack'[1].todo = Top.todo
         /\ stack'[1].next = step /\ stack'[1].box = box
         /\ \A i \in 1..Len(stack) : i # 1 => stack'[i] = stack[i]
<1> DEFINE f == [Top EXCEPT !.next = step, !.box = box]
<1>1. Top \in Frame /\ 1 \in 1..Len(stack)
  BY DEF Top, Typed, TypeOK
<1>2. f \in Frame /\ f.op = Top.op /\ f.todo = Top.todo /\ f.next = step /\ f.box = box
  BY <1>1 DEF Frame, Steps
<1>3. stack' = [stack EXCEPT ![1] = f]
  BY DEF Then, Top
<1> HIDE DEF f
<1>4. stack' \in Seq(Frame) /\ Len(stack') = Len(stack) /\ stack'[1] = f
  BY <1>1, <1>2, <1>3 DEF Typed, TypeOK
<1>5. \A i \in 1..Len(stack) : i # 1 => stack'[i] = stack[i]
  BY <1>1, <1>3 DEF Typed, TypeOK
<1>6. Len(stack) # 0
  BY <1>1
<1>7. QED BY <1>2, <1>4, <1>5, <1>6

LEMMA NextKeeps ==
  ASSUME Typed, stack # <<>>, Top.todo # {}, NEW step \in Steps, NEW box \in BOOLEAN,
         stack' = NextMedium(step, box)
  PROVE  /\ stack' # <<>> /\ stack' \in Seq(Frame) /\ Len(stack') = Len(stack)
         /\ stack'[1].op = Top.op /\ stack'[1].box = box
         /\ stack'[1].todo = Top.todo \ {Current(Top.op, Top.todo)}
         /\ stack'[1].next = IF stack'[1].todo = {} THEN "end" ELSE step
         /\ \A i \in 1..Len(stack) : i # 1 => stack'[i] = stack[i]
<1> DEFINE rest == Top.todo \ {Current(Top.op, Top.todo)}
           next == IF rest = {} THEN "end" ELSE step
           f == [Top EXCEPT !.todo = rest, !.next = next, !.box = box]
<1>1. Top \in Frame /\ 1 \in 1..Len(stack)
  BY DEF Top, Typed, TypeOK
<1>2. rest \in SUBSET Media /\ next \in Steps
  BY <1>1 DEF Frame, Steps
<1>3. stack' = [stack EXCEPT ![1] = f]
  BY DEF NextMedium, Top
<1>4. f \in Frame /\ f.op = Top.op /\ f.todo = rest /\ f.next = next /\ f.box = box
  <2> HIDE DEF rest, next
  <2>1. QED BY <1>1, <1>2 DEF Frame, Steps
<1> HIDE DEF f
<1>5. stack' \in Seq(Frame) /\ Len(stack') = Len(stack) /\ stack'[1] = f
  BY <1>1, <1>3, <1>4 DEF Typed, TypeOK
<1>6. \A i \in 1..Len(stack) : i # 1 => stack'[i] = stack[i]
  BY <1>1, <1>3 DEF Typed, TypeOK
<1>7. Len(stack) # 0
  BY <1>1
<1>8. QED BY <1>4, <1>5, <1>6, <1>7

LEMMA CallKeeps ==
  ASSUME Typed, NEW op \in {"connect", "disconnect", "lost"}, NEW todo \in SUBSET Media,
         NEW step \in Steps, stack' = Call(op, todo, step)
  PROVE  /\ stack' # <<>> /\ stack' \in Seq(Frame) /\ Len(stack') = Len(stack) + 1
         /\ stack'[1].op = op /\ stack'[1].todo = todo /\ stack'[1].next = step /\ ~stack'[1].box
         /\ \A i \in 1..Len(stack') : i # 1 => i - 1 \in 1..Len(stack) /\ stack'[i] = stack[i - 1]
<1> DEFINE f == [op |-> op, todo |-> todo, next |-> step, box |-> FALSE]
<1>1. f \in Frame /\ f.op = op /\ f.todo = todo /\ f.next = step /\ ~f.box
  BY DEF Frame, Steps
<1>2. stack' = <<f>> \o stack
  BY DEF Call
<1> HIDE DEF f
<1>3. stack' \in Seq(Frame) /\ Len(stack') = Len(stack) + 1 /\ stack'[1] = f
  BY <1>1, <1>2 DEF Typed, TypeOK
<1>4. \A i \in 1..Len(stack') : i # 1 => i - 1 \in 1..Len(stack) /\ stack'[i] = stack[i - 1]
  BY <1>1, <1>2 DEF Typed, TypeOK
<1>5. Len(stack') # 0
  BY <1>3 DEF Typed, TypeOK
<1>6. QED BY <1>1, <1>3, <1>4, <1>5

(* The handlers that start in a box: of a preview that failed, and of a        *)
(* connect whose preview did not stop.                                        *)
Report == <<[op |-> "preview", todo |-> {}, next |-> "end", box |-> TRUE]>>

LEMMA ReportKeeps ==
  ASSUME Typed, stack' = Report \o stack
  PROVE  /\ stack' # <<>> /\ stack' \in Seq(Frame) /\ Len(stack') = Len(stack) + 1
         /\ stack'[1].op = "preview" /\ stack'[1].todo = {} /\ stack'[1].next = "end" /\ stack'[1].box
         /\ \A i \in 1..Len(stack') : i # 1 => i - 1 \in 1..Len(stack) /\ stack'[i] = stack[i - 1]
<1> DEFINE f == [op |-> "preview", todo |-> {}, next |-> "end", box |-> TRUE]
<1>1. f \in Frame /\ f.op = "preview" /\ f.todo = {} /\ f.next = "end" /\ f.box
  BY DEF Frame
<1>2. stack' = <<f>> \o stack
  BY DEF Report
<1> HIDE DEF f
<1>3. stack' \in Seq(Frame) /\ Len(stack') = Len(stack) + 1 /\ stack'[1] = f
  BY <1>1, <1>2 DEF Typed, TypeOK
<1>4. \A i \in 1..Len(stack') : i # 1 => i - 1 \in 1..Len(stack) /\ stack'[i] = stack[i - 1]
  BY <1>1, <1>2 DEF Typed, TypeOK
<1>5. Len(stack') # 0
  BY <1>3 DEF Typed, TypeOK
<1>6. QED BY <1>1, <1>3, <1>4, <1>5

LEMMA ClickKeeps ==
  ASSUME NEW W \in SUBSET Media, NEW h, NEW ok \in BOOLEAN, ClickConnect(W, h, ok)
  PROVE  /\ stack' # <<>> /\ stack' \in Seq(Frame) /\ Len(stack') = 1
         /\ stack'[1].op = "connect" /\ stack'[1].todo = W /\ stack'[1].next = "init" /\ stack'[1].box = ~ok
         /\ \A i \in 1..Len(stack') : i = 1
<1> DEFINE b == ~ok
           f == [op |-> "connect", todo |-> W, next |-> "init", box |-> b]
<1>1. b \in BOOLEAN
  OBVIOUS
<1>2. stack' = <<f>>
  BY DEF ClickConnect
<1> HIDE DEF b
<1>3. f \in Frame /\ f.op = "connect" /\ f.todo = W /\ f.next = "init" /\ f.box = b
  BY <1>1 DEF Frame
<1> HIDE DEF f
<1>4. stack' \in Seq(Frame) /\ Len(stack') = 1 /\ stack'[1] = f /\ stack' # <<>>
  BY <1>2, <1>3
<1>5. QED BY <1>3, <1>4 DEF b

LEMMA FinishKeeps ==
  ASSUME Typed, stack # <<>>, stack' = Tail(stack)
  PROVE  /\ stack' \in Seq(Frame) /\ Len(stack') = Len(stack) - 1
         /\ \A i \in 1..Len(stack') : i + 1 \in 1..Len(stack) /\ stack'[i] = stack[i + 1]
  BY DEF Typed, TypeOK

(* The medium a step at work is about. *)
LEMMA AtFacts ==
  ASSUME Typed, NEW step \in Steps, At(step), step # "end"
  PROVE  /\ stack # <<>> /\ 1 \in 1..Len(stack) /\ Top \in Frame /\ Top.todo # {} /\ Top.next = step
         /\ Current(Top.op, Top.todo) \in Media
<1>1. stack # <<>> /\ 1 \in 1..Len(stack) /\ Top \in Frame /\ Top.next = step
  BY DEF At, Top, Typed, TypeOK
<1>2. Top.todo # {}
  BY <1>1 DEF Typed, Top
<1>3. Top.todo \in SUBSET Media
  BY <1>1 DEF Frame
<1>4. QED BY <1>1, <1>2, <1>3, CurrentIn
-----------------------------------------------------------------------------
(* The members of the three media.                                            *)
Clients == client \in [Media -> Client]
Plugged == \A m \in Media : Wired(client[m], m)

LEMMA OneMedium ==
  ASSUME NEW f \in [Media -> Client], NEW m \in Media, NEW c \in Client
  PROVE  /\ [f EXCEPT ![m] = c] \in [Media -> Client] /\ [f EXCEPT ![m] = c][m] = c
         /\ \A n \in Media : n # m => [f EXCEPT ![m] = c][n] = f[n]
  OBVIOUS

LEMMA MediaFacts == /\ "audio" \in Media /\ "video" \in Media /\ "share" \in Media
                    /\ \A m \in AV : m \in Media
                    /\ \A m \in Media : m # "share" => m \in AV
  BY DEF Media, AV

(* What the preview's handler does to the video's members and to the dialog.  *)
LEMMA ToggleKeeps ==
  ASSUME Typed, NEW bare \in SUBSET {"sender", "receiver"}, NEW ok \in BOOLEAN, NEW open \in BOOLEAN,
         Toggle(bare, ok, open)
  PROVE  /\ \E c \in Client : /\ client' = [client EXCEPT !["video"] = c]
                              /\ c.transport = client["video"].transport /\ c.link = client["video"].link
                              /\ fails' = 0 /\ Wired(client["video"], "video") => Wired(c, "video")
                              /\ preview /\ client["video"].sender = "none" => c.sender = "none"
         /\ fails' \in 0..MaxFails
         /\ fails' = 0 => fails = 0 /\ ok /\ bare = {} /\ preview' = ~preview /\ window' = preview'
         /\ preview' \in BOOLEAN /\ window' \in BOOLEAN
<1> DEFINE v == client["video"]
           c == IF ~preview THEN CreateMediaClient(v, "video", bare) ELSE IF ok THEN DeleteMediaClient(v) ELSE v
<1>1. v \in Client /\ fails \in 0..MaxFails /\ MaxFails \in Nat /\ preview \in BOOLEAN /\ window \in BOOLEAN
      /\ "video" \in Media /\ "video" # "share"
  BY MediaFacts, DemoAssumption DEF Typed, TypeOK
<1>2. /\ client' = [client EXCEPT !["video"] = c]
      /\ fails' = IF ok /\ bare = {} THEN fails ELSE fails + 1
      /\ ~ok \/ bare # {} => fails < MaxFails
      /\ preview' = (preview # ok) /\ window' = (~preview \/ (open /\ ~ok))
  BY DEF Toggle
<1>3. fails' \in 0..MaxFails /\ (fails' = 0 => fails = 0 /\ ok /\ bare = {})
  BY <1>1, <1>2
<1>4. /\ c \in Client /\ c.transport = v.transport /\ c.link = v.link
      /\ fails' = 0 /\ Wired(v, "video") => Wired(c, "video")
      /\ preview /\ v.sender = "none" => c.sender = "none"
  <2> HIDE DEF v
  <2>1. CASE ~preview
    BY <1>1, <1>3, <2>1, CreateKeeps, CreateDoor
  <2>2. CASE preview /\ ok
    BY <1>1, <2>2, DeleteKeeps, DoorFacts
  <2>3. CASE preview /\ ~ok
    BY <1>1, <2>3
  <2>4. QED BY <2>1, <2>2, <2>3
<1> HIDE DEF c
<1>5. preview' \in BOOLEAN /\ window' \in BOOLEAN /\ (ok => preview' = ~preview /\ window' = preview')
  BY <1>1, <1>2
<1>6. QED BY <1>2, <1>3, <1>4, <1>5

(* Only a failed track, which is counted, disturbs the wiring.                *)
LEMMA ClientStep ==
  ASSUME Typed, Sound, [Next]_vars
  PROVE  Clients' /\ (fails' = 0 => Plugged')
<1> USE MediaFacts
<1>1. /\ client \in [Media -> Client] /\ \A m \in Media : client[m] \in Client
      /\ \A m \in AV : check[m] \in BOOLEAN
      /\ host \in BOOLEAN /\ fails \in Nat
  BY DemoAssumption DEF Typed, TypeOK
<1>2. fails = 0 => \A m \in Media : Wired(client[m], m)
  BY DEF Sound
<1>3. ASSUME NEW m \in Media, NEW c \in Client, client' = [client EXCEPT ![m] = c],
             fails' = 0 => fails = 0, fails' = 0 => Wired(c, m)
      PROVE  Clients' /\ (fails' = 0 => Plugged')
  BY <1>1, <1>2, <1>3, OneMedium DEF Clients, Plugged
<1>4. ASSUME client' = client, fails' = 0 => fails = 0 PROVE Clients' /\ (fails' = 0 => Plugged')
  BY <1>1, <1>2, <1>4 DEF Clients, Plugged
<1>5. ASSUME NEW m \in AV, CheckSend(m) PROVE Clients' /\ (fails' = 0 => Plugged')
  <2>1. client' = [client EXCEPT ![m] = SendAs(client[m], ~check[m])] /\ fails' = fails
    BY <1>5 DEF CheckSend
  <2>2. (~check[m]) \in BOOLEAN
    OBVIOUS
  <2>3. QED BY <1>1, <1>2, <1>3, <2>1, <2>2, SendingKeeps
<1>6. ASSUME NEW close \in BOOLEAN, NEW ok \in BOOLEAN, NEW bare \in SUBSET {"sender", "receiver"},
             Preview(close, bare, ok)
      PROVE  Clients' /\ (fails' = 0 => Plugged')
  <2>1. Toggle(bare, ok, window /\ ~close) /\ (window /\ ~close) \in BOOLEAN
    BY <1>6 DEF Preview
  <2>2. QED BY <1>1, <1>2, <1>3, <2>1, ToggleKeeps
<1>7. ASSUME NEW W \in SUBSET Media, NEW h \in BOOLEAN, NEW ok \in BOOLEAN, ClickConnect(W, h, ok)
      PROVE  Clients' /\ (fails' = 0 => Plugged')
  <2>1. CASE preview
    <3>1. Toggle({}, ok, window) /\ window \in BOOLEAN
      BY <1>7, <2>1 DEF ClickConnect, Typed, TypeOK
    <3>2. QED BY <1>1, <1>2, <1>3, <3>1, ToggleKeeps
  <2>2. CASE ~preview
    BY <1>4, <1>7, <2>2 DEF ClickConnect
  <2>3. QED BY <2>1, <2>2
<1>8. ASSUME NEW bare \in SUBSET {"sender", "receiver"}, InitClient(bare)
      PROVE  Clients' /\ (fails' = 0 => Plugged')
  <2> DEFINE m == Current(Top.op, Top.todo)
  <2>1. m \in Media
    BY <1>8, AtFacts DEF InitClient, Steps
  <2>2. /\ client' = [client EXCEPT ![m] = CreateMediaClient(client[m], m, bare)]
        /\ fails' = IF bare = {} THEN fails ELSE fails + 1
    BY <1>8 DEF InitClient
  <2>3. fails' = 0 => bare = {} /\ fails = 0
    BY <1>1, <2>2
  <2> HIDE DEF m
  <2>4. QED BY <1>1, <1>2, <1>3, <2>1, <2>2, <2>3, CreateKeeps
<1>9. CASE Link
  <2> DEFINE m == Current(Top.op, Top.todo)
             c == Connect(client[m], host)
             d == IF m = "share" THEN SendAs(c, host) ELSE StopUnlessAsked(c, check[m])
  <2>1. m \in Media
    BY <1>9, AtFacts DEF Link, Steps
  <2>2. client' = [client EXCEPT ![m] = d] /\ fails' = fails
    BY <1>9 DEF Link
  <2> HIDE DEF m
  <2>3. c \in Client /\ (fails = 0 => Wired(c, m))
    BY <1>1, <1>2, <2>1, ConnectKeeps
  <2> HIDE DEF c
  <2>4. d \in Client /\ (fails = 0 => Wired(d, m))
    BY <1>1, <2>1, <2>3, SendingKeeps
  <2> HIDE DEF d
  <2>5. QED BY <1>3, <2>1, <2>2, <2>4
<1>10. CASE ClickDisconnect
  BY <1>4, <1>10 DEF ClickDisconnect
<1>11. CASE Uninit
  <2> DEFINE m == Current(Top.op, Top.todo)
  <2>1. m \in Media
    BY <1>11, AtFacts DEF Uninit, Steps
  <2>2. CASE CanStop(client[m])
    <3>1. client' = [client EXCEPT ![m] = DeleteMediaClient(client[m])] /\ fails' = fails
      BY <1>11, <2>2 DEF Uninit
    <3> HIDE DEF m
    <3>2. QED BY <1>1, <1>2, <1>3, <2>1, <3>1, DeleteKeeps
  <2>3. CASE ~CanStop(client[m])
    BY <1>4, <1>11, <2>3 DEF Uninit
  <2>4. QED BY <2>2, <2>3
<1>12. CASE Close
  <2> DEFINE m == Current(Top.op, Top.todo)
  <2>1. m \in Media /\ 1 \in 1..Len(stack) /\ stack[1].next = "close"
    BY <1>12, AtFacts DEF Close, Steps, Top
  <2>2. fails = 0 => client[m].sender = "none"
    BY <2>1 DEF Sound, Framed, Top
  <2>3. CASE Top.op = "disconnect" \/ StatusOf(m)
    <3>1. client' = [client EXCEPT ![m] = DisConnect(client[m])] /\ fails' = fails
      BY <1>12, <2>3 DEF Close
    <3> HIDE DEF m
    <3>2. QED BY <1>1, <1>2, <1>3, <2>1, <2>2, <3>1, DisConnectKeeps
  <2>4. CASE ~(Top.op = "disconnect" \/ StatusOf(m))
    BY <1>4, <1>12, <2>4 DEF Close
  <2>5. QED BY <2>3, <2>4
<1>13. CASE Finish
  BY <1>4, <1>13 DEF Finish
<1>14. CASE CloseBox
  BY <1>4, <1>14 DEF CloseBox
<1>15. ASSUME NEW m \in Media, OnConnected(m) PROVE Clients' /\ (fails' = 0 => Plugged')
  <2> DEFINE c == [client[m] EXCEPT !.link = "connected"]
             d == IF m = "share" THEN StartMediaSending(c) ELSE c
             up == [client EXCEPT ![m] = d]
             n == IF m = "audio" THEN "audio" ELSE "video"
  <2>1. client' = [up EXCEPT ![n] = SendAs(up[n], check[n])] /\ fails' = fails
    BY <1>15 DEF OnConnected
  <2>2. c \in Client /\ (fails = 0 => Wired(c, m))
    BY <1>1, <1>2, LinkKeeps
  <2> HIDE DEF c
  <2>3. d \in Client /\ (fails = 0 => Wired(d, m))
    BY <2>2, SendingKeeps
  <2> HIDE DEF d
  <2>4. up \in [Media -> Client] /\ \A k \in Media : up[k] \in Client /\ (fails = 0 => Wired(up[k], k))
    BY <1>1, <1>2, <2>3, OneMedium
  <2>5. n \in Media /\ check[n] \in BOOLEAN
    BY <1>1 DEF AV
  <2> HIDE DEF up, n
  <2>6. SendAs(up[n], check[n]) \in Client /\ (fails = 0 => Wired(SendAs(up[n], check[n]), n))
    BY <2>4, <2>5, SendingKeeps
  <2>7. QED BY <2>1, <2>4, <2>5, <2>6, OneMedium DEF Clients, Plugged
<1>16. ASSUME NEW m \in Media, OnConnectFailed(m) PROVE Clients' /\ (fails' = 0 => Plugged')
  <2>1. client' = [client EXCEPT ![m] = [client[m] EXCEPT !.link = "idle"]] /\ fails' = fails
    BY <1>16 DEF OnConnectFailed
  <2>2. QED BY <1>1, <1>2, <1>3, <2>1, LinkKeeps
<1>17. ASSUME NEW m \in Media, OnDisConnected(m) PROVE Clients' /\ (fails' = 0 => Plugged')
  <2> DEFINE l == IF client[m].listens THEN "waiting" ELSE "idle"
             c == [client[m] EXCEPT !.link = l]
  <2>1. client' = [client EXCEPT ![m] = IF m = "share" THEN StopMediaSending(c) ELSE [c EXCEPT !.flag = FALSE]]
        /\ fails' = fails
    BY <1>17 DEF OnDisConnected
  <2>2. /\ c \in Client /\ [c EXCEPT !.flag = FALSE] \in Client
        /\ fails = 0 => Wired(c, m) /\ Wired([c EXCEPT !.flag = FALSE], m)
    BY <1>1, <1>2, LinkKeeps
  <2> HIDE DEF c
  <2>3. StopMediaSending(c) \in Client /\ (fails = 0 => Wired(StopMediaSending(c), m))
    BY <2>2, SendingKeeps
  <2>4. QED BY <1>3, <2>1, <2>2, <2>3
<1>18. CASE UNCHANGED vars
  BY <1>4, <1>18 DEF vars
<1>19. QED
  BY <1>5, <1>6, <1>7, <1>8, <1>9, <1>10, <1>11, <1>12, <1>13, <1>14, <1>15, <1>16, <1>17, <1>18 DEF Next
-----------------------------------------------------------------------------
(* The handlers under way. *)
Stacked == /\ stack \in Seq(Frame) /\ Len(stack) <= MaxStack
           /\ \A i \in 1..Len(stack) : stack[i].next = "end" <=> stack[i].todo = {}

LEMMA StackStep ==
  ASSUME Typed, [Next]_vars
  PROVE  Stacked'
<1>1. /\ stack \in Seq(Frame) /\ Len(stack) <= MaxStack /\ MaxStack \in Nat \ {0}
      /\ wanted \in SUBSET Media /\ wanted # {}
      /\ \A i \in 1..Len(stack) : stack[i].next = "end" <=> stack[i].todo = {}
  BY DemoAssumption DEF Typed, TypeOK
<1>2. ASSUME stack' = stack PROVE Stacked'
  BY <1>1, <1>2 DEF Stacked
<1>3. ASSUME NEW step \in Steps \ {"end"}, NEW box \in BOOLEAN, stack # <<>>, Top.todo # {},
             stack' = Then(step, box)
      PROVE  Stacked'
  BY <1>1, <1>3, ThenKeeps DEF Stacked
<1>4. ASSUME NEW step \in Steps \ {"end"}, NEW box \in BOOLEAN, stack # <<>>, Top.todo # {},
             stack' = NextMedium(step, box)
      PROVE  Stacked'
  <2>1. /\ stack' \in Seq(Frame) /\ Len(stack') = Len(stack)
        /\ stack'[1].next = IF stack'[1].todo = {} THEN "end" ELSE step
        /\ \A i \in 1..Len(stack) : i # 1 => stack'[i] = stack[i]
    BY <1>4, NextKeeps
  <2>2. \A i \in 1..Len(stack') : stack'[i].next = "end" <=> stack'[i].todo = {}
    BY <1>1, <1>4, <2>1
  <2>3. QED BY <1>1, <2>1, <2>2 DEF Stacked
<1>5. ASSUME NEW op \in {"connect", "disconnect", "lost"}, NEW todo \in SUBSET Media, todo # {},
             NEW step \in Steps \ {"end"}, Len(stack) < MaxStack, stack' = Call(op, todo, step)
      PROVE  Stacked'
  <2>1. /\ stack' \in Seq(Frame) /\ Len(stack') = Len(stack) + 1
        /\ stack'[1].todo = todo /\ stack'[1].next = step
        /\ \A i \in 1..Len(stack') : i # 1 => i - 1 \in 1..Len(stack) /\ stack'[i] = stack[i - 1]
    BY <1>5, CallKeeps
  <2>2. \A i \in 1..Len(stack') : stack'[i].next = "end" <=> stack'[i].todo = {}
    BY <1>1, <1>5, <2>1
  <2>3. Len(stack) \in Nat
    BY <1>1
  <2>4. QED BY <1>1, <1>5, <2>1, <2>2, <2>3 DEF Stacked
<1>6. Quiet => Len(stack) < MaxStack
  BY <1>1 DEF Quiet
<1>7. ASSUME NEW m \in AV, CheckSend(m) PROVE Stacked'
  BY <1>2, <1>7 DEF CheckSend
<1>8. ASSUME NEW close \in BOOLEAN, NEW ok \in BOOLEAN, NEW bare \in SUBSET {"sender", "receiver"},
             Preview(close, bare, ok)
      PROVE  Stacked'
  <2>1. CASE ok
    BY <1>2, <1>8, <2>1 DEF Preview
  <2>2. CASE ~ok
    <3>1. stack' = Report \o stack /\ Len(stack) < MaxStack /\ Len(stack) \in Nat
      BY <1>1, <1>6, <1>8, <2>2 DEF Preview, Report
    <3>2. QED BY <1>1, <3>1, ReportKeeps DEF Stacked
  <2>3. QED BY <2>1, <2>2
<1>9. ASSUME NEW W \in SUBSET Media, NEW h \in BOOLEAN, NEW ok \in BOOLEAN, ClickConnect(W, h, ok) PROVE Stacked'
  <2>1. W # {}
    BY <1>9 DEF ClickConnect
  <2>2. QED BY <1>1, <1>9, <2>1, ClickKeeps DEF Stacked
<1>10. ASSUME NEW bare \in SUBSET {"sender", "receiver"}, InitClient(bare) PROVE Stacked'
  <2>1. stack # <<>> /\ Top.todo # {}
    BY <1>10, AtFacts DEF InitClient, Steps
  <2>2. PICK b : stack' = Then("link", b) /\ b \in BOOLEAN
    <3> DEFINE m == Current(Top.op, Top.todo)
               c == CreateMediaClient(client[m], m, bare)
               screen == ~host /\ c.receiver = "bare"
               other == "bare" \in {c.sender, c.receiver}
    <3>1. stack' = Then("link", IF m = "share" THEN screen ELSE other)
      BY <1>10 DEF InitClient
    <3>2. screen \in BOOLEAN /\ other \in BOOLEAN
      OBVIOUS
    <3> HIDE DEF screen, other
    <3>3. CASE m = "share"
      BY <3>1, <3>2, <3>3
    <3>4. CASE m # "share"
      BY <3>1, <3>2, <3>4
    <3>5. QED BY <3>3, <3>4
  <2>3. QED BY <1>3, <2>1, <2>2 DEF Steps
<1>11. CASE Link
  <2>1. stack # <<>> /\ Top.todo # {}
    BY <1>11, AtFacts DEF Link, Steps
  <2>2. \E b \in BOOLEAN : stack' = NextMedium("init", b)
    BY <1>11, Zenon DEF Link
  <2>3. QED BY <1>4, <2>1, <2>2 DEF Steps
<1>12. CASE ClickDisconnect
  BY <1>1, <1>5, <1>6, <1>12 DEF ClickDisconnect, Steps
<1>13. CASE Uninit
  <2>1. stack # <<>> /\ Top.todo # {}
    BY <1>13, AtFacts DEF Uninit, Steps
  <2>2. \E b \in BOOLEAN : stack' = Then("close", b)
    BY <1>13 DEF Uninit
  <2>3. QED BY <1>3, <2>1, <2>2 DEF Steps
<1>14. CASE Close
  <2>1. stack # <<>> /\ Top.todo # {}
    BY <1>14, AtFacts DEF Close, Steps
  <2>2. \E b \in BOOLEAN : stack' = NextMedium("uninit", b)
    BY <1>14, Zenon DEF Close
  <2>3. QED BY <1>4, <2>1, <2>2 DEF Steps
<1>15. CASE Finish
  <2>1. stack # <<>> /\ stack' = Tail(stack)
    BY <1>15 DEF Finish, At
  <2>2. QED BY <1>1, <2>1, FinishKeeps DEF Stacked
<1>16. CASE CloseBox
  <2>1. stack # <<>> /\ stack' = Then(Top.next, FALSE) /\ 1 \in 1..Len(stack)
    BY <1>1, <1>16 DEF CloseBox
  <2>2. Top.next \in Steps
    <3>1. Top \in Frame
      BY <1>1, <2>1 DEF Top
    <3>2. QED BY <3>1 DEF Frame, Steps
  <2>3. Top.next = "end" <=> Top.todo = {}
    BY <1>1, <2>1 DEF Top
  <2>4. /\ stack' \in Seq(Frame) /\ Len(stack') = Len(stack)
        /\ stack'[1].next = Top.next /\ stack'[1].todo = Top.todo
        /\ \A i \in 1..Len(stack) : i # 1 => stack'[i] = stack[i]
    BY <2>1, <2>2, ThenKeeps
  <2>5. \A i \in 1..Len(stack') : stack'[i].next = "end" <=> stack'[i].todo = {}
    BY <1>1, <2>3, <2>4
  <2>6. QED BY <1>1, <2>4, <2>5 DEF Stacked
<1>17. ASSUME NEW m \in Media, OnConnected(m) PROVE Stacked'
  BY <1>2, <1>17 DEF OnConnected
<1>18. ASSUME NEW m \in Media, Lost(m), Len(stack) < MaxStack PROVE Stacked'
  BY <1>5, <1>18 DEF Lost, Steps
<1>19. ASSUME NEW m \in Media, OnConnectFailed(m) \/ OnDisConnected(m) PROVE Stacked'
  BY <1>18, <1>19 DEF OnConnectFailed, OnDisConnected
<1>20. CASE UNCHANGED vars
  BY <1>2, <1>20 DEF vars
<1>21. QED
  BY <1>7, <1>8, <1>9, <1>10, <1>11, <1>12, <1>13, <1>14, <1>15, <1>16, <1>17, <1>19, <1>20 DEF Next

(* The dialog. *)
Dialog ==
  /\ host \in BOOLEAN /\ connectOn \in BOOLEAN /\ preview \in BOOLEAN /\ window \in BOOLEAN
  /\ wanted \subseteq Media /\ wanted # {} /\ check \in [AV -> BOOLEAN] /\ active \in [AV -> BOOLEAN]
  /\ connects \in 0..MaxConnects /\ fails \in 0..MaxFails
  /\ upset \subseteq {"shared", "preview"}

LEMMA DialogStep ==
  ASSUME Typed, [Next]_vars
  PROVE  Dialog'
<1>1. Dialog /\ MaxConnects \in Nat /\ MaxFails \in Nat
  BY DemoAssumption DEF Dialog, Typed, TypeOK
<1> USE DEF Dialog, dialogVars
<1>2. ASSUME NEW m \in AV, CheckSend(m) PROVE Dialog'
  BY <1>1, <1>2 DEF CheckSend
<1>3. ASSUME NEW close \in BOOLEAN, NEW ok \in BOOLEAN, NEW bare \in SUBSET {"sender", "receiver"},
             Preview(close, bare, ok)
      PROVE  Dialog'
  <2>1. Toggle(bare, ok, window /\ ~close) /\ (window /\ ~close) \in BOOLEAN
    BY <1>3 DEF Preview
  <2>2. preview' \in BOOLEAN /\ window' \in BOOLEAN /\ fails' \in 0..MaxFails
    BY <2>1, ToggleKeeps
  <2>3. UNCHANGED <<host, wanted, check, active, connectOn, connects>> /\ upset' \subseteq {"shared", "preview"}
    BY <1>1, <1>3 DEF Preview, Spoilt
  <2>4. QED BY <1>1, <2>2, <2>3
<1>4. ASSUME NEW W \in SUBSET Media, NEW h \in BOOLEAN, NEW ok \in BOOLEAN, ClickConnect(W, h, ok) PROVE Dialog'
  <2>1. upset' \subseteq {"shared", "preview"}
    BY <1>1, <1>4 DEF ClickConnect, Spoilt
  <2>2. /\ wanted' = W /\ W # {} /\ host' = h
        /\ connects < MaxConnects /\ connects' = connects + 1
        /\ UNCHANGED <<check, active, connectOn>>
    BY <1>4 DEF ClickConnect
  <2>3. connects' \in 0..MaxConnects
    BY <1>1, <2>2
  <2>4. preview' \in BOOLEAN /\ window' \in BOOLEAN /\ fails' \in 0..MaxFails
    <3>1. CASE preview
      <4>1. Toggle({}, ok, window) /\ window \in BOOLEAN
        BY <1>1, <1>4, <3>1 DEF ClickConnect
      <4>2. QED BY <4>1, ToggleKeeps
    <3>2. CASE ~preview
      BY <1>1, <1>4, <3>2 DEF ClickConnect
    <3>3. QED BY <3>1, <3>2
  <2>5. QED BY <1>1, <2>1, <2>2, <2>3, <2>4
<1>5. ASSUME NEW bare \in SUBSET {"sender", "receiver"}, InitClient(bare) PROVE Dialog'
  BY <1>1, <1>5 DEF InitClient
<1>6. CASE Link
  <2>1. active' \in [AV -> BOOLEAN]
    BY <1>6, Zenon DEF Link
  <2>2. QED BY <1>1, <1>6, <2>1 DEF Link
<1>7. CASE ClickDisconnect \/ Uninit \/ CloseBox
  BY <1>1, <1>7 DEF ClickDisconnect, Uninit, CloseBox
<1>8. CASE Close
  <2>1. active' \in [AV -> BOOLEAN]
    BY <1>1, <1>8 DEF Close
  <2>2. QED BY <1>1, <1>8, <2>1 DEF Close
<1>9. CASE Finish
  <2>1. ConnectAgain \in BOOLEAN
    BY <1>1, Zenon DEF ConnectAgain
  <2>2. QED BY <1>1, <1>9, <2>1 DEF Finish
<1>10. ASSUME NEW m \in Media, OnConnected(m) \/ OnConnectFailed(m) \/ OnDisConnected(m) PROVE Dialog'
  BY <1>1, <1>10 DEF OnConnected, OnConnectFailed, OnDisConnected
<1>11. CASE UNCHANGED vars
  BY <1>1, <1>11 DEF vars
<1>12. QED BY <1>2, <1>3, <1>4, <1>5, <1>6, <1>7, <1>8, <1>9, <1>10, <1>11 DEF Next

LEMMA TypedStep == Typed /\ Sound /\ [Next]_vars => Typed'
  BY ClientStep, StackStep, DialogStep DEF Typed, TypeOK, Clients, Stacked, Dialog
-----------------------------------------------------------------------------
(* A failed track is counted. *)
LEMMA FailsStay ==
  ASSUME Typed, [Next]_vars, fails' = 0
  PROVE  fails = 0
<1>1. fails \in Nat
  BY DemoAssumption DEF Typed, TypeOK
<1>2. fails' = fails \/ fails' = fails + 1
  <2>1. ASSUME NEW bare \in SUBSET {"sender", "receiver"}, InitClient(bare)
        PROVE  fails' = fails \/ fails' = fails + 1
    BY <2>1 DEF InitClient
  <2>2. ASSUME NEW W \in SUBSET Media, NEW h \in BOOLEAN, NEW ok \in BOOLEAN, ClickConnect(W, h, ok)
        PROVE  fails' = fails \/ fails' = fails + 1
    BY <2>2 DEF ClickConnect, Toggle
  <2>3. ASSUME NEW m \in AV, CheckSend(m) PROVE fails' = fails
    BY <2>3 DEF CheckSend
  <2>4. ASSUME NEW m \in Media, OnConnected(m) \/ OnConnectFailed(m) \/ OnDisConnected(m) PROVE fails' = fails
    BY <2>4 DEF OnConnected, OnConnectFailed, OnDisConnected
  <2>5. CASE Link \/ ClickDisconnect \/ Uninit \/ Close \/ Finish \/ CloseBox
    BY <2>5 DEF Link, ClickDisconnect, Uninit, Close, Finish, CloseBox
  <2>6. ASSUME NEW close \in BOOLEAN, NEW ok \in BOOLEAN, NEW bare \in SUBSET {"sender", "receiver"},
               Preview(close, bare, ok)
        PROVE  fails' = fails \/ fails' = fails + 1
    BY <2>6 DEF Preview, Toggle
  <2>7. CASE UNCHANGED vars
    BY <2>7 DEF vars
  <2>8. QED BY <2>1, <2>2, <2>3, <2>4, <2>5, <2>6, <2>7 DEF Next
<1>3. QED BY <1>1, <1>2

(* A connect is alone and shows no box, so no handler runs inside it, and     *)
(* none of those inside another makes a sender.                               *)
LEMMA FramedStep ==
  ASSUME Typed, Sound, [Next]_vars, fails' = 0
  PROVE  Framed'
<1> USE MediaFacts
<1>1. /\ fails = 0 /\ Framed /\ (window => preview) /\ \A m \in Media : Wired(client[m], m)
      /\ stack \in Seq(Frame) /\ \A m \in Media : client[m] \in Client
      /\ client \in [Media -> Client]
  BY FailsStay DEF Sound, Typed, TypeOK
<1>2. \A m \in Media : Wired(client'[m], m)
  BY ClientStep DEF Plugged
<1>3. ASSUME stack' = <<>> PROVE Framed'
  BY <1>3 DEF Framed
<1>4. ASSUME NEW m \in AV, CheckSend(m) PROVE Framed'
  BY <1>3, <1>4 DEF CheckSend, Quiet
<1>5. ASSUME NEW close \in BOOLEAN, NEW ok \in BOOLEAN, NEW bare \in SUBSET {"sender", "receiver"},
             Preview(close, bare, ok)
      PROVE  Framed'
  <2>1. Toggle(bare, ok, window /\ ~close) /\ (window /\ ~close) \in BOOLEAN
    BY <1>5 DEF Preview
  <2>2. PICK c \in Client : /\ client' = [client EXCEPT !["video"] = c]
                            /\ preview /\ client["video"].sender = "none" => c.sender = "none"
    BY <2>1, ToggleKeeps
  <2>3. stack' = stack
    BY <1>5, <2>1, ToggleKeeps DEF Preview
  <2>4. CASE ~close
    BY <1>3, <1>5, <2>3, <2>4 DEF Preview, Quiet
  <2>5. CASE close
    <3>1. preview
      BY <1>1, <1>5, <2>5 DEF Preview
    <3>2. \A m \in Media : client[m].sender = "none" => client'[m].sender = "none"
      BY <1>1, <2>2, <3>1, OneMedium
    <3>3. ASSUME NEW i \in 1..Len(stack), stack[i].next = "close"
          PROVE  client'[Current(stack[i].op, stack[i].todo)].sender = "none"
      <4>1. stack[i] \in Frame /\ stack[i].todo # {}
        BY <1>1, <3>3 DEF Typed
      <4>2. Current(stack[i].op, stack[i].todo) \in Media
        BY <4>1, CurrentIn DEF Frame
      <4>3. QED BY <1>1, <3>2, <3>3, <4>2 DEF Framed
    <3>4. QED BY <1>1, <2>3, <3>3 DEF Framed
  <2>6. QED BY <2>4, <2>5
(* A handler that starts. *)
<1>6. ASSUME NEW op \in {"connect", "disconnect", "lost"}, NEW todo \in SUBSET Media,
             NEW step \in {"init", "uninit"}, op = "connect" <=> step = "init",
             stack' = Call(op, todo, step), Listening, op = "connect" => Quiet,
             \A m \in Media : client[m].sender = "none" => client'[m].sender = "none"
      PROVE  Framed'
  <2>1. /\ Len(stack') = Len(stack) + 1 /\ Len(stack) \in Nat
        /\ stack'[1].op = op /\ stack'[1].next = step /\ ~stack'[1].box
        /\ \A i \in 1..Len(stack') : i # 1 => i - 1 \in 1..Len(stack) /\ stack'[i] = stack[i - 1]
    BY <1>1, <1>6, CallKeeps DEF Steps
  <2>2. \A i \in 1..Len(stack) : stack[i].op # "connect"
    BY <1>1, <1>6 DEF Framed, Listening, Top
  <2>3. \A i \in 1..Len(stack) : stack[i].next = "close" => client'[Current(stack[i].op, stack[i].todo)].sender = "none"
    <3> SUFFICES ASSUME NEW i \in 1..Len(stack), stack[i].next = "close"
                 PROVE  client'[Current(stack[i].op, stack[i].todo)].sender = "none"
      OBVIOUS
    <3>1. stack[i] \in Frame /\ stack[i].todo # {}
      BY <1>1 DEF Typed
    <3>2. Current(stack[i].op, stack[i].todo) \in Media
      BY <3>1, CurrentIn DEF Frame
    <3>3. QED BY <1>1, <1>6, <3>2 DEF Framed
  <2>4. op = "connect" => Len(stack') = 1
    BY <1>1, <1>6, <2>1 DEF Quiet
  <2> DEFINE Good(i) == /\ stack'[i].next \in {"init", "link"} => stack'[i].op = "connect"
                        /\ stack'[i].next \in {"uninit", "close"} => stack'[i].op # "connect"
                        /\ stack'[i].op = "connect" => Len(stack') = 1 /\ ~stack'[i].box
                        /\ stack'[i].next = "close" => client'[Current(stack'[i].op, stack'[i].todo)].sender = "none"
  <2>5. Good(1)
    BY <1>6, <2>1, <2>4
  <2>6. ASSUME NEW i \in 1..Len(stack'), i # 1 PROVE Good(i)
    <3>1. i - 1 \in 1..Len(stack) /\ stack'[i] = stack[i - 1]
      BY <2>1, <2>6
    <3>2. \A j \in 1..Len(stack) : stack[j].next \notin {"init", "link"}
      BY <1>1, <2>2 DEF Framed
    <3>3. QED BY <2>2, <2>3, <3>1, <3>2
  <2>7. QED BY <2>5, <2>6 DEF Framed
<1>7. ASSUME NEW W \in SUBSET Media, NEW h \in BOOLEAN, NEW ok \in BOOLEAN, ClickConnect(W, h, ok) PROVE Framed'
  <2>1. ok
    <3>1. CASE preview
      <4>1. Toggle({}, ok, window) /\ window \in BOOLEAN
        BY <1>7, <3>1 DEF ClickConnect, Typed, TypeOK
      <4>2. QED BY <4>1, ToggleKeeps
    <3>2. CASE ~preview
      BY <1>7, <3>2 DEF ClickConnect
    <3>3. QED BY <3>1, <3>2
  <2>2. /\ Len(stack') = 1 /\ stack'[1].op = "connect" /\ stack'[1].next = "init" /\ ~stack'[1].box
        /\ \A i \in 1..Len(stack') : i = 1
    BY <1>7, <2>1, ClickKeeps
  <2>3. QED BY <2>2 DEF Framed
<1>8. CASE ClickDisconnect
  <2>1. /\ stack' = Call("disconnect", wanted, "uninit") /\ Listening /\ wanted \in SUBSET Media
        /\ client' = client
    BY <1>8 DEF ClickDisconnect, Quiet, Listening, Typed, TypeOK
  <2>2. QED BY <1>6, <2>1
<1>9. ASSUME NEW m \in Media, Lost(m), Listening,
             \A n \in Media : client[n].sender = "none" => client'[n].sender = "none"
      PROVE  Framed'
  BY <1>6, <1>9 DEF Lost
<1>10. ASSUME NEW m \in Media, OnConnectFailed(m) PROVE Framed'
  <2>1. client' = [client EXCEPT ![m] = [client[m] EXCEPT !.link = "idle"]]
    BY <1>10 DEF OnConnectFailed
  <2>2. [client[m] EXCEPT !.link = "idle"] \in Client /\ [client[m] EXCEPT !.link = "idle"].sender = client[m].sender
    BY <1>1, LinkKeeps
  <2>3. \A n \in Media : client[n].sender = "none" => client'[n].sender = "none"
    BY <1>1, <2>1, <2>2, OneMedium
  <2>4. QED BY <1>9, <1>10, <2>3 DEF OnConnectFailed
<1>11. ASSUME NEW m \in Media, OnDisConnected(m) PROVE Framed'
  <2> DEFINE l == IF client[m].listens THEN "waiting" ELSE "idle"
             c == [client[m] EXCEPT !.link = l]
             d == IF m = "share" THEN StopMediaSending(c) ELSE [c EXCEPT !.flag = FALSE]
  <2>1. client' = [client EXCEPT ![m] = d]
    BY <1>11 DEF OnDisConnected
  <2>2. c \in Client /\ c.sender = client[m].sender
        /\ [c EXCEPT !.flag = FALSE] \in Client /\ [c EXCEPT !.flag = FALSE].sender = client[m].sender
    BY <1>1, LinkKeeps
  <2> HIDE DEF c
  <2>3. d \in Client /\ d.sender = client[m].sender
    BY <2>2, SendingKeeps
  <2> HIDE DEF d
  <2>4. \A n \in Media : client[n].sender = "none" => client'[n].sender = "none"
    BY <1>1, <2>1, <2>3, OneMedium
  <2>5. QED BY <1>9, <1>11, <2>4 DEF OnDisConnected
(* A handler that goes on, below which nothing changes. *)
<1>12. ASSUME stack # <<>>, Len(stack') = Len(stack), stack'[1].op = Top.op,
              \A i \in 1..Len(stack) : i # 1 => stack'[i] = stack[i],
              \A m \in Media : client[m].sender = "none" => client'[m].sender = "none",
              stack'[1].next \in {"init", "link"} => Top.op = "connect",
              stack'[1].next \in {"uninit", "close"} => Top.op # "connect",
              Top.op = "connect" => ~stack'[1].box,
              stack'[1].next = "close" => client'[Current(stack'[1].op, stack'[1].todo)].sender = "none"
       PROVE  Framed'
  <2>1. Len(stack) \in Nat /\ 1 \in 1..Len(stack)
    BY <1>1, <1>12
  <2>2. \A i \in 1..Len(stack) : stack[i].next = "close" => client'[Current(stack[i].op, stack[i].todo)].sender = "none"
    <3> SUFFICES ASSUME NEW i \in 1..Len(stack), stack[i].next = "close"
                 PROVE  client'[Current(stack[i].op, stack[i].todo)].sender = "none"
      OBVIOUS
    <3>1. stack[i] \in Frame /\ stack[i].todo # {}
      BY <1>1 DEF Typed
    <3>2. Current(stack[i].op, stack[i].todo) \in Media
      BY <3>1, CurrentIn DEF Frame
    <3>3. QED BY <1>1, <1>12, <3>2 DEF Framed
  <2>3. QED BY <1>1, <1>12, <2>1, <2>2 DEF Framed, Top
<1>13. ASSUME NEW bare \in SUBSET {"sender", "receiver"}, InitClient(bare) PROVE Framed'
  <2> DEFINE m == Current(Top.op, Top.todo)
             c == CreateMediaClient(client[m], m, bare)
             failed == IF m = "share" THEN ~host /\ c.receiver = "bare" ELSE "bare" \in {c.sender, c.receiver}
  <2>1. stack # <<>> /\ m \in Media /\ Top.next = "init" /\ 1 \in 1..Len(stack)
    BY <1>13, AtFacts DEF InitClient, Steps
  <2>2. Top.op = "connect" /\ Len(stack) = 1
    BY <1>1, <2>1 DEF Framed, Top
  <2>3. stack' = Then("link", failed) /\ client' = [client EXCEPT ![m] = c]
    BY <1>13 DEF InitClient
  <2>4. c.sender # "bare" /\ c.receiver # "bare"
    BY <1>1, <1>2, <2>1, <2>3 DEF Wired
  <2>5. failed = FALSE
    BY <2>4
  <2> HIDE DEF failed
  <2>6. Len(stack') = 1 /\ stack'[1].op = "connect" /\ stack'[1].next = "link" /\ ~stack'[1].box
    BY <2>1, <2>2, <2>3, <2>5, ThenKeeps DEF Steps
  <2>7. QED BY <2>6 DEF Framed
<1>14. CASE Link
  <2> DEFINE m == Current(Top.op, Top.todo)
             c == Connect(client[m], host)
             box == m = "share" /\ c.sender = "bare"
  <2>1. stack # <<>> /\ m \in Media /\ Top.next = "link" /\ 1 \in 1..Len(stack) /\ Top.todo # {}
    BY <1>14, AtFacts DEF Link, Steps
  <2>2. Top.op = "connect" /\ Len(stack) = 1
    BY <1>1, <2>1 DEF Framed, Top
  <2>3. stack' = NextMedium("init", box)
    BY <1>14 DEF Link
  <2>4. c.sender = client[m].sender
    BY <1>1, <2>1, ConnectKeeps DEF Typed, TypeOK
  <2>5. box = FALSE
    BY <1>1, <2>1, <2>4 DEF Wired
  <2> HIDE DEF box
  <2>6. Len(stack') = 1 /\ stack'[1].op = "connect" /\ stack'[1].next \in {"init", "end"} /\ ~stack'[1].box
    BY <2>1, <2>2, <2>3, <2>5, NextKeeps DEF Steps
  <2>7. QED BY <2>6 DEF Framed
<1>15. CASE Uninit
  <2> DEFINE m == Current(Top.op, Top.todo)
  <2>1. stack # <<>> /\ m \in Media /\ Top.next = "uninit" /\ 1 \in 1..Len(stack)
    BY <1>15, AtFacts DEF Uninit, Steps
  <2>2. Top.op # "connect"
    BY <1>1, <2>1 DEF Framed, Top
  <2>3. \E b \in BOOLEAN : stack' = Then("close", b)
    BY <1>15 DEF Uninit
  <2>4. /\ client'[m].sender = "none"
        /\ \A n \in Media : client[n].sender = "none" => client'[n].sender = "none"
    <3>1. CASE CanStop(client[m])
      <4>1. client' = [client EXCEPT ![m] = DeleteMediaClient(client[m])]
        BY <1>15, <3>1 DEF Uninit
      <4> HIDE DEF m
      <4>2. QED BY <1>1, <2>1, <4>1, DeleteKeeps, OneMedium
    <3>2. CASE ~CanStop(client[m])
      <4>1. client' = client
        BY <1>15, <3>2 DEF Uninit
      <4>2. Wired(client[m], m) /\ client[m] \in Client
        BY <1>1, <2>1
      <4>3. client[m].sender \in {"none", "track"} /\ client[m].receiver \in {"none", "track"}
        BY <4>2 DEF Wired, Client
      <4>4. QED BY <3>2, <4>1, <4>2, <4>3 DEF CanStop, Wired
    <3>3. QED BY <3>1, <3>2
  <2>5. /\ Len(stack') = Len(stack) /\ stack'[1].op = Top.op /\ stack'[1].todo = Top.todo
        /\ stack'[1].next = "close"
        /\ \A i \in 1..Len(stack) : i # 1 => stack'[i] = stack[i]
    BY <2>1, <2>3, ThenKeeps DEF Steps
  <2>6. QED BY <1>12, <2>1, <2>2, <2>4, <2>5
<1>16. CASE Close
  <2> DEFINE m == Current(Top.op, Top.todo)
  <2>1. stack # <<>> /\ m \in Media /\ Top.next = "close" /\ 1 \in 1..Len(stack) /\ Top.todo # {}
    BY <1>16, AtFacts DEF Close, Steps
  <2>2. Top.op # "connect"
    BY <1>1, <2>1 DEF Framed, Top
  <2>3. PICK b : b \in BOOLEAN /\ stack' = NextMedium("uninit", b)
    BY <1>16, Zenon DEF Close
  <2>4. \A n \in Media : client[n].sender = "none" => client'[n].sender = "none"
    <3>1. client' = client \/ client' = [client EXCEPT ![m] = DisConnect(client[m])]
      BY <1>16 DEF Close
    <3> HIDE DEF m
    <3>2. QED BY <1>1, <2>1, <3>1, DisConnectKeeps, OneMedium
  <2>5. /\ Len(stack') = Len(stack) /\ stack'[1].op = Top.op
        /\ stack'[1].next \in {"uninit", "end"}
        /\ \A i \in 1..Len(stack) : i # 1 => stack'[i] = stack[i]
    BY <2>1, <2>3, NextKeeps DEF Steps
  <2>6. QED BY <1>12, <2>1, <2>2, <2>4, <2>5
<1>17. CASE Finish
  <2>1. stack # <<>> /\ stack' = Tail(stack) /\ client' = client
    BY <1>17 DEF Finish, At
  <2>2. /\ Len(stack') = Len(stack) - 1 /\ Len(stack) \in Nat
        /\ \A i \in 1..Len(stack') : i + 1 \in 1..Len(stack) /\ stack'[i] = stack[i + 1]
    BY <1>1, <2>1, FinishKeeps
  <2>3. \A i \in 1..Len(stack') : stack'[i].op # "connect"
    BY <1>1, <2>2 DEF Framed
  <2>4. QED BY <1>1, <2>1, <2>2, <2>3 DEF Framed
<1>18. CASE CloseBox
  <2>1. stack # <<>> /\ Top.box /\ stack' = Then(Top.next, FALSE) /\ client' = client /\ 1 \in 1..Len(stack)
    BY <1>1, <1>18 DEF CloseBox
  <2>2. Top \in Frame
    BY <1>1, <2>1 DEF Top
  <2>3. Top.next \in Steps
    BY <2>2 DEF Frame, Steps
  <2>4. /\ Len(stack') = Len(stack) /\ stack'[1].op = Top.op /\ stack'[1].todo = Top.todo
        /\ stack'[1].next = Top.next /\ ~stack'[1].box
        /\ \A i \in 1..Len(stack) : i # 1 => stack'[i] = stack[i]
    BY <2>1, <2>3, ThenKeeps
  <2>5. /\ Top.next \in {"init", "link"} => Top.op = "connect"
        /\ Top.next \in {"uninit", "close"} => Top.op # "connect"
        /\ Top.next = "close" => client[Current(Top.op, Top.todo)].sender = "none"
    BY <1>1, <2>1 DEF Framed, Top
  <2>6. QED BY <1>12, <2>1, <2>4, <2>5
<1>19. ASSUME NEW m \in Media, OnConnected(m) PROVE Framed'
  <2> DEFINE c == [client[m] EXCEPT !.link = "connected"]
             d == IF m = "share" THEN StartMediaSending(c) ELSE c
             up == [client EXCEPT ![m] = d]
             n == IF m = "audio" THEN "audio" ELSE "video"
  <2>1. client' = [up EXCEPT ![n] = SendAs(up[n], check[n])] /\ stack' = stack /\ Listening
    BY <1>19 DEF OnConnected
  <2>2. c \in Client /\ c.sender = client[m].sender
    BY <1>1, LinkKeeps
  <2> HIDE DEF c
  <2>3. d \in Client /\ d.sender = client[m].sender
    BY <2>2, SendingKeeps
  <2> HIDE DEF d
  <2>4. up \in [Media -> Client] /\ \A k \in Media : up[k] \in Client /\ up[k].sender = client[k].sender
    BY <1>1, <2>3, OneMedium
  <2>5. n \in Media /\ check[n] \in BOOLEAN
    BY DEF AV, Typed, TypeOK
  <2> HIDE DEF up, n
  <2>6. SendAs(up[n], check[n]) \in Client /\ SendAs(up[n], check[n]).sender = up[n].sender
    BY <2>4, <2>5, SendingKeeps
  <2>7. \A k \in Media : client[k].sender = "none" => client'[k].sender = "none"
    BY <2>1, <2>4, <2>5, <2>6, OneMedium
  <2>8. CASE stack = <<>>
    BY <1>3, <2>1, <2>8
  <2>9. CASE stack # <<>>
    <3>1. 1 \in 1..Len(stack) /\ Top = stack[1]
      BY <1>1, <2>9 DEF Top
    <3>2. stack[1].next = "close" => client'[Current(stack[1].op, stack[1].todo)].sender = "none"
      <4> SUFFICES ASSUME stack[1].next = "close"
                   PROVE  client'[Current(stack[1].op, stack[1].todo)].sender = "none"
        OBVIOUS
      <4>1. stack[1] \in Frame /\ stack[1].todo # {}
        BY <1>1, <3>1 DEF Typed
      <4>2. Current(stack[1].op, stack[1].todo) \in Media
        BY <4>1, CurrentIn DEF Frame
      <4>3. QED BY <1>1, <2>7, <3>1, <4>2 DEF Framed
    <3>3. QED BY <1>1, <1>12, <2>1, <2>7, <2>9, <3>1, <3>2 DEF Framed
  <2>10. QED BY <2>8, <2>9
<1>20. CASE UNCHANGED vars
  BY <1>1, <1>20 DEF vars, Framed
<1>21. QED
  BY <1>4, <1>5, <1>7, <1>8, <1>10, <1>11, <1>13, <1>14, <1>15, <1>16, <1>17, <1>18, <1>19, <1>20 DEF Next

(* A handler that returns early leaves the preview on, or off, with its        *)
(* window; but that is counted as a failure.                                  *)
LEMMA WindowStep ==
  ASSUME Typed, Sound, [Next]_vars, fails' = 0
  PROVE  window' => preview'
<1>1. window => preview
  BY FailsStay DEF Sound
<1>2. ASSUME NEW close \in BOOLEAN, NEW ok \in BOOLEAN, NEW bare \in SUBSET {"sender", "receiver"},
             Preview(close, bare, ok)
      PROVE  window' => preview'
  <2>1. Toggle(bare, ok, window /\ ~close) /\ (window /\ ~close) \in BOOLEAN
    BY <1>2 DEF Preview
  <2>2. QED BY <2>1, ToggleKeeps
<1>3. ASSUME NEW W \in SUBSET Media, NEW h \in BOOLEAN, NEW ok \in BOOLEAN, ClickConnect(W, h, ok)
      PROVE  window' => preview'
  <2>1. CASE preview
    <3>1. Toggle({}, ok, window) /\ window \in BOOLEAN
      BY <1>3, <2>1 DEF ClickConnect, Typed, TypeOK
    <3>2. QED BY <3>1, ToggleKeeps
  <2>2. CASE ~preview
    BY <1>1, <1>3, <2>2 DEF ClickConnect
  <2>3. QED BY <2>1, <2>2
<1>4. ASSUME NEW m \in AV, CheckSend(m) PROVE window' => preview'
  BY <1>1, <1>4 DEF CheckSend
<1>5. ASSUME NEW bare \in SUBSET {"sender", "receiver"}, InitClient(bare) PROVE window' => preview'
  BY <1>1, <1>5 DEF InitClient, dialogVars
<1>6. CASE Link \/ ClickDisconnect \/ Uninit \/ Close \/ Finish \/ CloseBox
  BY <1>1, <1>6 DEF Link, ClickDisconnect, Uninit, Close, Finish, CloseBox, dialogVars
<1>7. ASSUME NEW m \in Media, OnConnected(m) \/ OnConnectFailed(m) \/ OnDisConnected(m)
      PROVE  window' => preview'
  BY <1>1, <1>7 DEF OnConnected, OnConnectFailed, OnDisConnected, dialogVars
<1>8. CASE UNCHANGED vars
  BY <1>1, <1>8 DEF vars
<1>9. QED BY <1>2, <1>3, <1>4, <1>5, <1>6, <1>7, <1>8 DEF Next

LEMMA InvariantStep == IInv /\ [Next]_vars => IInv'
  BY TypedStep, ClientStep, FramedStep, WindowStep DEF IInv, Sound, Plugged
-----------------------------------------------------------------------------
(* The transports: which are open, and which the handlers under way have yet   *)
(* to open or close.                                                          *)

(* Where the handlers under way can be: a connect and a disconnect start when  *)
(* none is, so they are the outermost; all but the innermost show a box, and a *)
(* preview's does nothing more.                                               *)
Nested == \A i \in 1..Len(stack) :
  /\ stack[i].next \in {"init", "link"} => stack[i].op = "connect"
  /\ stack[i].next \in {"uninit", "close"} => stack[i].op # "connect"
  /\ stack[i].next = "uninit" => ~stack[i].box
  /\ stack[i].op \in {"connect", "disconnect"} => i = Len(stack) /\ stack[i].todo \subseteq wanted
  /\ stack[i].op = "lost" => \A m, n \in stack[i].todo : m = n
  /\ stack[i].op = "preview" => stack[i].todo = {}
  /\ i # 1 => stack[i].box

Open(m) == client[m].transport
Connecting == \E i \in 1..Len(stack) : stack[i].op = "connect"
Idle == \A i \in 1..Len(stack) : stack[i].op = "preview"

(* An open transport of audio or video is counted as active and was asked for; *)
(* a connect has yet to open those it has to do, a disconnect has closed the   *)
(* others.                                                                    *)
Opened ==
  /\ \A m \in Media : client[m].link # "idle" => Open(m)
  /\ \A m \in AV : Open(m) => active[m] /\ m \in wanted
  /\ connectOn /\ ~Connecting => \A m \in AV : ~Open(m)
  /\ \A i \in 1..Len(stack), m \in AV :
       /\ stack[i].op = "connect" /\ m \in stack[i].todo => ~Open(m)
       /\ stack[i].op = "disconnect" /\ Open(m) => m \in stack[i].todo

(* Without the screen, whose callbacks count as video's, active is open. *)
Alone == "shared" \notin upset =>
  /\ ~Open("share")
  /\ \A m \in AV : active[m] => Open(m)
  /\ ~connectOn \/ Connecting => "share" \notin wanted
  /\ \A i \in 1..Len(stack) : stack[i].op = "connect" =>
       /\ stack[i].next = "end" => ~stack[i].box /\ \E m \in AV : Open(m)
  /\ Idle /\ ~connectOn => \E m \in AV : Open(m)

Doors == Nested /\ Opened /\ Alone

LEMMA LinkDoor ==
  ASSUME NEW c \in Client, NEW l \in {"idle", "waiting", "connecting", "connected"}
  PROVE  LET d == [c EXCEPT !.link = l]
             e == [d EXCEPT !.flag = FALSE]
         IN /\ d \in Client /\ d.transport = c.transport /\ d.link = l
            /\ e \in Client /\ e.transport = c.transport /\ e.link = l
  BY DEF Client

(* Steps in which no transport opens or closes. *)
Still == \A m \in Media : Open(m)' = Open(m) /\ (client'[m].link # "idle" => client[m].link # "idle")

LEMMA StillOne ==
  ASSUME client \in [Media -> Client], NEW m \in Media, NEW c \in Client, client' = [client EXCEPT ![m] = c],
         c.transport = client[m].transport, c.link # "idle" => client[m].link # "idle"
  PROVE  Still
  BY OneMedium DEF Still, Open

LEMMA DoorsStep ==
  ASSUME Typed, Doors, [Next]_vars
  PROVE  Doors'
<1> USE MediaFacts
<1>1. /\ client \in [Media -> Client] /\ \A m \in Media : client[m] \in Client
      /\ stack \in Seq(Frame) /\ Len(stack) \in Nat /\ (stack # <<>> => 1 \in 1..Len(stack) /\ Top \in Frame)
      /\ \A m \in AV : check[m] \in BOOLEAN
      /\ active \in [AV -> BOOLEAN] /\ host \in BOOLEAN /\ connectOn \in BOOLEAN
  BY DEF Typed, TypeOK, Top
<1>2. Nested /\ Opened /\ Alone
  BY DEF Doors
<1>3. \A i \in 1..Len(stack) : stack[i].next = "end" <=> stack[i].todo = {}
  BY DEF Typed
(* The handlers stay where they are. *)
<1>4. ASSUME stack' = stack, wanted' = wanted, connectOn' = connectOn, active' = active,
             "shared" \in upset => "shared" \in upset', Still
      PROVE  Doors'
  BY <1>1, <1>2, <1>4 DEF Doors, Nested, Opened, Alone, Still, Open, Connecting, Idle
<1>5. ASSUME NEW m \in AV, CheckSend(m) PROVE Doors'
  <2> DEFINE c == SendAs(client[m], ~check[m])
  <2>1. client' = [client EXCEPT ![m] = c]
    BY <1>5 DEF CheckSend
  <2>2. (~check[m]) \in BOOLEAN
    OBVIOUS
  <2>3. c \in Client /\ c.transport = client[m].transport /\ c.link = client[m].link
    BY <1>1, <2>2, SendingKeeps, DoorFacts
  <2> HIDE DEF c
  <2>4. Still
    BY <1>1, <2>1, <2>3, StillOne
  <2>5. QED BY <1>4, <1>5, <2>4 DEF CheckSend
(* The preview and the transports have nothing to do with each other. *)
<1>6. ASSUME NEW bare \in SUBSET {"sender", "receiver"}, NEW ok \in BOOLEAN, NEW open \in BOOLEAN,
             Toggle(bare, ok, open)
      PROVE  Still
  <2>1. PICK c \in Client : /\ client' = [client EXCEPT !["video"] = c]
                            /\ c.transport = client["video"].transport /\ c.link = client["video"].link
    BY <1>6, ToggleKeeps
  <2>2. QED BY <1>1, <2>1, StillOne
<1>7. ASSUME NEW W \in SUBSET Media, NEW h \in BOOLEAN, NEW ok \in BOOLEAN, ClickConnect(W, h, ok) PROVE Doors'
  <2>1. /\ stack = <<>> /\ connectOn /\ W # {} /\ wanted' = W /\ connectOn' = connectOn /\ active' = active
        /\ "shared" \in upset' <=> "shared" \in upset \/ "share" \in W
    BY <1>7 DEF ClickConnect, Quiet, Spoilt
  <2>2. Still
    <3>1. CASE preview
      <4>1. Toggle({}, ok, window) /\ window \in BOOLEAN
        BY <1>7, <3>1 DEF ClickConnect, Typed, TypeOK
      <4>2. QED BY <1>6, <4>1
    <3>2. CASE ~preview
      BY <1>7, <3>2 DEF ClickConnect, Still, Open
    <3>3. QED BY <3>1, <3>2
  <2>3. /\ Len(stack') = 1 /\ stack'[1].op = "connect" /\ stack'[1].todo = W /\ stack'[1].next = "init"
        /\ stack' # <<>> /\ \A i \in 1..Len(stack') : i = 1
    BY <1>7, ClickKeeps
  <2>4. \A m \in AV : ~Open(m)
    BY <1>2, <2>1 DEF Opened, Connecting
  <2>5. \A m \in AV : ~Open(m)'
    BY <2>2, <2>4 DEF Still
  <2>6. Nested'
    BY <2>1, <2>3 DEF Nested
  <2>7. Opened'
    <3>1. \A m \in Media : client'[m].link # "idle" => Open(m)'
      BY <1>2, <2>2 DEF Opened, Still
    <3>2. QED BY <2>3, <2>5, <3>1 DEF Opened
  <2>8. Alone'
    <3> SUFFICES ASSUME "shared" \notin upset, "share" \notin W PROVE Alone'
      BY <2>1 DEF Alone
    <3>1. \A m \in AV : active'[m] => Open(m)'
      BY <1>2, <2>1, <2>2 DEF Alone, Still
    <3>2. ~Open("share")'
      BY <1>2, <2>2 DEF Alone, Still
    <3>3. ~Idle'
      BY <2>3 DEF Idle
    <3>4. QED BY <2>1, <2>3, <3>1, <3>2, <3>3 DEF Alone
  <2>9. QED BY <2>6, <2>7, <2>8 DEF Doors
(* A handler starts in another's box: of a loss, or of a preview that failed. *)
<1>8. ASSUME Listening, Still, UNCHANGED <<wanted, active, connectOn>>,
             "shared" \in upset => "shared" \in upset',
             (\E m \in Media : Lost(m)) \/ stack' = Report \o stack
      PROVE  Doors'
  <2>1. /\ Len(stack') = Len(stack) + 1
        /\ stack'[1].op \in {"lost", "preview"} /\ stack'[1].next \in {"uninit", "end"}
        /\ stack'[1].next = "uninit" => ~stack'[1].box
        /\ stack'[1].op = "lost" => \A k, n \in stack'[1].todo : k = n
        /\ stack'[1].op = "preview" => stack'[1].todo = {}
        /\ \A i \in 1..Len(stack') : i # 1 => i - 1 \in 1..Len(stack) /\ stack'[i] = stack[i - 1]
    <3>1. ASSUME NEW m \in Media, Lost(m)
          PROVE  /\ Len(stack') = Len(stack) + 1
                 /\ stack'[1].op = "lost" /\ stack'[1].todo = {m} /\ stack'[1].next = "uninit" /\ ~stack'[1].box
                 /\ \A i \in 1..Len(stack') : i # 1 => i - 1 \in 1..Len(stack) /\ stack'[i] = stack[i - 1]
      BY <3>1, CallKeeps DEF Lost, Steps
    <3>2. CASE stack' = Report \o stack
      BY <3>2, ReportKeeps
    <3>3. QED BY <1>8, <3>1, <3>2
  <2>2. \A i \in 1..Len(stack) : stack[i].box
    BY <1>1, <1>2, <1>8 DEF Nested, Listening, Top
  <2>3. Nested'
    BY <1>1, <1>2, <1>8, <2>1, <2>2 DEF Nested
  <2>4. Connecting' <=> Connecting
    <3>1. ASSUME NEW i \in 1..Len(stack), stack[i].op = "connect" PROVE Connecting'
      <4>1. i + 1 \in 1..Len(stack') /\ i + 1 # 1 /\ stack'[i + 1] = stack[i]
        BY <1>1, <2>1
      <4>2. QED BY <3>1, <4>1 DEF Connecting
    <3>2. QED BY <2>1, <3>1 DEF Connecting
  <2>5. Opened'
    <3>1. \A n \in Media : client'[n].link # "idle" => Open(n)'
      BY <1>2, <1>8 DEF Opened, Still
    <3>2. \A n \in AV : Open(n)' = Open(n)
      BY <1>8 DEF Still
    <3>3. \A i \in 1..Len(stack'), n \in AV :
            /\ stack'[i].op = "connect" /\ n \in stack'[i].todo => ~Open(n)
            /\ stack'[i].op = "disconnect" /\ Open(n) => n \in stack'[i].todo
      BY <1>2, <2>1 DEF Opened
    <3>4. QED BY <1>2, <1>8, <2>4, <3>1, <3>2, <3>3 DEF Opened
  <2>6. Alone'
    <3>1. stack' # <<>>
      BY <1>1, <2>1
    <3>2. Idle' => Idle
      <4>1. ASSUME Idle', NEW i \in 1..Len(stack) PROVE stack[i].op = "preview"
        <5>1. i + 1 \in 1..Len(stack') /\ i + 1 # 1 /\ stack'[i + 1] = stack[i]
          BY <1>1, <2>1
        <5>2. QED BY <4>1, <5>1 DEF Idle
      <4>2. QED BY <4>1 DEF Idle
    <3>3. QED BY <1>2, <1>8, <2>1, <2>4, <3>1, <3>2 DEF Alone, Still
  <2>7. QED BY <2>3, <2>5, <2>6 DEF Doors
<1>9. ASSUME NEW m \in Media, OnConnectFailed(m) PROVE Doors'
  <2> DEFINE c == [client[m] EXCEPT !.link = "idle"]
  <2>1. client' = [client EXCEPT ![m] = c]
    BY <1>9 DEF OnConnectFailed
  <2>2. c \in Client /\ c.transport = client[m].transport /\ c.link = "idle"
    BY <1>1, LinkDoor
  <2> HIDE DEF c
  <2>3. Still
    BY <1>1, <2>1, <2>2, StillOne
  <2>4. QED BY <1>8, <1>9, <2>3 DEF OnConnectFailed, dialogVars
<1>10. ASSUME NEW m \in Media, OnDisConnected(m) PROVE Doors'
  <2> DEFINE l == IF client[m].listens THEN "waiting" ELSE "idle"
             c == [client[m] EXCEPT !.link = l]
             d == [c EXCEPT !.flag = FALSE]
             e == IF m = "share" THEN StopMediaSending(c) ELSE d
  <2>1. client' = [client EXCEPT ![m] = e] /\ client[m].link # "idle"
    BY <1>10 DEF OnDisConnected
  <2>2. c \in Client /\ c.transport = client[m].transport /\ d \in Client /\ d.transport = client[m].transport
    <3>1. l \in {"idle", "waiting", "connecting", "connected"}
      OBVIOUS
    <3> HIDE DEF l
    <3>2. client[m] \in Client
      BY <1>1
    <3>3. QED BY <3>1, <3>2, LinkDoor
  <2> HIDE DEF c, d
  <2>3. StopMediaSending(c) \in Client /\ StopMediaSending(c).transport = client[m].transport
    BY <2>2, SendingKeeps, DoorFacts
  <2>4. e \in Client /\ e.transport = client[m].transport
    BY <2>2, <2>3
  <2> HIDE DEF e
  <2>5. Still
    BY <1>1, <2>1, <2>4, StillOne
  <2>6. QED BY <1>8, <1>10, <2>5 DEF OnDisConnected, dialogVars
<1>11. CASE ClickDisconnect
  <2>1. /\ stack = <<>> /\ ~connectOn /\ UNCHANGED <<wanted, active, connectOn, upset, client>>
        /\ stack' = Call("disconnect", wanted, "uninit") /\ wanted \in SUBSET Media
    BY <1>11 DEF ClickDisconnect, Quiet, dialogVars, Typed, TypeOK
  <2>2. /\ stack' # <<>> /\ Len(stack') = 1 /\ stack'[1].op = "disconnect" /\ stack'[1].todo = wanted
        /\ stack'[1].next = "uninit" /\ ~stack'[1].box
    BY <2>1, CallKeeps DEF Steps
  <2>3. Nested' /\ ~Connecting'
    <3>1. \A i \in 1..Len(stack') : i = 1
      BY <2>2
    <3>2. QED BY <2>1, <2>2, <3>1 DEF Nested, Connecting
  <2>4. Opened'
    BY <1>2, <2>1, <2>2 DEF Opened, Open
  <2>5. Alone'
    <3>1. ~Idle'
      BY <2>2 DEF Idle
    <3>2. QED BY <1>2, <2>1, <2>2, <2>3, <3>1 DEF Alone, Open
  <2>6. QED BY <2>3, <2>4, <2>5 DEF Doors
(* A handler goes on with its medium. *)
<1>12. ASSUME stack # <<>>, NEW step \in {"link", "close"}, NEW box \in BOOLEAN,
              stack' = Then(step, box), step = "link" <=> Top.op = "connect", Top.next # "end",
              UNCHANGED <<wanted, active, connectOn, upset>>,
              \A m \in Media : Open(m)' = Open(m) \/ (m = "share" /\ "shared" \in upset),
              \A m \in Media : client'[m].link # "idle" => client[m].link # "idle" /\ Open(m)',
              ~Top.box
       PROVE  Doors'
  <2>1. /\ Len(stack') = Len(stack) /\ stack'[1].op = Top.op /\ stack'[1].todo = Top.todo
        /\ stack'[1].next = step
        /\ \A i \in 1..Len(stack) : i # 1 => stack'[i] = stack[i]
    BY <1>12, ThenKeeps DEF Steps
  <2>2. Nested'
    BY <1>1, <1>2, <1>12, <2>1 DEF Nested, Top
  <2>3. \A i \in 1..Len(stack) : stack'[i].op = stack[i].op /\ stack'[i].todo = stack[i].todo
    BY <1>1, <1>12, <2>1 DEF Top
  <2>4. Connecting' <=> Connecting
    BY <2>1, <2>3 DEF Connecting
  <2>5. \A m \in AV : Open(m)' = Open(m)
    BY <1>12 DEF AV
  <2>6. Opened'
    BY <1>2, <1>12, <2>1, <2>3, <2>4, <2>5 DEF Opened
  <2>7. Alone'
    <3> SUFFICES ASSUME "shared" \notin upset PROVE Alone'
      BY <1>12 DEF Alone
    <3>1. ~Open("share")' /\ \A m \in AV : active'[m] => Open(m)'
      BY <1>2, <1>12, <2>5 DEF Alone
    <3>2. ~connectOn' \/ Connecting' => "share" \notin wanted'
      BY <1>2, <1>12, <2>4 DEF Alone
    <3>3. \A i \in 1..Len(stack) : stack'[i].op = "connect" /\ stack'[i].next = "end" =>
            ~stack'[i].box /\ \E m \in AV : Open(m)'
      BY <1>1, <1>2, <1>12, <2>1, <2>5 DEF Alone
    <3>4. ~Idle'
      <4>1. Top.op # "preview" /\ 1 \in 1..Len(stack')
        BY <1>1, <1>2, <1>3, <1>12, <2>1 DEF Nested, Top
      <4>2. QED BY <2>1, <4>1 DEF Idle
    <3>5. QED BY <2>1, <3>1, <3>2, <3>3, <3>4 DEF Alone
  <2>8. QED BY <2>2, <2>6, <2>7 DEF Doors
<1>13. ASSUME NEW bare \in SUBSET {"sender", "receiver"}, InitClient(bare) PROVE Doors'
  <2> DEFINE m == Current(Top.op, Top.todo)
             c == CreateMediaClient(client[m], m, bare)
             failed == IF m = "share" THEN ~host /\ c.receiver = "bare" ELSE "bare" \in {c.sender, c.receiver}
  <2>1. /\ stack # <<>> /\ m \in Media /\ m \in Top.todo /\ Top.next = "init" /\ ~Top.box
        /\ client' = [client EXCEPT ![m] = c] /\ stack' = Then("link", failed)
        /\ UNCHANGED <<wanted, active, connectOn, upset>>
    <3>1. stack # <<>> /\ m \in Media /\ Top.next = "init" /\ Top.todo # {} /\ Top.todo \in SUBSET Media
      BY <1>13, AtFacts DEF InitClient, Steps, Frame
    <3>2. QED BY <1>13, <3>1, CurrentIn DEF InitClient, At, dialogVars
  <2>2. failed \in BOOLEAN
    <3>1. (~host /\ c.receiver = "bare") \in BOOLEAN /\ ("bare" \in {c.sender, c.receiver}) \in BOOLEAN
      OBVIOUS
    <3>2. CASE m = "share"
      BY <3>1, <3>2
    <3>3. CASE m # "share"
      BY <3>1, <3>3
    <3>4. QED BY <3>2, <3>3
  <2>3. Top.op = "connect" /\ Top.todo \subseteq wanted /\ Connecting
    BY <1>1, <1>2, <2>1 DEF Nested, Top, Connecting
  <2>4. m = "share" => "shared" \in upset
    BY <1>2, <2>1, <2>3 DEF Alone
  <2>5. client[m] \in Client
    BY <1>1, <2>1
  <2>6. c \in Client /\ c.link = client[m].link /\ (m # "share" => c.transport = client[m].transport)
        /\ (m = "share" => c.transport)
    BY <2>1, <2>5, CreateKeeps, CreateDoor
  <2> HIDE DEF m, c, failed
  <2>7. /\ \A n \in Media : Open(n)' = Open(n) \/ (n = "share" /\ "shared" \in upset)
        /\ \A n \in Media : client'[n].link # "idle" => client[n].link # "idle" /\ Open(n)'
    <3>1. \A n \in Media : client[n].link # "idle" => Open(n)
      BY <1>2 DEF Opened
    <3>2. QED BY <1>1, <2>1, <2>4, <2>6, <3>1, OneMedium DEF Open
  <2>8. QED BY <1>12, <2>1, <2>2, <2>3, <2>7
<1>14. CASE Uninit
  <2> DEFINE m == Current(Top.op, Top.todo)
  <2>1. stack # <<>> /\ m \in Media /\ Top.next = "uninit" /\ ~Top.box
    BY <1>14, AtFacts DEF Uninit, Steps, At
  <2>2. Top.op # "connect"
    BY <1>1, <1>2, <2>1 DEF Nested, Top
  <2>3. Still
    <3>1. CASE CanStop(client[m])
      <4>1. client' = [client EXCEPT ![m] = DeleteMediaClient(client[m])]
        BY <1>14, <3>1 DEF Uninit
      <4>2. client[m] \in Client
        BY <1>1, <2>1
      <4> HIDE DEF m
      <4>3. /\ DeleteMediaClient(client[m]) \in Client
            /\ DeleteMediaClient(client[m]).transport = client[m].transport
            /\ DeleteMediaClient(client[m]).link = client[m].link
        BY <2>1, <4>2, DeleteKeeps, DoorFacts
      <4>4. QED BY <1>1, <2>1, <4>1, <4>3, StillOne
    <3>2. CASE ~CanStop(client[m])
      BY <1>14, <3>2 DEF Uninit, Still, Open
    <3>3. QED BY <3>1, <3>2
  <2>4. PICK box \in BOOLEAN : stack' = Then("close", box)
    BY <1>14 DEF Uninit
  <2>5. /\ \A n \in Media : Open(n)' = Open(n)
        /\ \A n \in Media : client'[n].link # "idle" => client[n].link # "idle" /\ Open(n)'
    BY <1>2, <2>3 DEF Still, Opened
  <2>6. UNCHANGED <<wanted, active, connectOn, upset>>
    BY <1>14 DEF Uninit, dialogVars
  <2>7. QED BY <1>12, <2>1, <2>2, <2>4, <2>5, <2>6
<1>15. CASE CloseBox
  <2>1. stack # <<>> /\ stack' = Then(Top.next, FALSE) /\ Top.next \in Steps /\ Top.box
        /\ UNCHANGED <<wanted, active, connectOn, upset, client>>
    <3>1. stack # <<>> /\ stack' = Then(Top.next, FALSE) /\ Top.box
          /\ UNCHANGED <<wanted, active, connectOn, upset, client>>
      BY <1>15 DEF CloseBox, dialogVars
    <3>2. QED BY <1>1, <3>1 DEF Frame, Steps
  <2>2. /\ Len(stack') = Len(stack) /\ stack'[1].op = Top.op /\ stack'[1].todo = Top.todo
        /\ stack'[1].next = Top.next /\ ~stack'[1].box
        /\ \A i \in 1..Len(stack) : i # 1 => stack'[i] = stack[i]
    BY <2>1, ThenKeeps
  <2>3. \A i \in 1..Len(stack) : stack'[i].op = stack[i].op /\ stack'[i].todo = stack[i].todo
                                 /\ stack'[i].next = stack[i].next /\ (stack'[i].box => stack[i].box)
                                 /\ (i # 1 => stack'[i].box = stack[i].box)
    BY <1>1, <2>1, <2>2 DEF Top
  <2>4. Nested' /\ (Connecting' <=> Connecting) /\ stack' # <<>>
    <3>1. stack' # <<>>
      BY <2>1, ThenKeeps
    <3>2. Connecting' <=> Connecting
      BY <2>2, <2>3 DEF Connecting
    <3>3. ASSUME NEW i \in 1..Len(stack')
          PROVE  /\ stack'[i].next \in {"init", "link"} => stack'[i].op = "connect"
                 /\ stack'[i].next \in {"uninit", "close"} => stack'[i].op # "connect"
                 /\ stack'[i].next = "uninit" => ~stack'[i].box
                 /\ stack'[i].op \in {"connect", "disconnect"} => i = Len(stack') /\ stack'[i].todo \subseteq wanted'
                 /\ stack'[i].op = "preview" => stack'[i].todo = {}
                 /\ stack'[i].op = "lost" => \A m, n \in stack'[i].todo : m = n
                 /\ i # 1 => stack'[i].box
      <4>1. i \in 1..Len(stack)
        BY <2>2
      <4>2. i # 1 => stack'[i] = stack[i]
        BY <2>2, <4>1
      <4>3. /\ stack[i].next \in {"init", "link"} => stack[i].op = "connect"
            /\ stack[i].next \in {"uninit", "close"} => stack[i].op # "connect"
            /\ stack[i].next = "uninit" => ~stack[i].box
            /\ stack[i].op \in {"connect", "disconnect"} => i = Len(stack) /\ stack[i].todo \subseteq wanted
            /\ stack[i].op = "preview" => stack[i].todo = {}
            /\ stack[i].op = "lost" => \A m, n \in stack[i].todo : m = n
            /\ i # 1 => stack[i].box
        BY <1>2, <4>1 DEF Nested
      <4>4. stack'[i].op = stack[i].op /\ stack'[i].todo = stack[i].todo /\ stack'[i].next = stack[i].next
            /\ (stack'[i].box => stack[i].box)
        BY <2>3, <4>1
      <4>5. QED BY <2>1, <2>2, <4>2, <4>3, <4>4
    <3>4. QED BY <3>1, <3>2, <3>3 DEF Nested
  <2>5. Opened'
    <3>1. \A i \in 1..Len(stack'), m \in AV :
            /\ stack'[i].op = "connect" /\ m \in stack'[i].todo => ~Open(m)
            /\ stack'[i].op = "disconnect" /\ Open(m) => m \in stack'[i].todo
      BY <1>2, <2>2, <2>3 DEF Opened
    <3>2. QED BY <1>2, <2>1, <2>4, <3>1 DEF Opened, Open
  <2>6. Alone'
    <3> SUFFICES ASSUME "shared" \notin upset PROVE Alone'
      BY <2>1 DEF Alone
    <3>1. \A i \in 1..Len(stack) : stack'[i].op = "connect" /\ stack'[i].next = "end" =>
            ~stack'[i].box /\ \E m \in AV : Open(m)'
      BY <1>2, <2>1, <2>3 DEF Alone, Open
    <3>2. Idle' => Idle
      BY <2>2, <2>3 DEF Idle
    <3>3. QED BY <1>2, <2>1, <2>2, <2>4, <3>1, <3>2 DEF Alone, Open
  <2>7. QED BY <2>4, <2>5, <2>6 DEF Doors
<1>16. ASSUME NEW m \in Media, OnConnected(m) PROVE Doors'
  <2> DEFINE c == [client[m] EXCEPT !.link = "connected"]
             d == IF m = "share" THEN StartMediaSending(c) ELSE c
             up == [client EXCEPT ![m] = d]
             n == IF m = "audio" THEN "audio" ELSE "video"
  <2>1. /\ client' = [up EXCEPT ![n] = SendAs(up[n], check[n])] /\ stack' = stack /\ client[m].link # "idle"
        /\ active' = [active EXCEPT ![n] = TRUE] /\ UNCHANGED <<wanted, connectOn, upset>>
    BY <1>16 DEF OnConnected, dialogVars
  <2>2. client[m] \in Client
    BY <1>1
  <2>3. c \in Client /\ c.transport = client[m].transport
    BY <2>2, LinkDoor
  <2> HIDE DEF c
  <2>4. d \in Client /\ d.transport = client[m].transport
    BY <2>3, SendingKeeps, DoorFacts
  <2> HIDE DEF d
  <2>5. up \in [Media -> Client] /\ \A k \in Media : /\ up[k] \in Client /\ up[k].transport = client[k].transport
                                                     /\ k # m => up[k] = client[k]
    BY <1>1, <2>4, OneMedium
  <2>6. n \in AV /\ n \in Media /\ check[n] \in BOOLEAN /\ (m # "share" => n = m)
    BY <1>1 DEF AV, Media
  <2> HIDE DEF up, n
  <2>7. /\ SendAs(up[n], check[n]) \in Client /\ SendAs(up[n], check[n]).transport = up[n].transport
        /\ SendAs(up[n], check[n]).link = up[n].link
    <3>1. up[n] \in Client
      BY <2>5, <2>6
    <3>2. QED BY <2>6, <3>1, SendingKeeps, DoorFacts
  <2>8. Still
    <3>1. \A k \in Media : client'[k].transport = up[k].transport /\ client'[k].link = up[k].link
      BY <2>1, <2>5, <2>6, <2>7, OneMedium
    <3>2. QED BY <2>1, <2>5, <3>1 DEF Still, Open
  <2>9. Nested' /\ (Connecting' <=> Connecting)
    BY <1>2, <2>1 DEF Nested, Connecting
  <2>10. \A k \in AV : active'[k] = (k = n \/ active[k])
    BY <1>1, <2>1, <2>6
  <2>11. Opened'
    BY <1>2, <2>1, <2>8, <2>9, <2>10 DEF Opened, Still
  <2>12. Alone'
    <3> SUFFICES ASSUME "shared" \notin upset PROVE Alone'
      BY <2>1 DEF Alone
    <3>1. Open(m)
      BY <1>2, <2>1 DEF Opened
    <3>2. n = m
      BY <1>2, <2>6, <3>1 DEF Alone
    <3>3. \A k \in AV : active'[k] => Open(k)
      BY <1>2, <2>10, <3>1, <3>2 DEF Alone
    <3>4. Idle' => Idle
      BY <2>1 DEF Idle
    <3>5. QED BY <1>2, <2>1, <2>8, <2>9, <3>3, <3>4 DEF Alone, Still
  <2>13. QED BY <2>9, <2>11, <2>12 DEF Doors
<1>17. CASE Finish
  <2>1. stack # <<>> /\ stack' = Tail(stack) /\ UNCHANGED <<wanted, active, upset, client>>
        /\ Top.next = "end" /\ connectOn' = ConnectAgain
    BY <1>17 DEF Finish, At, dialogVars
  <2>2. /\ Len(stack') = Len(stack) - 1
        /\ \A i \in 1..Len(stack') : i + 1 \in 1..Len(stack) /\ stack'[i] = stack[i + 1]
    BY <2>1, FinishKeeps
  <2>3. Top.todo = {} /\ Top.op \in {"connect", "disconnect", "lost", "preview"} /\ Top = stack[1]
        /\ 1 \in 1..Len(stack)
    BY <1>1, <1>3, <2>1 DEF Top, Frame
  <2>4. Nested'
    <3> SUFFICES ASSUME NEW i \in 1..Len(stack')
                 PROVE  /\ stack'[i].next \in {"init", "link"} => stack'[i].op = "connect"
                        /\ stack'[i].next \in {"uninit", "close"} => stack'[i].op # "connect"
                        /\ stack'[i].next = "uninit" => ~stack'[i].box
                        /\ stack'[i].op \in {"connect", "disconnect"} => i = Len(stack') /\ stack'[i].todo \subseteq wanted'
                        /\ stack'[i].op = "preview" => stack'[i].todo = {}
                        /\ stack'[i].op = "lost" => \A m, n \in stack'[i].todo : m = n
                        /\ i # 1 => stack'[i].box
      BY DEF Nested
    <3>1. i + 1 \in 1..Len(stack) /\ stack'[i] = stack[i + 1] /\ i + 1 # 1
          /\ (i + 1 = Len(stack) => i = Len(stack'))
      BY <1>1, <2>2
    <3>2. QED BY <1>2, <2>1, <3>1 DEF Nested
  <2>5. Top.op \in {"connect", "disconnect"} => Len(stack) = 1 /\ stack' = <<>>
    <3>1. Top.op \in {"connect", "disconnect"} => Len(stack) = 1
      BY <1>2, <2>3 DEF Nested
    <3>2. QED BY <1>1, <2>1, <3>1
  <2>6. Connecting' <=> Connecting /\ Top.op # "connect"
    <3>1. CASE Top.op \in {"connect", "disconnect"}
      <4>1. ~Connecting'
        BY <2>5, <3>1 DEF Connecting
      <4>2. Connecting => Top.op = "connect"
        BY <2>3, <2>5, <3>1 DEF Connecting
      <4>3. QED BY <4>1, <4>2
    <3>2. CASE Top.op \in {"lost", "preview"}
      <4>1. ASSUME NEW i \in 1..Len(stack), stack[i].op = "connect" PROVE Connecting'
        <5>1. i # 1
          BY <2>3, <3>2, <4>1
        <5>2. i - 1 \in 1..Len(stack') /\ stack'[i - 1] = stack[i]
          BY <1>1, <2>2, <5>1
        <5>3. QED BY <4>1, <5>2 DEF Connecting
      <4>2. QED BY <2>2, <3>2, <4>1 DEF Connecting
    <3>3. QED BY <2>3, <3>1, <3>2
  <2>7. /\ Top.op = "connect" => connectOn' = FALSE
        /\ Top.op = "disconnect" => connectOn' = TRUE
        /\ Top.op = "lost" => connectOn' = (connectOn \/ (~active["audio"] /\ ~active["video"]))
        /\ Top.op = "preview" => connectOn' = connectOn
    BY <2>1, <2>3 DEF ConnectAgain
  <2>8. Opened'
    <3>1. /\ \A m \in Media : client[m].link # "idle" => Open(m)
          /\ \A m \in AV : Open(m) => active[m] /\ m \in wanted
      BY <1>2 DEF Opened
    <3>2. \A i \in 1..Len(stack'), m \in AV :
            /\ stack'[i].op = "connect" /\ m \in stack'[i].todo => ~Open(m)
            /\ stack'[i].op = "disconnect" /\ Open(m) => m \in stack'[i].todo
      BY <1>2, <2>2 DEF Opened
    <3>3. connectOn' /\ ~Connecting' => \A m \in AV : ~Open(m)
      <4>1. CASE Top.op = "disconnect"
        BY <1>2, <2>3, <4>1 DEF Opened
      <4>2. CASE Top.op = "lost"
        BY <1>2, <2>6, <2>7, <3>1, <4>2 DEF Opened, AV
      <4>3. CASE Top.op = "preview"
        <5>1. connectOn' = connectOn /\ (Connecting' <=> Connecting)
          BY <2>6, <2>7, <4>3
        <5>2. QED BY <1>2, <5>1 DEF Opened
      <4>4. QED BY <2>3, <2>7, <4>1, <4>2, <4>3
    <3>4. QED BY <2>1, <3>1, <3>2, <3>3 DEF Opened, Open
  <2>9. Alone'
    <3> SUFFICES ASSUME "shared" \notin upset PROVE Alone'
      BY <2>1 DEF Alone
    <3>1. ~connectOn' \/ Connecting' => "share" \notin wanted
      <4>1. CASE Top.op = "connect"
        <5>1. Connecting
          BY <2>3, <4>1 DEF Connecting
        <5>2. QED BY <1>2, <5>1 DEF Alone
      <4>2. CASE Top.op # "connect"
        <5>1. ~connectOn' => ~connectOn
          BY <2>3, <2>7, <4>2
        <5>2. QED BY <1>2, <2>6, <4>2, <5>1 DEF Alone
      <4>3. QED BY <4>1, <4>2
    <3>2. \A i \in 1..Len(stack') : stack'[i].op = "connect" /\ stack'[i].next = "end" =>
            ~stack'[i].box /\ \E m \in AV : Open(m)
      BY <1>2, <2>2 DEF Alone
    <3>3. Idle' /\ ~connectOn' => \E m \in AV : Open(m)
      <4>1. CASE Top.op = "connect"
        BY <1>2, <2>1, <2>3, <4>1 DEF Alone
      <4>2. CASE Top.op \in {"disconnect", "lost"}
        <5>1. ~connectOn' => active["audio"] \/ active["video"]
          BY <2>3, <2>7, <4>2
        <5>2. QED BY <1>2, <5>1 DEF Alone, AV
      <4>3. CASE Top.op = "preview"
        <5>1. Idle' => Idle
          <6>1. ASSUME Idle', NEW i \in 1..Len(stack), i # 1 PROVE stack[i].op = "preview"
            <7>1. i - 1 \in 1..Len(stack') /\ stack'[i - 1] = stack[i]
              BY <1>1, <2>2, <6>1
            <7>2. QED BY <6>1, <7>1 DEF Idle
          <6>2. QED BY <2>3, <4>3, <6>1 DEF Idle
        <5>2. QED BY <1>2, <2>7, <4>3, <5>1 DEF Alone
      <4>4. QED BY <2>3, <4>1, <4>2, <4>3
    <3>4. QED BY <1>2, <2>1, <3>1, <3>2, <3>3 DEF Alone, Open
  <2>10. QED BY <2>4, <2>8, <2>9 DEF Doors
(* A handler is done with its medium. *)
<1>18. ASSUME NEW step \in {"init", "uninit"}, NEW box \in BOOLEAN, step = "init" <=> Top.op = "connect",
              stack # <<>>, Top.todo # {}, stack' = NextMedium(step, box), wanted' = wanted,
              box => Top.op = "lost" \/ (Top.op = "connect" /\ "shared" \in upset)
       PROVE  /\ Nested' /\ (Connecting' <=> Connecting) /\ stack' # <<>>
              /\ \A i \in 1..Len(stack) : i # 1 => stack'[i] = stack[i]
              /\ Len(stack') = Len(stack) /\ stack'[1].op = Top.op
              /\ stack'[1].todo = Top.todo \ {Current(Top.op, Top.todo)}
              /\ stack'[1].next \in {step, "end"} /\ stack'[1].box = box
  <2> DEFINE m == Current(Top.op, Top.todo)
  <2>1. /\ stack' # <<>> /\ Len(stack') = Len(stack) /\ stack'[1].op = Top.op /\ stack'[1].box = box
        /\ stack'[1].todo = Top.todo \ {m}
        /\ stack'[1].next = IF stack'[1].todo = {} THEN "end" ELSE step
        /\ \A i \in 1..Len(stack) : i # 1 => stack'[i] = stack[i]
    BY <1>18, NextKeeps DEF Steps
  <2>2. m \in Top.todo /\ Top = stack[1] /\ 1 \in 1..Len(stack) /\ Top \in Frame
    <3>1. Top = stack[1] /\ 1 \in 1..Len(stack) /\ Top \in Frame
      BY <1>1, <1>18 DEF Top
    <3>2. QED BY <1>18, <3>1, CurrentIn DEF Frame
  <2> HIDE DEF m
  <2>3. Connecting' <=> Connecting
    BY <2>1, <2>2 DEF Connecting
  <2>4. Top.op = "lost" => stack'[1].todo = {}
    BY <1>2, <2>1, <2>2 DEF Nested
  <2>5. /\ stack'[1].next \in {"init", "link"} => stack'[1].op = "connect"
        /\ stack'[1].next \in {"uninit", "close"} => stack'[1].op # "connect"
        /\ stack'[1].next = "uninit" => ~stack'[1].box
        /\ stack'[1].op \in {"connect", "disconnect"} => 1 = Len(stack') /\ stack'[1].todo \subseteq wanted'
        /\ stack'[1].op = "lost" => \A k, n \in stack'[1].todo : k = n
        /\ stack'[1].op = "preview" => stack'[1].todo = {}
    BY <1>2, <1>18, <2>1, <2>2, <2>4 DEF Nested
  <2>6. Nested'
    BY <1>2, <1>18, <2>1, <2>5 DEF Nested
  <2>7. QED BY <2>1, <2>3, <2>6 DEF m
<1>19. CASE Link
  <2> DEFINE m == Current(Top.op, Top.todo)
             c == Connect(client[m], host)
             d == IF m = "share" THEN SendAs(c, host) ELSE StopUnlessAsked(c, check[m])
             box == m = "share" /\ c.sender = "bare"
  <2>1. /\ stack # <<>> /\ m \in Media /\ m \in Top.todo /\ Top.next = "link" /\ ~Top.box /\ Top.todo # {}
        /\ client' = [client EXCEPT ![m] = d] /\ stack' = NextMedium("init", box)
        /\ active' = [n \in AV |-> n = m \/ active[n]]
        /\ UNCHANGED <<wanted, connectOn, upset>>
    <3>1. stack # <<>> /\ m \in Media /\ Top.next = "link" /\ Top.todo # {} /\ Top.todo \in SUBSET Media
      BY <1>19, AtFacts DEF Link, Steps, Frame
    <3>2. QED BY <1>19, <3>1, CurrentIn DEF Link, At, dialogVars
  <2>2. Top.op = "connect" /\ Top.todo \subseteq wanted /\ Connecting /\ Len(stack) = 1 /\ Top = stack[1]
    BY <1>1, <1>2, <2>1 DEF Nested, Top, Connecting
  <2>3. m = "share" => "shared" \in upset
    BY <1>2, <2>1, <2>2 DEF Alone
  <2>4. client[m] \in Client /\ (m # "share" => check[m] \in BOOLEAN)
    BY <1>1, <2>1
  <2>5. c \in Client /\ c.transport
    BY <1>1, <2>1, <2>4, ConnectKeeps, DoorFacts
  <2> DEFINE k == IF m = "share" THEN host ELSE check[m]
  <2>6. d \in Client /\ d.transport
    <3>1. CASE m = "share"
      <4>1. SendAs(c, host) \in Client /\ SendAs(c, host).transport = c.transport
        <5> HIDE DEF c
        <5>1. QED BY <1>1, <2>5, SendingKeeps, DoorFacts
      <4>2. QED BY <2>5, <3>1, <4>1
    <3>2. CASE m # "share"
      <4>1. StopUnlessAsked(c, check[m]) \in Client /\ StopUnlessAsked(c, check[m]).transport = c.transport
        <5> HIDE DEF c
        <5>1. QED BY <2>4, <2>5, <3>2, SendingKeeps, DoorFacts
      <4>2. QED BY <2>5, <3>2, <4>1
    <3>3. QED BY <3>1, <3>2
  <2>7. box \in BOOLEAN
    OBVIOUS
  <2>8. box => "shared" \in upset
    BY <2>3
  <2> HIDE DEF d, box
  <2>9. /\ Nested' /\ (Connecting' <=> Connecting) /\ stack' # <<>> /\ Len(stack') = 1
        /\ stack'[1].op = "connect" /\ stack'[1].todo = Top.todo \ {m}
        /\ stack'[1].next \in {"init", "end"} /\ stack'[1].box = box
    BY <1>18, <2>1, <2>2, <2>7, <2>8
  <2> HIDE DEF m
  <2>10. \A n \in Media : (Open(n)' <=> n = m \/ Open(n)) /\ (n # m => client'[n] = client[n])
    <3>1. client'[m] = d /\ \A n \in Media : n # m => client'[n] = client[n]
      BY <1>1, <2>1, <2>6, OneMedium
    <3>2. QED BY <2>6, <3>1 DEF Open
  <2>11. \A n \in AV : active'[n] = (n = m \/ active[n])
    BY <2>1
  <2>12. Opened'
    <3>1. \A n \in Media : client'[n].link # "idle" => Open(n)'
      BY <1>2, <2>10 DEF Opened
    <3>2. \A n \in AV : Open(n)' => active'[n] /\ n \in wanted
      BY <1>2, <2>1, <2>2, <2>10, <2>11 DEF Opened
    <3>3. \A n \in AV : n \in Top.todo \ {m} => ~Open(n)'
      BY <1>2, <2>2, <2>10 DEF Opened
    <3>4. \A i \in 1..Len(stack') : i = 1
      BY <2>9
    <3>5. QED BY <2>1, <2>2, <2>9, <3>1, <3>2, <3>3, <3>4 DEF Opened
  <2>13. Alone'
    <3> SUFFICES ASSUME "shared" \notin upset PROVE Alone'
      BY <2>1 DEF Alone
    <3>1. m \in AV
      BY <2>1, <2>3
    <3>2. ~Open("share")'
      BY <1>2, <2>3, <2>10 DEF Alone
    <3>3. \A n \in AV : active'[n] => Open(n)'
      BY <1>2, <2>10, <2>11 DEF Alone
    <3>4. "share" \notin wanted
      BY <1>2, <2>2 DEF Alone
    <3>5. \A i \in 1..Len(stack') : i = 1
      BY <2>9
    <3>6. ~box
      BY <2>8
    <3>7. ~Idle'
      BY <2>9 DEF Idle
    <3>8. QED BY <2>1, <2>9, <2>10, <3>1, <3>2, <3>3, <3>4, <3>5, <3>6, <3>7 DEF Alone
  <2>14. QED BY <2>9, <2>12, <2>13 DEF Doors
<1>20. CASE Close
  <2> DEFINE m == Current(Top.op, Top.todo)
             does == Top.op = "disconnect" \/ StatusOf(m)
             box == Top.op = "lost"
  <2>1. /\ stack # <<>> /\ m \in Media /\ m \in Top.todo /\ Top.next = "close" /\ Top.todo # {}
        /\ client' = (IF does THEN [client EXCEPT ![m] = DisConnect(client[m])] ELSE client)
        /\ stack' = NextMedium("uninit", box)
        /\ active' = [n \in AV |-> IF does /\ n = m THEN FALSE ELSE active[n]]
        /\ UNCHANGED <<wanted, connectOn, upset>>
    <3>1. stack # <<>> /\ m \in Media /\ Top.next = "close" /\ Top.todo # {} /\ Top.todo \in SUBSET Media
      BY <1>20, AtFacts DEF Close, Steps, Frame
    <3>2. QED BY <1>20, <3>1, CurrentIn DEF Close, At, dialogVars
  <2>2. Top.op # "connect" /\ Top = stack[1] /\ 1 \in 1..Len(stack)
    BY <1>1, <1>2, <2>1 DEF Nested, Top
  <2>3. box \in BOOLEAN
    OBVIOUS
  <2>4. /\ Nested' /\ (Connecting' <=> Connecting) /\ stack' # <<>> /\ Len(stack') = Len(stack)
        /\ stack'[1].op = Top.op /\ stack'[1].todo = Top.todo \ {m}
        /\ \A i \in 1..Len(stack) : i # 1 => stack'[i] = stack[i]
    BY <1>18, <2>1, <2>2, <2>3
  <2> HIDE DEF m, box
  <2>5. client[m] \in Client
    BY <1>1, <2>1
  <2>6. /\ \A n \in Media : Open(n)' <=> Open(n) /\ ~(does /\ n = m)
        /\ \A n \in Media : client'[n].link # "idle" => client[n].link # "idle" /\ ~(does /\ n = m)
    <3>1. CASE does
      <4>1. /\ DisConnect(client[m]) \in Client /\ ~DisConnect(client[m]).transport
            /\ DisConnect(client[m]).link = "idle"
        BY <2>1, <2>5, DisConnectKeeps, DoorFacts
      <4> HIDE DEF does
      <4>2. client' = [client EXCEPT ![m] = DisConnect(client[m])]
        BY <2>1, <3>1
      <4>3. client'[m] = DisConnect(client[m]) /\ \A n \in Media : n # m => client'[n] = client[n]
        BY <1>1, <2>1, <4>1, <4>2, OneMedium
      <4>4. \A n \in Media : client'[n] = IF n = m THEN DisConnect(client[m]) ELSE client[n]
        BY <4>3
      <4>5. \A n \in Media : client[n].transport \in BOOLEAN
        BY <1>1 DEF Client
      <4>6. ASSUME NEW n \in Media
            PROVE  /\ Open(n)' <=> Open(n) /\ ~(does /\ n = m)
                   /\ client'[n].link # "idle" => client[n].link # "idle" /\ ~(does /\ n = m)
        <5>1. CASE n = m
          BY <3>1, <4>1, <4>4, <5>1 DEF Open
        <5>2. CASE n # m
          <6>1. client'[n] = client[n] /\ client[n].transport \in BOOLEAN
            BY <4>4, <4>5, <5>2
          <6>2. QED BY <5>2, <6>1 DEF Open
        <5>3. QED BY <5>1, <5>2
      <4>7. QED BY <4>6
    <3>2. CASE ~does
      <4> HIDE DEF does
      <4>1. client' = client
        BY <2>1, <3>2
      <4>2. \A n \in Media : client[n].transport \in BOOLEAN
        BY <1>1 DEF Client
      <4>3. QED BY <3>2, <4>1, <4>2 DEF Open
    <3>3. QED BY <3>1, <3>2
  <2>7. Top.op = "disconnect" => does
    OBVIOUS
  <2> HIDE DEF does
  <2>8. \A n \in AV : active'[n] = IF does /\ n = m THEN FALSE ELSE active[n]
    BY <2>1
  <2>9. Opened'
    <3>1. \A n \in Media : client'[n].link # "idle" => Open(n)'
      BY <1>2, <2>6 DEF Opened
    <3>2. \A n \in AV : Open(n)' => active'[n] /\ n \in wanted
      BY <1>2, <2>6, <2>8 DEF Opened
    <3>3. connectOn /\ ~Connecting => \A n \in AV : ~Open(n)'
      BY <1>2, <2>6 DEF Opened
    <3>4. ASSUME NEW i \in 1..Len(stack'), NEW n \in AV
          PROVE  /\ stack'[i].op = "connect" /\ n \in stack'[i].todo => ~Open(n)'
                 /\ stack'[i].op = "disconnect" /\ Open(n)' => n \in stack'[i].todo
      <4>1. CASE i = 1
        BY <1>2, <2>2, <2>4, <2>6, <2>7, <4>1 DEF Opened
      <4>2. CASE i # 1
        <5>1. i \in 1..Len(stack) /\ stack'[i] = stack[i]
          BY <2>4, <4>2
        <5>2. QED BY <1>2, <2>6, <5>1 DEF Opened
      <4>3. QED BY <4>1, <4>2
    <3>5. QED BY <2>1, <2>4, <3>1, <3>2, <3>3, <3>4 DEF Opened
  <2>10. Alone'
    <3> SUFFICES ASSUME "shared" \notin upset PROVE Alone'
      BY <2>1 DEF Alone
    <3>1. ~Open("share")'
      BY <1>2, <2>6 DEF Alone
    <3>2. \A n \in AV : active'[n] => Open(n)'
      BY <1>2, <2>6, <2>8 DEF Alone
    <3>3. \A i \in 1..Len(stack') : stack'[i].op = "connect" =>
            i # 1 /\ stack'[i].box /\ stack'[i].next # "end"
      BY <1>2, <2>2, <2>4 DEF Alone, Nested
    <3>4. ~Idle'
      <4>1. Top.op # "preview" /\ 1 \in 1..Len(stack')
        BY <1>2, <2>1, <2>2, <2>4 DEF Nested
      <4>2. QED BY <2>4, <4>1 DEF Idle
    <3>5. QED BY <1>2, <2>1, <2>4, <3>1, <3>2, <3>3, <3>4 DEF Alone
  <2>11. QED BY <2>4, <2>9, <2>10 DEF Doors
<1>21. CASE UNCHANGED vars
  <2>1. Still
    BY <1>21 DEF vars, Still, Open
  <2>2. QED BY <1>4, <1>21, <2>1 DEF vars
<1>22. ASSUME NEW close \in BOOLEAN, NEW ok \in BOOLEAN, NEW bare \in SUBSET {"sender", "receiver"},
              Preview(close, bare, ok)
       PROVE  Doors'
  <2>1. Toggle(bare, ok, window /\ ~close) /\ (window /\ ~close) \in BOOLEAN
    BY <1>22 DEF Preview
  <2>2. Still
    BY <1>6, <2>1
  <2>3. UNCHANGED <<wanted, active, connectOn>> /\ ("shared" \in upset => "shared" \in upset') /\ Listening
    BY <1>22 DEF Preview, Quiet, Listening
  <2>4. CASE ok
    BY <1>4, <1>22, <2>2, <2>3, <2>4 DEF Preview
  <2>5. CASE ~ok
    BY <1>8, <1>22, <2>2, <2>3, <2>5 DEF Preview, Report
  <2>6. QED BY <2>4, <2>5
<1>23. QED
  BY <1>5, <1>7, <1>9, <1>10, <1>11, <1>13, <1>14, <1>15, <1>16, <1>17, <1>19, <1>20, <1>21, <1>22 DEF Next
-----------------------------------------------------------------------------
(* What is sent. *)

(* The step that is at work on a medium, and whether it will close it. *)
Hand(m) == IF stack # <<>> /\ ~Top.box /\ Top.todo # {} /\ m = Current(Top.op, Top.todo) THEN Top.next ELSE "none"
Does(m) == Top.op = "disconnect" \/ StatusOf(m)
Asked(m) == m = "share" \/ check[m]

(* The flag and the track's option say the same, but for a medium that is     *)
(* being taken down, and what they say is what was asked of a connected one.  *)
(* Audio and video that have their transport have a sender until then.        *)
Fits(c, m, hand, does, asked) ==
  /\ c.sender = "none" => ~c.option
  /\ hand \notin {"uninit", "close"} => (c.option <=> c.flag)
  /\ hand = "uninit" /\ c.flag => c.option
  /\ hand \in {"uninit", "close"} /\ c.flag => does
  /\ m # "share" /\ c.link = "connected" /\ c.sender # "none" => (c.option <=> asked)
  /\ m = "share" /\ c.flag => c.mine
  /\ m = "share" /\ c.link = "connecting" => ~c.mine
  /\ m = "share" /\ c.link = "connected" /\ c.sender # "none" /\ hand # "link" => (c.option <=> c.mine)
  /\ m # "share" /\ c.transport /\ hand # "close" => c.sender # "none"
  /\ m # "share" /\ hand = "link" => c.sender # "none"

Sent == fails = 0 /\ "preview" \notin upset =>
          \A m \in Media : Fits(client[m], m, Hand(m), Does(m), Asked(m))

LEMMA FitsOn ==
  ASSUME NEW c, NEW m \in Media, NEW h \in {"none", "init"}, NEW x, NEW y, NEW a, NEW k,
         Fits(c, m, h, x, a),
         k \in {"none", "init"} \/ (k = "uninit" /\ y) \/ (k = "close" /\ c.sender = "none")
  PROVE  Fits(c, m, k, y, a)
  BY DEF Fits

Even(c) == /\ c.sender # "bare" /\ (c.option <=> c.flag)
           /\ c.sender = "none" => ~c.option /\ ~c.transport

LEMMA SendFits ==
  ASSUME NEW c \in Client, Even(c), NEW m \in Media, m # "share", NEW b \in BOOLEAN, NEW y
  PROVE  Fits(SendAs(c, b), m, "none", y, b)
<1> DEFINE d == EnableMyMedia(c, b)
<1>1. d \in Client /\ Even(d) /\ d.mine = b /\ d.link = c.link
  BY DEF EnableMyMedia, Client, Even
<1> HIDE DEF d
<1>2. CASE b
  <2>1. SendAs(c, b) = StartMediaSending(d)
    BY <1>2 DEF SendAs, d
  <2>2. CASE d.flag \/ d.sender = "none"
    BY <1>1, <1>2, <2>1, <2>2 DEF StartMediaSending, Even, Fits
  <2>3. CASE ~d.flag /\ d.sender = "track"
    BY <1>1, <1>2, <2>1, <2>3 DEF StartMediaSending, Even, Fits, Client
  <2>4. QED BY <1>1, <2>2, <2>3 DEF Even, Client
<1>3. CASE ~b
  <2>1. SendAs(c, b) = StopMediaSending(d)
    BY <1>3 DEF SendAs, d
  <2>2. CASE d.flag /\ d.sender # "none"
    BY <1>1, <1>3, <2>1, <2>2 DEF StopMediaSending, Even, Fits, Client
  <2>3. CASE ~(d.flag /\ d.sender # "none")
    BY <1>1, <1>3, <2>1, <2>3 DEF StopMediaSending, Even, Fits
  <2>4. QED BY <2>2, <2>3
<1>4. QED BY <1>2, <1>3

LEMMA ShareFits ==
  ASSUME NEW c \in Client, c.sender # "bare", NEW y, NEW z, NEW a, Fits(c, "share", "none", z, a)
  PROVE  Fits(StartMediaSending([c EXCEPT !.link = "connected"]), "share", "none", y, a)
<1> DEFINE d == [c EXCEPT !.link = "connected"]
<1>1. /\ d \in Client /\ d.link = "connected" /\ d.sender = c.sender /\ d.flag = c.flag /\ d.option = c.option
      /\ d.mine = c.mine
  BY DEF Client
<1> HIDE DEF d
<1>2. CASE d.flag \/ ~d.mine \/ d.sender = "none"
  BY <1>1, <1>2 DEF StartMediaSending, Fits
<1>3. CASE ~d.flag /\ d.mine /\ d.sender = "track"
  BY <1>1, <1>3 DEF StartMediaSending, Fits, Client
<1>4. QED BY <1>1, <1>2, <1>3 DEF Client, d

LEMMA DeleteFits ==
  ASSUME NEW c \in Client, NEW m \in Media, NEW h, NEW y, NEW a, Fits(c, m, h, y, a)
  PROVE  /\ h = "uninit" => Fits(DeleteMediaClient(c), m, "close", y, a)
         /\ h = "none" /\ ~c.flag /\ ~c.transport => Fits(DeleteMediaClient(c), m, "none", y, a)
<1> DEFINE d == DeleteMediaClient(c)
<1>1. d.sender = "none" /\ ~d.option /\ d.flag = c.flag /\ d.mine = c.mine /\ d.link = c.link
      /\ d.transport = c.transport
  BY DEF DeleteMediaClient, Client
<1> HIDE DEF d
<1>2. QED BY <1>1 DEF Fits, d

LEMMA CreateFits ==
  ASSUME NEW c \in Client, NEW m \in Media, NEW h \in {"none", "init"}, NEW x, NEW y, NEW a, Fits(c, m, h, x, a),
         m # "share" => c.link = "idle" \/ c.sender # "none"
  PROVE  /\ Fits(CreateMediaClient(c, m, {}), m, "link", y, a)
         /\ m # "share" => Fits(CreateMediaClient(c, m, {}), m, "none", y, a)
<1> DEFINE d == CreateMediaClient(c, m, {})
<1>1. /\ d.sender # "none" /\ d.option = c.option /\ d.flag = c.flag /\ d.mine = c.mine /\ d.link = c.link
  BY DEF CreateMediaClient, NewEnd, Client
<1> HIDE DEF d
<1>2. QED BY <1>1 DEF Fits, d

LEMMA LinkFits ==
  ASSUME NEW c \in Client, c.sender # "bare", NEW m \in Media, NEW h \in BOOLEAN, NEW b \in BOOLEAN,
         NEW x, NEW y, NEW a, Fits(c, m, "link", x, a), m # "share" => c.link = "idle"
  PROVE  Fits(IF m = "share" THEN SendAs(Connect(c, h), h) ELSE StopUnlessAsked(Connect(c, h), b), m, "none", y, a)
<1> DEFINE d == Connect(c, h)
<1>1. /\ d \in Client /\ d.sender = c.sender /\ d.option = c.option /\ d.flag = c.flag /\ d.mine = c.mine
      /\ d.link = IF c.link = "connected" THEN "connected" ELSE IF h THEN "waiting" ELSE "connecting"
  BY DEF Connect, Client
<1> HIDE DEF d
<1>2. ASSUME NEW v \in BOOLEAN
      PROVE  LET e == EnableMyMedia(d, v)
             IN /\ e \in Client /\ e.sender = d.sender /\ e.option = d.option /\ e.flag = d.flag
                /\ e.mine = v /\ e.link = d.link
  BY <1>1 DEF EnableMyMedia, Client
<1>3. CASE m = "share"
  <2> DEFINE e == EnableMyMedia(d, h)
  <2>1. /\ e \in Client /\ e.sender = d.sender /\ e.option = d.option /\ e.flag = d.flag
        /\ e.mine = h /\ e.link = d.link
    BY <1>2
  <2>2. SendAs(d, h) = IF h THEN StartMediaSending(e) ELSE StopMediaSending(e)
    BY DEF SendAs
  <2> HIDE DEF e
  <2>3. CASE h
    <3>1. CASE e.flag \/ e.sender = "none"
      BY <1>1, <1>3, <2>1, <2>2, <2>3, <3>1 DEF StartMediaSending, Fits, d
    <3>2. CASE ~e.flag /\ e.sender = "track"
      <4> DEFINE f == [e EXCEPT !.flag = TRUE, !.option = TRUE]
      <4>1. f.sender = d.sender /\ f.flag /\ f.option /\ f.mine = h /\ f.link = d.link
        BY <2>1 DEF Client
      <4>2. SendAs(d, h) = f
        <5>1. e.sender # "none" /\ e.sender # "bare" /\ ~e.flag /\ e.mine
          BY <2>1, <2>3, <3>2
        <5>2. QED BY <2>2, <2>3, <5>1 DEF StartMediaSending
      <4> HIDE DEF f
      <4>3. f.mine /\ f.link # "connecting" /\ f.sender # "none"
        BY <1>1, <2>1, <2>3, <3>2, <4>1
      <4>4. Fits(f, m, "none", y, a)
        BY <1>3, <4>1, <4>3 DEF Fits
      <4>5. QED BY <1>3, <4>2, <4>4 DEF d
    <3>3. QED BY <1>1, <2>1, <3>1, <3>2 DEF Client
  <2>4. CASE ~h
    <3>1. CASE e.flag /\ e.sender # "none"
      BY <1>1, <1>3, <2>1, <2>2, <2>4, <3>1 DEF StopMediaSending, Fits, Client, d
    <3>2. CASE ~(e.flag /\ e.sender # "none")
      BY <1>1, <1>3, <2>1, <2>2, <2>4, <3>2 DEF StopMediaSending, Fits, d
    <3>3. QED BY <3>1, <3>2
  <2>5. QED BY <2>3, <2>4
<1>4. CASE m # "share"
  <2>1. d.link # "connected" /\ (d.option <=> d.flag) /\ d.sender # "none"
    BY <1>1, <1>4 DEF Fits
  <2>2. CASE b
    <3>1. StopUnlessAsked(d, b) = EnableMyMedia(d, TRUE)
      BY <2>2 DEF StopUnlessAsked
    <3>2. /\ EnableMyMedia(d, TRUE).sender = d.sender /\ EnableMyMedia(d, TRUE).option = d.option
          /\ EnableMyMedia(d, TRUE).flag = d.flag /\ EnableMyMedia(d, TRUE).link = d.link
      BY <1>2
    <3>3. QED BY <1>4, <2>1, <3>1, <3>2 DEF Fits, d
  <2>3. CASE ~b
    <3> DEFINE e == EnableMyMedia(d, FALSE)
    <3>1. StopUnlessAsked(d, b) = StopMediaSending(e)
      BY <2>3 DEF StopUnlessAsked
    <3>2. e \in Client /\ e.sender = d.sender /\ e.option = d.option /\ e.flag = d.flag /\ e.link = d.link
      BY <1>2
    <3> HIDE DEF e
    <3>3. CASE e.flag /\ e.sender # "none"
      BY <1>4, <2>1, <3>1, <3>2, <3>3 DEF StopMediaSending, Fits, Client, d
    <3>4. CASE ~(e.flag /\ e.sender # "none")
      BY <1>4, <2>1, <3>1, <3>2, <3>4 DEF StopMediaSending, Fits, d
    <3>5. QED BY <3>3, <3>4
  <2>4. QED BY <2>2, <2>3
<1>5. QED BY <1>3, <1>4

LEMMA CloseFits ==
  ASSUME NEW c \in Client, c.sender = "none", NEW m \in Media, NEW does \in BOOLEAN, NEW y, NEW a,
         Fits(c, m, "close", does, a), m # "share" /\ c.transport => does
  PROVE  Fits(IF does THEN DisConnect(c) ELSE c, m, "none", y, a)
<1>1. CASE does
  <2> DEFINE d == DisConnect(c)
  <2>1. d.sender = "none" /\ d.option = c.option /\ ~d.flag /\ d.link = "idle" /\ ~d.transport
    BY DEF DisConnect, Client
  <2> HIDE DEF d
  <2>2. QED BY <1>1, <2>1 DEF Fits, d
<1>2. CASE ~does
  BY <1>2 DEF Fits
<1>3. QED BY <1>1, <1>2

(* The two ways in which a connection is lost. *)
LEMMA LostFits ==
  ASSUME NEW c \in Client, NEW m \in Media, NEW x, NEW y, NEW a, Fits(c, m, "none", x, a),
         NEW l \in {"waiting", "idle"}, m # "share" => y
  PROVE  LET d == [c EXCEPT !.link = l]
         IN /\ c.link = "connecting" => Fits(d, m, "uninit", y, a)
            /\ Fits(IF m = "share" THEN StopMediaSending(d) ELSE [d EXCEPT !.flag = FALSE], m, "uninit", y, a)
<1> DEFINE d == [c EXCEPT !.link = l]
<1>1. /\ d \in Client /\ d.link = l /\ d.sender = c.sender /\ d.flag = c.flag /\ d.option = c.option
      /\ d.mine = c.mine /\ d.transport = c.transport
  BY DEF Client
<1> HIDE DEF d
<1>2. c.link = "connecting" => Fits(d, m, "uninit", y, a)
  BY <1>1 DEF Fits
<1>3. CASE m = "share"
  <2>1. ASSUME d.flag /\ d.sender # "none" PROVE Fits(StopMediaSending(d), m, "uninit", y, a)
    BY <1>1, <1>3, <2>1 DEF StopMediaSending, Fits, Client
  <2>2. ASSUME ~(d.flag /\ d.sender # "none") PROVE Fits(StopMediaSending(d), m, "uninit", y, a)
    BY <1>1, <1>3, <2>2 DEF StopMediaSending, Fits
  <2>3. Fits(StopMediaSending(d), m, "uninit", y, a)
    BY <2>1, <2>2
  <2>4. QED BY <1>2, <1>3, <2>3 DEF d
<1>4. CASE m # "share"
  <2>1. Fits([d EXCEPT !.flag = FALSE], m, "uninit", y, a)
    BY <1>1, <1>4 DEF Fits, Client
  <2>2. QED BY <1>2, <1>4, <2>1 DEF d
<1>5. QED BY <1>3, <1>4

(* What a step does to the media that are not its own. *)
LEMMA HandNone ==
  ASSUME stack # <<>> => Top.box
  PROVE  \A m \in Media : Hand(m) = "none"
  BY DEF Hand

LEMMA HandAt ==
  ASSUME Typed, NEW step \in Steps, At(step), step # "end"
  PROVE  \A m \in Media : Hand(m) = IF m = Current(Top.op, Top.todo) THEN step ELSE "none"
<1>1. Top.todo # {}
  BY AtFacts
<1>2. QED BY <1>1 DEF Hand, At

LEMMA HandThen ==
  ASSUME stack' # <<>>, stack'[1].op = Top.op, stack'[1].todo = Top.todo, Top.todo # {}, NEW box \in BOOLEAN,
         stack'[1].box = box, NEW m \in Media
  PROVE  Hand(m)' = IF m = Current(Top.op, Top.todo) /\ ~box THEN stack'[1].next ELSE "none"
  BY DEF Hand, Top

LEMMA SentStep ==
  ASSUME Typed, Sound, Doors, Sent, [Next]_vars
  PROVE  Sent'
<1> USE MediaFacts
<1> SUFFICES ASSUME fails' = 0, "preview" \notin upset'
             PROVE  \A m \in Media : Fits(client'[m], m, Hand(m)', Does(m)', Asked(m)')
  BY DEF Sent
<1>1. /\ client \in [Media -> Client] /\ \A m \in Media : client[m] \in Client
      /\ stack \in Seq(Frame) /\ (stack # <<>> => 1 \in 1..Len(stack) /\ Top \in Frame /\ Top = stack[1])
      /\ check \in [AV -> BOOLEAN] /\ \A m \in AV : check[m] \in BOOLEAN
      /\ active \in [AV -> BOOLEAN] /\ host \in BOOLEAN /\ connectOn \in BOOLEAN
  BY DEF Typed, TypeOK, Top
<1>2. fails = 0 /\ "preview" \notin upset
  <2>1. upset \subseteq upset'
    <3>1. ASSUME NEW W \in SUBSET Media, NEW h \in BOOLEAN, NEW ok \in BOOLEAN, ClickConnect(W, h, ok)
          PROVE  upset \subseteq upset'
      BY <3>1 DEF ClickConnect
    <3>2. ASSUME NEW bare \in SUBSET {"sender", "receiver"}, InitClient(bare) PROVE upset \subseteq upset'
      BY <3>2 DEF InitClient
    <3>3. ASSUME NEW m \in AV, CheckSend(m) PROVE upset \subseteq upset'
      BY <3>3 DEF CheckSend
    <3>4. ASSUME NEW m \in Media, OnConnected(m) \/ OnConnectFailed(m) \/ OnDisConnected(m)
          PROVE  upset \subseteq upset'
      BY <3>4 DEF OnConnected, OnConnectFailed, OnDisConnected
    <3>5. CASE Link \/ ClickDisconnect \/ Uninit \/ Close \/ Finish \/ CloseBox
      BY <3>5 DEF Link, ClickDisconnect, Uninit, Close, Finish, CloseBox
    <3>6. ASSUME NEW close \in BOOLEAN, NEW ok \in BOOLEAN, NEW bare \in SUBSET {"sender", "receiver"},
                 Preview(close, bare, ok)
          PROVE  upset \subseteq upset'
      BY <3>6 DEF Preview
    <3>7. CASE UNCHANGED vars
      BY <3>7 DEF vars
    <3>8. QED BY <3>1, <3>2, <3>3, <3>4, <3>5, <3>6, <3>7 DEF Next
  <2>2. QED BY <2>1, FailsStay
<1>3. \A m \in Media : Fits(client[m], m, Hand(m), Does(m), Asked(m))
  BY <1>2 DEF Sent
<1>4. Framed /\ \A m \in Media : Wired(client[m], m) /\ client[m].sender # "bare"
  BY <1>2 DEF Sound, Wired
<1>5. Nested /\ Opened
  BY DEF Doors
<1>6. \A m \in AV : client[m].link # "idle" => active[m]
  BY <1>5 DEF Opened
<1>7. Listening => \A m \in Media : Hand(m) = "none"
  BY HandNone DEF Listening
<1>8. \A m \in AV : Hand(m) = "none" => Even(client[m])
  <2>1. \A m \in AV : m # "share"
    BY DEF AV
  <2>2. QED BY <1>3, <1>4, <2>1 DEF Even, Fits
(* A medium that no one touches. *)
<1>9. ASSUME NEW m \in Media, client'[m] = client[m], Hand(m) = "none", Asked(m)' = Asked(m),
             Hand(m)' \in {"none", "init"} \/ (Hand(m)' = "uninit" /\ Does(m)')
                \/ (Hand(m)' = "close" /\ client[m].sender = "none")
      PROVE  Fits(client'[m], m, Hand(m)', Does(m)', Asked(m)')
  BY <1>3, <1>9, FitsOn
<1>10. check' = check => \A m \in Media : Asked(m)' = Asked(m)
  BY DEF Asked
<1>11. stack' = <<>> \/ (stack' = stack /\ Listening) => \A m \in Media : Hand(m)' = "none"
  BY <1>7 DEF Hand, Listening, Top
<1>12. ASSUME NEW m \in AV, CheckSend(m)
       PROVE  \A n \in Media : Fits(client'[n], n, Hand(n)', Does(n)', Asked(n)')
  <2> DEFINE c == SendAs(client[m], ~check[m])
  <2>1. /\ client' = [client EXCEPT ![m] = c] /\ check' = [check EXCEPT ![m] = ~check[m]]
        /\ stack = <<>> /\ stack' = <<>>
    BY <1>12 DEF CheckSend, Quiet
  <2>2. \A n \in Media : Hand(n) = "none" /\ Hand(n)' = "none"
    BY <2>1 DEF Hand
  <2>3. m \in Media /\ m # "share" /\ (~check[m]) \in BOOLEAN /\ Even(client[m])
    BY <1>8, <2>2 DEF AV
  <2>4. c \in Client
    BY <1>1, <2>3, SendingKeeps
  <2>5. Asked(m)' = ~check[m] /\ \A n \in Media : n # m => Asked(n)' = Asked(n)
    BY <1>1, <2>1, <2>3 DEF Asked
  <2>6. Fits(c, m, "none", Does(m)', ~check[m])
    BY <1>1, <2>3, SendFits
  <2> HIDE DEF c
  <2>7. client'[m] = c /\ \A n \in Media : n # m => client'[n] = client[n]
    BY <1>1, <2>1, <2>3, <2>4, OneMedium
  <2>8. QED BY <1>9, <2>2, <2>5, <2>6, <2>7
(* The preview's client is deleted or made. *)
<1>13. ASSUME NEW bare \in SUBSET {"sender", "receiver"}, NEW ok \in BOOLEAN, NEW open \in BOOLEAN,
              Toggle(bare, ok, open), Listening, Spoilt(ok) \subseteq upset', check' = check,
              \A n \in Media : Hand(n)' \in {"none", "init"}
       PROVE  \A n \in Media : Fits(client'[n], n, Hand(n)', Does(n)', Asked(n)')
  <2> DEFINE v == client["video"]
             c == IF ~preview THEN CreateMediaClient(v, "video", {}) ELSE DeleteMediaClient(v)
  <2>1. \A n \in Media : Hand(n) = "none"
    BY <1>7, <1>13
  <2>2. ok /\ bare = {}
    BY <1>13, ToggleKeeps
  <2>3. client' = [client EXCEPT !["video"] = c]
    BY <1>13, <2>2 DEF Toggle
  <2>4. /\ v \in Client /\ "video" # "share" /\ "video" \in AV /\ {} \in SUBSET {"sender", "receiver"}
        /\ Fits(v, "video", "none", Does("video"), Asked("video"))
    BY <1>1, <1>3, <2>1 DEF AV
  <2>5. c \in Client /\ Fits(c, "video", "none", Does("video")', Asked("video"))
    <3>1. CASE preview
      <4>1. ~v.flag /\ ~v.transport
        BY <1>13, <2>2, <3>1 DEF Spoilt
      <4> HIDE DEF v
      <4>2. c \in Client /\ Fits(c, "video", "none", Does("video"), Asked("video"))
        BY <2>4, <3>1, <4>1, DeleteKeeps, DeleteFits
      <4> HIDE DEF c
      <4>3. QED BY <4>2, FitsOn
    <3>2. CASE ~preview
      <4>1. v.link = "idle" \/ v.sender # "none"
        <5>1. v.link # "idle" => v.transport
          BY <1>5 DEF Opened, Open
        <5>2. QED BY <2>4, <5>1 DEF Fits
      <4> HIDE DEF v
      <4>2. QED BY <2>4, <3>2, <4>1, CreateKeeps, CreateFits
    <3>3. QED BY <3>1, <3>2
  <2> HIDE DEF c
  <2>6. client'["video"] = c /\ \A n \in Media : n # "video" => client'[n] = client[n]
    BY <1>1, <2>3, <2>5, OneMedium
  <2>7. Asked("video")' = Asked("video")
    BY <1>10, <1>13
  <2>8. Fits(client'["video"], "video", Hand("video")', Does("video")', Asked("video")')
    BY <1>13, <2>5, <2>6, <2>7, FitsOn
  <2>9. QED BY <1>9, <1>10, <1>13, <2>1, <2>6, <2>8
<1>14. ASSUME NEW close \in BOOLEAN, NEW ok \in BOOLEAN, NEW bare \in SUBSET {"sender", "receiver"},
              Preview(close, bare, ok)
       PROVE  \A n \in Media : Fits(client'[n], n, Hand(n)', Does(n)', Asked(n)')
  <2>1. /\ Toggle(bare, ok, window /\ ~close) /\ (window /\ ~close) \in BOOLEAN /\ Listening
        /\ Spoilt(ok) \subseteq upset' /\ check' = check
    BY <1>14 DEF Preview, Quiet, Listening
  <2>2. stack' = stack
    BY <1>14, <2>1, ToggleKeeps DEF Preview
  <2>3. \A n \in Media : Hand(n)' = "none"
    BY <1>11, <2>1, <2>2
  <2>4. QED BY <1>13, <2>1, <2>3
<1>15. ASSUME NEW W \in SUBSET Media, NEW h \in BOOLEAN, NEW ok \in BOOLEAN, ClickConnect(W, h, ok)
       PROVE  \A n \in Media : Fits(client'[n], n, Hand(n)', Does(n)', Asked(n)')
  <2>1. stack = <<>> /\ Listening /\ check' = check /\ Spoilt(ok) \subseteq upset'
    BY <1>15 DEF ClickConnect, Quiet, Listening
  <2>2. stack'[1].next = "init"
    BY <1>15, ClickKeeps
  <2>3. \A n \in Media : Hand(n) = "none" /\ Hand(n)' \in {"none", "init"}
    BY <2>1, <2>2 DEF Hand, Top
  <2>4. CASE preview
    <3>1. Toggle({}, ok, window) /\ window \in BOOLEAN
      BY <1>15, <2>4 DEF ClickConnect, Typed, TypeOK
    <3>2. QED BY <1>13, <2>1, <2>3, <3>1
  <2>5. CASE ~preview
    <3>1. client' = client
      BY <1>15, <2>5 DEF ClickConnect
    <3>2. QED BY <1>9, <1>10, <2>1, <2>3, <3>1
  <2>6. QED BY <2>4, <2>5
<1>16. CASE ClickDisconnect
  <2>1. stack = <<>> /\ stack' = Call("disconnect", wanted, "uninit") /\ wanted \in SUBSET Media
        /\ check' = check /\ client' = client
    BY <1>16 DEF ClickDisconnect, Quiet, dialogVars, Typed, TypeOK
  <2>2. stack'[1].next = "uninit" /\ stack'[1].op = "disconnect"
    BY <2>1, CallKeeps DEF Steps
  <2>3. \A n \in Media : Hand(n) = "none" /\ (Hand(n)' = "none" \/ (Hand(n)' = "uninit" /\ Does(n)'))
    BY <2>1, <2>2 DEF Hand, Top, Does
  <2>4. QED BY <1>9, <1>10, <2>1, <2>3
(* A connection is lost. *)
<1>17. ASSUME NEW m \in Media, Lost(m), Listening, client[m].link # "idle", UNCHANGED <<check, active>>,
              NEW c \in Client, client' = [client EXCEPT ![m] = c],
              \A y, a : (m # "share" => y) /\ Fits(client[m], m, "none", Does(m), a) => Fits(c, m, "uninit", y, a)
       PROVE  \A n \in Media : Fits(client'[n], n, Hand(n)', Does(n)', Asked(n)')
  <2>1. /\ stack' # <<>> /\ stack'[1].op = "lost" /\ stack'[1].todo = {m} /\ stack'[1].next = "uninit"
        /\ ~stack'[1].box
    BY <1>17, CallKeeps DEF Lost, Steps
  <2>2. \A n \in Media : Hand(n) = "none"
    BY <1>7, <1>17
  <2>3. Current("lost", {m}) = m
    BY CurrentIn
  <2>4. \A n \in Media : Hand(n)' = IF n = m THEN "uninit" ELSE "none"
    BY <2>1, <2>3 DEF Hand, Top
  <2>5. m # "share" => Does(m)'
    <3>1. m # "share" => active[m]
      BY <1>6, <1>17
    <3>2. QED BY <1>17, <3>1 DEF Does, StatusOf
  <2>6. client'[m] = c /\ \A n \in Media : n # m => client'[n] = client[n]
    BY <1>1, <1>17, OneMedium
  <2>7. Fits(client[m], m, "none", Does(m), Asked(m))
    BY <1>3, <2>2
  <2>8. Fits(c, m, "uninit", Does(m)', Asked(m))
    BY <1>17, <2>5, <2>7
  <2>9. QED BY <1>9, <1>10, <1>17, <2>2, <2>4, <2>6, <2>8
<1>18. ASSUME NEW m \in Media, OnConnectFailed(m)
       PROVE  \A n \in Media : Fits(client'[n], n, Hand(n)', Does(n)', Asked(n)')
  <2> DEFINE c == [client[m] EXCEPT !.link = "idle"]
  <2>1. client' = [client EXCEPT ![m] = c] /\ client[m].link = "connecting" /\ Lost(m) /\ Listening
        /\ UNCHANGED <<check, active>>
    BY <1>18 DEF OnConnectFailed, dialogVars
  <2>2. client[m] \in Client
    BY <1>1
  <2>3. c \in Client
    BY <2>2, LinkDoor
  <2>4. \A y, a : (m # "share" => y) /\ Fits(client[m], m, "none", Does(m), a) => Fits(c, m, "uninit", y, a)
    BY <2>1, <2>2, LostFits
  <2> HIDE DEF c
  <2>5. QED BY <1>17, <2>1, <2>3, <2>4
<1>19. ASSUME NEW m \in Media, OnDisConnected(m)
       PROVE  \A n \in Media : Fits(client'[n], n, Hand(n)', Does(n)', Asked(n)')
  <2> DEFINE l == IF client[m].listens THEN "waiting" ELSE "idle"
             d == [client[m] EXCEPT !.link = l]
             e == [d EXCEPT !.flag = FALSE]
             c == IF m = "share" THEN StopMediaSending(d) ELSE e
  <2>1. client' = [client EXCEPT ![m] = c] /\ client[m].link # "idle" /\ Lost(m) /\ Listening
        /\ UNCHANGED <<check, active>>
    BY <1>19 DEF OnDisConnected, dialogVars
  <2>2. client[m] \in Client /\ l \in {"waiting", "idle"}
    BY <1>1
  <2> HIDE DEF l
  <2>3. c \in Client
    <3>1. d \in Client /\ e \in Client
      BY <2>2, LinkDoor
    <3> HIDE DEF d, e
    <3>2. QED BY <3>1, SendingKeeps
  <2>4. \A y, a : (m # "share" => y) /\ Fits(client[m], m, "none", Does(m), a) => Fits(c, m, "uninit", y, a)
    BY <2>2, LostFits
  <2> HIDE DEF c
  <2>5. QED BY <1>17, <2>1, <2>3, <2>4
<1>20. ASSUME NEW m \in Media, OnConnected(m)
       PROVE  \A n \in Media : Fits(client'[n], n, Hand(n)', Does(n)', Asked(n)')
  <2> DEFINE c == [client[m] EXCEPT !.link = "connected"]
             d == IF m = "share" THEN StartMediaSending(c) ELSE c
             up == [client EXCEPT ![m] = d]
             k == IF m = "audio" THEN "audio" ELSE "video"
  <2>1. client' = [up EXCEPT ![k] = SendAs(up[k], check[k])] /\ stack' = stack /\ Listening /\ check' = check
    BY <1>20 DEF OnConnected, dialogVars
  <2>2. \A n \in Media : Hand(n) = "none" /\ Hand(n)' = "none" /\ Asked(n)' = Asked(n)
    BY <1>7, <1>10, <1>11, <2>1
  <2>3. client[m] \in Client
    BY <1>1
  <2>4. c \in Client /\ (Even(client[m]) => Even(c))
    <3>1. c \in Client /\ c.sender = client[m].sender /\ c.option = client[m].option /\ c.flag = client[m].flag
          /\ c.transport = client[m].transport
      BY <2>3 DEF Client
    <3>2. QED BY <3>1 DEF Even
  <2>5. m = "share" => Fits(StartMediaSending(c), m, "none", Does(m)', Asked(m))
    BY <1>3, <1>4, <2>2, <2>3, ShareFits
  <2> HIDE DEF c
  <2>6. d \in Client
    BY <2>4, SendingKeeps
  <2>7. m = "share" => Fits(d, m, "none", Does(m)', Asked(m))
    BY <2>5
  <2>8. m # "share" => Even(d)
    BY <1>8, <2>2, <2>4
  <2> HIDE DEF d
  <2>9. up \in [Media -> Client] /\ up[m] = d /\ \A n \in Media : n # m => up[n] = client[n]
    BY <1>1, <2>6, OneMedium
  <2>10. k \in Media /\ k # "share" /\ check[k] \in BOOLEAN /\ (m # "share" => k = m) /\ Asked(k) = check[k]
    BY <1>1 DEF AV, Asked, Media
  <2> HIDE DEF up, k
  <2>11. up[k] \in Client /\ Even(up[k])
    BY <1>8, <2>2, <2>8, <2>9, <2>10
  <2>12. SendAs(up[k], check[k]) \in Client /\ \A y : Fits(SendAs(up[k], check[k]), k, "none", y, check[k])
    BY <2>10, <2>11, SendingKeeps, SendFits
  <2>13. client'[k] = SendAs(up[k], check[k]) /\ \A n \in Media : n # k => client'[n] = up[n]
    BY <2>1, <2>9, <2>10, <2>12, OneMedium
  <2>14. ASSUME NEW n \in Media PROVE Fits(client'[n], n, Hand(n)', Does(n)', Asked(n)')
    <3>1. CASE n = k
      BY <2>2, <2>10, <2>12, <2>13, <3>1
    <3>2. CASE n # k /\ n = m
      BY <2>2, <2>7, <2>9, <2>10, <2>13, <3>2
    <3>3. CASE n # k /\ n # m
      BY <1>9, <2>2, <2>9, <2>13, <3>3
    <3>4. QED BY <3>1, <3>2, <3>3
  <2>15. QED BY <2>14
<1>21. ASSUME NEW bare \in SUBSET {"sender", "receiver"}, InitClient(bare)
       PROVE  \A n \in Media : Fits(client'[n], n, Hand(n)', Does(n)', Asked(n)')
  <2>1. PICK m \in Media : m = Current(Top.op, Top.todo)
    BY <1>21, AtFacts DEF InitClient, Steps
  <2> DEFINE c == CreateMediaClient(client[m], m, {})
             failed == IF m = "share" THEN ~host /\ c.receiver = "bare" ELSE "bare" \in {c.sender, c.receiver}
  <2>2. bare = {}
    <3>1. fails' = IF bare = {} THEN fails ELSE fails + 1
      BY <1>21 DEF InitClient
    <3>2. QED BY <1>2, <3>1
  <2>3. /\ stack # <<>> /\ m \in Top.todo /\ Top.todo # {} /\ Top.next = "init" /\ Top \in Frame
        /\ client' = [client EXCEPT ![m] = c] /\ stack' = Then("link", failed) /\ check' = check
    <3>1. stack # <<>> /\ Top.todo # {} /\ Top.todo \in SUBSET Media /\ Top.next = "init" /\ Top \in Frame
      BY <1>21, AtFacts DEF InitClient, Steps, Frame
    <3>2. QED BY <1>21, <2>1, <2>2, <3>1, CurrentIn DEF InitClient, dialogVars
  <2>4. \A n \in Media : Hand(n) = IF n = m THEN "init" ELSE "none"
    BY <1>21, <2>1, HandAt DEF InitClient, Steps
  <2>5. Top.op = "connect"
    BY <1>1, <1>4, <2>3 DEF Framed
  <2>6. m # "share" => client[m].link = "idle"
    <3>1. m # "share" => ~Open(m)
      BY <1>1, <1>5, <2>3, <2>5 DEF Opened
    <3>2. QED BY <1>5, <3>1 DEF Opened
  <2>7. client[m] \in Client /\ {} \in SUBSET {"sender", "receiver"} /\ Wired(client[m], m)
    BY <1>1, <1>4
  <2>8. c \in Client /\ Wired(c, m)
    BY <2>7, CreateKeeps
  <2>9. Fits(c, m, "link", Does(m)', Asked(m))
    BY <1>3, <2>4, <2>6, <2>7, CreateFits
  <2> HIDE DEF c
  <2>10. failed = FALSE
    BY <2>8 DEF Wired
  <2> HIDE DEF failed
  <2>11. stack' # <<>> /\ stack'[1].op = Top.op /\ stack'[1].todo = Top.todo /\ stack'[1].next = "link"
         /\ stack'[1].box = FALSE
    BY <2>3, <2>10, ThenKeeps DEF Steps
  <2>12. \A n \in Media : Hand(n)' = IF n = m THEN "link" ELSE "none"
    BY <2>1, <2>3, <2>11, HandThen
  <2>13. client'[m] = c /\ \A n \in Media : n # m => client'[n] = client[n]
    BY <1>1, <2>3, <2>8, OneMedium
  <2>14. QED BY <1>9, <1>10, <2>3, <2>4, <2>9, <2>12, <2>13
(* What is in hand once a handler is done with a medium. *)
<1>22. ASSUME NEW step \in {"init", "uninit"}, NEW box \in BOOLEAN, stack # <<>>, Top.todo # {},
              stack' = NextMedium(step, box), Top.op = "lost" => box
       PROVE  \A n \in Media : Hand(n)' = "none" \/ (Hand(n)' = step /\ Top.op # "lost" /\ (Top.op = "disconnect" => Does(n)'))
  <2>1. /\ stack' # <<>> /\ stack'[1].op = Top.op /\ stack'[1].box = box
        /\ stack'[1].next = IF stack'[1].todo = {} THEN "end" ELSE step
    BY <1>22, NextKeeps DEF Steps
  <2>2. QED BY <1>22, <2>1 DEF Hand, Top, Does
<1>23. CASE Link
  <2>1. PICK m \in Media : m = Current(Top.op, Top.todo)
    BY <1>23, AtFacts DEF Link, Steps
  <2> DEFINE c == Connect(client[m], host)
             d == IF m = "share" THEN SendAs(c, host) ELSE StopUnlessAsked(c, check[m])
             box == m = "share" /\ c.sender = "bare"
  <2>2. /\ stack # <<>> /\ m \in Top.todo /\ Top.todo # {} /\ Top.next = "link" /\ Top \in Frame
        /\ client' = [client EXCEPT ![m] = d] /\ stack' = NextMedium("init", box) /\ check' = check
    <3>1. stack # <<>> /\ Top.todo # {} /\ Top.todo \in SUBSET Media /\ Top.next = "link" /\ Top \in Frame
      BY <1>23, AtFacts DEF Link, Steps, Frame
    <3>2. QED BY <1>23, <2>1, <3>1, CurrentIn DEF Link, dialogVars
  <2>3. \A n \in Media : Hand(n) = IF n = m THEN "link" ELSE "none"
    BY <1>23, <2>1, HandAt DEF Link, Steps
  <2>4. Top.op = "connect"
    BY <1>1, <1>4, <2>2 DEF Framed
  <2>5. m # "share" => client[m].link = "idle" /\ check[m] \in BOOLEAN
    <3>1. m # "share" => ~Open(m)
      BY <1>1, <1>5, <2>2, <2>4 DEF Opened
    <3>2. QED BY <1>1, <1>5, <3>1 DEF Opened
  <2>6. client[m] \in Client /\ client[m].sender # "bare"
    BY <1>1, <1>4
  <2>7. d \in Client
    <3>1. c \in Client
      BY <1>1, <2>6, ConnectKeeps
    <3> HIDE DEF c
    <3>2. QED BY <1>1, <2>5, <3>1, SendingKeeps
  <2>8. Fits(d, m, "none", Does(m)', Asked(m))
    <3>1. Fits(client[m], m, "link", Does(m), Asked(m))
      BY <1>3, <2>3
    <3>2. CASE m = "share"
      BY <1>1, <2>6, <3>1, <3>2, LinkFits
    <3>3. CASE m # "share"
      BY <1>1, <2>5, <2>6, <3>1, <3>3, LinkFits
    <3>4. QED BY <3>2, <3>3
  <2>9. box \in BOOLEAN
    OBVIOUS
  <2> HIDE DEF d, box
  <2>10. \A n \in Media : Hand(n)' \in {"none", "init"}
    BY <1>22, <2>2, <2>4, <2>9
  <2>11. client'[m] = d /\ \A n \in Media : n # m => client'[n] = client[n]
    BY <1>1, <2>2, <2>7, OneMedium
  <2>12. Fits(client'[m], m, Hand(m)', Does(m)', Asked(m)')
    BY <1>10, <2>2, <2>8, <2>10, <2>11, FitsOn
  <2>13. QED BY <1>9, <1>10, <2>2, <2>3, <2>10, <2>11, <2>12
<1>24. CASE Uninit
  <2>1. PICK m \in Media : m = Current(Top.op, Top.todo)
    BY <1>24, AtFacts DEF Uninit, Steps
  <2>2. stack # <<>> /\ Top.todo # {} /\ check' = check /\ active' = active
    BY <1>24, AtFacts DEF Uninit, Steps, dialogVars
  <2>3. \A n \in Media : Hand(n) = IF n = m THEN "uninit" ELSE "none"
    BY <1>24, <2>1, HandAt DEF Uninit, Steps
  <2>4. client[m] \in Client /\ Wired(client[m], m)
    BY <1>1, <1>4
  <2>5. ASSUME NEW box \in BOOLEAN, stack' = Then("close", box)
        PROVE  /\ \A n \in Media : Hand(n)' = IF n = m /\ ~box THEN "close" ELSE "none"
               /\ Does(m)' = Does(m)
    <3>1. stack' # <<>> /\ stack'[1].op = Top.op /\ stack'[1].todo = Top.todo /\ stack'[1].next = "close"
          /\ stack'[1].box = box
      BY <2>2, <2>5, ThenKeeps DEF Steps
    <3>2. \A n \in Media : Hand(n)' = IF n = m /\ ~box THEN "close" ELSE "none"
      BY <2>1, <2>2, <2>5, <3>1, HandThen
    <3>3. QED BY <2>2, <3>1, <3>2 DEF Does, StatusOf, Top
  <2>6. Fits(client[m], m, "uninit", Does(m), Asked(m))
    BY <1>3, <2>3
  <2>7. CASE CanStop(client[m])
    <3> DEFINE c == DeleteMediaClient(client[m])
    <3>1. client' = [client EXCEPT ![m] = c] /\ stack' = Then("close", FALSE)
      BY <1>24, <2>1, <2>7 DEF Uninit
    <3>2. c \in Client
      BY <2>4, DeleteKeeps
    <3>3. Fits(c, m, "close", Does(m), Asked(m))
      BY <2>4, <2>6, DeleteFits
    <3> HIDE DEF c
    <3>4. client'[m] = c /\ \A n \in Media : n # m => client'[n] = client[n]
      BY <1>1, <3>1, <3>2, OneMedium
    <3>5. /\ \A n \in Media : Hand(n)' = IF n = m THEN "close" ELSE "none"
          /\ Does(m)' = Does(m)
      BY <2>5, <3>1
    <3>6. QED BY <1>9, <1>10, <2>2, <2>3, <3>3, <3>4, <3>5
  <2>8. CASE ~CanStop(client[m])
    <3>1. client' = client /\ stack' = Then("close", TRUE)
      BY <1>24, <2>1, <2>8 DEF Uninit
    <3>2. client[m].sender = "none"
      <4>1. client[m].sender \in {"none", "track"} /\ client[m].receiver \in {"none", "track"}
        BY <2>4 DEF Wired, Client
      <4>2. QED BY <2>4, <2>8, <4>1 DEF CanStop, Wired
    <3>3. \A n \in Media : Hand(n)' = "none"
      BY <2>5, <3>1
    <3>4. Fits(client[m], m, "none", Does(m)', Asked(m))
      BY <2>6, <3>2 DEF Fits
    <3>5. QED BY <1>9, <1>10, <2>2, <2>3, <3>1, <3>3, <3>4
  <2>9. QED BY <2>7, <2>8
<1>25. CASE Close
  <2>1. PICK m \in Media : m = Current(Top.op, Top.todo)
    BY <1>25, AtFacts DEF Close, Steps
  <2> DEFINE does == Top.op = "disconnect" \/ StatusOf(m)
             c == IF does THEN DisConnect(client[m]) ELSE client[m]
             box == Top.op = "lost"
  <2>2. /\ stack # <<>> /\ Top.todo # {} /\ Top.next = "close" /\ check' = check
        /\ stack' = NextMedium("uninit", box) /\ (does => client' = [client EXCEPT ![m] = c])
        /\ (~does => client' = client)
    <3>1. stack # <<>> /\ Top.todo # {} /\ Top.next = "close"
      BY <1>25, AtFacts DEF Close, Steps
    <3>2. QED BY <1>25, <2>1, <3>1 DEF Close, dialogVars
  <2>3. \A n \in Media : Hand(n) = IF n = m THEN "close" ELSE "none"
    BY <1>25, <2>1, HandAt DEF Close, Steps
  <2>4. client[m] \in Client /\ client[m].sender = "none"
    BY <1>1, <1>4, <2>1, <2>2 DEF Framed
  <2>5. does \in BOOLEAN /\ box \in BOOLEAN
    <3>1. StatusOf(m) \in BOOLEAN
      BY <1>1 DEF StatusOf, AV
    <3>2. QED BY <3>1
  <2>6. Fits(client[m], m, "close", does, Asked(m))
    <3>1. Does(m) = does
      BY DEF Does
    <3>2. QED BY <1>3, <2>3, <3>1
  <2> HIDE DEF does
  <2>7. \A y : Fits(c, m, "none", y, Asked(m))
    <3>1. m # "share" /\ client[m].transport => does
      BY <1>5 DEF Opened, Open, StatusOf, does
    <3>2. QED BY <2>4, <2>5, <2>6, <3>1, CloseFits
  <2>8. c \in Client
    BY <2>4, DisConnectKeeps
  <2> HIDE DEF c
  <2>9. client'[m] = c /\ \A n \in Media : n # m => client'[n] = client[n]
    <3>1. CASE does
      BY <1>1, <2>2, <2>8, <3>1, OneMedium
    <3>2. CASE ~does
      BY <2>2, <3>2 DEF c
    <3>3. QED BY <3>1, <3>2
  <2>10. \A n \in Media : Hand(n)' = "none" \/ (Hand(n)' = "uninit" /\ Does(n)')
    <3>1. \A n \in Media : Hand(n)' = "none"
                           \/ (Hand(n)' = "uninit" /\ Top.op # "lost" /\ (Top.op = "disconnect" => Does(n)'))
      BY <1>22, <2>2, <2>5
    <3>2. Top.op \in {"disconnect", "lost"}
      <4>1. Top.op # "connect" /\ Top.op \in {"connect", "disconnect", "lost", "preview"}
        BY <1>1, <1>4, <2>2 DEF Framed, Frame
      <4>2. QED BY <1>1, <1>5, <2>2, <4>1 DEF Nested
    <3>3. QED BY <3>1, <3>2
  <2>11. Fits(client'[m], m, Hand(m)', Does(m)', Asked(m)')
    BY <1>10, <2>2, <2>7, <2>9, <2>10, FitsOn
  <2>12. QED BY <1>9, <1>10, <2>2, <2>3, <2>9, <2>10, <2>11
<1>26. CASE Finish
  <2>1. stack # <<>> /\ stack' = Tail(stack) /\ client' = client /\ check' = check /\ Top.next = "end"
    BY <1>26 DEF Finish, At, dialogVars
  <2>2. \A n \in Media : Hand(n) = "none"
    <3>1. Top.todo = {}
      BY <1>1, <2>1 DEF Typed
    <3>2. QED BY <3>1 DEF Hand
  <2>3. \A n \in Media : Hand(n)' = "none"
    <3>1. stack' # <<>> => stack'[1].box
      <4>1. ASSUME stack' # <<>> PROVE 1 \in 1..Len(stack')
        BY <1>1, <2>1, <4>1
      <4>2. ASSUME stack' # <<>> PROVE 2 \in 1..Len(stack) /\ stack'[1] = stack[2]
        BY <2>1, <4>1, <4>2, FinishKeeps
      <4>3. QED BY <1>5, <4>2 DEF Nested
    <3>2. QED BY <3>1 DEF Hand, Top
  <2>4. QED BY <1>9, <1>10, <2>1, <2>2, <2>3
<1>27. CASE CloseBox
  <2>1. stack # <<>> /\ stack' = Then(Top.next, FALSE) /\ Top.box /\ Top.next \in Steps
        /\ client' = client /\ check' = check
    <3>1. stack # <<>> /\ stack' = Then(Top.next, FALSE) /\ Top.box /\ client' = client /\ check' = check
      BY <1>27 DEF CloseBox, dialogVars
    <3>2. QED BY <1>1, <3>1 DEF Frame, Steps
  <2>2. \A n \in Media : Hand(n) = "none"
    BY <2>1, HandNone
  <2>3. Top.next \in {"close", "end"}
    BY <1>1, <1>4, <1>5, <2>1 DEF Framed, Nested, Steps
  <2>4. /\ stack' # <<>> /\ stack'[1].op = Top.op /\ stack'[1].todo = Top.todo /\ stack'[1].next = Top.next
        /\ stack'[1].box = FALSE
    BY <2>1, ThenKeeps
  <2>5. CASE Top.todo = {}
    <3>1. \A n \in Media : Hand(n)' = "none"
      BY <2>4, <2>5 DEF Hand, Top
    <3>2. QED BY <1>9, <1>10, <2>1, <2>2, <3>1
  <2>6. CASE Top.todo # {}
    <3>1. Top.next = "close"
      BY <1>1, <2>1, <2>3, <2>6 DEF Typed
    <3>2. \A n \in Media : Hand(n)' = IF n = Current(Top.op, Top.todo) THEN "close" ELSE "none"
      BY <2>4, <2>6, <3>1, HandThen
    <3>3. client[Current(Top.op, Top.todo)].sender = "none"
      BY <1>1, <1>4, <2>1, <3>1 DEF Framed
    <3>4. QED BY <1>9, <1>10, <2>1, <2>2, <3>2, <3>3
  <2>7. QED BY <2>5, <2>6
<1>28. CASE UNCHANGED vars
  BY <1>3, <1>28 DEF vars, Fits, Hand, Does, Asked, Top, StatusOf
<1>29. QED
  BY <1>12, <1>14, <1>15, <1>16, <1>18, <1>19, <1>20, <1>21, <1>23, <1>24, <1>25, <1>26, <1>27, <1>28 DEF Next
-----------------------------------------------------------------------------
LEMMA InitInvariant == Init => IInv
<1> SUFFICES ASSUME Init PROVE IInv
  OBVIOUS
<1>1. client \in [Media -> Client] /\ \A m \in Media : Wired(client[m], m)
  BY DEF Init, Client, Wired
<1>2. stack \in Seq(Frame) /\ Len(stack) = 0
  BY DEF Init
<1>3. Typed
  <2>1. check \in [AV -> BOOLEAN] /\ active \in [AV -> BOOLEAN]
    BY DEF Init
  <2>2. wanted = Media /\ wanted # {} /\ connects = 0 /\ fails = 0 /\ upset = {}
    BY MediaFacts DEF Init
  <2>3. host \in BOOLEAN /\ connectOn \in BOOLEAN /\ preview \in BOOLEAN /\ window \in BOOLEAN
    BY DEF Init
  <2>4. QED BY <1>1, <1>2, <2>1, <2>2, <2>3, DemoAssumption DEF Typed, TypeOK
<1>4. Framed
  BY <1>2 DEF Framed
<1>5. ~window
  BY DEF Init
<1>6. QED BY <1>1, <1>3, <1>4, <1>5 DEF IInv, Sound

(* The dialog keeps its types over any number of connects, of tracks the      *)
(* engine fails to give, and of handlers that run inside each other's boxes.  *)
THEOREM TypeCorrect == Spec => []TypeOK
<1>1. IInv /\ [Next]_vars => IInv'
  BY InvariantStep
<1>2. IInv => TypeOK
  BY DEF IInv, Typed
<1>3. QED BY InitInvariant, <1>1, <1>2, PTL DEF Spec

(* No session is left with a transport that was deleted, and each sender and  *)
(* receiver is wired to the transport of its medium, as long as the engine    *)
(* gives every track: DemoClient::Connect and DeleteMediaClient between them, *)
(* in every order the dialog's handlers call them in.                         *)
THEOREM AlwaysWired == Spec => []WiredUp
<1>1. IInv /\ [Next]_vars => IInv'
  BY InvariantStep
<1>2. IInv => WiredUp
  BY DEF IInv, Sound, Wired, WiredUp
<1>3. QED BY InitInvariant, <1>1, <1>2, PTL DEF Spec

LEMMA InitDoors == Init => Doors /\ Sent
<1> SUFFICES ASSUME Init PROVE Doors /\ Sent
  OBVIOUS
<1>1. stack = <<>> /\ Len(stack) = 0 /\ connectOn
  BY DEF Init
<1>2. \A m \in Media : /\ ~client[m].transport /\ client[m].link = "idle" /\ client[m].sender = "none"
                       /\ client[m].option = FALSE /\ client[m].flag = FALSE
  BY DEF Init
<1>3. \A m \in AV : ~active[m]
  BY DEF Init
<1>4. Nested /\ ~Connecting
  BY <1>1 DEF Nested, Connecting
<1>5. Opened
  BY <1>1, <1>2, MediaFacts DEF Opened, Open
<1>6. Alone
  BY <1>1, <1>2, <1>3, <1>4, MediaFacts DEF Alone, Open
<1>7. \A m \in Media : Hand(m) = "none"
  BY <1>1 DEF Hand
<1>8. Sent
  BY <1>2, <1>7 DEF Sent, Fits
<1>9. QED BY <1>4, <1>5, <1>6, <1>8 DEF Doors

(* Connect is enabled only with every audio and video transport closed, and,  *)
(* without the screen, whenever they are all closed: the buttons that         *)
(* OnBnClickedConnect, OnBnClickedDisconnect and the loss callbacks set, each  *)
(* running to its end inside whichever other's box.                           *)
THEOREM IdleMeansClosed == Spec => []IdleIsClosed
<1>1. IInv /\ [Next]_vars => IInv'
  BY InvariantStep
<1>2. IInv /\ Doors /\ [Next]_vars => Doors'
  BY DoorsStep DEF IInv
<1>3. IInv /\ Doors => IdleIsClosed
  <2> SUFFICES ASSUME Typed, Doors, Quiet PROVE IdleIsClosed
    BY DEF IInv, IdleIsClosed
  <2>1. ~Connecting
    BY DEF Quiet, Connecting
  <2>2. Idle
    BY DEF Quiet, Idle
  <2>3. QED BY <2>1, <2>2 DEF Doors, Opened, Alone, Open, IdleIsClosed
<1>4. QED BY InitInvariant, InitDoors, <1>1, <1>2, <1>3, PTL DEF Spec

(* With no handler under way, a connected medium is sent exactly when the      *)
(* dialog says so, as long as the engine gives every track and no preview      *)
(* deleted a client that a call uses: StartMediaSending and StopMediaSending   *)
(* trust DemoClient's flag, which outlives the sender that it speaks of.       *)
THEOREM SendingAsAsked == Spec => []SendsAsAsked
<1>1. IInv /\ [Next]_vars => IInv'
  BY InvariantStep
<1>2. IInv /\ Doors /\ [Next]_vars => Doors'
  BY DoorsStep DEF IInv
<1>3. IInv /\ Doors /\ Sent /\ [Next]_vars => Sent'
  BY SentStep DEF IInv
<1>4. IInv /\ Sent => SendsAsAsked
  <2> SUFFICES ASSUME Typed, Sent, Quiet, fails = 0, "preview" \notin upset, NEW m \in Media,
                      client[m].link = "connected", client[m].sender = "track"
               PROVE  client[m].option = IF m = "share" THEN client[m].mine ELSE check[m]
    BY DEF IInv, SendsAsAsked
  <2>1. Hand(m) = "none" /\ Fits(client[m], m, Hand(m), Does(m), Asked(m))
    BY DEF Sent, Hand, Quiet
  <2>2. client[m].option \in BOOLEAN /\ client[m].mine \in BOOLEAN /\ (m # "share" => check[m] \in BOOLEAN)
    <3>1. client[m] \in Client
      BY DEF Typed, TypeOK
    <3>2. QED BY <3>1, MediaFacts DEF Client, Typed, TypeOK
  <2>3. CASE m = "share"
    BY <2>1, <2>2, <2>3 DEF Fits
  <2>4. CASE m # "share"
    BY <2>1, <2>2, <2>4 DEF Fits, Asked
  <2>5. QED BY <2>3, <2>4
<1>5. QED BY InitInvariant, InitDoors, <1>1, <1>2, <1>3, <1>4, PTL DEF Spec
=============================================================================
