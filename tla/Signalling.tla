----------------------------- MODULE Signalling -----------------------------
(***************************************************************************)
(* The signalling client (al_json_rpc_client_2): AlRpc makes JSON-RPC      *)
(* messages and matches replies to requests, AlWsClient queues what is     *)
(* sent and runs the libwebsockets loop that connects, writes and reads.   *)
(*                                                                         *)
(* Three threads use it: ui (roomOpen, userMode), sdk (what the Manager    *)
(* sends from a WebRTC callback) and ws, the loop itself (what it sends    *)
(* from inside a received message).  Nothing is locked; `raced' records    *)
(* that two accesses to the counter, the request map, the queue or         *)
(* m_curRoomName met.                                                      *)
(*                                                                         *)
(* External: libwebsockets (the connection and its events) and the server, *)
(* which answers room/open and room/enter at once, room/offer when the     *)
(* other peer does, and may send offers, each with an id, and candidates   *)
(* to a peer in a room.  Ids are small: int(m_sdpOfferId) is the id itself.*)
(***************************************************************************)
EXTENDS Naturals, Sequences, FiniteSets

CONSTANT Limits    \* how often each operation and event occurs (bounds the model)

Threads == {"ui", "ws", "sdk"}
Requests == {"room/open", "room/enter", "room/offer"}
Operations == {"roomOpen", "sendSdpOffer", "sendSdpAnswer", "send",
               "offer", "iceCandidate", "fault"}

ASSUME LimitsAssumption == Limits \in [Operations -> Nat]

VARIABLES
  counter,     \* m_sessionMsgCounter
  requests,    \* m_requests: from ids to the kind of request
  offerId,     \* m_sdpOfferId
  queue,       \* m_messageQueue
  wsi,         \* wsi_dumb: NULL is "none"
  writable,    \* external: lws was asked for a WRITEABLE event
  rested,      \* two seconds have passed since the last attempt to connect
  loop,        \* where the service loop is
  writing,     \* the message it has read from the front of the queue
  task,        \* the message each thread is making
  up, down,    \* external: the two directions of the connection
  session,     \* external: the server's view, "none", "open" or "entered"
  owed,        \* external: room/offer requests the other peer has to answer
  used,        \* history: how often each operation occurred
  pushed,      \* history: how many messages sendMessage was given
  wire,        \* history: messages passed to lws_write
  opened,      \* history: rooms opened
  initCalls,   \* history: initCallSignal, for a room entered
  refused,     \* history: rooms that could not be entered
  offers,      \* history: ids given to sdpOfferSignal
  unexpected,  \* history: a reply did not find its request
  raced        \* history: unsynchronised accesses overlapped

rpc == <<counter, requests, offerId>>
transport == <<queue, wsi, writable, rested, loop, writing>>
server == <<up, down, session, owed>>
signals == <<opened, initCalls, refused, offers, unexpected>>
vars == <<rpc, transport, task, server, used, pushed, wire, signals, raced>>

Idle == [at |-> "idle", kind |-> "none", id |-> 0]
Nothing == [kind |-> "none", id |-> 0, no |-> 0]

Init ==
  /\ counter = 0 /\ requests = <<>> /\ offerId = 0
  /\ queue = <<>> /\ wsi = "none" /\ writable = FALSE /\ rested = TRUE
  /\ loop = "connect" /\ writing = Nothing
  /\ task = [t \in Threads |-> Idle]
  /\ up = <<>> /\ down = <<>> /\ session = "none" /\ owed = {}
  /\ used = [o \in Operations |-> 0]
  /\ pushed = 0 /\ wire = <<>>
  /\ opened = 0 /\ initCalls = 0 /\ refused = 0 /\ offers = <<>> /\ unexpected = FALSE
  /\ raced = FALSE

-----------------------------------------------------------------------------
(* Making a message. *)

Use(operation) ==
  /\ used[operation] < Limits[operation]
  /\ used' = [used EXCEPT ![operation] = @ + 1]

\* The loop's thread sends only from inside a received message.
Free(t) == task[t].at = "idle" /\ (t = "ws" => loop = "callback") /\ loop # "crashed"

Others(t, at) == \E u \in Threads \ {t} : task[u].at = at

\* What the loop itself leaves alone.
LoopOnly == <<rpc, task, used, pushed, wire, signals, raced>>

-----------------------------------------------------------------------------
(* Faulty variants of definitions below, for showing that the properties    *)
(* can fail.  No specification uses them.                                   *)

\* Request that reads the counter and never adds to it.
RequestUncounted(t, kind) ==
  /\ task' = [task EXCEPT ![t] = [at |-> "register", kind |-> kind, id |-> 0]]
  /\ raced' = (raced \/ Others(t, "register"))
  /\ UNCHANGED counter

\* AskWritable that leaves the asking to somebody else.
AskNever ==
  /\ loop = "writable"
  /\ loop' = "service"
  /\ UNCHANGED <<queue, wsi, writable, rested, writing, server, LoopOnly>>

\* Return in the middle of a callback.
ReturnEarly ==
  /\ loop \in {"service", "callback", "entering"}
  /\ loop' = "connect"
  /\ UNCHANGED <<queue, wsi, writable, rested, writing, server, LoopOnly>>

\* Closed that empties the queue for the next connection.
ClosedAndCleared ==
  /\ loop = "service" /\ wsi # "none" /\ Use("fault")
  /\ wsi' = "none" /\ writable' = FALSE /\ queue' = <<>>
  /\ up' = <<>> /\ down' = <<>> /\ session' = "none" /\ owed' = {}
  /\ UNCHANGED <<rested, loop, writing, rpc, task, pushed, wire, signals, raced>>

-----------------------------------------------------------------------------
(* Requests and what else is sent.                                          *)

\* roomOpen() writes m_curRoomName, which roomEnter() reads on the loop's thread.
Renames(kind) == kind = "room/open" /\ task["ws"].kind = "room/enter"

\* getMsgId() adds one, then reads the counter again to return it.
Request(t, kind) ==
  /\ counter' = counter + 1
  /\ task' = [task EXCEPT ![t] = [at |-> "register", kind |-> kind, id |-> 0]]
  /\ raced' = (raced \/ Others(t, "register") \/ Renames(kind))

Register(t) ==
  /\ task[t].at = "register" /\ loop # "crashed"
  /\ requests' = [i \in DOMAIN requests \cup {counter} |->
                    IF i = counter THEN task[t].kind ELSE requests[i]]
  /\ task' = [task EXCEPT ![t].at = "push", ![t].id = counter]
  /\ raced' = (raced \/ Others(t, "register"))
  /\ UNCHANGED <<counter, offerId, transport, server, used, pushed, wire, signals>>

\* A message without an entry in m_requests.
Prepare(t, kind, id) ==
  /\ task' = [task EXCEPT ![t] = [at |-> "push", kind |-> kind, id |-> id]]
  /\ UNCHANGED <<rpc, transport, server, pushed, wire, signals, raced>>

\* Overlapping accesses to the queue may lose the message.
sendMessage(t) ==
  LET overlap == Others(t, "push") \/ (loop = "pop" /\ t # "ws")
  IN /\ task[t].at = "push" /\ loop # "crashed"
     /\ pushed' = pushed + 1
     /\ raced' = (raced \/ overlap)
     /\ \/ queue' = Append(queue, [kind |-> task[t].kind, id |-> task[t].id,
                                   no |-> pushed + 1])
        \/ overlap /\ UNCHANGED queue
     /\ task' = [task EXCEPT ![t] = Idle]
     /\ UNCHANGED <<rpc, wsi, writable, rested, loop, writing, server, used, wire,
                    signals>>

roomOpen ==
  /\ Free("ui") /\ Use("roomOpen")
  /\ Request("ui", "room/open")
  /\ UNCHANGED <<requests, offerId, transport, server, pushed, wire, signals>>

roomEnter == Request("ws", "room/enter")
roomOffer(t) == Request(t, "room/offer")

\* The SDP of the call that initCallSignal started.
sendSdpOffer(t) ==
  /\ Free(t) /\ initCalls > 0 /\ Use("sendSdpOffer")
  /\ roomOffer(t)
  /\ UNCHANGED <<requests, offerId, transport, server, pushed, wire, signals>>

\* The reply to an offer: it carries the id of the last one.
sendSdpAnswer(t) ==
  /\ Free(t) /\ offers # <<>> /\ Use("sendSdpAnswer")
  /\ Prepare(t, "answer", offerId)

\* Notifications: the server keeps nothing of them that matters here.
Notify(t) ==
  /\ Free(t) /\ Use("send")
  /\ Prepare(t, "notification", 0)

sendIceCandidate(t) == Notify(t)
userMode(t) == Notify(t)

Caller(t) ==
  \/ t = "ui" /\ roomOpen
  \/ t # "ui" /\ (sendSdpOffer(t) \/ sendSdpAnswer(t) \/ sendIceCandidate(t))
  \/ userMode(t)

Work(t) == Register(t) \/ sendMessage(t)

-----------------------------------------------------------------------------
(* threadMain(): connect, ask for a WRITEABLE event, service. *)

\* lws_client_connect_via_info() starts to connect, or returns NULL.
Connect ==
  /\ loop = "connect"
  /\ loop' = "writable"
  /\ \/ /\ ~(wsi = "none" /\ rested)
        /\ UNCHANGED <<wsi, rested, used>>
     \/ /\ wsi = "none" /\ rested
        /\ rested' = FALSE
        /\ \/ wsi' = "connecting" /\ UNCHANGED used
           \/ Use("fault") /\ UNCHANGED wsi
  /\ UNCHANGED <<queue, writable, writing, rpc, task, server, pushed, wire, signals,
                 raced>>

\* "dirty solution": a WRITEABLE event for a connection that may be NULL, which
\* lws_callback_on_writable reads through.
AskWritable ==
  /\ loop = "writable"
  /\ IF queue = <<>> THEN loop' = "service" /\ UNCHANGED writable
     ELSE IF wsi = "none" THEN loop' = "crashed" /\ UNCHANGED writable
     ELSE loop' = "service" /\ writable' = TRUE
  /\ UNCHANGED <<queue, wsi, rested, writing, server, LoopOnly>>

\* lws_service() returns: nothing more to do now, or its timeout.
Return ==
  /\ \/ loop = "service"
     \/ loop \in {"callback", "entering"} /\ task["ws"].at = "idle"
  /\ loop' = "connect"
  /\ UNCHANGED <<queue, wsi, writable, rested, writing, server, LoopOnly>>

Established ==
  /\ loop = "service" /\ wsi = "connecting"
  /\ wsi' = "established"
  /\ UNCHANGED <<queue, writable, rested, loop, writing, server, LoopOnly>>

\* CLOSED or CONNECTION_ERROR.  The queue and the requests stay as they are;
\* what was under way is lost, and the server forgets the peer.
Closed ==
  /\ loop = "service" /\ wsi # "none" /\ Use("fault")
  /\ wsi' = "none" /\ writable' = FALSE
  /\ up' = <<>> /\ down' = <<>> /\ session' = "none" /\ owed' = {}
  /\ UNCHANGED <<queue, rested, loop, writing, rpc, task, pushed, wire, signals, raced>>

\* WRITEABLE: front(), and then pop() and lws_write().
Front ==
  /\ loop = "service" /\ wsi = "established" /\ writable
  /\ writable' = FALSE
  /\ IF queue = <<>> THEN UNCHANGED <<loop, writing>>
     ELSE loop' = "pop" /\ writing' = Head(queue)
  /\ UNCHANGED <<queue, wsi, rested, server, LoopOnly>>

Write ==
  /\ loop = "pop"
  /\ queue' = Tail(queue)
  /\ writing' = Nothing
  /\ wire' = Append(wire, writing)
  /\ up' = Append(up, writing)
  /\ loop' = "service"
  /\ raced' = (raced \/ Others("ws", "push"))
  /\ UNCHANGED <<wsi, writable, rested, rpc, task, down, session, owed, used, pushed,
                 signals>>

-----------------------------------------------------------------------------
(* onMessage(): what the server sends. *)

Receive(kind) ==
  /\ loop = "service" /\ wsi = "established"
  /\ down # <<>> /\ Head(down).kind = kind
  /\ down' = Tail(down)
  /\ UNCHANGED <<queue, wsi, writable, rested, writing, up, session, owed, used, pushed,
                 wire>>

\* The Manager is told, and may send on this thread before it returns.
OnOffer ==
  /\ Receive("offer")
  /\ offerId' = Head(down).id
  /\ offers' = Append(offers, Head(down).id)
  /\ loop' = "callback"
  /\ UNCHANGED <<counter, requests, task, opened, initCalls, refused, unexpected, raced>>

OnIceCandidate ==
  /\ Receive("ice-candidate")
  /\ loop' = "callback"
  /\ UNCHANGED <<rpc, task, signals, raced>>

\* A reply takes its request out of m_requests.
Reply(kind) ==
  LET id == Head(down).id
  IN /\ Receive("reply")
     /\ id \in DOMAIN requests /\ requests[id] = kind
     /\ requests' = [i \in DOMAIN requests \ {id} |-> requests[i]]
     /\ unexpected' = (unexpected \/ Head(down).to # kind)

\* Faulty: OnRoomOpen that enters the room whatever the reply,
OnRoomOpenAlways ==
  /\ Reply("room/open")
  /\ opened' = opened + (IF Head(down).ok THEN 1 ELSE 0)
  /\ Request("ws", "room/enter")
  /\ loop' = "entering"
  /\ UNCHANGED <<offerId, initCalls, refused, offers>>

\* or that does not enter it.
OnRoomOpenOnly ==
  /\ Reply("room/open")
  /\ opened' = opened + (IF Head(down).ok THEN 1 ELSE 0)
  /\ UNCHANGED <<counter, offerId, loop, task, initCalls, refused, offers, raced>>

\* An error is taken to mean that the room exists: enter it.
OnRoomOpen ==
  /\ Reply("room/open")
  /\ \/ /\ Head(down).ok
        /\ opened' = opened + 1
        /\ raced' = (raced \/ Others("ws", "register"))
        /\ UNCHANGED <<counter, loop, task>>
     \/ /\ ~Head(down).ok
        /\ roomEnter
        /\ loop' = "entering"
        /\ UNCHANGED opened
  /\ UNCHANGED <<offerId, initCalls, refused, offers>>

OnRoomEnter ==
  /\ Reply("room/enter")
  /\ IF Head(down).ok THEN initCalls' = initCalls + 1 /\ UNCHANGED refused
                      ELSE refused' = refused + 1 /\ UNCHANGED initCalls
  /\ raced' = (raced \/ Others("ws", "register"))
  /\ UNCHANGED <<counter, offerId, loop, task, opened, offers>>

\* The answer, or an error, which the Manager does not survive.
OnRoomOffer ==
  /\ Reply("room/offer")
  /\ loop' = IF Head(down).ok THEN "callback" ELSE "crashed"
  /\ raced' = (raced \/ Others("ws", "register"))
  /\ UNCHANGED <<counter, offerId, task, opened, initCalls, refused, offers>>

OnUnhandled ==
  /\ Receive("reply")
  /\ Head(down).id \notin DOMAIN requests
  /\ unexpected' = TRUE
  /\ UNCHANGED <<rpc, loop, task, opened, initCalls, refused, offers, raced>>

onMessage ==
  \/ OnOffer \/ OnIceCandidate
  \/ OnRoomOpen \/ OnRoomEnter \/ OnRoomOffer \/ OnUnhandled

-----------------------------------------------------------------------------
(* External: the server, and time. *)

Online == wsi = "established" /\ loop # "crashed"
ServerOnly == <<rpc, transport, task, pushed, wire, signals, raced>>

ReplyTo(id, to, ok) == [kind |-> "reply", id |-> id, to |-> to, ok |-> ok]
Notice(kind, id) == [kind |-> kind, id |-> id, to |-> "none", ok |-> TRUE]

\* A room is opened or exists; it can be entered or is full.
Serve ==
  /\ Online /\ up # <<>>
  /\ up' = Tail(up)
  /\ LET msg == Head(up)
     IN \/ /\ msg.kind = "room/open"
           /\ \E ok \in BOOLEAN :
                /\ down' = Append(down, ReplyTo(msg.id, msg.kind, ok))
                /\ session' = IF ok THEN "open" ELSE session
           /\ UNCHANGED owed
        \/ /\ msg.kind = "room/enter"
           /\ \E ok \in BOOLEAN :
                /\ down' = Append(down, ReplyTo(msg.id, msg.kind, ok))
                /\ session' = IF ok THEN "entered" ELSE session
           /\ UNCHANGED owed
        \/ /\ msg.kind = "room/offer"
           /\ owed' = owed \cup {msg.id}
           /\ UNCHANGED <<down, session>>
        \/ /\ msg.kind \in {"answer", "notification"}
           /\ UNCHANGED <<down, session, owed>>
  /\ UNCHANGED <<used, ServerOnly>>

PeerAnswers ==
  /\ Online
  /\ \E id \in owed, ok \in BOOLEAN :
       /\ down' = Append(down, ReplyTo(id, "room/offer", ok))
       /\ owed' = owed \ {id}
  /\ UNCHANGED <<up, session, used, ServerOnly>>

PeerOffers ==
  /\ Online /\ session = "open" /\ Use("offer")
  /\ down' = Append(down, Notice("offer", used["offer"] + 1))
  /\ UNCHANGED <<up, session, owed, ServerOnly>>

PeerGathers ==
  /\ Online /\ session # "none" /\ Use("iceCandidate")
  /\ down' = Append(down, Notice("ice-candidate", 0))
  /\ UNCHANGED <<up, session, owed, ServerOnly>>

Rest ==
  /\ ~rested /\ loop # "crashed"
  /\ rested' = TRUE
  /\ UNCHANGED <<queue, wsi, writable, loop, writing, server, LoopOnly>>

-----------------------------------------------------------------------------

Loop ==
  \/ Connect \/ AskWritable \/ Return \/ Established \/ Closed \/ Front \/ Write
  \/ onMessage

Server == Serve \/ PeerAnswers \/ PeerOffers \/ PeerGathers

Next ==
  \/ \E t \in Threads : Caller(t) \/ Work(t)
  \/ Loop \/ Server \/ Rest

Spec == Init /\ [][Next]_vars

\* Every thread is scheduled and time passes.  lws_service() looks at every
\* connection it polls, so an event that stays possible is not passed over for
\* ever; and the server replies.
Fairness ==
  /\ \A t \in Threads : WF_vars(Work(t))
  /\ WF_vars(Connect \/ AskWritable \/ Return \/ Write)
  /\ SF_vars(Established) /\ SF_vars(Front) /\ SF_vars(onMessage)
  /\ WF_vars(Serve) /\ WF_vars(Rest)

FairSpec == Spec /\ Fairness

-----------------------------------------------------------------------------
(* Correctness *)

Crashed == loop = "crashed"

Kinds == Requests \cup {"answer", "notification", "none"}
Message == [kind : Kinds, id : Nat, no : Nat]
Received == [kind : {"reply", "offer", "ice-candidate"}, id : Nat, to : Kinds,
             ok : BOOLEAN]

RpcType ==
  /\ counter \in Nat /\ offerId \in Nat
  /\ DOMAIN requests \subseteq Nat
  /\ \A i \in DOMAIN requests : requests[i] \in Requests
  /\ task \in [Threads -> [at : {"idle", "register", "push"}, kind : Kinds, id : Nat]]
  /\ \A t \in Threads : task[t].at = "register" => task[t].kind \in Requests
  /\ task["ws"].at # "idle" => loop \in {"callback", "entering", "crashed"}

TransportType ==
  /\ queue \in Seq(Message) /\ writing \in Message
  /\ wsi \in {"none", "connecting", "established"}
  /\ writable \in BOOLEAN /\ rested \in BOOLEAN
  /\ loop \in {"connect", "writable", "service", "pop", "callback", "entering",
                "crashed"}
  /\ loop = "pop" => queue # <<>> /\ writing = Head(queue)

ServerType ==
  /\ up \in Seq(Message) /\ down \in Seq(Received)
  /\ session \in {"none", "open", "entered"} /\ owed \subseteq Nat

HistoryType ==
  /\ used \in [Operations -> Nat] /\ pushed \in Nat /\ wire \in Seq(Message)
  /\ opened \in Nat /\ initCalls \in Nat /\ refused \in Nat /\ offers \in Seq(Nat)
  /\ unexpected \in BOOLEAN /\ raced \in BOOLEAN

\* Besides the types: the loop pops what it has read, and its thread makes a
\* message only inside onMessage().
TypeOK == RpcType /\ TransportType /\ ServerType /\ HistoryType

\* Unless threads race, sendMessage is a FIFO: what was written and what waits
\* is everything that was sent, in that order, through every reconnection.
WrittenInOrder ==
  ~raced =>
    LET all == wire \o queue
    IN Len(all) = pushed /\ \A i \in 1 .. pushed : all[i].no = i

\* Ids are never given twice and requests outlive a connection: a reply finds
\* its request and is handled as what was asked.
RepliesAreExpected == ~raced => ~unexpected

\* One roomOpen makes this peer the one that opened the room or the one that
\* calls, never both and never twice, although it takes two requests to find out.
OneRole == opened + initCalls + refused <= used["roomOpen"]

\* "nothing happens until the client websocket connection is asynchronously
\* established": the loop asks for a WRITEABLE event on a connection.
LoopHasConnection == loop = "writable" /\ queue # <<>> => wsi # "none"

\* "offer [ offerSdp ] -> answerSdp": the answer is the reply to the offer it
\* answers.  The Manager hands only the first offer to the SDK.
AnswerNamesItsOffer ==
  \A i \in DOMAIN wire : wire[i].kind = "answer" => wire[i].id = offers[1]

\* Liveness: what was sent is written in the end, across reconnections, unless
\* the program crashed or threads raced.
EverythingIsWritten ==
  \A k \in 1 .. 3 : pushed >= k ~> (Len(wire) >= k \/ raced \/ Crashed)

\* Liveness: an attempt to open a room ends in a room opened, a call, or a
\* refusal, unless the connection failed on the way.
RoomIsSettled ==
  used["roomOpen"] > 0 ~> \/ opened + initCalls + refused > 0
                          \/ used["fault"] > 0 \/ raced \/ Crashed
=============================================================================
