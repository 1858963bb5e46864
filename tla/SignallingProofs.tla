-------------------------- MODULE SignallingProofs --------------------------
(***************************************************************************)
(* What holds of the signalling client however long it runs: Limits is any *)
(* function, so connections fail and threads send as often as they like.   *)
(***************************************************************************)
EXTENDS Signalling, SequenceTheorems, FiniteSetTheorems, TLAPS

\* The sets of names, one by one.
LEMMA Names ==
  /\ {"ui", "ws", "sdk"} = Threads
  /\ {"room/open", "room/enter", "room/offer"} = Requests
  /\ {"roomOpen", "sendSdpOffer", "sendSdpAnswer", "send", "offer", "iceCandidate",
      "fault"} = Operations
  /\ Requests \subseteq Kinds
  /\ {"answer", "notification", "none"} \subseteq Kinds
BY DEF Threads, Requests, Operations, Kinds

\* A message more leaves the front of the queue where it is.
LEMMA AppendKeepsHead ==
  ASSUME NEW q \in Seq(Message), NEW m \in Message
  PROVE  /\ Append(q, m) \in Seq(Message) /\ Append(q, m) # <<>>
         /\ q # <<>> => Head(Append(q, m)) = Head(q)
BY AppendProperties, HeadTailAppend

\* Counting an operation.
LEMMA UseType ==
  ASSUME NEW o \in Operations, used \in [Operations -> Nat], Use(o)
  PROVE  used' \in [Operations -> Nat]
BY DEF Use

\* Making a message leaves the counter, the tasks and the race flag well formed.
LEMMA RequestType ==
  ASSUME NEW t \in Threads, NEW kind \in Requests, RpcType, raced \in BOOLEAN,
         Request(t, kind)
  PROVE  /\ counter' \in Nat /\ raced' \in BOOLEAN
         /\ task' \in [Threads -> [at : {"idle", "register", "push"}, kind : Kinds,
                                   id : Nat]]
         /\ \A u \in Threads : task'[u].at = "register" => task'[u].kind \in Requests
         /\ \A u \in Threads \ {t} : task'[u] = task[u]
<1>1. raced' \in BOOLEAN
  BY Zenon DEF Request
<1> QED
  BY <1>1, Names DEF Request, RpcType

\* Reading a message from the server.
LEMMA ReceiveType ==
  ASSUME NEW kind, TypeOK, Receive(kind)
  PROVE  Head(down) \in Received /\ ServerType'
<1>1. down \in Seq(Received) /\ down # <<>>
  BY DEF Receive, TypeOK, ServerType
<1>2. Head(down) \in Received /\ Tail(down) \in Seq(Received)
  BY <1>1
<1>3. down' \in Seq(Received)
  BY <1>2 DEF Receive
<1> QED
  BY <1>2, <1>3 DEF Receive, TypeOK, ServerType

\* The types of every variable, and what the loop's control point says of the
\* message it is writing and of the messages made on its thread.
THEOREM TypeCorrect == Spec => []TypeOK
<1>1. Init => TypeOK
  <2> SUFFICES ASSUME Init PROVE TypeOK
    OBVIOUS
  <2>1. <<>> \in Seq(Message) /\ <<>> \in Seq(Received) /\ <<>> \in Seq(Nat)
    OBVIOUS
  <2>2. Nothing \in Message
    BY Names DEF Nothing, Message
  <2>3. RpcType
    <3>1. DOMAIN requests = {}
      BY DEF Init
    <3> QED
      BY <3>1, Names DEF Init, RpcType, Idle
  <2> QED
    BY <2>1, <2>2, <2>3 DEF Init, TypeOK, TransportType, ServerType, HistoryType
<1>2. TypeOK /\ [Next]_vars => TypeOK'
  <2> SUFFICES ASSUME TypeOK, [Next]_vars
               PROVE  TypeOK'
    OBVIOUS
  <2> USE DEF TypeOK, RpcType, TransportType, ServerType, HistoryType
  <2> USE DEF rpc, transport, server, signals
  <2>1. ASSUME NEW t \in Threads, Register(t) PROVE TypeOK'
    <3>1. requests' = [i \in DOMAIN requests \cup {counter} |->
                         IF i = counter THEN task[t].kind ELSE requests[i]]
      BY <2>1 DEF Register
    <3>2. /\ DOMAIN requests' \subseteq Nat
          /\ \A i \in DOMAIN requests' : requests'[i] \in Requests
      BY <2>1, <3>1 DEF Register
    <3>3. raced' \in BOOLEAN
      BY <2>1, Zenon DEF Register
    <3>4. /\ task' \in [Threads -> [at : {"idle", "register", "push"}, kind : Kinds,
                                    id : Nat]]
          /\ \A u \in Threads : task'[u].at = "register" => task'[u].kind \in Requests
          /\ task'["ws"].at # "idle" => task["ws"].at # "idle"
      <4> DEFINE next == [task[t] EXCEPT !.at = "push", !.id = counter]
      <4>1. /\ next \in [at : {"idle", "register", "push"}, kind : Kinds, id : Nat]
            /\ next.at = "push"
        OBVIOUS
      <4>2. task' = [task EXCEPT ![t] = next] /\ task[t].at # "idle"
        BY <2>1 DEF Register
      <4> HIDE DEF next
      <4> QED
        BY <4>1, <4>2, Names
    <3> QED
      BY <2>1, <3>2, <3>3, <3>4 DEF Register
  <2>2. ASSUME NEW t \in Threads, sendMessage(t) PROVE TypeOK'
    <3> DEFINE m == [kind |-> task[t].kind, id |-> task[t].id, no |-> pushed + 1]
    <3>1. m \in Message
      BY DEF Message
    <3>2. /\ Append(queue, m) \in Seq(Message) /\ Append(queue, m) # <<>>
          /\ queue # <<>> => Head(Append(queue, m)) = Head(queue)
      BY <3>1, AppendKeepsHead
    <3>3. queue' = Append(queue, m) \/ queue' = queue
      BY <2>2 DEF sendMessage
    <3>4. raced' \in BOOLEAN
      BY <2>2, Zenon DEF sendMessage
    <3>5. /\ task' \in [Threads -> [at : {"idle", "register", "push"}, kind : Kinds,
                                    id : Nat]]
          /\ \A u \in Threads : task'[u].at = "register" => task'[u].kind \in Requests
          /\ task'["ws"].at # "idle" => task["ws"].at # "idle"
      BY <2>2, Names DEF sendMessage, Idle
    <3>6. TransportType'
      <4> HIDE DEF m
      <4> QED
        BY <2>2, <3>2, <3>3 DEF sendMessage
    <3>7. RpcType'
      BY <2>2, <3>5 DEF sendMessage
    <3>8. ServerType' /\ HistoryType'
      BY <2>2, <3>4 DEF sendMessage
    <3> QED
      BY <3>6, <3>7, <3>8
  <2>3. ASSUME NEW t \in Threads, NEW kind \in Kinds, NEW id \in Nat, NEW o \in Operations,
               Free(t), Use(o), Prepare(t, kind, id)
        PROVE  TypeOK'
    BY <2>3, UseType, Names DEF Prepare, Free
  <2>4. ASSUME NEW t \in Threads, NEW o \in Operations, NEW kind \in Requests,
               Free(t), Use(o), Request(t, kind),
               UNCHANGED <<requests, offerId, transport, server, pushed, wire, signals>>
        PROVE  TypeOK'
    <3>1. used' \in [Operations -> Nat]
      BY <2>4, UseType
    <3>2. RpcType'
      BY <2>4, RequestType, Names, ZenonT(60) DEF Free
    <3>3. raced' \in BOOLEAN
      BY <2>4, RequestType
    <3> QED
      BY <2>4, <3>1, <3>2, <3>3
  <2>5. ASSUME NEW t \in Threads, Caller(t) PROVE TypeOK'
    BY <2>3, <2>4, <2>5, Names
    DEF Caller, roomOpen, sendSdpOffer, roomOffer, sendSdpAnswer, sendIceCandidate,
        userMode, Notify
  <2>6. CASE Connect
    BY <2>6, UseType, Names DEF Connect
  <2>7. CASE AskWritable
    BY <2>7 DEF AskWritable, LoopOnly
  <2>8. CASE Return
    BY <2>8 DEF Return, LoopOnly
  <2>9. CASE Established
    BY <2>9 DEF Established, LoopOnly
  <2>10. CASE Closed
    <3>1. <<>> \in Seq(Message) /\ <<>> \in Seq(Received)
      OBVIOUS
    <3>2. used' \in [Operations -> Nat]
      BY <2>10, UseType, Names DEF Closed
    <3> QED
      BY <2>10, <3>1, <3>2 DEF Closed
  <2>11. CASE Front
    <3>1. queue # <<>> => Head(queue) \in Message
      OBVIOUS
    <3> QED
      BY <2>11, <3>1 DEF Front, LoopOnly
  <2>12. CASE Write
    <3>1. /\ Tail(queue) \in Seq(Message)
          /\ Append(wire, writing) \in Seq(Message) /\ Append(up, writing) \in Seq(Message)
      BY <2>12 DEF Write
    <3>2. Nothing \in Message
      BY Names DEF Nothing, Message
    <3>3. raced' \in BOOLEAN
      BY <2>12, Zenon DEF Write
    <3> QED
      BY <2>12, <3>1, <3>2, <3>3 DEF Write
  <2>13. CASE OnOffer
    <3>1. Head(down).id \in Nat
      BY <2>13, ReceiveType DEF OnOffer, Received
    <3>2. Append(offers, Head(down).id) \in Seq(Nat)
      BY <3>1
    <3> QED
      BY <2>13, <3>1, <3>2, ReceiveType DEF OnOffer, Receive
  <2>14. CASE OnIceCandidate
    BY <2>14, ReceiveType DEF OnIceCandidate, Receive
  <2>15. ASSUME NEW kind, Reply(kind)
         PROVE  /\ DOMAIN requests' \subseteq Nat
                /\ \A i \in DOMAIN requests' : requests'[i] \in Requests
                /\ unexpected' \in BOOLEAN
                /\ Receive("reply")
    <3>1. unexpected' \in BOOLEAN /\ Receive("reply")
      BY <2>15, Zenon DEF Reply
    <3>2. requests' = [i \in DOMAIN requests \ {Head(down).id} |-> requests[i]]
      BY <2>15 DEF Reply
    <3> QED
      BY <3>1, <3>2
  <2>16. CASE OnRoomOpen
    <3>1. CASE Head(down).ok
      <4>1. raced' \in BOOLEAN
        BY <2>16, <3>1, Zenon DEF OnRoomOpen
      <4>2. /\ opened' = opened + 1 /\ UNCHANGED <<counter, loop, task>>
            /\ Reply("room/open")
            /\ UNCHANGED <<offerId, initCalls, refused, offers>>
        BY <2>16, <3>1 DEF OnRoomOpen
      <4> QED
        BY <2>15, <4>1, <4>2, ReceiveType DEF Receive
    <3>2. CASE ~Head(down).ok
      BY <2>15, <2>16, <3>2, ReceiveType, RequestType, Names
      DEF OnRoomOpen, roomEnter, Receive
    <3> QED
      BY <3>1, <3>2
  <2>17. CASE OnRoomEnter
    <3>1. raced' \in BOOLEAN
      BY <2>17, Zenon DEF OnRoomEnter
    <3>2. initCalls' \in Nat /\ refused' \in Nat
      BY <2>17 DEF OnRoomEnter
    <3>3. Reply("room/enter") /\ UNCHANGED <<counter, offerId, loop, task, opened, offers>>
      BY <2>17 DEF OnRoomEnter
    <3>4. Receive("reply")
      BY <2>15, <3>3
    <3>5. TransportType' /\ ServerType'
      BY <3>3, <3>4, ReceiveType DEF Receive
    <3>6. RpcType'
      BY <2>15, <3>3
    <3>7. HistoryType'
      BY <2>15, <3>1, <3>2, <3>3, <3>4 DEF Receive
    <3> QED
      BY <3>5, <3>6, <3>7
  <2>18. CASE OnRoomOffer
    BY <2>15, <2>18, ReceiveType DEF OnRoomOffer, Receive
  <2>19. CASE OnUnhandled
    BY <2>19, ReceiveType DEF OnUnhandled, Receive
  <2>20. CASE Serve
    <3>1. up \in Seq(Message) /\ up # <<>>
      BY <2>20 DEF Serve
    <3>2. Head(up) \in Message /\ Tail(up) \in Seq(Message)
      BY <3>1
    <3>3. Head(up).id \in Nat /\ Head(up).kind \in Kinds
      BY <3>2 DEF Message
    <3>4. \A ok \in BOOLEAN :
            Append(down, ReplyTo(Head(up).id, Head(up).kind, ok)) \in Seq(Received)
      <4> SUFFICES ASSUME NEW ok \in BOOLEAN
                   PROVE  ReplyTo(Head(up).id, Head(up).kind, ok) \in Received
        OBVIOUS
      <4> QED
        BY <3>3 DEF ReplyTo, Received
    <3>5. PICK ok \in BOOLEAN :
            \/ down' = Append(down, ReplyTo(Head(up).id, Head(up).kind, ok))
            \/ down' = down
      BY <2>20, Zenon DEF Serve
    <3>6. down' \in Seq(Received)
      BY <3>4, <3>5
    <3>7. session' \in {"none", "open", "entered"} /\ owed' \subseteq Nat
      BY <2>20, <3>3 DEF Serve
    <3> QED
      BY <2>20, <3>2, <3>6, <3>7 DEF Serve, ServerOnly
  <2>21. CASE PeerAnswers
    <3>1. PICK id \in owed, ok \in BOOLEAN :
            /\ down' = Append(down, ReplyTo(id, "room/offer", ok))
            /\ owed' = owed \ {id}
      BY <2>21 DEF PeerAnswers
    <3>2. ReplyTo(id, "room/offer", ok) \in Received
      BY Names DEF ReplyTo, Received
    <3> QED
      BY <2>21, <3>1, <3>2 DEF PeerAnswers, ServerOnly
  <2>22. CASE PeerOffers
    <3>1. Notice("offer", used["offer"] + 1) \in Received
      BY Names DEF Notice, Received
    <3> QED
      BY <2>22, <3>1, UseType, Names DEF PeerOffers, ServerOnly
  <2>23. CASE PeerGathers
    <3>1. Notice("ice-candidate", 0) \in Received
      BY Names DEF Notice, Received
    <3>2. used' \in [Operations -> Nat]
      BY <2>23, UseType, Names DEF PeerGathers
    <3> QED
      BY <2>23, <3>1, <3>2 DEF PeerGathers, ServerOnly
  <2>24. CASE Rest
    BY <2>24 DEF Rest, LoopOnly
  <2>25. CASE UNCHANGED vars
    BY <2>25 DEF vars
  <2> QED
    BY <2>1, <2>2, <2>5, <2>6, <2>7, <2>8, <2>9, <2>10, <2>11, <2>12, <2>13, <2>14,
       <2>16, <2>17, <2>18, <2>19, <2>20, <2>21, <2>22, <2>23, <2>24, <2>25
    DEF Next, Work, Loop, onMessage, Server
<1> QED
  BY <1>1, <1>2, PTL DEF Spec

-----------------------------------------------------------------------------
(* The queue between sendMessage() and lws_write() is a FIFO. *)

\* The messages written carry the numbers they were sent with, and those that
\* wait carry on from there.
FifoInv ==
  ~raced => /\ Len(wire) + Len(queue) = pushed
            /\ \A i \in 1 .. Len(wire) : wire[i].no = i
            /\ \A j \in 1 .. Len(queue) : queue[j].no = Len(wire) + j

\* Numbers that carry on are the order of sending.
LEMMA FifoIsOrder ==
  ASSUME TypeOK, FifoInv
  PROVE  WrittenInOrder
<1> SUFFICES ASSUME ~raced
             PROVE  /\ Len(wire \o queue) = pushed
                    /\ \A i \in 1 .. pushed : (wire \o queue)[i].no = i
  BY DEF WrittenInOrder
<1>1. wire \in Seq(Message) /\ queue \in Seq(Message)
  BY DEF TypeOK, TransportType, HistoryType
<1>2. Len(wire) \in Nat /\ Len(queue) \in Nat /\ pushed \in Nat
  BY <1>1 DEF TypeOK, HistoryType
<1>3. /\ Len(wire \o queue) = Len(wire) + Len(queue)
      /\ \A i \in 1 .. Len(wire) + Len(queue) :
           (wire \o queue)[i] = IF i <= Len(wire) THEN wire[i]
                                                ELSE queue[i - Len(wire)]
  BY <1>1, ConcatProperties
<1>4. ASSUME NEW i \in 1 .. pushed
      PROVE  (wire \o queue)[i].no = i
  <2>1. CASE i <= Len(wire)
    BY <1>2, <1>3, <1>4, <2>1 DEF FifoInv
  <2>2. CASE ~(i <= Len(wire))
    <3>1. i - Len(wire) \in 1 .. Len(queue)
      BY <1>2, <1>4, <2>2 DEF FifoInv
    <3>2. queue[i - Len(wire)].no = Len(wire) + (i - Len(wire))
      BY <3>1 DEF FifoInv
    <3> QED
      BY <1>2, <1>3, <1>4, <2>2, <3>2 DEF FifoInv
  <2> QED
    BY <2>1, <2>2
<1> QED
  BY <1>3, <1>4 DEF FifoInv

\* A step that moves no message.
LEMMA FifoStill ==
  ASSUME FifoInv, UNCHANGED <<queue, wire, pushed>>, raced => raced'
  PROVE  FifoInv'
BY DEF FifoInv

\* Unless two threads raced, lws_write() is given exactly the messages that
\* sendMessage() was given, in that order, and the rest waits in that order:
\* a lost connection drops nothing from the queue and puts nothing in it.
THEOREM FifoHolds == Spec => []WrittenInOrder
<1>1. Init => FifoInv
  BY DEF Init, FifoInv
<1>2. TypeOK /\ FifoInv /\ [Next]_vars => FifoInv'
  <2> SUFFICES ASSUME TypeOK, FifoInv, [Next]_vars
               PROVE  FifoInv'
    OBVIOUS
  <2>0. /\ queue \in Seq(Message) /\ wire \in Seq(Message)
        /\ writing \in Message /\ pushed \in Nat
        /\ Len(queue) \in Nat /\ Len(wire) \in Nat
    BY DEF TypeOK, TransportType, HistoryType
  <2> USE DEF rpc, transport, server, signals
  <2>1. ASSUME NEW t \in Threads, sendMessage(t) PROVE FifoInv'
    <3> SUFFICES ASSUME ~raced' PROVE FifoInv'
      BY DEF FifoInv
    <3> DEFINE m == [kind |-> task[t].kind, id |-> task[t].id, no |-> pushed + 1]
    <3>1. m \in Message /\ m.no = pushed + 1
      BY <2>0 DEF Message, TypeOK, RpcType
    <3>2. ~raced /\ queue' = Append(queue, m) /\ pushed' = pushed + 1 /\ wire' = wire
      BY <2>1, Zenon DEF sendMessage
    <3> HIDE DEF m
    <3>3. /\ Len(queue') = Len(queue) + 1
          /\ \A j \in 1 .. Len(queue) : queue'[j] = queue[j]
          /\ queue'[Len(queue) + 1] = m
      BY <2>0, <3>1, <3>2, AppendProperties
    <3>4. ASSUME NEW j \in 1 .. Len(queue')
          PROVE  queue'[j].no = Len(wire') + j
      <4>1. CASE j \in 1 .. Len(queue)
        BY <3>2, <3>3, <4>1 DEF FifoInv
      <4>2. CASE j = Len(queue) + 1
        BY <2>0, <3>1, <3>2, <3>3, <4>2 DEF FifoInv
      <4> QED
        BY <2>0, <3>3, <3>4, <4>1, <4>2
    <3>5. Len(wire') + Len(queue') = pushed'
      <4>1. Len(wire) + Len(queue) = pushed
        BY <3>2 DEF FifoInv
      <4>2. Len(queue') = Len(queue) + 1 /\ Len(wire') = Len(wire) /\ pushed' = pushed + 1
        BY <3>2, <3>3
      <4> QED
        BY <2>0, <4>1, <4>2
    <3>6. \A i \in 1 .. Len(wire') : wire'[i].no = i
      BY <3>2 DEF FifoInv
    <3> QED
      BY <3>4, <3>5, <3>6 DEF FifoInv
  <2>2. CASE Write
    <3> SUFFICES ASSUME ~raced' PROVE FifoInv'
      BY DEF FifoInv
    <3>1. /\ ~raced /\ queue' = Tail(queue) /\ wire' = Append(wire, writing)
          /\ pushed' = pushed
      BY <2>2, Zenon DEF Write
    <3>2. queue # <<>> /\ writing = queue[1]
      BY <2>2 DEF Write, TypeOK, TransportType
    <3>3. /\ Len(queue') = Len(queue) - 1
          /\ \A j \in 1 .. Len(queue') : queue'[j] = queue[j + 1]
      BY <2>0, <3>1, <3>2, HeadTailProperties
    <3>4. /\ Len(wire') = Len(wire) + 1
          /\ \A i \in 1 .. Len(wire) : wire'[i] = wire[i]
          /\ wire'[Len(wire) + 1] = writing
      BY <2>0, <3>1, AppendProperties
    <3>5. Len(queue) >= 1
      BY <2>0, <3>2
    <3>6. ASSUME NEW i \in 1 .. Len(wire')
          PROVE  wire'[i].no = i
      <4>1. CASE i \in 1 .. Len(wire)
        BY <3>1, <3>4, <4>1 DEF FifoInv
      <4>2. CASE i = Len(wire) + 1
        BY <2>0, <3>1, <3>2, <3>4, <3>5, <4>2 DEF FifoInv
      <4> QED
        BY <2>0, <3>4, <3>6, <4>1, <4>2
    <3>7. ASSUME NEW j \in 1 .. Len(queue')
          PROVE  queue'[j].no = Len(wire') + j
      <4>1. j + 1 \in 1 .. Len(queue)
        BY <2>0, <3>3, <3>7
      <4> QED
        BY <2>0, <3>1, <3>3, <3>4, <3>7, <4>1 DEF FifoInv
    <3>8. Len(wire') + Len(queue') = pushed'
      <4>1. Len(wire) + Len(queue) = pushed
        BY <3>1 DEF FifoInv
      <4>2. Len(queue') = Len(queue) - 1
        BY <3>3
      <4>3. Len(wire') = Len(wire) + 1
        BY <3>4
      <4>4. pushed' = pushed
        BY <3>1
      <4>5. Len(queue) \in Nat /\ Len(wire) \in Nat
        BY <2>0
      <4> QED
        BY <4>1, <4>2, <4>3, <4>4, <4>5
    <3> QED
      BY <3>6, <3>7, <3>8 DEF FifoInv
  <2>3. ASSUME NEW t \in Threads, Register(t) \/ Caller(t) PROVE FifoInv'
    <3>1. UNCHANGED <<queue, wire, pushed>>
      BY <2>3 DEF Register, Caller, roomOpen, sendSdpOffer, sendSdpAnswer,
                  sendIceCandidate, userMode, Notify, Prepare
    <3>2. raced => raced'
      BY <2>3, Zenon DEF Register, Caller, roomOpen, sendSdpOffer, roomOffer,
                         sendSdpAnswer, sendIceCandidate, userMode, Notify, Prepare,
                         Request
    <3> QED
      BY <3>1, <3>2, FifoStill
  <2>4. CASE Connect \/ AskWritable \/ Return \/ Established \/ Closed \/ Front \/ Rest
    BY <2>4, FifoStill
    DEF Connect, AskWritable, Return, Established, Closed, Front, Rest, LoopOnly
  <2>5. CASE Server
    BY <2>5, FifoStill
    DEF Server, Serve, PeerAnswers, PeerOffers, PeerGathers, ServerOnly
  <2>6. CASE onMessage
    <3>1. UNCHANGED <<queue, wire, pushed>>
      BY <2>6 DEF onMessage, OnOffer, OnIceCandidate, OnRoomOpen, OnRoomEnter,
                  OnRoomOffer, OnUnhandled, Reply, Receive
    <3>2. raced => raced'
      BY <2>6, Zenon DEF onMessage, OnOffer, OnIceCandidate, OnRoomOpen, OnRoomEnter,
                         OnRoomOffer, OnUnhandled, roomEnter, Request
    <3> QED
      BY <3>1, <3>2, FifoStill
  <2>7. CASE UNCHANGED vars
    BY <2>7, FifoStill DEF vars
  <2> QED
    BY <2>1, <2>2, <2>3, <2>4, <2>5, <2>6, <2>7 DEF Next, Work, Loop
<1> QED
  BY <1>1, <1>2, TypeCorrect, FifoIsOrder, PTL DEF Spec

-----------------------------------------------------------------------------
(* The rooms that a roomOpen may still settle. *)

RoleKinds == {"room/open", "room/enter"}

\* Requests for a room that were registered, and those about to be.
RoleRequests == {i \in DOMAIN requests : requests[i] \in RoleKinds}
RoleTasks == {t \in Threads : task[t].at = "register" /\ task[t].kind \in RoleKinds}

\* Every roomOpen is settled, or one request is under way for it.
RoleInv ==
  /\ IsFiniteSet(DOMAIN requests)
  /\ opened + initCalls + refused + Cardinality(RoleRequests) + Cardinality(RoleTasks)
       <= used["roomOpen"]

\* The counts are of finite sets.
LEMMA RoleFinite ==
  ASSUME TypeOK, IsFiniteSet(DOMAIN requests)
  PROVE  /\ IsFiniteSet(RoleRequests) /\ IsFiniteSet(RoleTasks)
         /\ Cardinality(RoleRequests) \in Nat /\ Cardinality(RoleTasks) \in Nat
         /\ opened + initCalls + refused \in Nat /\ used["roomOpen"] \in Nat
<1>1. IsFiniteSet(RoleRequests)
  BY FS_Subset DEF RoleRequests
<1>2. IsFiniteSet({} \cup {"ui"} \cup {"ws"} \cup {"sdk"})
  BY FS_EmptySet, FS_AddElement, Zenon
<1>3. RoleTasks \in SUBSET ({} \cup {"ui"} \cup {"ws"} \cup {"sdk"})
  BY DEF RoleTasks, Threads
<1>4. IsFiniteSet(RoleTasks)
  BY <1>2, <1>3, FS_Subset, Zenon
<1>5. opened + initCalls + refused \in Nat /\ used["roomOpen"] \in Nat
  BY Names DEF TypeOK, HistoryType, Operations
<1> QED
  BY <1>1, <1>4, <1>5, FS_CardinalityType

\* How the two counts may change, one request at a time.
LEMMA RoleCounts ==
  ASSUME NEW S, NEW T, IsFiniteSet(S), Cardinality(S) \in Nat
  PROVE  /\ T \subseteq S => IsFiniteSet(T) /\ Cardinality(T) \in Nat
                             /\ Cardinality(T) <= Cardinality(S)
         /\ \A x : T \subseteq S \cup {x} =>
              IsFiniteSet(T) /\ Cardinality(T) \in Nat
              /\ Cardinality(T) <= Cardinality(S) + 1
         /\ \A x \in S : T \subseteq S \ {x} =>
              IsFiniteSet(T) /\ Cardinality(T) \in Nat
              /\ Cardinality(T) + 1 <= Cardinality(S)
<1>1. ASSUME T \subseteq S
      PROVE  IsFiniteSet(T) /\ Cardinality(T) \in Nat /\ Cardinality(T) <= Cardinality(S)
  BY <1>1, FS_Subset, FS_CardinalityType
<1>2. ASSUME NEW x, T \subseteq S \cup {x}
      PROVE  IsFiniteSet(T) /\ Cardinality(T) \in Nat
             /\ Cardinality(T) <= Cardinality(S) + 1
  <2>1. /\ IsFiniteSet(S \cup {x}) /\ Cardinality(S \cup {x}) \in Nat
        /\ Cardinality(S \cup {x}) <= Cardinality(S) + 1
    BY FS_AddElement, FS_CardinalityType
  <2>2. /\ IsFiniteSet(T) /\ Cardinality(T) \in Nat
        /\ Cardinality(T) <= Cardinality(S \cup {x})
    BY <1>2, <2>1, FS_Subset, FS_CardinalityType
  <2> QED
    BY <2>1, <2>2
<1>3. ASSUME NEW x \in S, T \subseteq S \ {x}
      PROVE  IsFiniteSet(T) /\ Cardinality(T) \in Nat
             /\ Cardinality(T) + 1 <= Cardinality(S)
  <2>1. /\ IsFiniteSet(S \ {x}) /\ Cardinality(S \ {x}) \in Nat
        /\ Cardinality(S \ {x}) = Cardinality(S) - 1
    BY FS_RemoveElement, FS_CardinalityType
  <2>2. /\ IsFiniteSet(T) /\ Cardinality(T) \in Nat
        /\ Cardinality(T) <= Cardinality(S \ {x})
    BY <1>3, <2>1, FS_Subset, FS_CardinalityType
  <2> QED
    BY <2>1, <2>2
<1> QED
  BY <1>1, <1>2, <1>3

\* A step that starts no request for a room and settles none.
LEMMA RoleStill ==
  ASSUME TypeOK, RoleInv, TypeOK', requests' = requests, RoleTasks' \subseteq RoleTasks,
         UNCHANGED <<opened, initCalls, refused>>, used'["roomOpen"] >= used["roomOpen"]
  PROVE  RoleInv'
<1>1. /\ IsFiniteSet(RoleRequests) /\ IsFiniteSet(RoleTasks)
      /\ Cardinality(RoleRequests) \in Nat /\ Cardinality(RoleTasks) \in Nat
      /\ opened + initCalls + refused \in Nat /\ used["roomOpen"] \in Nat
      /\ used'["roomOpen"] \in Nat
  BY RoleFinite, Names DEF RoleInv, TypeOK, HistoryType, Operations
<1>2. Cardinality(RoleTasks') \in Nat /\ Cardinality(RoleTasks') <= Cardinality(RoleTasks)
  BY <1>1, RoleCounts
<1>3. RoleRequests' = RoleRequests
  BY DEF RoleRequests
<1> QED
  BY <1>1, <1>2, <1>3 DEF RoleInv

\* An operation's use leaves the others' counts alone.
LEMMA UseGrows ==
  ASSUME TypeOK, NEW o \in Operations, Use(o)
  PROVE  /\ used'["roomOpen"] >= used["roomOpen"]
         /\ o = "roomOpen" => used'["roomOpen"] = used["roomOpen"] + 1
BY Names DEF Use, TypeOK, HistoryType, Operations

\* A reply takes its request out of the map.
LEMMA RoleReply ==
  ASSUME TypeOK, RoleInv, NEW kind \in Requests, Reply(kind)
  PROVE  /\ IsFiniteSet(DOMAIN requests')
         /\ Cardinality(RoleRequests') \in Nat
         /\ Cardinality(RoleRequests') <= Cardinality(RoleRequests)
         /\ kind \in RoleKinds =>
              Cardinality(RoleRequests') + 1 <= Cardinality(RoleRequests)
<1> DEFINE id == Head(down).id
<1>1. /\ requests' = [i \in DOMAIN requests \ {id} |-> requests[i]]
      /\ id \in DOMAIN requests /\ requests[id] = kind
  BY DEF Reply
<1> HIDE DEF id
<1>2. IsFiniteSet(DOMAIN requests')
  BY <1>1, FS_RemoveElement DEF RoleInv
<1>3. /\ RoleRequests' \subseteq RoleRequests \ {id}
      /\ kind \in RoleKinds => id \in RoleRequests
  BY <1>1 DEF RoleRequests
<1>4. IsFiniteSet(RoleRequests) /\ Cardinality(RoleRequests) \in Nat
  BY RoleFinite DEF RoleInv
<1>5. RoleRequests' \subseteq RoleRequests
  BY <1>3
<1> QED
  BY <1>2, <1>3, <1>4, <1>5, RoleCounts

\* One roomOpen gives at most one of a room, a call and a refusal: the request
\* that an error makes on the loop's thread takes the place of the one it is the
\* reply to, also where racing threads mix up the ids.
THEOREM OneRoleHolds == Spec => []OneRole
<1>1. Init => RoleInv
  <2> SUFFICES ASSUME Init PROVE RoleInv
    OBVIOUS
  <2>1. DOMAIN requests = {} /\ RoleRequests = {}
    BY DEF Init, RoleRequests
  <2>2. RoleTasks = {}
    BY DEF Init, RoleTasks, Idle
  <2>3. used["roomOpen"] = 0 /\ opened = 0 /\ initCalls = 0 /\ refused = 0
    BY Names DEF Init, Operations
  <2> QED
    BY <2>1, <2>2, <2>3, FS_EmptySet DEF RoleInv
<1>2. TypeOK /\ TypeOK' /\ RoleInv /\ [Next]_vars => RoleInv'
  <2> SUFFICES ASSUME TypeOK, TypeOK', RoleInv, [Next]_vars
               PROVE  RoleInv'
    OBVIOUS
  <2> USE DEF rpc, transport, server, signals
  <2>0. /\ IsFiniteSet(RoleRequests) /\ IsFiniteSet(RoleTasks)
        /\ Cardinality(RoleRequests) \in Nat /\ Cardinality(RoleTasks) \in Nat
        /\ opened \in Nat /\ initCalls \in Nat /\ refused \in Nat
        /\ used["roomOpen"] \in Nat
    BY RoleFinite DEF RoleInv, TypeOK, HistoryType
  <2>00. task \in [Threads -> [at : {"idle", "register", "push"}, kind : Kinds, id : Nat]]
    BY DEF TypeOK, RpcType
  <2>1. ASSUME NEW t \in Threads, Register(t) PROVE RoleInv'
    <3>1. /\ requests' = [i \in DOMAIN requests \cup {counter} |->
                            IF i = counter THEN task[t].kind ELSE requests[i]]
          /\ task' = [task EXCEPT ![t].at = "push", ![t].id = counter]
          /\ task[t].at = "register"
          /\ UNCHANGED <<used, opened, initCalls, refused>>
      BY <2>1 DEF Register
    <3>2. IsFiniteSet(DOMAIN requests')
      BY <3>1, FS_AddElement DEF RoleInv
    <3>3. RoleTasks' \subseteq RoleTasks \ {t}
      BY <2>00, <3>1 DEF RoleTasks
    <3>4. CASE task[t].kind \in RoleKinds
      <4>1. t \in RoleTasks
        BY <3>1, <3>4 DEF RoleTasks
      <4>2. /\ Cardinality(RoleTasks') \in Nat
            /\ Cardinality(RoleTasks') + 1 <= Cardinality(RoleTasks)
        BY <2>0, <3>3, <4>1, RoleCounts
      <4>3. RoleRequests' \subseteq RoleRequests \cup {counter}
        BY <3>1 DEF RoleRequests
      <4>4. /\ Cardinality(RoleRequests') \in Nat
            /\ Cardinality(RoleRequests') <= Cardinality(RoleRequests) + 1
        BY <2>0, <4>3, RoleCounts
      <4> QED
        BY <2>0, <3>1, <3>2, <4>2, <4>4 DEF RoleInv
    <3>5. CASE task[t].kind \notin RoleKinds
      <4>1. RoleRequests' \subseteq RoleRequests
        BY <3>1, <3>5 DEF RoleRequests
      <4>2. RoleTasks' \subseteq RoleTasks
        BY <3>3
      <4>3. /\ Cardinality(RoleRequests') \in Nat /\ Cardinality(RoleTasks') \in Nat
            /\ Cardinality(RoleRequests') <= Cardinality(RoleRequests)
            /\ Cardinality(RoleTasks') <= Cardinality(RoleTasks)
        BY <2>0, <4>1, <4>2, RoleCounts
      <4> QED
        BY <2>0, <3>1, <3>2, <4>3 DEF RoleInv
    <3> QED
      BY <3>4, <3>5
  <2>2. ASSUME NEW t \in Threads, sendMessage(t) PROVE RoleInv'
    <3>1. /\ task' = [task EXCEPT ![t] = Idle]
          /\ UNCHANGED <<requests, used, opened, initCalls, refused>>
      BY <2>2 DEF sendMessage
    <3>2. RoleTasks' \subseteq RoleTasks
      BY <2>00, <3>1 DEF RoleTasks, Idle
    <3> QED
      BY <2>0, <3>1, <3>2, RoleStill
  <2>3. CASE roomOpen
    <3>1. /\ RoleTasks' \subseteq RoleTasks \cup {"ui"}
          /\ UNCHANGED <<requests, opened, initCalls, refused>>
      BY <2>3, <2>00 DEF roomOpen, Request, RoleTasks
    <3>2. used'["roomOpen"] = used["roomOpen"] + 1
      BY <2>3, UseGrows, Names DEF roomOpen
    <3>3. /\ Cardinality(RoleTasks') \in Nat
          /\ Cardinality(RoleTasks') <= Cardinality(RoleTasks) + 1
      BY <2>0, <3>1, RoleCounts
    <3>4. RoleRequests' = RoleRequests
      BY <3>1 DEF RoleRequests
    <3> QED
      BY <2>0, <3>1, <3>2, <3>3, <3>4 DEF RoleInv
  <2>4. ASSUME NEW t \in Threads, NEW o \in Operations, Use(o),
               sendSdpOffer(t) \/ sendSdpAnswer(t) \/ Notify(t)
        PROVE  RoleInv'
    <3>1. /\ RoleTasks' \subseteq RoleTasks
          /\ UNCHANGED <<requests, opened, initCalls, refused>>
      BY <2>4, <2>00 DEF sendSdpOffer, roomOffer, Request, sendSdpAnswer, Notify, Prepare,
                         RoleTasks, RoleKinds
    <3> QED
      BY <2>4, <3>1, UseGrows, RoleStill
  <2>5. ASSUME NEW t \in Threads, Caller(t) PROVE RoleInv'
    <3>1. \/ roomOpen
          \/ sendSdpOffer(t) /\ Use("sendSdpOffer")
          \/ sendSdpAnswer(t) /\ Use("sendSdpAnswer")
          \/ Notify(t) /\ Use("send")
      BY <2>5 DEF Caller, sendSdpOffer, sendSdpAnswer, sendIceCandidate, userMode, Notify
    <3> QED
      BY <2>3, <2>4, <3>1, Names
  <2>6. CASE Connect \/ Closed \/ PeerOffers \/ PeerGathers
    <3>1. UNCHANGED <<requests, task, opened, initCalls, refused>>
      BY <2>6 DEF Connect, Closed, PeerOffers, PeerGathers, ServerOnly
    <3>2. used' = used \/ Use("fault") \/ Use("offer") \/ Use("iceCandidate")
      BY <2>6 DEF Connect, Closed, PeerOffers, PeerGathers
    <3>3. used'["roomOpen"] >= used["roomOpen"]
      BY <2>0, <3>2, UseGrows, Names
    <3>4. RoleTasks' = RoleTasks
      BY <3>1 DEF RoleTasks
    <3> QED
      BY <3>1, <3>3, <3>4, RoleStill
  <2>7. CASE \/ AskWritable \/ Return \/ Established \/ Front \/ Write \/ Rest
             \/ OnOffer \/ OnIceCandidate \/ OnUnhandled \/ Serve \/ PeerAnswers
             \/ UNCHANGED vars
    <3>1. UNCHANGED <<requests, task, used, opened, initCalls, refused>>
      BY <2>7 DEF AskWritable, Return, Established, Front, Write, Rest, LoopOnly,
                  OnOffer, OnIceCandidate, OnUnhandled, Receive, Serve, PeerAnswers,
                  ServerOnly, vars
    <3>2. RoleTasks' = RoleTasks
      BY <3>1 DEF RoleTasks
    <3> QED
      BY <2>0, <3>1, <3>2, RoleStill
  <2>8. CASE OnRoomOpen
    <3>1. /\ IsFiniteSet(DOMAIN requests') /\ Cardinality(RoleRequests') \in Nat
          /\ Cardinality(RoleRequests') + 1 <= Cardinality(RoleRequests)
      BY <2>8, RoleReply, Names DEF OnRoomOpen, RoleKinds
    <3>2. UNCHANGED <<used, initCalls, refused>>
      BY <2>8 DEF OnRoomOpen, Reply, Receive
    <3>3. CASE Head(down).ok
      <4>1. opened' = opened + 1 /\ task' = task
        BY <2>8, <3>3 DEF OnRoomOpen
      <4>2. RoleTasks' = RoleTasks
        BY <4>1 DEF RoleTasks
      <4> QED
        BY <2>0, <3>1, <3>2, <4>1, <4>2 DEF RoleInv
    <3>4. CASE ~Head(down).ok
      <4>1. opened' = opened /\ RoleTasks' \subseteq RoleTasks \cup {"ws"}
        BY <2>8, <2>00, <3>4 DEF OnRoomOpen, roomEnter, Request, RoleTasks
      <4>2. /\ Cardinality(RoleTasks') \in Nat
            /\ Cardinality(RoleTasks') <= Cardinality(RoleTasks) + 1
        BY <2>0, <4>1, RoleCounts
      <4> QED
        BY <2>0, <3>1, <3>2, <4>1, <4>2 DEF RoleInv
    <3> QED
      BY <3>3, <3>4
  <2>9. CASE OnRoomEnter
    <3>1. /\ IsFiniteSet(DOMAIN requests') /\ Cardinality(RoleRequests') \in Nat
          /\ Cardinality(RoleRequests') + 1 <= Cardinality(RoleRequests)
      BY <2>9, RoleReply, Names DEF OnRoomEnter, RoleKinds
    <3>2. UNCHANGED <<used, task, opened>>
      BY <2>9 DEF OnRoomEnter, Reply, Receive
    <3>3. \/ initCalls' = initCalls + 1 /\ refused' = refused
          \/ refused' = refused + 1 /\ initCalls' = initCalls
      BY <2>9 DEF OnRoomEnter
    <3>4. RoleTasks' = RoleTasks
      BY <3>2 DEF RoleTasks
    <3> QED
      BY <2>0, <3>1, <3>2, <3>3, <3>4 DEF RoleInv
  <2>10. CASE OnRoomOffer
    <3>1. /\ IsFiniteSet(DOMAIN requests') /\ Cardinality(RoleRequests') \in Nat
          /\ Cardinality(RoleRequests') <= Cardinality(RoleRequests)
      BY <2>10, RoleReply, Names DEF OnRoomOffer
    <3>2. UNCHANGED <<used, task, opened, initCalls, refused>>
      BY <2>10 DEF OnRoomOffer, Reply, Receive
    <3>3. RoleTasks' = RoleTasks
      BY <3>2 DEF RoleTasks
    <3> QED
      BY <2>0, <3>1, <3>2, <3>3 DEF RoleInv
  <2> QED
    BY <2>1, <2>2, <2>5, <2>6, <2>7, <2>8, <2>9, <2>10
    DEF Next, Work, Loop, onMessage, Server
<1>3. TypeOK /\ RoleInv => OneRole
  <2> SUFFICES ASSUME TypeOK, RoleInv PROVE OneRole
    OBVIOUS
  <2> QED
    BY RoleFinite DEF RoleInv, OneRole
<1> QED
  BY <1>1, <1>2, <1>3, TypeCorrect, PTL DEF Spec

-----------------------------------------------------------------------------
(* From a request to its reply. *)

\* The ids of a sequence's requests and replies, what each one is about, and
\* that each is there once and is about a request that waits in r.
Asks(m) == m.kind \in Requests \cup {"reply"}
About(m) == IF m.kind = "reply" THEN m.to ELSE m.kind
IdsOf(s) == {s[i].id : i \in {j \in DOMAIN s : Asks(s[j])}}
Once(s) == \A i, j \in DOMAIN s : Asks(s[i]) /\ Asks(s[j]) /\ s[i].id = s[j].id => i = j
WaitsIn(r, id, kind) == id \in DOMAIN r /\ r[id] = kind
Matched(r, s) == \A i \in DOMAIN s : Asks(s[i]) => WaitsIn(r, s[i].id, About(s[i]))

Asking(t) == task[t].at = "push" /\ task[t].kind \in Requests
Made == {task[t].id : t \in {u \in Threads : Asking(u)}}

\* The counter is ahead of every id that was given, and of one thread at a time.
IdsInv ==
  /\ \A i \in DOMAIN requests : i <= counter
  /\ \A t \in Threads : task[t].at = "register" =>
       /\ \A u \in Threads : task[u].at = "register" => u = t
       /\ \A i \in DOMAIN requests : i # counter

\* Wherever a request is, on its way to the server and back, it waits for its
\* reply; and it is in one place.
TasksInv ==
  /\ \A t \in Threads : Asking(t) => WaitsIn(requests, task[t].id, task[t].kind)
  /\ \A t, u \in Threads : Asking(t) /\ Asking(u) /\ task[t].id = task[u].id => t = u

JourneyInv ==
  /\ Once(queue) /\ Matched(requests, queue)
  /\ Once(up) /\ Matched(requests, up)
  /\ Once(down) /\ Matched(requests, down)
  /\ \A id \in owed : WaitsIn(requests, id, "room/offer")

ApartInv ==
  /\ Made \cap (IdsOf(queue) \cup IdsOf(up) \cup owed \cup IdsOf(down)) = {}
  /\ IdsOf(queue) \cap (IdsOf(up) \cup owed \cup IdsOf(down)) = {}
  /\ IdsOf(up) \cap (owed \cup IdsOf(down)) = {}
  /\ owed \cap IdsOf(down) = {}

RepliesInv == ~raced => ~unexpected /\ IdsInv /\ TasksInv /\ JourneyInv /\ ApartInv

\* What is under way waits in the map.
LEMMA IdsWait ==
  ASSUME NEW r, NEW s, Matched(r, s)
  PROVE  IdsOf(s) \subseteq DOMAIN r
BY DEF IdsOf, Matched, WaitsIn

\* One message more.
LEMMA IdsAppend ==
  ASSUME NEW S, NEW s \in Seq(S), NEW m \in S, NEW r, Once(s), Matched(r, s),
         Asks(m) => m.id \notin IdsOf(s) /\ WaitsIn(r, m.id, About(m))
  PROVE  /\ Once(Append(s, m)) /\ Matched(r, Append(s, m))
         /\ IdsOf(Append(s, m)) \subseteq IdsOf(s) \cup {m.id}
         /\ ~Asks(m) => IdsOf(Append(s, m)) = IdsOf(s)
<1> DEFINE q == Append(s, m)
<1>1. /\ DOMAIN q = 1 .. Len(s) + 1 /\ DOMAIN s = 1 .. Len(s) /\ Len(s) \in Nat
      /\ \A i \in DOMAIN s : q[i] = s[i]
      /\ q[Len(s) + 1] = m
  OBVIOUS
<1> HIDE DEF q
<1>2. \A i \in DOMAIN q : i \in DOMAIN s \/ i = Len(s) + 1
  BY <1>1
<1>3. \A i \in DOMAIN s : i \in DOMAIN q
  BY <1>1
<1>4. \A i \in DOMAIN s : Asks(s[i]) => s[i].id \in IdsOf(s)
  BY DEF IdsOf
<1>5. Once(q)
  <2> SUFFICES ASSUME NEW i \in DOMAIN q, NEW k \in DOMAIN q, Asks(q[i]), Asks(q[k]),
                      q[i].id = q[k].id
               PROVE  i = k
    BY DEF Once
  <2> QED
    BY <1>1, <1>2, <1>4 DEF Once
<1>6. Matched(r, q)
  BY <1>1, <1>2 DEF Matched
<1>7. IdsOf(q) \subseteq IdsOf(s) \cup {m.id}
  BY <1>1, <1>2, <1>4 DEF IdsOf
<1>8. ~Asks(m) => IdsOf(q) = IdsOf(s)
  BY <1>1, <1>2, <1>3 DEF IdsOf
<1> QED
  BY <1>5, <1>6, <1>7, <1>8 DEF q

\* One message fewer.
LEMMA IdsTail ==
  ASSUME NEW S, NEW s \in Seq(S), s # <<>>, NEW r, Once(s), Matched(r, s)
  PROVE  /\ Once(Tail(s)) /\ Matched(r, Tail(s)) /\ IdsOf(Tail(s)) \subseteq IdsOf(s)
         /\ Asks(Head(s)) => /\ Head(s).id \in IdsOf(s) /\ Head(s).id \notin IdsOf(Tail(s))
                             /\ WaitsIn(r, Head(s).id, About(Head(s)))
<1> DEFINE q == Tail(s)
<1>1. /\ Len(s) \in Nat /\ Len(s) >= 1 /\ DOMAIN s = 1 .. Len(s)
      /\ DOMAIN q = 1 .. Len(s) - 1 /\ Head(s) = s[1]
      /\ \A i \in DOMAIN q : q[i] = s[i + 1]
  OBVIOUS
<1> HIDE DEF q
<1>2. \A i \in DOMAIN q : i \in Nat /\ i + 1 \in DOMAIN s /\ i + 1 # 1
  BY <1>1
<1>3. 1 \in DOMAIN s
  BY <1>1
<1>4. Once(q)
  <2> SUFFICES ASSUME NEW i \in DOMAIN q, NEW k \in DOMAIN q, Asks(q[i]), Asks(q[k]),
                      q[i].id = q[k].id
               PROVE  i = k
    BY DEF Once
  <2>1. i + 1 = k + 1
    BY <1>1, <1>2 DEF Once
  <2> QED
    BY <1>2, <2>1
<1>5. Matched(r, q)
  BY <1>1, <1>2 DEF Matched
<1>6. IdsOf(q) \subseteq IdsOf(s)
  BY <1>1, <1>2 DEF IdsOf
<1>7. ASSUME Asks(Head(s))
      PROVE  /\ Head(s).id \in IdsOf(s) /\ Head(s).id \notin IdsOf(q)
             /\ WaitsIn(r, Head(s).id, About(Head(s)))
  <2>1. Head(s).id \in IdsOf(s) /\ WaitsIn(r, Head(s).id, About(Head(s)))
    BY <1>1, <1>3, <1>7 DEF IdsOf, Matched
  <2>2. ASSUME Head(s).id \in IdsOf(q) PROVE FALSE
    <3>1. PICK i \in DOMAIN q : Asks(q[i]) /\ q[i].id = s[1].id
      BY <1>1, <2>2 DEF IdsOf
    <3>2. i + 1 = 1
      BY <1>1, <1>2, <1>3, <1>7, <3>1 DEF Once
    <3> QED
      BY <1>2, <3>2
  <2> QED
    BY <2>1, <2>2
<1> QED
  BY <1>4, <1>5, <1>6, <1>7 DEF q

\* The map changes, but not for the ids in s.
LEMMA IdsElsewhere ==
  ASSUME NEW r, NEW q, NEW s, Matched(r, s),
         \A i \in IdsOf(s) : i \in DOMAIN q /\ q[i] = r[i]
  PROVE  Matched(q, s)
BY DEF Matched, IdsOf, WaitsIn

\* No thread starts to push a request.
LEMMA TasksFewer ==
  ASSUME TasksInv,
         \A t \in Threads : Asking(t)' => Asking(t) /\ task'[t] = task[t],
         \A i \in Made : i \in DOMAIN requests' /\ requests'[i] = requests[i]
  PROVE  TasksInv' /\ Made' \subseteq Made
BY DEF TasksInv, Made, WaitsIn, Asking

\* A step that makes nothing: only the places outside the threads change.
LEMMA MakingStill ==
  ASSUME IdsInv, TasksInv, UNCHANGED <<counter, requests, task>>
  PROVE  IdsInv' /\ TasksInv' /\ Made' = Made
BY DEF IdsInv, TasksInv, Made, Asking

\* A step that moves no message either.
LEMMA RepliesStill ==
  ASSUME RepliesInv, raced => raced',
         UNCHANGED <<counter, requests, task, queue, up, down, owed, unexpected>>
  PROVE  RepliesInv'
BY DEF RepliesInv, IdsInv, TasksInv, JourneyInv, ApartInv, Made, Asking

\* The reply at the front is expected; taking its request out of the map leaves
\* every other request where it waits.
LEMMA ReplyKeeps ==
  ASSUME TypeOK, IdsInv, TasksInv, JourneyInv, ApartInv, ~unexpected,
         NEW kind \in Requests, Reply(kind)
  PROVE  /\ ~unexpected' /\ JourneyInv' /\ DOMAIN requests' \subseteq DOMAIN requests
         /\ \A i \in Made : i \in DOMAIN requests' /\ requests'[i] = requests[i]
         /\ UNCHANGED <<queue, up, owed>> /\ IdsOf(down') \subseteq IdsOf(down)
<1> DEFINE h == Head(down)
<1>1. /\ Receive("reply") /\ h.id \in DOMAIN requests /\ requests[h.id] = kind
      /\ requests' = [i \in DOMAIN requests \ {h.id} |-> requests[i]]
      /\ unexpected' = (unexpected \/ h.to # kind)
  BY Zenon DEF Reply
<1>2. /\ down # <<>> /\ h.kind = "reply" /\ down' = Tail(down)
      /\ UNCHANGED <<queue, up, owed>>
  BY <1>1 DEF Receive
<1>3. down \in Seq(Received)
  BY DEF TypeOK, ServerType
<1>4. Asks(h) /\ About(h) = h.to
  BY <1>2 DEF Asks, About
<1>5. /\ Once(down') /\ Matched(requests, down') /\ IdsOf(down') \subseteq IdsOf(down)
      /\ h.id \in IdsOf(down) /\ h.id \notin IdsOf(down') /\ WaitsIn(requests, h.id, h.to)
  BY <1>2, <1>3, <1>4, IdsTail DEF JourneyInv
<1> HIDE DEF h
<1>6. h.to = kind
  BY <1>1, <1>5 DEF WaitsIn
<1>7. ~unexpected'
  BY <1>1, <1>6, Zenon
<1>8. \A i \in DOMAIN requests \ {h.id} : i \in DOMAIN requests' /\ requests'[i] = requests[i]
  BY <1>1
<1>9. /\ IdsOf(queue) \subseteq DOMAIN requests /\ IdsOf(up) \subseteq DOMAIN requests
      /\ IdsOf(down') \subseteq DOMAIN requests /\ owed \subseteq DOMAIN requests
      /\ Made \subseteq DOMAIN requests
  BY <1>5, IdsWait DEF JourneyInv, TasksInv, WaitsIn, Made
<1>10. h.id \notin IdsOf(queue) \cup IdsOf(up) \cup owed \cup Made
  BY <1>5 DEF ApartInv
<1>11. Matched(requests', queue) /\ Matched(requests', up) /\ Matched(requests', down')
  BY <1>5, <1>8, <1>9, <1>10, IdsElsewhere DEF JourneyInv
<1>12. \A id \in owed : WaitsIn(requests', id, "room/offer")
  BY <1>8, <1>9, <1>10 DEF JourneyInv, WaitsIn
<1>13. \A i \in Made : i \in DOMAIN requests' /\ requests'[i] = requests[i]
  BY <1>8, <1>9, <1>10
<1>14. JourneyInv'
  BY <1>2, <1>5, <1>11, <1>12 DEF JourneyInv
<1> QED
  BY <1>1, <1>2, <1>5, <1>7, <1>13, <1>14

\* A message's kind tells whether it asks; no message on its way up is a reply.
LEMMA AsksOf ==
  /\ \A m \in Message : About(m) = m.kind /\ (Asks(m) <=> m.kind \in Requests)
  /\ \A id, to, ok : LET m == ReplyTo(id, to, ok) IN Asks(m) /\ About(m) = to /\ m.id = id
  /\ \A id : ~Asks(Notice("offer", id)) /\ ~Asks(Notice("ice-candidate", id))
BY DEF Asks, About, Message, Kinds, Requests, ReplyTo, Notice

\* Making a request: the counter gets ahead of every id that was given.
LEMMA RequestKeeps ==
  ASSUME TypeOK, IdsInv, TasksInv, NEW t \in Threads, NEW kind \in Requests,
         task[t].at = "idle", Request(t, kind), ~raced',
         DOMAIN requests' \subseteq DOMAIN requests,
         \A i \in Made : i \in DOMAIN requests' /\ requests'[i] = requests[i]
  PROVE  IdsInv' /\ TasksInv' /\ Made' \subseteq Made
<1>1. /\ counter' = counter + 1 /\ counter \in Nat
      /\ task \in [Threads -> [at : {"idle", "register", "push"}, kind : Kinds, id : Nat]]
      /\ task' = [task EXCEPT ![t] = [at |-> "register", kind |-> kind, id |-> 0]]
      /\ DOMAIN requests \subseteq Nat
  BY DEF Request, TypeOK, RpcType
<1>2. \A u \in Threads \ {t} : task'[u] = task[u] /\ task[u].at # "register"
  BY <1>1, Zenon DEF Request, Others
<1>3. \A u \in Threads : Asking(u)' => Asking(u) /\ task'[u] = task[u]
  BY <1>1 DEF Asking
<1>4. TasksInv' /\ Made' \subseteq Made
  BY <1>3, TasksFewer
<1>5. IdsInv'
  BY <1>1, <1>2 DEF IdsInv
<1> QED
  BY <1>4, <1>5

\* Unless threads race, no reply is without its request, and none is taken for the
\* reply to something else: ids are given once, requests outlive connections, and
\* each travels to the server and back in one copy.
THEOREM RepliesHold == Spec => []RepliesAreExpected
<1>1. Init => RepliesInv
  <2> SUFFICES ASSUME Init PROVE RepliesInv
    OBVIOUS
  <2>1. DOMAIN requests = {} /\ queue = <<>> /\ up = <<>> /\ down = <<>> /\ owed = {}
    BY DEF Init
  <2>2. DOMAIN queue = {} /\ DOMAIN up = {} /\ DOMAIN down = {}
    BY <2>1
  <2>3. \A t \in Threads : task[t].at = "idle"
    BY DEF Init, Idle
  <2>4. Made = {} /\ IdsInv /\ TasksInv
    BY <2>1, <2>3 DEF Made, Asking, IdsInv, TasksInv
  <2>5. JourneyInv
    BY <2>1, <2>2 DEF JourneyInv, Once, Matched
  <2>6. IdsOf(queue) = {} /\ IdsOf(up) = {} /\ IdsOf(down) = {}
    BY <2>2 DEF IdsOf
  <2>7. ~unexpected
    BY DEF Init
  <2> QED
    BY <2>1, <2>4, <2>5, <2>6, <2>7 DEF RepliesInv, ApartInv
<1>2. TypeOK /\ RepliesInv /\ [Next]_vars => RepliesInv'
  <2> SUFFICES ASSUME TypeOK, RepliesInv, [Next]_vars
               PROVE  RepliesInv'
    OBVIOUS
  <2> USE DEF rpc, transport, server, signals
  <2>0. /\ queue \in Seq(Message) /\ up \in Seq(Message) /\ down \in Seq(Received)
        /\ owed \subseteq Nat
        /\ task \in [Threads -> [at : {"idle", "register", "push"}, kind : Kinds, id : Nat]]
        /\ \A t \in Threads : task[t].at = "register" => task[t].kind \in Requests
        /\ counter \in Nat /\ DOMAIN requests \subseteq Nat /\ pushed \in Nat
        /\ task["ws"].at # "idle" => loop \in {"callback", "entering", "crashed"}
        /\ loop = "pop" => queue # <<>> /\ writing = Head(queue)
    BY DEF TypeOK, RpcType, TransportType, ServerType, HistoryType
  <2>1. ASSUME NEW t \in Threads, Register(t) PROVE RepliesInv'
    <3> SUFFICES ASSUME ~raced' PROVE RepliesInv'
      BY DEF RepliesInv
    <3>1. /\ requests' = [i \in DOMAIN requests \cup {counter} |->
                            IF i = counter THEN task[t].kind ELSE requests[i]]
          /\ task' = [task EXCEPT ![t].at = "push", ![t].id = counter]
          /\ task[t].at = "register" /\ ~raced
          /\ UNCHANGED <<counter, queue, up, down, owed, unexpected>>
      BY <2>1, Zenon DEF Register
    <3>2. ~unexpected /\ IdsInv /\ TasksInv /\ JourneyInv /\ ApartInv
      BY <3>1 DEF RepliesInv
    <3>3. counter \notin DOMAIN requests
      BY <3>1, <3>2 DEF IdsInv
    <3>4. /\ \A i \in DOMAIN requests : i \in DOMAIN requests' /\ requests'[i] = requests[i]
          /\ counter \in DOMAIN requests' /\ requests'[counter] = task[t].kind
      BY <3>1, <3>3
    <3>5. /\ IdsOf(queue) \subseteq DOMAIN requests /\ IdsOf(up) \subseteq DOMAIN requests
          /\ IdsOf(down) \subseteq DOMAIN requests /\ owed \subseteq DOMAIN requests
          /\ Made \subseteq DOMAIN requests
      BY <3>2, IdsWait DEF JourneyInv, TasksInv, WaitsIn, Made
    <3>6. /\ task'[t].at = "push" /\ task'[t].id = counter /\ task'[t].kind = task[t].kind
          /\ \A u \in Threads \ {t} : task'[u] = task[u]
      BY <2>0, <3>1
    <3>7. IdsInv'
      BY <2>0, <3>1, <3>2, <3>6 DEF IdsInv
    <3>8. TasksInv' /\ Made' \subseteq Made \cup {counter}
      <4>1. \A u \in Threads \ {t} : /\ Asking(u)' <=> Asking(u)
                                     /\ Asking(u) => task[u].id \in DOMAIN requests
        BY <3>2, <3>6 DEF Asking, TasksInv, WaitsIn
      <4>2. \A u \in Threads : Asking(u)' => WaitsIn(requests', task'[u].id, task'[u].kind)
        BY <3>2, <3>4, <3>6, <4>1 DEF TasksInv, WaitsIn
      <4>3. ASSUME NEW u \in Threads, NEW v \in Threads, Asking(u)', Asking(v)',
                   task'[u].id = task'[v].id
            PROVE  u = v
        <5>1. CASE u # t /\ v # t
          BY <3>2, <3>6, <4>1, <4>3, <5>1 DEF TasksInv
        <5>2. CASE u = t /\ v # t
          BY <3>3, <3>6, <4>1, <4>3, <5>2
        <5>3. CASE u # t /\ v = t
          BY <3>3, <3>6, <4>1, <4>3, <5>3
        <5> QED
          BY <5>1, <5>2, <5>3
      <4>4. Made' \subseteq Made \cup {counter}
        BY <3>6, <4>1 DEF Made
      <4> QED
        BY <4>2, <4>3, <4>4 DEF TasksInv
    <3>9. JourneyInv'
      <4>1. /\ Matched(requests', queue) /\ Matched(requests', up)
            /\ Matched(requests', down)
        BY <3>2, <3>4, <3>5, IdsElsewhere DEF JourneyInv
      <4>2. \A id \in owed : WaitsIn(requests', id, "room/offer")
        BY <3>2, <3>4 DEF JourneyInv, WaitsIn
      <4> QED
        BY <3>1, <3>2, <4>1, <4>2 DEF JourneyInv
    <3>10. ApartInv'
      BY <3>1, <3>2, <3>3, <3>5, <3>8 DEF ApartInv
    <3> QED
      BY <3>1, <3>2, <3>7, <3>8, <3>9, <3>10 DEF RepliesInv
  <2>2. ASSUME NEW t \in Threads, sendMessage(t) PROVE RepliesInv'
    <3> SUFFICES ASSUME ~raced' PROVE RepliesInv'
      BY DEF RepliesInv
    <3> DEFINE m == [kind |-> task[t].kind, id |-> task[t].id, no |-> pushed + 1]
    <3>1. /\ ~raced /\ queue' = Append(queue, m) /\ task' = [task EXCEPT ![t] = Idle]
          /\ task[t].at = "push"
          /\ UNCHANGED <<counter, requests, up, down, owed, unexpected>>
      BY <2>2, Zenon DEF sendMessage
    <3>2. ~unexpected /\ IdsInv /\ TasksInv /\ JourneyInv /\ ApartInv
      BY <3>1 DEF RepliesInv
    <3>3. m \in Message /\ m.id = task[t].id /\ m.kind = task[t].kind
      BY <2>0 DEF Message
    <3>4. About(m) = m.kind /\ (Asks(m) <=> Asking(t))
      BY <3>1, <3>3, AsksOf DEF Asking
    <3> HIDE DEF m
    <3>5. Asks(m) => m.id \in Made /\ WaitsIn(requests, m.id, About(m))
      BY <3>2, <3>3, <3>4 DEF Made, TasksInv
    <3>6. Asks(m) => m.id \notin IdsOf(queue) \cup IdsOf(up) \cup owed \cup IdsOf(down)
      BY <3>2, <3>5 DEF ApartInv
    <3>7. /\ Once(queue') /\ Matched(requests, queue')
          /\ IdsOf(queue') \subseteq IdsOf(queue) \cup {m.id}
          /\ ~Asks(m) => IdsOf(queue') = IdsOf(queue)
      BY <2>0, <3>1, <3>2, <3>3, <3>5, <3>6, IdsAppend DEF JourneyInv
    <3>8. /\ task'[t].at = "idle" /\ \A u \in Threads \ {t} : task'[u] = task[u]
      BY <2>0, <3>1 DEF Idle
    <3>9. \A u \in Threads : Asking(u)' => Asking(u) /\ u # t /\ task'[u] = task[u]
      BY <3>8 DEF Asking
    <3>10. TasksInv' /\ Made' \subseteq Made
      <4>1. \A i \in Made : i \in DOMAIN requests' /\ requests'[i] = requests[i]
        BY <3>1, <3>2 DEF Made, TasksInv, WaitsIn
      <4> QED
        BY <3>2, <3>9, <4>1, TasksFewer
    <3>11. Asks(m) => m.id \notin Made'
      BY <3>2, <3>3, <3>4, <3>9 DEF Made, TasksInv
    <3>12. IdsInv'
      BY <2>0, <3>1, <3>2, <3>8 DEF IdsInv
    <3>13. JourneyInv'
      BY <3>1, <3>2, <3>7 DEF JourneyInv
    <3>14. ApartInv'
      BY <3>1, <3>2, <3>6, <3>7, <3>10, <3>11 DEF ApartInv
    <3> QED
      BY <3>1, <3>2, <3>10, <3>12, <3>13, <3>14 DEF RepliesInv
  <2>3. ASSUME NEW t \in Threads, Caller(t) PROVE RepliesInv'
    <3> SUFFICES ASSUME ~raced' PROVE RepliesInv'
      BY DEF RepliesInv
    <3>1. /\ UNCHANGED <<requests, queue, up, down, owed, unexpected>>
          /\ task[t].at = "idle"
      BY <2>3 DEF Caller, roomOpen, sendSdpOffer, sendSdpAnswer, sendIceCandidate,
                  userMode, Notify, Prepare, Free
    <3>2. ~raced
      BY <2>3, Zenon DEF Caller, roomOpen, sendSdpOffer, roomOffer, sendSdpAnswer,
                         sendIceCandidate, userMode, Notify, Prepare, Request
    <3>3. ~unexpected /\ IdsInv /\ TasksInv /\ JourneyInv /\ ApartInv
      BY <3>2 DEF RepliesInv
    <3>4. \A i \in Made : i \in DOMAIN requests' /\ requests'[i] = requests[i]
      BY <3>1, <3>3 DEF Made, TasksInv, WaitsIn
    <3>5. ASSUME \E kind \in Requests : Request(t, kind)
          PROVE  IdsInv' /\ TasksInv' /\ Made' \subseteq Made
      BY <3>1, <3>3, <3>4, <3>5, RequestKeeps
    <3>6. ASSUME \E kind \in {"answer", "notification"}, id \in Nat : Prepare(t, kind, id)
          PROVE  IdsInv' /\ TasksInv' /\ Made' \subseteq Made
      <4>1. PICK kind \in {"answer", "notification"}, id \in Nat :
              task' = [task EXCEPT ![t] = [at |-> "push", kind |-> kind, id |-> id]]
        BY <3>6 DEF Prepare
      <4>2. counter' = counter
        BY <3>6 DEF Prepare
      <4>3. \A u \in Threads : Asking(u)' => Asking(u) /\ task'[u] = task[u]
        BY <2>0, <4>1 DEF Asking, Requests
      <4>4. TasksInv' /\ Made' \subseteq Made
        BY <3>3, <3>4, <4>3, TasksFewer
      <4>5. \A u \in Threads : task'[u].at = "register" => task[u].at = "register"
        BY <2>0, <4>1
      <4>6. IdsInv'
        BY <3>1, <3>3, <4>2, <4>5 DEF IdsInv
      <4> QED
        BY <4>4, <4>6
    <3>7. IdsInv' /\ TasksInv' /\ Made' \subseteq Made
      <4>1. offerId \in Nat /\ 0 \in Nat
        BY DEF TypeOK, RpcType
      <4>2. \/ \E kind \in Requests : Request(t, kind)
            \/ \E kind \in {"answer", "notification"}, id \in Nat : Prepare(t, kind, id)
        BY <2>3, <4>1, Names DEF Caller, roomOpen, sendSdpOffer, roomOffer, sendSdpAnswer,
                                 sendIceCandidate, userMode, Notify
      <4> QED
        BY <3>5, <3>6, <4>2
    <3>8. JourneyInv'
      BY <3>1, <3>3 DEF JourneyInv
    <3>9. ApartInv'
      BY <3>1, <3>3, <3>7 DEF ApartInv
    <3> QED
      BY <3>1, <3>3, <3>7, <3>8, <3>9 DEF RepliesInv
  <2>4. CASE Connect \/ AskWritable \/ Return \/ Established \/ Front \/ Rest
    BY <2>4, RepliesStill
    DEF Connect, AskWritable, Return, Established, Front, Rest, LoopOnly
  <2>5. CASE Closed
    <3> SUFFICES ASSUME ~raced' PROVE RepliesInv'
      BY DEF RepliesInv
    <3>1. /\ up' = <<>> /\ down' = <<>> /\ owed' = {} /\ ~raced
          /\ UNCHANGED <<counter, requests, task, queue, unexpected>>
      BY <2>5 DEF Closed
    <3>2. ~unexpected /\ IdsInv /\ TasksInv /\ JourneyInv /\ ApartInv
      BY <3>1 DEF RepliesInv
    <3>3. DOMAIN up' = {} /\ DOMAIN down' = {}
      BY <3>1
    <3>4. JourneyInv'
      BY <3>1, <3>2, <3>3 DEF JourneyInv, Once, Matched
    <3>5. IdsOf(up') = {} /\ IdsOf(down') = {}
      BY <3>3 DEF IdsOf
    <3>6. ApartInv'
      BY <3>1, <3>2, <3>5, MakingStill DEF ApartInv
    <3> QED
      BY <3>1, <3>2, <3>4, <3>6, MakingStill DEF RepliesInv
  <2>6. CASE Write
    <3> SUFFICES ASSUME ~raced' PROVE RepliesInv'
      BY DEF RepliesInv
    <3> DEFINE m == Head(queue)
    <3>1. /\ ~raced /\ queue' = Tail(queue) /\ up' = Append(up, m) /\ queue # <<>>
          /\ UNCHANGED <<counter, requests, task, down, owed, unexpected>>
      BY <2>0, <2>6, Zenon DEF Write
    <3>2. ~unexpected /\ IdsInv /\ TasksInv /\ JourneyInv /\ ApartInv
      BY <3>1 DEF RepliesInv
    <3>3. m \in Message
      BY <2>0, <3>1
    <3>4. /\ Once(queue') /\ Matched(requests, queue') /\ IdsOf(queue') \subseteq IdsOf(queue)
          /\ Asks(m) => m.id \in IdsOf(queue) /\ m.id \notin IdsOf(queue')
                        /\ WaitsIn(requests, m.id, About(m))
      BY <2>0, <3>1, <3>2, IdsTail DEF JourneyInv
    <3> HIDE DEF m
    <3>5. Asks(m) => m.id \notin Made \cup IdsOf(up) \cup owed \cup IdsOf(down)
      BY <3>2, <3>4 DEF ApartInv
    <3>6. /\ Once(up') /\ Matched(requests, up') /\ IdsOf(up') \subseteq IdsOf(up) \cup {m.id}
          /\ ~Asks(m) => IdsOf(up') = IdsOf(up)
      BY <2>0, <3>1, <3>2, <3>3, <3>4, <3>5, IdsAppend DEF JourneyInv
    <3>7. JourneyInv'
      BY <3>1, <3>2, <3>4, <3>6 DEF JourneyInv
    <3>8. ApartInv'
      <4>1. Made' = Made
        BY <3>1, <3>2, MakingStill
      <4> QED
        BY <3>1, <3>2, <3>4, <3>5, <3>6, <4>1 DEF ApartInv
    <3> QED
      BY <3>1, <3>2, <3>7, <3>8, MakingStill DEF RepliesInv
  <2>7. CASE Serve
    <3> SUFFICES ASSUME ~raced' PROVE RepliesInv'
      BY DEF RepliesInv
    <3> DEFINE m == Head(up)
    <3>1. /\ ~raced /\ up' = Tail(up) /\ up # <<>>
          /\ UNCHANGED <<counter, requests, task, queue, unexpected>>
      BY <2>7 DEF Serve, ServerOnly
    <3>2. ~unexpected /\ IdsInv /\ TasksInv /\ JourneyInv /\ ApartInv
      BY <3>1 DEF RepliesInv
    <3>3. m \in Message
      BY <2>0, <3>1
    <3>4. About(m) = m.kind /\ (Asks(m) <=> m.kind \in Requests)
      BY <3>3, AsksOf
    <3>5. /\ Once(up') /\ Matched(requests, up') /\ IdsOf(up') \subseteq IdsOf(up)
          /\ Asks(m) => m.id \in IdsOf(up) /\ m.id \notin IdsOf(up')
                        /\ WaitsIn(requests, m.id, m.kind)
      BY <2>0, <3>1, <3>2, <3>4, IdsTail DEF JourneyInv
    <3>6. Made' = Made /\ IdsInv' /\ TasksInv'
      BY <3>1, <3>2, MakingStill
    <3>7. \/ /\ m.kind \in Requests /\ owed' = owed
             /\ \E ok \in BOOLEAN : down' = Append(down, ReplyTo(m.id, m.kind, ok))
          \/ m.kind = "room/offer" /\ owed' = owed \cup {m.id} /\ down' = down
          \/ owed' = owed /\ down' = down
      <4>1. "room/open" \in Requests /\ "room/enter" \in Requests
        BY DEF Requests
      <4> QED
        BY <2>7, <4>1, Zenon DEF Serve
    <3> HIDE DEF m
    <3>8. Asks(m) => m.id \notin Made \cup IdsOf(queue) \cup owed \cup IdsOf(down)
      BY <3>2, <3>5 DEF ApartInv
    <3>9. ASSUME m.kind \in Requests, owed' = owed, NEW ok \in BOOLEAN,
                 down' = Append(down, ReplyTo(m.id, m.kind, ok))
          PROVE  JourneyInv' /\ ApartInv'
      <4> DEFINE r == ReplyTo(m.id, m.kind, ok)
      <4>1. r \in Received
        BY <3>3, Names DEF ReplyTo, Received, Message
      <4>2. Asks(r) /\ About(r) = m.kind /\ r.id = m.id
        BY AsksOf
      <4> HIDE DEF r
      <4>3. down' = Append(down, r)
        BY <3>9 DEF r
      <4>4. /\ Once(down') /\ Matched(requests, down')
            /\ IdsOf(down') \subseteq IdsOf(down) \cup {m.id}
        BY <2>0, <3>2, <3>4, <3>5, <3>8, <3>9, <4>1, <4>2, <4>3, IdsAppend DEF JourneyInv
      <4>5. JourneyInv'
        BY <3>1, <3>2, <3>5, <3>9, <4>4 DEF JourneyInv
      <4>6. ApartInv'
        BY <3>1, <3>2, <3>4, <3>5, <3>6, <3>8, <3>9, <4>4 DEF ApartInv
      <4> QED
        BY <4>5, <4>6
    <3>10. ASSUME m.kind = "room/offer", owed' = owed \cup {m.id}, down' = down
           PROVE  JourneyInv' /\ ApartInv'
      <4>1. Asks(m)
        BY <3>4, <3>10, Names
      <4>2. JourneyInv'
        BY <3>1, <3>2, <3>5, <3>10, <4>1 DEF JourneyInv
      <4>3. ApartInv'
        BY <3>1, <3>2, <3>5, <3>6, <3>8, <3>10, <4>1 DEF ApartInv
      <4> QED
        BY <4>2, <4>3
    <3>11. ASSUME owed' = owed, down' = down
           PROVE  JourneyInv' /\ ApartInv'
      <4>1. JourneyInv'
        BY <3>1, <3>2, <3>5, <3>11 DEF JourneyInv
      <4>2. ApartInv'
        BY <3>1, <3>2, <3>5, <3>6, <3>11 DEF ApartInv
      <4> QED
        BY <4>1, <4>2
    <3>12. JourneyInv' /\ ApartInv'
      BY <3>7, <3>9, <3>10, <3>11
    <3> QED
      BY <3>1, <3>2, <3>6, <3>12 DEF RepliesInv
  <2>8. CASE PeerAnswers
    <3> SUFFICES ASSUME ~raced' PROVE RepliesInv'
      BY DEF RepliesInv
    <3>1. /\ ~raced /\ UNCHANGED <<counter, requests, task, queue, up, unexpected>>
      BY <2>8 DEF PeerAnswers, ServerOnly
    <3>2. ~unexpected /\ IdsInv /\ TasksInv /\ JourneyInv /\ ApartInv
      BY <3>1 DEF RepliesInv
    <3>3. PICK id \in owed, ok \in BOOLEAN :
            /\ down' = Append(down, ReplyTo(id, "room/offer", ok))
            /\ owed' = owed \ {id}
      BY <2>8 DEF PeerAnswers
    <3> DEFINE r == ReplyTo(id, "room/offer", ok)
    <3>4. r \in Received
      BY <2>0, Names DEF ReplyTo, Received
    <3>5. Asks(r) /\ About(r) = "room/offer" /\ r.id = id
      BY AsksOf
    <3>6. down' = Append(down, r)
      BY <3>3
    <3> HIDE DEF r
    <3>7. id \notin Made \cup IdsOf(queue) \cup IdsOf(up) \cup IdsOf(down)
      BY <3>2 DEF ApartInv
    <3>8. /\ Once(down') /\ Matched(requests, down')
          /\ IdsOf(down') \subseteq IdsOf(down) \cup {id}
      BY <2>0, <3>2, <3>4, <3>5, <3>6, <3>7, IdsAppend DEF JourneyInv
    <3>9. JourneyInv'
      BY <3>1, <3>2, <3>3, <3>8 DEF JourneyInv
    <3>10. IdsInv' /\ TasksInv' /\ Made' = Made
      BY <3>1, <3>2, MakingStill
    <3>11. ApartInv'
      BY <3>1, <3>2, <3>3, <3>7, <3>8, <3>10 DEF ApartInv
    <3> QED
      BY <3>1, <3>2, <3>9, <3>10, <3>11 DEF RepliesInv
  <2>9. CASE PeerOffers \/ PeerGathers
    <3> SUFFICES ASSUME ~raced' PROVE RepliesInv'
      BY DEF RepliesInv
    <3>1. /\ ~raced
          /\ UNCHANGED <<counter, requests, task, queue, up, owed, unexpected>>
      BY <2>9 DEF PeerOffers, PeerGathers, ServerOnly
    <3>2. ~unexpected /\ IdsInv /\ TasksInv /\ JourneyInv /\ ApartInv
      BY <3>1 DEF RepliesInv
    <3>3. PICK n \in Received : ~Asks(n) /\ down' = Append(down, n)
      <4>1. /\ Notice("offer", used["offer"] + 1) \in Received
            /\ Notice("ice-candidate", 0) \in Received
        BY Names DEF Notice, Received, TypeOK, HistoryType
      <4> QED
        BY <2>9, <4>1, AsksOf DEF PeerOffers, PeerGathers
    <3>4. /\ Once(down') /\ Matched(requests, down') /\ IdsOf(down') = IdsOf(down)
      BY <2>0, <3>2, <3>3, IdsAppend DEF JourneyInv
    <3>5. IdsInv' /\ TasksInv' /\ Made' = Made
      BY <3>1, <3>2, MakingStill
    <3>6. JourneyInv'
      BY <3>1, <3>2, <3>4 DEF JourneyInv
    <3>7. ApartInv'
      BY <3>1, <3>2, <3>4, <3>5 DEF ApartInv
    <3> QED
      BY <3>1, <3>2, <3>5, <3>6, <3>7 DEF RepliesInv
  <2>10. CASE OnOffer \/ OnIceCandidate
    <3> SUFFICES ASSUME ~raced' PROVE RepliesInv'
      BY DEF RepliesInv
    <3>1. /\ ~raced /\ down # <<>> /\ down' = Tail(down)
          /\ UNCHANGED <<counter, requests, task, queue, up, owed, unexpected>>
      BY <2>10 DEF OnOffer, OnIceCandidate, Receive
    <3>2. ~unexpected /\ IdsInv /\ TasksInv /\ JourneyInv /\ ApartInv
      BY <3>1 DEF RepliesInv
    <3>3. Once(down') /\ Matched(requests, down') /\ IdsOf(down') \subseteq IdsOf(down)
      BY <2>0, <3>1, <3>2, IdsTail DEF JourneyInv
    <3>4. IdsInv' /\ TasksInv' /\ Made' = Made
      BY <3>1, <3>2, MakingStill
    <3>5. JourneyInv'
      BY <3>1, <3>2, <3>3 DEF JourneyInv
    <3>6. ApartInv'
      BY <3>1, <3>2, <3>3, <3>4 DEF ApartInv
    <3> QED
      BY <3>1, <3>2, <3>4, <3>5, <3>6 DEF RepliesInv
  <2>11. CASE OnUnhandled
    <3>1. /\ down # <<>> /\ Head(down).kind = "reply" /\ raced' = raced
          /\ Head(down).id \notin DOMAIN requests
      BY <2>11 DEF OnUnhandled, Receive
    <3>2. Asks(Head(down))
      BY <3>1 DEF Asks
    <3>3. ASSUME ~raced PROVE FALSE
      <4>1. Once(down) /\ Matched(requests, down)
        BY <3>3 DEF RepliesInv, JourneyInv
      <4>2. WaitsIn(requests, Head(down).id, About(Head(down)))
        BY <2>0, <3>1, <3>2, <4>1, IdsTail
      <4> QED
        BY <3>1, <4>2 DEF WaitsIn
    <3> QED
      BY <3>1, <3>3 DEF RepliesInv
  <2>12. CASE OnRoomOpen \/ OnRoomEnter \/ OnRoomOffer
    <3> SUFFICES ASSUME ~raced' PROVE RepliesInv'
      BY DEF RepliesInv
    <3>1. PICK kind \in Requests : Reply(kind)
      BY <2>12, Names DEF OnRoomOpen, OnRoomEnter, OnRoomOffer
    <3>2. ~raced
      BY <2>12, Zenon DEF OnRoomOpen, roomEnter, Request, OnRoomEnter, OnRoomOffer
    <3>3. ~unexpected /\ IdsInv /\ TasksInv /\ JourneyInv /\ ApartInv
      BY <3>2 DEF RepliesInv
    <3>4. /\ ~unexpected' /\ JourneyInv' /\ DOMAIN requests' \subseteq DOMAIN requests
          /\ \A i \in Made : i \in DOMAIN requests' /\ requests'[i] = requests[i]
          /\ UNCHANGED <<queue, up, owed>> /\ IdsOf(down') \subseteq IdsOf(down)
      BY <3>1, <3>3, ReplyKeeps
    <3>5. \/ counter' = counter /\ task' = task
          \/ roomEnter
      BY <2>12 DEF OnRoomOpen, OnRoomEnter, OnRoomOffer
    <3>6. CASE counter' = counter /\ task' = task
      <4>1. IdsInv'
        BY <3>3, <3>4, <3>6 DEF IdsInv
      <4>2. \A t \in Threads : Asking(t)' => Asking(t) /\ task'[t] = task[t]
        BY <3>6 DEF Asking
      <4>3. TasksInv' /\ Made' \subseteq Made
        BY <3>3, <3>4, <4>2, TasksFewer
      <4> QED
        BY <3>3, <3>4, <4>1, <4>3 DEF RepliesInv, ApartInv
    <3>7. CASE roomEnter
      <4>1. loop = "service"
        BY <3>1 DEF Reply, Receive
      <4>2. task["ws"].at = "idle"
        BY <2>0, <4>1
      <4>3. IdsInv' /\ TasksInv' /\ Made' \subseteq Made
        BY <3>3, <3>4, <3>7, <4>2, RequestKeeps, Names DEF roomEnter
      <4> QED
        BY <3>3, <3>4, <4>3 DEF RepliesInv, ApartInv
    <3> QED
      BY <3>5, <3>6, <3>7
  <2>13. CASE UNCHANGED vars
    BY <2>13, RepliesStill DEF vars
  <2> QED
    BY <2>1, <2>2, <2>3, <2>4, <2>5, <2>6, <2>7, <2>8, <2>9, <2>10, <2>11, <2>12, <2>13
    DEF Next, Work, Loop, onMessage, Server
<1>3. RepliesInv => RepliesAreExpected
  BY DEF RepliesInv, RepliesAreExpected
<1> QED
  BY <1>1, <1>2, <1>3, TypeCorrect, PTL DEF Spec
=============================================================================
