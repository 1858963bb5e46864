----------------------------- MODULE PeerProofs -----------------------------
(***************************************************************************)
(* One end of a call, whatever the environment does within the protocol:   *)
(* there is one peer connection, SDPs are sent as they were made, every    *)
(* candidate is accepted, and frames find their capturer.  What holds of   *)
(* every Manager holds of the one in a Peer; the proofs join it with what  *)
(* the Conductor makes of the calls.                                       *)
(***************************************************************************)
EXTENDS Peer, HandoffProofs

\* At work, the WebRTC thread leaves its Manager alone; taking a message, it may
\* race with a thread that pushes one.
LEMMA SdkLeaves ==
  ASSUME SdkStep
  PROVE  /\ UNCHANGED <<sdp, sent, candidates, processing, calling, connected, isOn,
                       videoMode, deviceType, dataSource, conductor, forgotten, sending,
                       pc, side, held, chosen, out, calls, skipped, late>>
         /\ raced' = raced \/ raced' = TRUE
         /\ conductor /\ pc["sdk"] = "idle"
         /\ [Next]_vars
<1>1. CASE SdkTakes
  <2>1. Dequeue /\ late' = late
    BY <1>1 DEF SdkTakes
  <2>2. Next
    BY <2>1 DEF Next
  <2> QED
    BY <2>1, <2>2 DEF Dequeue, negotiation, video, sdkSource
<1>2. CASE SdkIdle /\ UNCHANGED <<vars, fate>>
  BY <1>2 DEF SdkIdle, vars, fate
<1> QED
  BY <1>1, <1>2 DEF SdkStep

\* Every step of a Peer is a step of its Manager, or leaves it alone.
THEOREM PeerHasManager == PeerSpec => Spec
<1>1. PeerInit => Init
  BY DEF PeerInit
<1>2. [PeerNext]_peerVars => [Next]_vars
  <2>1. ASSUME SdkReports PROVE Next
    BY <2>1 DEF SdkReports, Next, Call
  <2>2. ASSUME Signal PROVE Next
    BY <2>2 DEF Signal, Entered, Offer, Answer, Next, Call
  <2>3. ASSUME User PROVE Next
    BY <2>3 DEF User, Next, Call
  <2>4. ASSUME NEW t \in Threads, PeerRun(t) PROVE Next
    BY <2>4 DEF PeerRun, Next
  <2>5. SdkStep \/ UNCHANGED peerVars => [Next]_vars
    BY SdkLeaves DEF peerVars
  <2> QED
    BY <2>1, <2>2, <2>3, <2>4, <2>5 DEF PeerNext
<1> QED
  BY <1>1, <1>2, PTL DEF PeerSpec, Spec

-----------------------------------------------------------------------------
(* What a Manager pushes, and where it has it from. *)

\* Some thread pushes m for side s.
Sends(s, m) ==
  \/ /\ IsSdp(m) /\ m.kind = SdpKind(s) /\ m.sdp = sdp[s]
     /\ \E t \in Negotiators : pc[t] = "sendSdp" /\ side[t] = s
  \/ IsCandidate(m) /\ \E t \in Negotiators : pc[t] = "sendCandidate" /\ pc'[t] = "testQueue"
  \/ m.kind = "mode"
  \/ m.kind = "init" /\ s = "remote" /\ pc["ws"] = "sendInit" /\ pc'["ws"] = "idle"
  \/ m.kind = "frame" /\ s = "remote" /\ pc["ui"] = "sendFrame"

\* A side of a Manager keeps what was pushed, or gets one more message.
Grown(s) ==
  \/ out'[s] = out[s]
  \/ \E m \in Message : Sends(s, m) /\ out'[s] = Append(out[s], m)

LEMMA PushGrows ==
  ASSUME out \in [Sides -> Seq(Message)], NEW s \in Sides, NEW t, NEW to \in Sides,
         NEW m \in Message, Push(t, to, m), to = s => Sends(s, m)
  PROVE  Grown(s)
<1>1. out' = out \/ out' = [out EXCEPT ![to] = Append(@, m)]
  BY Zenon DEF Push
<1> QED
  BY <1>1 DEF Grown

LEMMA Grows ==
  ASSUME TypeOK, [Next]_vars, NEW s \in Sides
  PROVE  Grown(s)
<1> USE DEF negotiation, video, sdkSource, history
<1>0. /\ Threads = {"ui", "ws", "sdk"} /\ Negotiators = {"ws", "sdk"}
      /\ Sides = {"local", "remote"}
      /\ side \in [Threads -> Sides] /\ held \in [Threads -> Nat]
      /\ sdp \in [Sides -> Sdp] /\ videoMode \in Modes /\ isOn \in BOOLEAN
      /\ pc \in [Threads -> Labels]
      /\ out \in [Sides -> Seq(Message)]
  BY DEF Threads, Negotiators, Sides, TypeOK
<1>1. ASSUME NEW t \in Negotiators, handleMessages(t) PROVE Grown(s)
  <2>1. CASE SendSdp(t)
    <3> DEFINE m == [kind |-> SdpKind(side[t]), sdp |-> sdp[side[t]]]
    <3>1. m \in Message /\ IsSdp(m) /\ m.kind = SdpKind(side[t]) /\ m.sdp = sdp[side[t]]
      BY <1>0 DEF Message, Told, SdpKind, IsSdp
    <3>2. pc[t] = "sendSdp" /\ Push(t, side[t], m)
      BY <2>1 DEF SendSdp
    <3> HIDE DEF m
    <3>3. side[t] = s => Sends(s, m)
      BY <3>1, <3>2 DEF Sends
    <3> QED
      BY <1>0, <3>1, <3>2, <3>3, PushGrows
  <2>2. CASE SendCandidate(t)
    <3> DEFINE m == [kind |-> "candidate", val |-> held[t]]
    <3>1. m \in Message /\ IsCandidate(m)
      BY <1>0 DEF Message, IsCandidate
    <3>2. pc[t] = "sendCandidate" /\ pc'[t] = "testQueue" /\ Push(t, side[t], m)
      BY <1>0, <2>2 DEF SendCandidate, Goto
    <3> HIDE DEF m
    <3> QED
      BY <1>0, <3>1, <3>2, PushGrows DEF Sends
  <2>3. CASE SendMode(t)
    <3> DEFINE m == [kind |-> "mode", mode |-> videoMode]
    <3>1. m \in Message /\ m.kind = "mode"
      BY <1>0 DEF Message, Told
    <3>2. Push(t, "local", m)
      BY <2>3 DEF SendMode
    <3> HIDE DEF m
    <3> QED
      BY <1>0, <3>1, <3>2, PushGrows DEF Sends
  <2>4. CASE ~(SendSdp(t) \/ SendCandidate(t) \/ SendMode(t))
    BY <1>1, <2>4
    DEF Grown, handleMessages, TestSdp, MarkSdp, TestDrain, Claim, TestQueue, Front, Pop,
        Release, TestConnected
  <2> QED
    BY <2>1, <2>2, <2>3, <2>4
<1>2. CASE SendInit
  <2>1. [kind |-> "init"] \in Message
    BY DEF Message, Told
  <2> QED
    BY <1>0, <1>2, <2>1, PushGrows DEF SendInit, Sends, Goto
<1>3. CASE SendFrame
  <2>1. [kind |-> "frame"] \in Message
    BY DEF Message, Told
  <2> QED
    BY <1>0, <1>3, <2>1, PushGrows DEF SendFrame, Sends
<1>4. CASE SendToggle
  <2> DEFINE m == [kind |-> "mode", mode |-> IF isOn THEN videoMode ELSE "MODE_NONE"]
  <2>1. m \in Message /\ m.kind = "mode"
    BY <1>0 DEF Message, Told, Modes
  <2>2. Push("ui", "local", m)
    BY <1>4 DEF SendToggle
  <2> HIDE DEF m
  <2> QED
    BY <1>0, <2>1, <2>2, PushGrows DEF Sends
<1>5. CASE Call \/ Dequeue \/ SetConductor \/ UNCHANGED vars \/ SetMode \/ \E t \in Threads : ReadSource(t) \/ SetSource(t)
  BY <1>5
  DEF Grown, vars, Call, onSdpOfferCb, onSdpAnswerCb, onIceCandidateCb, onInitCall,
      onLocalSdpCb, onLocalIceCandidateCb, setDeviceName, toggleVideo, StartSending,
      newFrame, NewSdp, NewCandidate, SetMode, ReadSource, SetSource, Dequeue,
      SetConductor
<1> QED
  BY <1>0, <1>1, <1>2, <1>3, <1>4, <1>5 DEF Next, Run

\* One more message: where it is, and that the others stay.
LEMMA GrownBy ==
  ASSUME out \in [Sides -> Seq(Message)], out' \in [Sides -> Seq(Message)],
         NEW s \in Sides, NEW m \in Message, out'[s] = Append(out[s], m)
  PROVE  /\ Len(out[s]) \in Nat /\ DOMAIN out[s] = 1 .. Len(out[s])
         /\ DOMAIN out'[s] = 1 .. Len(out[s]) + 1
         /\ Len(out'[s]) = Len(out[s]) + 1
         /\ out'[s][Len(out[s]) + 1] = m
         /\ \A i \in 1 .. Len(out[s]) : out'[s][i] = out[s][i]
BY ToSdk!OneMore

\* A message that was pushed was there before, or is sent now.
LEMMA OldOrSent ==
  ASSUME TypeOK, TypeOK', [Next]_vars, NEW s \in Sides, NEW i \in DOMAIN out'[s]
  PROVE  \/ i \in DOMAIN out[s] /\ out'[s][i] = out[s][i]
         \/ DOMAIN out[s] = 1 .. i - 1 /\ Sends(s, out'[s][i])
<1>1. out \in [Sides -> Seq(Message)] /\ out' \in [Sides -> Seq(Message)]
  BY DEF TypeOK
<1>2. CASE out'[s] = out[s]
  BY <1>2
<1>3. ASSUME NEW m \in Message, Sends(s, m), out'[s] = Append(out[s], m)
      PROVE  \/ i \in DOMAIN out[s] /\ out'[s][i] = out[s][i]
             \/ DOMAIN out[s] = 1 .. i - 1 /\ Sends(s, out'[s][i])
  BY <1>1, <1>3, GrownBy
<1> QED
  BY <1>2, <1>3, Grows DEF Grown

-----------------------------------------------------------------------------
(* What is on its way to m_wsClient or m_sdk has been stored. *)

StoredInv ==
  /\ \A t \in Negotiators : pc[t] \in {"sendSdp", "markSdp"} => sdp[side[t]] # NoSdp
  /\ \A s \in Sides : sent[s] => sdp[s] # NoSdp
  /\ \A s \in Sides : \A i \in DOMAIN out[s] :
       /\ IsSdp(out[s][i]) => sdp[s] # NoSdp
       /\ IsCandidate(out[s][i]) => BothSent

\* A step that keeps the flags, and moves no thread to an SDP.
LEMMA StoredKept ==
  ASSUME TypeOK, GateInv, StoredInv, [Next]_vars, TypeOK',
         \A s \in Sides : sdp[s] # NoSdp => sdp'[s] # NoSdp,
         \A s \in Sides : sent'[s] => sdp'[s] # NoSdp,
         BothSent => BothSent',
         \A t \in Negotiators : pc'[t] \in {"sendSdp", "markSdp"} =>
           \/ sdp'[side'[t]] # NoSdp
           \/ pc[t] \in {"sendSdp", "markSdp"} /\ side'[t] = side[t]
  PROVE  StoredInv'
<1>1. ASSUME NEW s \in Sides, NEW i \in DOMAIN out'[s]
      PROVE  /\ IsSdp(out'[s][i]) => sdp'[s] # NoSdp
             /\ IsCandidate(out'[s][i]) => BothSent'
  <2>1. CASE i \in DOMAIN out[s] /\ out'[s][i] = out[s][i]
    BY <2>1 DEF StoredInv
  <2>2. ASSUME Sends(s, out'[s][i])
        PROVE  /\ IsSdp(out'[s][i]) => sdp'[s] # NoSdp
               /\ IsCandidate(out'[s][i]) => BothSent'
    BY <2>2 DEF Sends, StoredInv, IsSdp, IsCandidate, GateInv, Draining
  <2> QED
    BY <1>1, <2>1, <2>2, OldOrSent
<1>2. \A t \in Negotiators : side'[t] \in Sides /\ side[t] \in Sides
  BY DEF TypeOK, Negotiators, Threads
<1> QED
  BY <1>1, <1>2 DEF StoredInv

LEMMA StoredInvHolds == Spec => []StoredInv
<1>1. Init => StoredInv
  BY DEF Init, StoredInv, Sides, Negotiators, Threads
<1>2. TypeOK /\ TypeOK' /\ GateInv /\ StoredInv /\ [Next]_vars => StoredInv'
  <2> SUFFICES ASSUME TypeOK, TypeOK', GateInv, StoredInv, [Next]_vars PROVE StoredInv'
    OBVIOUS
  <2> USE DEF Goto, negotiation, video, sdkSource, history
  <2>0. /\ Negotiators \subseteq Threads
        /\ pc \in [Threads -> Labels] /\ side \in [Threads -> Sides]
        /\ sdp \in [Sides -> Sdp] /\ sent \in [Sides -> BOOLEAN]
    BY DEF Threads, Negotiators, TypeOK
  <2>1. ASSUME UNCHANGED <<sdp, sent>>,
               \A t \in Negotiators : pc'[t] \in {"sendSdp", "markSdp"} =>
                 pc[t] \in {"sendSdp", "markSdp"} /\ side'[t] = side[t]
        PROVE  StoredInv'
    BY <2>1, StoredKept DEF StoredInv, BothSent
  <2>2. ASSUME NEW t \in Negotiators, TestSdp(t) PROVE StoredInv'
    BY <2>0, <2>2, StoredKept DEF TestSdp, AfterSdp, StoredInv, BothSent
  <2>3. ASSUME NEW t \in Negotiators, SendSdp(t) PROVE StoredInv'
    BY <2>0, <2>1, <2>3 DEF SendSdp
  <2>4. ASSUME NEW t \in Negotiators, MarkSdp(t) PROVE StoredInv'
    BY <2>0, <2>4, StoredKept DEF MarkSdp, AfterSdp, StoredInv, BothSent
  <2>5. ASSUME NEW t \in Negotiators, TestDrain(t) \/ Claim(t) \/ TestQueue(t) \/ Front(t)
                 \/ Pop(t) \/ SendCandidate(t) \/ Release(t) \/ SendMode(t) \/ TestConnected(t)
        PROVE  StoredInv'
    BY <2>0, <2>1, <2>5
    DEF TestDrain, Claim, TestQueue, Front, Pop, SendCandidate, Release, SendMode,
        TestConnected, Crash
  <2>6. ASSUME NEW t \in Negotiators, NEW s \in Sides, NEW type \in {"offer", "answer"},
               NEW c, NewSdp(t, s, type, c)
        PROVE  StoredInv'
    <3>1. /\ sdp' = [sdp EXCEPT ![s] = [type |-> type, n |-> Received(s) + 1]]
          /\ sent' = sent /\ side' = side
          /\ pc' = [pc EXCEPT ![t] = "testSdp"]
      BY <2>6 DEF NewSdp
    <3>2. sdp'[s] # NoSdp /\ \A r \in Sides \ {s} : sdp'[r] = sdp[r]
      BY <2>0, <3>1 DEF NoSdp
    <3> QED
      BY <2>0, <3>1, <3>2, StoredKept DEF StoredInv, BothSent
  <2>7. CASE onLocalIceCandidateCb \/ onIceCandidateCb
    BY <2>0, <2>1, <2>7 DEF onLocalIceCandidateCb, onIceCandidateCb, NewCandidate, Enter
  <2>8. CASE Crash /\ UNCHANGED <<negotiation, side, held, out, skipped, raced>>
    BY <2>0, <2>1, <2>8 DEF Crash
  <2>9. CASE Aside
    BY <2>0, <2>1, <2>9 DEF Aside, AsideLabels
  <2>10. CASE UNCHANGED vars
    BY <2>1, <2>10 DEF vars
  <2> QED
    BY <2>2, <2>3, <2>4, <2>5, <2>6, <2>7, <2>8, <2>9, <2>10, Steps DEF handleMessages
<1> QED
  BY <1>1, <1>2, TypeCorrect, GateInvHolds, PTL DEF Spec

-----------------------------------------------------------------------------
(* Frames come only from a window that has begun to send them; a program    *)
(* that has ended has ended on all threads.                                 *)

SendingInv ==
  /\ pc["ui"] = "sendFrame" => sending
  /\ \A i \in DOMAIN out["remote"] : out["remote"][i].kind = "frame" => sending
  /\ Crashed => \A t \in Threads : pc[t] = "crashed"

LEMMA SendingInvHolds == Spec => []SendingInv
<1>1. Init => SendingInv
  BY DEF Init, SendingInv, Sides, Threads, Crashed
<1>2. TypeOK /\ TypeOK' /\ SendingInv /\ [Next]_vars => SendingInv'
  <2> SUFFICES ASSUME TypeOK, TypeOK', SendingInv, [Next]_vars PROVE SendingInv'
    OBVIOUS
  <2> USE DEF Goto, negotiation, video, sdkSource, history
  <2>0. /\ Negotiators = {"ws", "sdk"} /\ Threads = {"ui", "ws", "sdk"}
        /\ pc \in [Threads -> Labels] /\ sending \in BOOLEAN
        /\ "remote" \in Sides
    BY DEF Threads, Negotiators, TypeOK, Sides
  <2>1. ASSUME sending => sending', pc'["ui"] = "sendFrame" => pc["ui"] = "sendFrame" \/ sending',
               \/ pc' = [t \in Threads |-> "crashed"]
               \/ pc' = pc
               \/ \E t \in Threads, label \in Labels \ {"crashed"} :
                    Goto(t, label) /\ pc[t] # "crashed"
        PROVE  SendingInv'
    <3>1. ASSUME NEW i \in DOMAIN out'["remote"], out'["remote"][i].kind = "frame"
          PROVE  sending'
      <4>1. CASE i \in DOMAIN out["remote"] /\ out'["remote"][i] = out["remote"][i]
        BY <2>1, <3>1, <4>1 DEF SendingInv
      <4>2. CASE Sends("remote", out'["remote"][i])
        BY <2>1, <3>1, <4>2 DEF Sends, IsSdp, IsCandidate, SendingInv
      <4> QED
        BY <2>0, <3>1, <4>1, <4>2, OldOrSent
    <3>2. Crashed' => \A t \in Threads : pc'[t] = "crashed"
      BY <2>0, <2>1 DEF SendingInv, Crashed
    <3> QED
      BY <2>1, <3>1, <3>2 DEF SendingInv
  <2>2. ASSUME NEW t \in Negotiators, handleMessages(t) PROVE SendingInv'
    <3>1. sending' = sending
      BY <2>2
      DEF handleMessages, TestSdp, SendSdp, MarkSdp, TestDrain, Claim, TestQueue, Front, Pop,
          SendCandidate, Release, SendMode, TestConnected
    <3>2. \/ pc' = [u \in Threads |-> "crashed"]
          \/ pc' = pc
          \/ \E label \in Labels \ {"crashed", "sendFrame"} : Goto(t, label) /\ pc[t] # "crashed"
      BY <2>0, <2>2
      DEF handleMessages, TestSdp, SendSdp, MarkSdp, AfterSdp, TestDrain, Claim, TestQueue,
          Front, Pop, SendCandidate, Release, SendMode, TestConnected, Crash, Labels, Draining
    <3>3. pc'["ui"] = "sendFrame" => pc["ui"] = "sendFrame"
      BY <2>0, <3>2
    <3> QED
      BY <2>0, <2>1, <3>1, <3>2, <3>3
  <2>3. CASE Call
    <3>1. sending => sending'
      BY <2>3
      DEF Call, onSdpOfferCb, onSdpAnswerCb, onIceCandidateCb, onInitCall, onLocalSdpCb,
          onLocalIceCandidateCb, setDeviceName, toggleVideo, StartSending, newFrame, NewSdp,
          NewCandidate
    <3>2. \/ pc' = [t \in Threads |-> "crashed"]
          \/ pc' = pc
          \/ \E t \in Threads, label \in Labels \ {"crashed"} :
               Goto(t, label) /\ pc[t] # "crashed" /\ (label = "sendFrame" => sending')
      BY <2>0, <2>3
      DEF Call, onSdpOfferCb, onSdpAnswerCb, onIceCandidateCb, onInitCall, onLocalSdpCb,
          onLocalIceCandidateCb, setDeviceName, toggleVideo, StartSending, newFrame, NewSdp,
          NewCandidate, Enter, Crash, Labels
    <3>3. pc'["ui"] = "sendFrame" => pc["ui"] = "sendFrame" \/ sending'
      BY <2>0, <3>2
    <3> QED
      BY <2>1, <3>1, <3>2, <3>3
  <2>4. ASSUME NEW t \in {"ui", "ws"}, ReadSource(t) \/ SetSource(t) PROVE SendingInv'
    BY <2>0, <2>1, <2>4 DEF ReadSource, SetSource, Labels
  <2>5. CASE SetMode \/ SendInit \/ SendToggle \/ SendFrame
    BY <2>0, <2>1, <2>5 DEF SetMode, SendInit, SendToggle, SendFrame, Labels
  <2>6. CASE Dequeue \/ SetConductor \/ UNCHANGED vars
    BY <2>1, <2>6 DEF vars, Dequeue, SetConductor
  <2> QED
    BY <2>0, <2>2, <2>3, <2>4, <2>5, <2>6 DEF Next, Run
<1> QED
  BY <1>1, <1>2, TypeCorrect, PTL DEF Spec

-----------------------------------------------------------------------------
(* The steps of a Peer, as far as the negotiation is concerned. *)

InitLabels == {"readSource", "setSource", "sendInit"}

\* A step that does not enter a room.
Calm ==
  /\ UNCHANGED <<calling, calls["onInitCall"]>>
  /\ pc'["ws"] \in InitLabels => pc["ws"] \in InitLabels

LEMMA RunIsCalm ==
  ASSUME TypeOK, NEW t \in Threads, Run(t)
  PROVE  Calm /\ sdp' = sdp
<1> USE DEF Goto, Hold, Choose, negotiation, video, sdkSource, history
<1>0. /\ Threads = {"ui", "ws", "sdk"} /\ Negotiators = {"ws", "sdk"}
      /\ pc \in [Threads -> Labels]
  BY DEF Threads, Negotiators, TypeOK
<1>1. CASE t \in Negotiators /\ handleMessages(t)
  <2>1. /\ UNCHANGED <<sdp, calling, calls>>
        /\ \/ pc' = [u \in Threads |-> "crashed"]
           \/ pc' = pc
           \/ \E label \in Labels \ InitLabels : Goto(t, label)
    BY <1>0, <1>1
    DEF handleMessages, TestSdp, SendSdp, MarkSdp, AfterSdp, TestDrain, Claim, TestQueue,
        Front, Pop, SendCandidate, Release, SendMode, TestConnected, Crash, Labels,
        Draining, InitLabels
  <2> QED
    BY <1>0, <2>1 DEF Calm, InitLabels
<1>2. CASE t # "sdk" /\ (ReadSource(t) \/ SetSource(t))
  BY <1>0, <1>2 DEF ReadSource, SetSource, Calm, InitLabels
<1>3. CASE t = "ws" /\ SendInit
  BY <1>0, <1>3 DEF SendInit, Calm, InitLabels
<1>4. CASE t = "ui" /\ (SetMode \/ SendToggle \/ SendFrame)
  BY <1>0, <1>4 DEF SetMode, SendToggle, SendFrame, Calm
<1>5. CASE SetConductor
  BY <1>5 DEF SetConductor, Calm
<1> QED
  BY <1>1, <1>2, <1>3, <1>4, <1>5 DEF Run

\* Entering any other callback is calm.
LEMMA CallIsCalm ==
  ASSUME TypeOK, NEW t \in Threads, NEW c \in Callbacks \ {"onInitCall"}, Enter(t, c),
         calling' = calling,
         \E label \in Labels \ InitLabels : Goto(t, label)
  PROVE  Calm
<1>1. "onInitCall" \in Callbacks
  BY DEF Callbacks
<1> QED
  BY <1>1 DEF Calm, Enter, Goto, TypeOK, Threads, InitLabels

\* How a description comes about, and who enters a room.
LEMMA PeerMoves ==
  ASSUME TypeOK, PeerNext
  PROVE  \/ Role = "enterer" /\ Entered /\ UNCHANGED engineVars
         \/ /\ Role = "enterer" /\ Offered /\ NewSdp("ws", "remote", "answer", "onSdpAnswerCb")
            /\ UNCHANGED engineVars /\ Calm
         \/ /\ Role = "opener" /\ NewSdp("ws", "remote", "offer", "onSdpOfferCb")
            /\ UNCHANGED engineVars /\ Calm
         \/ \E type \in {"offer", "answer"} :
              Sdk!OnSuccess(type) /\ NewSdp("sdk", "local", type, "onLocalSdpCb") /\ Calm
         \/ Sdk!OnIceCandidate /\ UNCHANGED sdp /\ Calm
         \/ SdkStep /\ Calm
         \/ UNCHANGED <<engineVars, sdp>> /\ Calm
<1> USE DEF negotiation, video, sdkSource, history
<1>0. {"idle", "testSdp", "setMode", "sendToggle", "sendFrame"} \subseteq Labels \ InitLabels
      /\ Threads = {"ui", "ws", "sdk"}
  BY DEF Labels, InitLabels, Threads
<1>1. CASE SdkStep
  BY <1>1, SdkLeaves DEF Calm
<1>2. ASSUME NEW t \in Threads, NEW s, NEW type, NEW c \in Callbacks \ {"onInitCall"},
             NewSdp(t, s, type, c) \/ NewCandidate(t, s, c)
      PROVE  Calm
  BY <1>0, <1>2, CallIsCalm DEF NewSdp, NewCandidate
<1>3. CASE SdkReports
  <2>1. ASSUME NEW type \in {"offer", "answer"}, Sdk!OnSuccess(type) /\ onLocalSdpCb(type)
        PROVE  NewSdp("sdk", "local", type, "onLocalSdpCb") /\ Calm
    BY <1>0, <1>2, <2>1, CallbackNames DEF onLocalSdpCb
  <2>2. CASE Sdk!OnIceCandidate /\ onLocalIceCandidateCb
    <3>1. NewCandidate("sdk", "local", "onLocalIceCandidateCb")
      BY <2>2 DEF onLocalIceCandidateCb
    <3>2. Calm
      BY <1>0, <1>2, <3>1, CallbackNames
    <3> QED
      BY <2>2, <3>1, <3>2 DEF NewCandidate
  <2> QED
    BY <1>3, <2>1, <2>2 DEF SdkReports
<1>4. CASE Signal
  <2>1. CASE onIceCandidateCb
    BY <1>0, <1>2, <1>4, <2>1, CallbackNames DEF Signal, onIceCandidateCb, NewCandidate
  <2>2. CASE Enter("ws", "onSdpAnswerCb") /\ Crash
               /\ UNCHANGED <<negotiation, video, chosen, side, held, out, skipped, raced>>
    <3>1. Calm
      BY <1>0, <2>2, CallbackNames DEF Calm, Enter, Crash, TypeOK, InitLabels
    <3> QED
      BY <1>4, <2>2, <3>1 DEF Signal
  <2>3. CASE Role = "enterer" /\ Answer
    BY <1>0, <1>2, <1>4, <2>2, <2>3, CallbackNames DEF Answer, onSdpAnswerCb, Signal
  <2>4. CASE Role = "opener" /\ Offer
    BY <1>0, <1>2, <1>4, <2>4, CallbackNames DEF Offer, onSdpOfferCb, Signal
  <2> QED
    BY <1>4, <2>1, <2>3, <2>4 DEF Signal
<1>5. CASE User
  <2>1. CASE StartSending
    BY <1>5, <2>1 DEF StartSending, Calm, User
  <2>2. CASE toggleVideo \/ newFrame \/ \E source \in Sources : setDeviceName(source)
    <3>1. UNCHANGED <<sdp, calling>>
      BY <2>2 DEF toggleVideo, newFrame, setDeviceName
    <3>2. Calm
      BY <1>0, <2>2, <3>1, CallIsCalm, CallbackNames DEF toggleVideo, newFrame, setDeviceName
    <3> QED
      BY <1>5, <3>1, <3>2 DEF User
  <2> QED
    BY <1>5, <2>1, <2>2 DEF User
<1>6. ASSUME NEW t \in Threads, PeerRun(t) PROVE UNCHANGED <<engineVars, sdp>> /\ Calm
  BY <1>6, RunIsCalm DEF PeerRun
<1> QED
  BY <1>1, <1>3, <1>4, <1>5, <1>6 DEF PeerNext

-----------------------------------------------------------------------------
(* A room is entered once, and by the peer that makes the offer. *)

IsInit(m) == m.kind = "init"

InitInv ==
  /\ Role = "opener" \/ calls["onInitCall"] = 0 =>
       pc["ws"] \notin InitLabels /\ \A i \in DOMAIN out["remote"] : ~IsInit(out["remote"][i])
  /\ Role = "opener" => ~calling
  /\ calls["onInitCall"] > 0 => calling
  /\ pc["ws"] \in InitLabels => \A i \in DOMAIN out["remote"] : ~IsInit(out["remote"][i])
  /\ \A i, j \in DOMAIN out["remote"] :
       IsInit(out["remote"][i]) /\ IsInit(out["remote"][j]) => i = j

LEMMA InitInvHolds == PeerSpec => []InitInv
<1>1. PeerInit => InitInv
  BY CallbackNames DEF PeerInit, Init, InitInv, InitLabels, Sides, Threads
<1>2. TypeOK /\ TypeOK' /\ InitInv /\ [PeerNext]_peerVars /\ [Next]_vars => InitInv'
  <2> SUFFICES ASSUME TypeOK, TypeOK', InitInv, [PeerNext]_peerVars, [Next]_vars
               PROVE  InitInv'
    OBVIOUS
  <2>0. "remote" \in Sides
    BY DEF Sides
  <2>1. CASE Role = "enterer" /\ Entered
    <3>1. /\ calls["onInitCall"] = 0 /\ calls' = [calls EXCEPT !["onInitCall"] = @ + 1]
          /\ calling' = TRUE /\ out' = out
      BY <2>1 DEF Entered, onInitCall, Enter
    <3>2. calls'["onInitCall"] = 1
      BY <3>1, CallbackNames DEF TypeOK
    <3> QED
      BY <2>1, <3>1, <3>2, RoleAssumption DEF InitInv
  <2>2. CASE Calm
    <3>1. ASSUME NEW i \in DOMAIN out'["remote"], IsInit(out'["remote"][i])
          PROVE  \/ i \in DOMAIN out["remote"] /\ out'["remote"][i] = out["remote"][i]
                 \/ /\ pc["ws"] \in InitLabels /\ pc'["ws"] \notin InitLabels
                    /\ DOMAIN out["remote"] = 1 .. i - 1
      BY <2>0, <3>1, OldOrSent DEF Sends, IsSdp, IsCandidate, IsInit, InitLabels
    <3>2. /\ calling' = calling /\ calls'["onInitCall"] = calls["onInitCall"]
          /\ pc'["ws"] \in InitLabels => pc["ws"] \in InitLabels
      BY <2>2 DEF Calm
    <3>3. ASSUME pc["ws"] \notin InitLabels \/ pc'["ws"] \in InitLabels
          PROVE  \A i \in DOMAIN out'["remote"] : IsInit(out'["remote"][i]) =>
                   i \in DOMAIN out["remote"] /\ out'["remote"][i] = out["remote"][i]
      BY <3>1, <3>2, <3>3
    <3>4. ASSUME NEW i \in DOMAIN out'["remote"], NEW j \in DOMAIN out'["remote"],
                 IsInit(out'["remote"][i]), IsInit(out'["remote"][j])
          PROVE  i = j
      <4>1. CASE pc["ws"] \in InitLabels
        <5>1. DOMAIN out["remote"] = 1 .. i - 1 /\ DOMAIN out["remote"] = 1 .. j - 1
          BY <3>1, <3>4, <4>1 DEF InitInv
        <5>2. i \in Nat \ {0} /\ j \in Nat \ {0}
          BY <2>0, <3>4 DEF TypeOK
        <5> QED
          BY <5>1, <5>2
      <4>2. CASE pc["ws"] \notin InitLabels
        BY <3>3, <3>4, <4>2 DEF InitInv
      <4> QED
        BY <4>1, <4>2
    <3> QED
      BY <3>2, <3>3, <3>4 DEF InitInv
  <2>3. CASE UNCHANGED peerVars
    BY <2>3 DEF peerVars, vars, InitInv
  <2> QED
    BY <2>1, <2>2, <2>3, PeerMoves
<1> QED
  BY <1>1, <1>2, PeerHasManager, TypeCorrect, PTL DEF PeerSpec, Spec

-----------------------------------------------------------------------------
(* Descriptions come from the peer as the protocol has them. *)

MadeType == IF Role = "enterer" THEN "offer" ELSE "answer"
RemoteType == IF Role = "enterer" THEN "answer" ELSE "offer"

RemoteInv ==
  /\ sdp["remote"] # NoSdp =>
       sdp["remote"].type = RemoteType /\ (Role = "enterer" => Offered)
  /\ \A i \in DOMAIN out["remote"] : IsSdp(out["remote"][i]) =>
       out["remote"][i].kind = "sdp" /\ out["remote"][i].sdp.type = RemoteType

LEMMA RemoteInvHolds == PeerSpec => []RemoteInv
<1>1. PeerInit => RemoteInv
  BY DEF PeerInit, Init, RemoteInv, Sides
<1>2. TypeOK /\ TypeOK' /\ StoredInv /\ RemoteInv /\ [PeerNext]_peerVars /\ [Next]_vars
        => RemoteInv'
  <2> SUFFICES ASSUME TypeOK, TypeOK', StoredInv, RemoteInv, [PeerNext]_peerVars, [Next]_vars
               PROVE  RemoteInv'
    OBVIOUS
  <2>0. Sides = {"local", "remote"} /\ sdp \in [Sides -> Sdp]
    BY DEF Sides, TypeOK
  <2>1. ASSUME NEW i \in DOMAIN out'["remote"], IsSdp(out'["remote"][i])
        PROVE  out'["remote"][i].kind = "sdp" /\ out'["remote"][i].sdp.type = RemoteType
    <3>1. CASE i \in DOMAIN out["remote"] /\ out'["remote"][i] = out["remote"][i]
      BY <2>1, <3>1 DEF RemoteInv
    <3>2. CASE Sends("remote", out'["remote"][i])
      BY <2>1, <3>2 DEF Sends, IsSdp, IsCandidate, SdpKind, RemoteInv, StoredInv
    <3> QED
      BY <2>0, <2>1, <3>1, <3>2, OldOrSent
  <2>2. Offered => Offered'
    <3>1. out \in [Sides -> Seq(Message)] /\ out' \in [Sides -> Seq(Message)]
      BY DEF TypeOK
    <3>2. \A i \in DOMAIN out["local"] :
            i \in DOMAIN out'["local"] /\ out'["local"][i] = out["local"][i]
      BY <2>0, <3>1, Grows, GrownBy DEF Grown
    <3> QED
      BY <3>2 DEF Offered
  <2>3. /\ \/ sdp'["remote"] = sdp["remote"]
           \/ sdp'["remote"].type = "answer" /\ Role = "enterer" /\ Offered
           \/ sdp'["remote"].type = "offer" /\ Role = "opener"
    <3>1. CASE Role = "enterer" /\ Offered /\ NewSdp("ws", "remote", "answer", "onSdpAnswerCb")
      BY <2>0, <3>1 DEF NewSdp
    <3>2. CASE Role = "opener" /\ NewSdp("ws", "remote", "offer", "onSdpOfferCb")
      BY <2>0, <3>2 DEF NewSdp
    <3>3. ASSUME NEW type, NewSdp("sdk", "local", type, "onLocalSdpCb")
          PROVE  sdp'["remote"] = sdp["remote"]
      BY <2>0, <3>3 DEF NewSdp
    <3>4. Entered \/ SdkStep \/ UNCHANGED peerVars => sdp' = sdp
      BY SdkLeaves DEF Entered, onInitCall, peerVars, vars
    <3> QED
      BY <3>1, <3>2, <3>3, <3>4, PeerMoves
  <2> QED
    BY <2>1, <2>2, <2>3 DEF RemoteInv, RemoteType
<1> QED
  BY <1>1, <1>2, PeerHasManager, TypeCorrect, StoredInvHolds, PTL DEF PeerSpec, Spec

-----------------------------------------------------------------------------
(* The values the Conductor's variables range over. *)

EngineTypeOK ==
  /\ peer \in BOOLEAN /\ hasRemote \in BOOLEAN /\ down \in BOOLEAN
  /\ late \in BOOLEAN /\ lost \in BOOLEAN
  /\ taken \in 0 .. Len(out["remote"])
  /\ stream \in Sources \cup {"none"}
  /\ signaling \in Sdk!Signaling
  /\ creating \in Seq({"offer", "answer"})
  /\ added \in Seq(Nat) /\ dropped \in Seq(Nat)

\* The message the Conductor takes is one that was pushed.
LEMMA NextTaken ==
  ASSUME TypeOK, EngineTypeOK, NEW kind, Sdk!NextMessage(kind)
  PROVE  /\ taken + 1 \in DOMAIN out["remote"] /\ taken' = taken + 1
         /\ out["remote"][taken + 1].kind = kind
         /\ kind = "candidate" => out["remote"][taken + 1].val \in Nat
<1> DEFINE q == out["remote"]
<1>1. q \in Seq(Message) /\ taken \in Nat /\ taken < Len(q)
  BY DEF TypeOK, EngineTypeOK, Sides, Sdk!NextMessage
<1>2. taken + 1 \in DOMAIN q /\ q[taken + 1] \in Message
  <2> HIDE DEF q
  <2> QED
    BY <1>1
<1>3. \A m \in Message : m.kind = "candidate" => m.val \in Nat
  BY DEF Message, Told
<1> QED
  BY <1>2, <1>3 DEF Sdk!NextMessage

LEMMA EngineType == PeerSpec => []EngineTypeOK
<1>1. PeerInit => EngineTypeOK
  <2>1. <<>> \in Seq({"offer", "answer"}) /\ <<>> \in Seq(Nat) /\ Len(<<>>) = 0
    OBVIOUS
  <2>2. PeerInit => taken = 0 /\ Len(out["remote"]) = 0
    BY <2>1 DEF PeerInit, Init, Sdk!Init, Sides
  <2>3. PeerInit => /\ creating \in Seq({"offer", "answer"})
                    /\ added \in Seq(Nat) /\ dropped \in Seq(Nat)
    BY <2>1, Zenon DEF PeerInit, Sdk!Init
  <2>4. PeerInit => /\ peer \in BOOLEAN /\ hasRemote \in BOOLEAN /\ down \in BOOLEAN
                    /\ late \in BOOLEAN /\ lost \in BOOLEAN
                    /\ stream = "none" /\ signaling = "stable"
    BY Zenon DEF PeerInit, Sdk!Init
  <2>5. PeerInit => taken \in 0 .. Len(out["remote"])
    BY <2>2
  <2> QED
    BY <2>3, <2>4, <2>5 DEF EngineTypeOK, Sdk!Signaling
<1>2. TypeOK /\ TypeOK' /\ EngineTypeOK /\ [PeerNext]_peerVars /\ [Next]_vars => EngineTypeOK'
  <2> SUFFICES ASSUME TypeOK, TypeOK', EngineTypeOK, [PeerNext]_peerVars, [Next]_vars
               PROVE  EngineTypeOK'
    OBVIOUS
  <2>0. /\ out \in [Sides -> Seq(Message)] /\ out' \in [Sides -> Seq(Message)]
        /\ "remote" \in Sides /\ dataSource \in Sources /\ dataSource' \in Sources
    BY DEF TypeOK, Sides
  <2>1. taken \in 0 .. Len(out'["remote"])
    <3>1. Len(out'["remote"]) \in Nat /\ Len(out["remote"]) \in Nat
      BY <2>0
    <3>2. Len(out'["remote"]) >= Len(out["remote"])
      BY <2>0, <3>1, Grows, GrownBy DEF Grown
    <3> QED
      BY <3>1, <3>2 DEF EngineTypeOK
  <2>2. late' \in BOOLEAN /\ lost' \in BOOLEAN
    BY DEF PeerNext, SdkStep, SdkTakes, SdkReports, Signal, User, PeerRun, peerVars, fate,
           EngineTypeOK
  <2>3. CASE UNCHANGED engineVars
    BY <2>1, <2>2, <2>3 DEF engineVars, EngineTypeOK
  <2>4. CASE SdkStep
    <3>1. out' = out
      BY <2>4, SdkLeaves
    <3>2. ASSUME NEW kind, Sdk!NextMessage(kind) PROVE taken' \in 0 .. Len(out'["remote"])
      BY <2>0, <3>1, <3>2, NextTaken DEF EngineTypeOK
    <3> DEFINE Ends == peer' \in BOOLEAN /\ down' \in BOOLEAN /\ stream' \in Sources \cup {"none"}
               Keeps == /\ signaling' \in Sdk!Signaling /\ hasRemote' \in BOOLEAN
                        /\ creating' \in Seq({"offer", "answer"})
    <3>8. ASSUME Sdk!FailToConnect PROVE Ends /\ Keeps
      <4>1. Ends
        BY <3>8, Zenon DEF EngineTypeOK, Sdk!FailToConnect
      <4>2. <<>> \in Seq({"offer", "answer"})
        OBVIOUS
      <4> QED
        BY <3>8, <4>1, <4>2 DEF EngineTypeOK, Sdk!FailToConnect, Sdk!Signaling
    <3>9. Sdk!Connect \/ Sdk!Ensure => Ends
      <4>1. Sdk!Connect => Ends
        BY <2>0 DEF EngineTypeOK, Sdk!Connect, Sdk!AddStreams
      <4>2. Sdk!Ensure => Sdk!Connect \/ UNCHANGED <<peer, down, stream>>
        BY Zenon DEF Sdk!Ensure
      <4> QED
        BY <4>1, <4>2 DEF EngineTypeOK
    <3>10. Append(creating, "offer") \in Seq({"offer", "answer"})
           /\ Append(creating, "answer") \in Seq({"offer", "answer"})
      BY DEF EngineTypeOK
    <3> HIDE DEF Ends
    <3>3. CASE Sdk!OnInit
      <4>1. Ends /\ Keeps
        BY <3>3, <3>8, <3>9, <3>10 DEF Sdk!OnInit, Sdk!Signaling
      <4> QED
        BY <2>2, <3>2, <3>3, <4>1 DEF EngineTypeOK, Sdk!OnInit, Ends
    <3>4. CASE Sdk!OnSdp
      <4>1. Ends /\ Keeps
        BY <3>4, <3>8, <3>9, <3>10 DEF Sdk!OnSdp, Sdk!Signaling, EngineTypeOK
      <4> QED
        BY <2>2, <3>2, <3>4, <4>1 DEF EngineTypeOK, Sdk!OnSdp, Ends
    <3>5. CASE Sdk!OnCandidate
      <4>1. out["remote"][taken + 1].val \in Nat
        BY <3>5, NextTaken DEF Sdk!OnCandidate
      <4>2. Ends /\ Keeps
        BY <3>5, <3>8, <3>9 DEF Sdk!OnCandidate, EngineTypeOK
      <4>3. added' \in Seq(Nat) /\ dropped' \in Seq(Nat)
        <5> DEFINE c == out["remote"][taken + 1].val
        <5>1. /\ added' = Append(added, c) \/ added' = added
              /\ dropped' = Append(dropped, c) \/ dropped' = dropped
          BY <3>5, Zenon DEF Sdk!OnCandidate
        <5>2. c \in Nat
          BY <4>1
        <5> HIDE DEF c
        <5>3. added \in Seq(Nat) /\ dropped \in Seq(Nat)
          BY DEF EngineTypeOK
        <5>4. \A q \in Seq(Nat) : Append(q, c) \in Seq(Nat)
          BY <5>2
        <5> QED
          BY <5>1, <5>3, <5>4
      <4> QED
        BY <2>2, <3>2, <3>5, <4>1, <4>2, <4>3 DEF EngineTypeOK, Sdk!OnCandidate, Ends
    <3>6. CASE Sdk!OnFrame
      BY <2>2, <3>2, <3>6 DEF EngineTypeOK, Sdk!OnFrame
    <3>7. CASE Sdk!OnFailure
      BY <2>1, <2>2, <3>7 DEF EngineTypeOK, Sdk!OnFailure
    <3> QED
      BY <2>4, <3>3, <3>4, <3>5, <3>6, <3>7 DEF SdkStep, SdkTakes, Sdk!Wait
  <2>5. ASSUME NEW type \in {"offer", "answer"}, Sdk!OnSuccess(type) PROVE EngineTypeOK'
    BY <2>1, <2>2, <2>5 DEF EngineTypeOK, Sdk!OnSuccess, Sdk!Signaling
  <2>6. CASE Sdk!OnIceCandidate
    BY <2>1, <2>2, <2>6 DEF EngineTypeOK, Sdk!OnIceCandidate
  <2> QED
    BY <2>3, <2>4, <2>5, <2>6, PeerMoves DEF peerVars
<1> QED
  BY <1>1, <1>2, PeerHasManager, TypeCorrect, PTL DEF PeerSpec, Spec

-----------------------------------------------------------------------------
(* What the Conductor makes of the calls.  Each role has its own reason why  *)
(* a message finds the peer connection there: the opener's is made by the    *)
(* offer, ahead of its candidates; the enterer's by the start of the call,   *)
(* without which nothing comes back.                                         *)

OpenerInv ==
  /\ signaling # "have-local-offer"
  /\ creating # <<>> \/ sdp["local"] # NoSdp => hasRemote

EntererInv ==
  /\ peer => \E i \in 1 .. taken : IsInit(out["remote"][i])
  /\ Len(creating) <= 1
  /\ creating # <<>> => sdp["local"] = NoSdp /\ signaling = "stable"
  /\ sdp["local"] # NoSdp => signaling = "have-local-offer" \/ hasRemote
  /\ \A i \in 1 .. taken : IsSdp(out["remote"][i]) => hasRemote

EngineInv ==
  /\ created = IF peer THEN 1 ELSE 0
  /\ ~peer => /\ creating = <<>> /\ sdp["local"] = NoSdp /\ stream = "none"
              /\ ~hasRemote /\ signaling = "stable"
  /\ peer => stream \in Sources
  /\ \A i \in DOMAIN creating : creating[i] = MadeType
  /\ sdp["local"] # NoSdp => sdp["local"].type = MadeType
  /\ \A i \in DOMAIN out["local"] : IsSdp(out["local"][i]) =>
       out["local"][i].kind = MadeType /\ out["local"][i].sdp.type = MadeType
  /\ Role = "opener" => OpenerInv
  /\ Role = "enterer" => EntererInv

\* A peer connection exists before the first SDP is sent.
LEMMA PeerBeforeSdp ==
  ASSUME StoredInv, EngineInv, NEW i \in DOMAIN out["local"], IsSdp(out["local"][i])
  PROVE  peer /\ sdp["local"] # NoSdp
BY DEF StoredInv, EngineInv, Sides

\* What was pushed stays where it is.
LEMMA PushedStays ==
  ASSUME TypeOK, TypeOK', [Next]_vars, NEW s \in Sides
  PROVE  /\ Len(out'[s]) >= Len(out[s])
         /\ \A i \in 1 .. Len(out[s]) : out'[s][i] = out[s][i]
<1>1. out \in [Sides -> Seq(Message)] /\ out' \in [Sides -> Seq(Message)]
  BY DEF TypeOK
<1>2. Len(out[s]) \in Nat
  BY <1>1
<1> QED
  BY <1>1, <1>2, Grows, GrownBy DEF Grown

\* The Manager sends an SDP the way it was made.
LEMMA SentAsMade ==
  ASSUME TypeOK, TypeOK', StoredInv, InitInv, EngineTypeOK, EngineInv, [Next]_vars,
         NEW i \in DOMAIN out'["local"], IsSdp(out'["local"][i])
  PROVE  out'["local"][i].kind = MadeType /\ out'["local"][i].sdp.type = MadeType
<1>0. "local" \in Sides /\ "remote" \in Sides
  BY DEF Sides
<1>1. CASE i \in DOMAIN out["local"] /\ out'["local"][i] = out["local"][i]
  BY <1>1 DEF EngineInv
<1>2. CASE Sends("local", out'["local"][i])
  <2>1. /\ out'["local"][i].kind = SdpKind("local")
        /\ out'["local"][i].sdp = sdp["local"]
        /\ sdp["local"] # NoSdp
    BY <1>0, <1>2 DEF Sends, IsSdp, IsCandidate, StoredInv
  <2>2. peer /\ sdp["local"].type = MadeType
    BY <2>1 DEF EngineInv
  <2>3. CASE Role = "opener"
    BY <2>1, <2>2, <2>3 DEF InitInv, MadeType, SdpKind
  <2>4. CASE Role = "enterer"
    <3>1. PICK j \in 1 .. taken : IsInit(out["remote"][j])
      BY <2>2, <2>4 DEF EngineInv, EntererInv
    <3>2. j \in DOMAIN out["remote"]
      BY <1>0, <3>1 DEF TypeOK, EngineTypeOK
    <3>3. calls["onInitCall"] \in Nat /\ calls["onInitCall"] # 0
      BY <3>1, <3>2, CallbackNames DEF InitInv, TypeOK
    <3>4. calling
      BY <3>3 DEF InitInv
    <3> QED
      BY <2>1, <2>2, <2>4, <3>4 DEF MadeType, SdpKind
  <2> QED
    BY <2>3, <2>4, RoleAssumption
<1> QED
  BY <1>0, <1>1, <1>2, OldOrSent

\* A step that leaves the peer connection and the local SDP alone.
LEMMA EngineKept ==
  ASSUME TypeOK, TypeOK', StoredInv, InitInv, EngineTypeOK, EngineInv, [Next]_vars,
         sdp'["local"] = sdp["local"],
         UNCHANGED <<peer, created, stream, signaling, hasRemote, creating>>,
         taken' \in taken .. Len(out["remote"]),
         Role = "enterer" =>
           \A i \in taken + 1 .. taken' : IsSdp(out["remote"][i]) => hasRemote
  PROVE  EngineInv'
<1>0. "remote" \in Sides /\ taken \in Nat /\ Len(out["remote"]) \in Nat
  BY DEF Sides, TypeOK, EngineTypeOK
<1>1. \A i \in 1 .. taken' : out'["remote"][i] = out["remote"][i]
  BY <1>0, PushedStays
<1>2. Role = "enterer" => EntererInv'
  <2> SUFFICES ASSUME Role = "enterer" PROVE EntererInv'
    OBVIOUS
  <2>1. EntererInv
    BY DEF EngineInv
  <2>2. peer => \E i \in 1 .. taken' : IsInit(out'["remote"][i])
    BY <1>0, <1>1, <2>1 DEF EntererInv
  <2>3. \A i \in 1 .. taken' : IsSdp(out'["remote"][i]) => hasRemote
    BY <1>0, <1>1, <2>1 DEF EntererInv
  <2> QED
    BY <2>1, <2>2, <2>3 DEF EntererInv
<1>3. \A i \in DOMAIN out'["local"] : IsSdp(out'["local"][i]) =>
        out'["local"][i].kind = MadeType /\ out'["local"][i].sdp.type = MadeType
  BY SentAsMade
<1> QED
  BY <1>2, <1>3 DEF EngineInv, OpenerInv, MadeType

LEMMA EnsureMakes ==
  ASSUME TypeOK, EngineInv, Sdk!Ensure
  PROVE  peer' /\ created' = 1 /\ stream' \in Sources
BY DEF TypeOK, EngineInv, Sdk!Ensure, Sdk!Connect, Sdk!AddStreams

\* Without a peer connection there is nothing that a failure to make one changes.
LEMMA FailureKeeps ==
  ASSUME EngineTypeOK, EngineInv, ~peer, Sdk!FailToConnect
  PROVE  UNCHANGED <<peer, created, stream, signaling, hasRemote, creating>>
BY DEF EngineTypeOK, EngineInv, Sdk!FailToConnect

\* A candidate finds the peer connection there.
LEMMA PeerBeforeCandidate ==
  ASSUME StoredInv, EngineInv,
         NEW i \in DOMAIN out["remote"], IsCandidate(out["remote"][i])
  PROVE  peer /\ sdp["local"] # NoSdp
BY DEF StoredInv, EngineInv, BothSent, Sides

\* The answer finds the enterer's peer connection there, with its offer set.
LEMMA PeerBeforeAnswer ==
  ASSUME StoredInv, RemoteInv, EngineInv, Role = "enterer",
         NEW i \in DOMAIN out["remote"], IsSdp(out["remote"][i])
  PROVE  peer /\ sdp["local"] # NoSdp
<1>1. Offered
  BY DEF StoredInv, RemoteInv, Sides
<1> QED
  BY <1>1, PeerBeforeSdp DEF Offered, IsSdp

LEMMA EngineInvHolds == PeerSpec => []EngineInv
<1>1. PeerInit => EngineInv
  BY DEF PeerInit, Init, Sdk!Init, EngineInv, OpenerInv, EntererInv, Sides
<1>2. TypeOK /\ TypeOK' /\ StoredInv /\ InitInv /\ RemoteInv /\ EngineTypeOK /\ EngineInv
        /\ [PeerNext]_peerVars /\ [Next]_vars => EngineInv'
  <2> SUFFICES ASSUME TypeOK, TypeOK', StoredInv, InitInv, RemoteInv, EngineTypeOK,
                      EngineInv, [PeerNext]_peerVars, [Next]_vars
               PROVE  EngineInv'
    OBVIOUS
  <2>0. /\ Sides = {"local", "remote"} /\ sdp \in [Sides -> Sdp]
        /\ taken \in Nat /\ taken <= Len(out["remote"]) /\ Len(out["remote"]) \in Nat
        /\ dataSource \in Sources
        /\ creating \in Seq({"offer", "answer"})
    BY DEF Sides, TypeOK, EngineTypeOK
  <2>1. ASSUME UNCHANGED engineVars, sdp'["local"] = sdp["local"] PROVE EngineInv'
    BY <2>0, <2>1, EngineKept DEF engineVars
  <2>2. ASSUME NEW s, s # "local", NEW t, NEW type, NEW c, NewSdp(t, s, type, c),
               UNCHANGED engineVars
        PROVE  EngineInv'
    BY <2>0, <2>1, <2>2 DEF NewSdp
  <2>3. ASSUME NEW type \in {"offer", "answer"}, Sdk!OnSuccess(type),
               NewSdp("sdk", "local", type, "onLocalSdpCb")
        PROVE  EngineInv'
    <3>1. /\ creating # <<>> /\ Head(creating) = type /\ creating' = Tail(creating)
          /\ UNCHANGED <<taken, peer, created, stream, hasRemote, out>>
          /\ peer
      BY <2>3 DEF Sdk!OnSuccess, NewSdp
    <3>2. /\ Len(creating) \in Nat \ {0} /\ Head(creating) = creating[1]
          /\ Len(Tail(creating)) = Len(creating) - 1
          /\ Len(creating) <= 1 => Tail(creating) = <<>>
          /\ \A i \in DOMAIN Tail(creating) : \E j \in DOMAIN creating : Tail(creating)[i] = creating[j]
      BY <2>0, <3>1
    <3>3. type = MadeType
      BY <2>0, <3>1, <3>2 DEF EngineInv
    <3>4. /\ sdp'["local"].type = MadeType
          /\ sdp'["local"] # NoSdp
      BY <2>0, <2>3, <3>3 DEF NewSdp, NoSdp
    <3>5. \A i \in DOMAIN creating' : creating'[i] = MadeType
      BY <3>1, <3>2 DEF EngineInv
    <3>6. Role = "opener" => OpenerInv'
      BY <2>3, <3>1, <3>3 DEF Sdk!OnSuccess, EngineInv, OpenerInv, MadeType
    <3>7. Role = "enterer" => EntererInv'
      <4> SUFFICES ASSUME Role = "enterer" PROVE EntererInv'
        OBVIOUS
      <4>1. creating' = <<>> /\ signaling' = "have-local-offer"
        BY <2>3, <3>1, <3>2, <3>3 DEF Sdk!OnSuccess, EngineInv, EntererInv, MadeType
      <4> QED
        BY <3>1, <4>1 DEF EngineInv, EntererInv
    <3> QED
      BY <3>1, <3>4, <3>5, <3>6, <3>7 DEF EngineInv, MadeType
  <2>4. CASE Sdk!OnIceCandidate /\ UNCHANGED sdp
    BY <2>0, <2>4, EngineKept DEF Sdk!OnIceCandidate
  <2>5. CASE SdkStep
    <3>0. UNCHANGED <<sdp, out>>
      BY <2>5, SdkLeaves
    <3>1. CASE Sdk!OnInit
      <4>1. /\ taken + 1 \in DOMAIN out["remote"] /\ taken' = taken + 1
            /\ IsInit(out["remote"][taken + 1]) /\ ~IsSdp(out["remote"][taken + 1])
        BY <3>1, NextTaken DEF Sdk!OnInit, IsInit, IsSdp
      <4>2. Role = "enterer"
        BY <4>1, RoleAssumption DEF InitInv
      <4>3. ~peer
        <5> SUFFICES ASSUME peer PROVE FALSE
          OBVIOUS
        <5>1. PICK i \in 1 .. taken : IsInit(out["remote"][i])
          BY <4>2 DEF EngineInv, EntererInv
        <5>2. i \in DOMAIN out["remote"] /\ i # taken + 1
          BY <2>0, <5>1 DEF TypeOK
        <5> QED
          BY <4>1, <5>1, <5>2 DEF InitInv
      <4>4. CASE Sdk!FailToConnect
        BY <2>0, <3>0, <4>1, <4>3, <4>4, FailureKeeps, EngineKept DEF TypeOK
      <4>5. CASE Sdk!Connect /\ signaling' = "stable" /\ hasRemote' = FALSE
                 /\ creating' = Append(creating, "offer")
        <5>1. /\ creating' = <<"offer">> /\ Len(creating') = 1
              /\ sdp["local"] = NoSdp /\ ~hasRemote
          BY <4>3, <4>5 DEF EngineInv
        <5>2. peer' /\ created' = 1 /\ stream' \in Sources
          BY <2>0, <4>3, <4>5 DEF Sdk!Connect, Sdk!AddStreams, EngineInv
        <5>3. EntererInv'
          <6>1. \A i \in 1 .. taken' : ~IsSdp(out'["remote"][i])
            BY <2>0, <3>0, <4>1, <4>2, <5>1 DEF EngineInv, EntererInv
          <6>2. \E i \in 1 .. taken' : IsInit(out'["remote"][i])
            BY <2>0, <3>0, <4>1
          <6> QED
            BY <3>0, <4>5, <5>1, <6>1, <6>2 DEF EntererInv
        <5> QED
          BY <3>0, <4>2, <5>1, <5>2, <5>3 DEF EngineInv, MadeType
      <4> QED
        BY <3>1, <4>4, <4>5 DEF Sdk!OnInit
    <3>2. CASE Sdk!OnSdp
      <4> DEFINE m == out["remote"][taken + 1]
      <4>1. /\ taken + 1 \in DOMAIN out["remote"] /\ taken' = taken + 1 /\ IsSdp(m)
        BY <3>2, NextTaken DEF Sdk!OnSdp, IsSdp
      <4>2. m.sdp.type = RemoteType
        BY <4>1 DEF RemoteInv
      <4>3. CASE Role = "enterer"
        <5>1. peer /\ sdp["local"] # NoSdp /\ m.sdp.type = "answer"
          BY <4>1, <4>2, <4>3, PeerBeforeAnswer DEF RemoteType
        <5>2. UNCHANGED <<peer, created, stream, creating>> /\ hasRemote'
          BY <3>2, <4>3, <5>1 DEF Sdk!OnSdp, Sdk!Ensure, Sdk!Accepts, EngineInv, EntererInv
        <5>3. creating = <<>> /\ EntererInv
          BY <4>3, <5>1 DEF EngineInv, EntererInv
        <5>4. EntererInv'
          BY <2>0, <3>0, <4>1, <5>2, <5>3 DEF EntererInv
        <5> QED
          BY <3>0, <4>3, <5>1, <5>2, <5>4 DEF EngineInv, MadeType
      <4>4. CASE Role = "opener" /\ ~peer /\ Sdk!FailToConnect
        BY <2>0, <3>0, <4>1, <4>4, FailureKeeps, EngineKept DEF TypeOK
      <4>5. CASE Role = "opener" /\ Sdk!Ensure /\ ~(~peer /\ Sdk!FailToConnect)
        <5>1. m.sdp.type = "offer" /\ signaling # "have-local-offer"
          BY <4>2, <4>5 DEF RemoteType, EngineInv, OpenerInv
        <5>2. /\ signaling' = "have-remote-offer" /\ hasRemote'
              /\ creating' = Append(creating, "answer")
          BY <3>2, <4>5, <5>1 DEF Sdk!OnSdp, Sdk!Accepts
        <5>3. peer' /\ created' = 1 /\ stream' \in Sources
          BY <4>5, EnsureMakes
        <5>4. \A i \in DOMAIN creating' : creating'[i] = MadeType
          BY <2>0, <4>5, <5>2 DEF EngineInv, MadeType
        <5> QED
          BY <3>0, <4>5, <5>2, <5>3, <5>4 DEF EngineInv, OpenerInv, MadeType
      <4> QED
        BY <3>2, <4>3, <4>4, <4>5, RoleAssumption DEF Sdk!OnSdp
    <3>3. CASE Sdk!OnCandidate
      <4>1. /\ taken + 1 \in DOMAIN out["remote"] /\ taken' = taken + 1
            /\ IsCandidate(out["remote"][taken + 1]) /\ ~IsSdp(out["remote"][taken + 1])
        BY <3>3, NextTaken DEF Sdk!OnCandidate, IsCandidate, IsSdp
      <4>2. peer
        BY <4>1, PeerBeforeCandidate
      <4>3. UNCHANGED <<peer, created, stream, signaling, hasRemote, creating>>
        BY <3>3, <4>2 DEF Sdk!OnCandidate, Sdk!Ensure
      <4> QED
        BY <2>0, <3>0, <4>1, <4>3, EngineKept DEF TypeOK
    <3>4. CASE Sdk!OnFrame
      <4>1. /\ taken + 1 \in DOMAIN out["remote"] /\ taken' = taken + 1
            /\ ~IsSdp(out["remote"][taken + 1])
        BY <3>4, NextTaken DEF Sdk!OnFrame, IsSdp
      <4> QED
        BY <2>0, <3>0, <3>4, <4>1, EngineKept DEF TypeOK, Sdk!OnFrame
    <3>5. CASE Sdk!OnFailure
      <4>1. /\ creating # <<>> /\ creating' = Tail(creating)
            /\ UNCHANGED <<taken, peer, created, stream, signaling, hasRemote, out>>
            /\ peer
        BY <3>0, <3>5 DEF Sdk!OnFailure
      <4>2. /\ Len(creating') <= 1 \/ ~(Len(creating) <= 1)
            /\ \A i \in DOMAIN creating' : \E j \in DOMAIN creating : creating'[i] = creating[j]
        BY <2>0, <4>1
      <4> QED
        BY <3>0, <4>1, <4>2 DEF EngineInv, OpenerInv, EntererInv, MadeType
    <3> QED
      BY <2>5, <3>1, <3>2, <3>3, <3>4, <3>5 DEF SdkStep, SdkTakes, Sdk!Wait
  <2>6. CASE Entered /\ UNCHANGED engineVars
    BY <2>1, <2>6 DEF Entered, onInitCall
  <2>7. CASE UNCHANGED <<engineVars, sdp>>
    BY <2>1, <2>7
  <2> QED
    BY <2>2, <2>3, <2>4, <2>5, <2>6, <2>7, PeerMoves DEF peerVars, vars
<1> QED
  BY <1>1, <1>2, PeerHasManager, TypeCorrect, StoredInvHolds, InitInvHolds, RemoteInvHolds,
     EngineType, PTL DEF PeerSpec, Spec

\* RTC_DCHECK at the head of InitializePeerConnection: in a session the peer
\* connection is made once, whichever message needs it first.
THEOREM OnePeerConnectionHolds == PeerSpec => []OnePeerConnection
<1>1. EngineInv => OnePeerConnection
  BY DEF EngineInv, OnePeerConnection
<1> QED
  BY <1>1, EngineInvHolds, PTL

\* An offer leaves as room/offer, an answer as the reply to the peer's offer:
\* m_calling, set on the service's thread, is seen by the WebRTC thread in time.
THEOREM SdpSentAsMadeHolds == PeerSpec => []SdpSentAsMade
<1>1. EngineInv => SdpSentAsMade
  BY DEF EngineInv, SdpSentAsMade, IsSdp
<1> QED
  BY <1>1, EngineInvHolds, PTL

-----------------------------------------------------------------------------
(* Frames find the capturer. *)

\* A race is never forgotten.
LEMMA RaceStays ==
  ASSUME TypeOK, [Next]_vars
  PROVE  raced => raced'
<1>1. ASSUME NEW t, NEW to, NEW m, Push(t, to, m) PROVE raced => raced'
  BY <1>1, Zenon DEF Push
<1>2. ASSUME NEW t \in Negotiators, handleMessages(t) PROVE raced => raced'
  BY <1>1, <1>2
  DEF handleMessages, TestSdp, SendSdp, MarkSdp, TestDrain, Claim, TestQueue, Front, Pop,
      SendCandidate, Release, SendMode, TestConnected, history
<1> QED
  BY <1>2, Steps DEF vars, NewSdp, onLocalIceCandidateCb, onIceCandidateCb, NewCandidate, Aside

\* The local stream captures what the SDK was told to when it opened; and unless a
\* selection was lost, the SDK was told what the window has selected, or forgot it
\* for want of a Conductor, without which no stream opens.
FrameInv ==
  /\ stream # "none" => conductor
  /\ stream # "none" /\ forgotten => lost
  /\ ~late => stream = "none" \/ stream = dataSource
  /\ pc["ui"] \notin Selecting /\ ~lost /\ ~forgotten => dataSource = deviceType
  /\ sending /\ ~late /\ ~lost => stream = "IMG_SNAPSHOTS"

\* A step that leaves the stream and the selection alone.
LEMMA FrameKept ==
  ASSUME FrameInv, UNCHANGED <<stream, dataSource, forgotten, deviceType, sending>>,
         conductor => conductor', late => late', lost => lost',
         pc'["ui"] \notin Selecting => pc["ui"] \notin Selecting
  PROVE  FrameInv'
BY DEF FrameInv

\* Nothing but SetSource tells the SDK a source, and running threads neither begin
\* nor end the sending.
LEMMA RunKeepsSending ==
  ASSUME NEW t \in Threads, Run(t)
  PROVE  sending' = sending
BY DEF Run, handleMessages, TestSdp, SendSdp, MarkSdp, TestDrain, Claim, TestQueue, Front,
       Pop, SendCandidate, Release, SendMode, TestConnected, ReadSource, SetSource, SendInit,
       SetMode, SendToggle, SendFrame, SetConductor, video

LEMMA RunKeepsSource ==
  ASSUME TypeOK, NEW t \in Threads, Run(t), pc[t] # "setSource"
  PROVE  /\ UNCHANGED <<dataSource, forgotten, deviceType>>
         /\ conductor => conductor'
         /\ pc'["ui"] \notin Selecting => pc["ui"] \notin Selecting
<1> USE DEF Goto, video, sdkSource
<1>0. /\ Threads = {"ui", "ws", "sdk"} /\ Negotiators = {"ws", "sdk"}
      /\ pc \in [Threads -> Labels]
  BY DEF Threads, Negotiators, TypeOK
<1>1. CASE t \in Negotiators /\ handleMessages(t)
  <2>1. UNCHANGED <<dataSource, forgotten, deviceType, conductor>>
    BY <1>1
    DEF handleMessages, TestSdp, SendSdp, MarkSdp, TestDrain, Claim, TestQueue, Front, Pop,
        SendCandidate, Release, SendMode, TestConnected
  <2>2. pc'["ui"] = pc["ui"] \/ pc'["ui"] = "crashed"
    BY <1>0, <1>1
    DEF handleMessages, TestSdp, SendSdp, MarkSdp, AfterSdp, TestDrain, Claim, TestQueue,
        Front, Pop, SendCandidate, Release, SendMode, TestConnected, Crash
  <2> QED
    BY <2>1, <2>2 DEF Selecting
<1>2. CASE ReadSource(t) \/ SetMode
  BY <1>0, <1>2 DEF ReadSource, SetMode, Selecting
<1>3. CASE SendInit \/ SendToggle \/ SendFrame \/ SetConductor
  BY <1>0, <1>3 DEF SendInit, SendToggle, SendFrame, SetConductor, Selecting
<1> QED
  BY <1>0, <1>1, <1>2, <1>3 DEF Run, SetSource

LEMMA FrameInvHolds == PeerSpec => []FrameInv
<1>1. PeerInit => FrameInv
  BY DEF PeerInit, Init, Sdk!Init, FrameInv
<1>2. TypeOK /\ AnnounceInv /\ SourceInv /\ StoredInv /\ EngineTypeOK /\ EngineInv /\ FrameInv
        /\ [PeerNext]_peerVars => FrameInv'
  <2> SUFFICES ASSUME TypeOK, AnnounceInv, SourceInv, StoredInv, EngineTypeOK, EngineInv,
                      FrameInv, [PeerNext]_peerVars
               PROVE  FrameInv'
    OBVIOUS
  <2>0. Threads = {"ui", "ws", "sdk"} /\ pc \in [Threads -> Labels]
    BY DEF Threads, TypeOK
  <2>1. CASE SdkStep
    <3>1. /\ UNCHANGED <<late, dataSource, deviceType, conductor, forgotten, sending, pc>>
          /\ conductor
      BY <2>1, SdkLeaves
    <3>2. Sdk!Ensure \/ Sdk!Connect \/ Sdk!FailToConnect =>
            stream' = stream \/ (stream = "none" /\ stream' = dataSource)
      BY DEF Sdk!Ensure, Sdk!Connect, Sdk!AddStreams, Sdk!FailToConnect
    <3>3. stream' = stream \/ (stream = "none" /\ stream' = dataSource)
      BY <2>1, <3>2
      DEF SdkStep, SdkTakes, Sdk!Wait, Sdk!OnInit, Sdk!OnSdp, Sdk!OnCandidate, Sdk!OnFrame,
          Sdk!OnFailure
    <3>4. (lost => lost') /\ (stream' # stream /\ forgotten => lost')
      BY <2>1 DEF SdkStep, SdkTakes, Sdk!OnFailure, fate, EngineTypeOK
    <3>5. CASE stream' = stream
      BY <3>1, <3>4, <3>5, FrameKept
    <3>6. CASE stream' # stream
      BY <3>1, <3>3, <3>4, <3>6 DEF FrameInv
    <3> QED
      BY <3>5, <3>6
  <2>2. CASE SdkReports
    <3>1. /\ UNCHANGED <<late, lost, stream, dataSource, forgotten, deviceType, sending>>
          /\ conductor' = conductor /\ pc'["ui"] = pc["ui"]
      BY <2>0, <2>2
      DEF SdkReports, Sdk!OnSuccess, Sdk!OnIceCandidate, onLocalSdpCb, onLocalIceCandidateCb,
          NewSdp, NewCandidate, Goto, video, sdkSource, fate
    <3> QED
      BY <3>1, FrameKept
  <2>3. CASE Signal
    <3>1. /\ UNCHANGED <<late, lost, stream, dataSource, forgotten, deviceType, sending>>
          /\ conductor' = conductor
      BY <2>3
      DEF Signal, Entered, Answer, Offer, onInitCall, onSdpAnswerCb, onSdpOfferCb,
          onIceCandidateCb, NewSdp, NewCandidate, video, sdkSource, engineVars, fate
    <3>2. pc'["ui"] = pc["ui"] \/ pc'["ui"] = "crashed"
      BY <2>0, <2>3
      DEF Signal, Entered, Answer, Offer, onInitCall, onSdpAnswerCb, onSdpOfferCb,
          onIceCandidateCb, NewSdp, NewCandidate, Goto, Crash
    <3> QED
      BY <3>1, <3>2, FrameKept DEF Selecting
  <2>4. CASE User
    <3>1. UNCHANGED <<late, lost, stream>>
      BY <2>4 DEF User, engineVars, fate
    <3>2. CASE StartSending
      <4>1. /\ pc["ui"] = "idle" /\ connected /\ deviceType = "IMG_SNAPSHOTS"
            /\ UNCHANGED <<dataSource, deviceType, conductor, forgotten, pc>>
        BY <3>2 DEF StartSending, sdkSource
      <4>2. sdp["local"] # NoSdp
        BY <4>1 DEF AnnounceInv, BothSent, StoredInv, Sides
      <4>3. stream # "none"
        BY <4>2 DEF EngineInv, Sources
      <4>4. ~lost => dataSource = "IMG_SNAPSHOTS"
        BY <4>1, <4>3 DEF FrameInv, Selecting
      <4> QED
        BY <3>1, <4>1, <4>3, <4>4 DEF FrameInv
    <3>3. CASE toggleVideo \/ newFrame
      <4>1. /\ UNCHANGED <<dataSource, forgotten, deviceType, sending, conductor>>
            /\ pc["ui"] = "idle"
        BY <3>3 DEF toggleVideo, newFrame, Enter, video, sdkSource
      <4> QED
        BY <3>1, <4>1, FrameKept DEF Selecting
    <3>4. CASE \E source \in Sources : setDeviceName(source)
      <4>1. /\ UNCHANGED <<dataSource, forgotten, conductor, sending>>
            /\ pc'["ui"] = "setMode"
        BY <2>0, <3>4 DEF setDeviceName, sdkSource, Goto
      <4> QED
        BY <3>1, <4>1 DEF FrameInv, Selecting
    <3> QED
      BY <2>4, <3>2, <3>3, <3>4 DEF User
  <2>5. ASSUME NEW t \in Threads, PeerRun(t) PROVE FrameInv'
    <3>1. /\ sending' = sending /\ stream' = stream
          /\ late' = (late \/ (stream # "none" /\ dataSource' # stream))
          /\ lost' = (lost \/ (pc[t] = "setSource" /\ chosen[t] # deviceType))
      BY <2>5, RunKeepsSending DEF PeerRun, engineVars
    <3>2. CASE pc[t] # "setSource"
      <4>1. /\ UNCHANGED <<dataSource, forgotten, deviceType>>
            /\ conductor => conductor'
            /\ pc'["ui"] \notin Selecting => pc["ui"] \notin Selecting
        BY <2>5, <3>2, RunKeepsSource DEF PeerRun
      <4> QED
        BY <3>1, <4>1, FrameKept
    <3>3. CASE pc[t] = "setSource"
      <4>1. SetSource(t)
        BY <2>5, <3>3
        DEF PeerRun, Run, handleMessages, TestSdp, SendSdp, MarkSdp, TestDrain, Claim,
            TestQueue, Front, Pop, SendCandidate, Release, SendMode, TestConnected,
            ReadSource, SendInit, SetMode, SendToggle, SendFrame, SetConductor, Negotiators
      <4>2. /\ dataSource' = IF conductor THEN chosen[t] ELSE dataSource
            /\ forgotten' = ~conductor /\ conductor' = conductor /\ deviceType' = deviceType
            /\ t # "ui" => pc'["ui"] = pc["ui"]
        BY <2>0, <4>1 DEF SetSource, Goto
      <4> QED
        BY <3>1, <3>3, <4>2 DEF FrameInv, SourceInv
    <3> QED
      BY <3>2, <3>3
  <2>6. CASE UNCHANGED peerVars
    BY <2>6 DEF peerVars, vars, engineVars, fate, FrameInv
  <2> QED
    BY <2>1, <2>2, <2>3, <2>4, <2>5, <2>6 DEF PeerNext
<1> QED
  BY <1>1, <1>2, PeerHasManager, TypeCorrect, AnnounceInvHolds, SourceInvHolds, StoredInvHolds,
     EngineType, EngineInvHolds, PTL DEF PeerSpec

\* The Conductor may use m_alVideoCapturer without a look at it: by the time the
\* window sends a frame the local stream is open, and from the sensor; unless the
\* source changed after that, or the selection was lost on its way to the SDK.
THEOREM FramesFindCapturerHolds == PeerSpec => []FramesFindCapturer
<1>1. SendingInv /\ FrameInv => FramesFindCapturer
  BY DEF SendingInv, FrameInv, FramesFindCapturer
<1> QED
  BY <1>1, PeerHasManager, SendingInvHolds, FrameInvHolds, PTL

-----------------------------------------------------------------------------
(* Candidates are added as they came. *)

\* The candidates among the messages taken are those added, in their order.
AddInv == ~raced =>
  /\ dropped = <<>>
  /\ \A i \in DOMAIN added : added[i] = i
  /\ \A i \in DOMAIN out["remote"] : IsCandidate(out["remote"][i]) =>
       (i <= taken <=> out["remote"][i].val <= Len(added))
  /\ Len(added) > 0 =>
       \E i \in 1 .. taken : IsCandidate(out["remote"][i]) /\ out["remote"][i].val = Len(added)

\* The next candidate to be taken is the next to be added.
LEMMA NextAdded ==
  ASSUME TypeOK, EngineTypeOK, AddInv, Ordered("remote"), ~raced,
         taken + 1 \in DOMAIN out["remote"], IsCandidate(out["remote"][taken + 1])
  PROVE  out["remote"][taken + 1].val = Len(added) + 1
<1> DEFINE q == out["remote"]
           c == q[taken + 1].val
           k == Len(added) + 1
<1>1. /\ taken \in Nat /\ Len(added) \in Nat /\ Passed("remote") \in Nat
      /\ DOMAIN q = 1 .. Len(q) /\ Len(q) \in Nat
  BY DEF TypeOK, EngineTypeOK, Sides, Ordered
<1>2. c \in 1 .. Passed("remote")
  BY DEF Ordered
<1>3. c > Len(added)
  <2>1. ~(taken + 1 <= taken)
    BY <1>1
  <2>2. taken + 1 <= taken <=> c <= Len(added)
    BY DEF AddInv
  <2> QED
    BY <1>1, <1>2, <2>1, <2>2
<1>4. ASSUME c # k PROVE FALSE
  <2>1. k \in 1 .. Passed("remote") /\ k < c
    BY <1>1, <1>2, <1>3, <1>4
  <2>2. PICK i \in DOMAIN q : IsCandidate(q[i]) /\ q[i].val = k
    BY <2>1 DEF Ordered
  <2>3. i <= taken <=> k <= Len(added)
    BY <2>2 DEF AddInv
  <2>4. i \in Nat /\ i # taken + 1 /\ ~(i <= taken)
    BY <1>1, <1>4, <2>2, <2>3
  <2>5. taken + 1 < i
    BY <1>1, <2>4
  <2>6. c < k
    BY <2>2, <2>5 DEF Ordered
  <2> QED
    BY <1>1, <1>2, <2>1, <2>6
<1> QED
  BY <1>4

\* Calls of the Manager keep AddInv: a new candidate comes after all those added.
LEMMA AddCalled ==
  ASSUME TypeOK, TypeOK', SendingInv', EngineTypeOK, AddInv, CandidatesInOrder',
         [Next]_vars, UNCHANGED <<taken, added, dropped>>
  PROVE  AddInv'
<1> SUFFICES ASSUME ~raced' PROVE AddInv'
  BY DEF AddInv
<1> DEFINE q == out["remote"]
<1>0. /\ ~raced /\ "remote" \in Sides /\ Negotiators \subseteq Threads
      /\ taken \in 0 .. Len(q) /\ Len(q) \in Nat /\ DOMAIN q = 1 .. Len(q)
      /\ Len(added) \in Nat
  BY RaceStays, SMTT(30) DEF Sides, TypeOK, EngineTypeOK, Negotiators, Threads
<1>1. \A i \in 1 .. taken : q'[i] = q[i]
  BY <1>0, PushedStays
<1>2. ASSUME NEW i \in DOMAIN q', IsCandidate(q'[i])
      PROVE  i <= taken <=> q'[i].val <= Len(added)
  <2>1. CASE i \in DOMAIN q /\ q'[i] = q[i]
    BY <1>0, <1>2, <2>1 DEF AddInv
  <2>2. CASE DOMAIN q = 1 .. i - 1 /\ Sends("remote", q'[i])
    <3>1. ~Crashed'
      BY <1>0, <1>2, <2>2 DEF Sends, IsSdp, IsCandidate, SendingInv
    <3>2. Ordered("remote")'
      BY <1>0, <3>1 DEF CandidatesInOrder
    <3>3. i \in Nat /\ i > taken
      <4>1. i \in Nat \ {0}
        BY <1>0, <1>2 DEF TypeOK
      <4>2. Len(q) = i - 1
        BY <1>0, <2>2, <4>1
      <4> QED
        BY <1>0, <4>1, <4>2
    <3>4. q'[i].val \in Nat \ {0}
      BY <1>2, <3>2 DEF Ordered
    <3>5. ASSUME Len(added) > 0 PROVE Len(added) < q'[i].val
      <4>1. PICK j \in 1 .. taken : IsCandidate(q[j]) /\ q[j].val = Len(added)
        BY <1>0, <3>5 DEF AddInv
      <4>2. j \in DOMAIN q' /\ q'[j] = q[j] /\ j < i
        BY <1>0, <1>1, <1>2, <3>3 DEF TypeOK
      <4> QED
        BY <1>2, <3>2, <4>1, <4>2 DEF Ordered
    <3> QED
      BY <1>0, <3>3, <3>4, <3>5
  <2> QED
    BY <1>0, <1>2, <2>1, <2>2, OldOrSent
<1>3. Len(added) > 0 =>
        \E i \in 1 .. taken : IsCandidate(q'[i]) /\ q'[i].val = Len(added)
  BY <1>0, <1>1 DEF AddInv
<1> QED
  BY <1>0, <1>2, <1>3 DEF AddInv

\* Taking a message that is not a candidate adds none.
LEMMA AddPassed ==
  ASSUME TypeOK, EngineTypeOK, AddInv, UNCHANGED <<out, added, dropped>>,
         raced => raced', taken' = taken + 1, ~IsCandidate(out["remote"][taken + 1])
  PROVE  AddInv'
<1> DEFINE q == out["remote"]
<1>1. /\ taken \in Nat /\ DOMAIN q = 1 .. Len(q) /\ Len(q) \in Nat
  BY DEF TypeOK, EngineTypeOK, Sides
<1>2. \A i \in DOMAIN q : IsCandidate(q[i]) => (i <= taken + 1 <=> i <= taken)
  BY <1>1
<1> QED
  BY <1>1, <1>2 DEF AddInv

LEMMA AddInvHolds == PeerSpec => []AddInv
<1>1. PeerInit => AddInv
  BY DEF PeerInit, Init, Sdk!Init, AddInv, Sides
<1>2. TypeOK /\ TypeOK' /\ GateInv /\ SendingInv /\ SendingInv' /\ StoredInv /\ EngineTypeOK
        /\ EngineInv /\ CandidatesInOrder /\ CandidatesInOrder' /\ AddInv
        /\ [PeerNext]_peerVars /\ [Next]_vars => AddInv'
  <2> SUFFICES ASSUME TypeOK, TypeOK', GateInv, SendingInv, SendingInv', StoredInv,
                      EngineTypeOK, EngineInv, CandidatesInOrder, CandidatesInOrder',
                      AddInv, [PeerNext]_peerVars, [Next]_vars
               PROVE  AddInv'
    OBVIOUS
  <2>1. CASE UNCHANGED <<taken, added, dropped>>
    BY <2>1, AddCalled
  <2>2. CASE SdkStep
    <3>0. out' = out /\ (raced => raced') /\ ~Crashed
      BY <2>2, SdkLeaves, RaceStays DEF SendingInv, Threads
    <3>1. CASE Sdk!OnInit \/ Sdk!OnSdp \/ Sdk!OnFrame
      <4>1. taken' = taken + 1 /\ ~IsCandidate(out["remote"][taken + 1])
        BY <3>1, NextTaken DEF Sdk!OnInit, Sdk!OnSdp, Sdk!OnFrame, IsCandidate
      <4> QED
        BY <3>0, <3>1, <4>1, AddPassed DEF Sdk!OnInit, Sdk!OnSdp, Sdk!OnFrame
    <3>2. CASE Sdk!OnFailure
      BY <2>1, <3>2 DEF Sdk!OnFailure
    <3>3. ASSUME Sdk!OnCandidate, ~raced PROVE AddInv'
      <4> DEFINE q == out["remote"]
                 c == q[taken + 1].val
      <4>1. /\ taken + 1 \in DOMAIN q /\ taken' = taken + 1 /\ IsCandidate(q[taken + 1])
        BY <3>3, NextTaken DEF Sdk!OnCandidate, IsCandidate
      <4>2. peer /\ sdp["local"] # NoSdp
        BY <4>1, PeerBeforeCandidate
      <4>3. hasRemote
        <5>1. CASE Role = "opener"
          BY <4>2, <5>1 DEF EngineInv, OpenerInv
        <5>2. CASE Role = "enterer"
          <6>0. SdpBeforeCandidates /\ "remote" \in Sides /\ taken \in Nat
            BY DEF GateInv, Sides, EngineTypeOK
          <6>1. PICK j \in 1 .. (taken + 1) - 1 : IsSdp(q[j])
            BY <3>3, <4>1, <6>0, Zenon DEF SdpBeforeCandidates
          <6>2. j \in 1 .. taken
            BY <6>1 DEF EngineTypeOK
          <6> QED
            BY <5>2, <6>1, <6>2 DEF EngineInv, EntererInv
        <5> QED
          BY <5>1, <5>2, RoleAssumption
      <4>4. Ordered("remote")
        BY <3>0, <3>3 DEF CandidatesInOrder, Sides
      <4>5. c = Len(added) + 1
        BY <3>3, <4>1, <4>4, NextAdded
      <4>6. added' = Append(added, c) /\ dropped' = dropped
        BY <3>3, <4>2, <4>3 DEF Sdk!OnCandidate
      <4>7. /\ Len(added) \in Nat /\ DOMAIN added = 1 .. Len(added)
            /\ DOMAIN added' = 1 .. Len(added) + 1 /\ Len(added') = Len(added) + 1
            /\ added'[Len(added) + 1] = c
            /\ \A i \in 1 .. Len(added) : added'[i] = added[i]
        <5>1. added \in Seq(Nat) /\ c \in Nat
          BY <4>1, <4>4 DEF EngineTypeOK, Ordered
        <5> HIDE DEF c
        <5> QED
          BY <4>6, <5>1
      <4>8. /\ dropped' = <<>>
            /\ \A i \in DOMAIN added' : added'[i] = i
        BY <3>3, <4>5, <4>6, <4>7 DEF AddInv
      <4>9. taken \in Nat /\ DOMAIN q = 1 .. Len(q) /\ Len(q) \in Nat
        BY DEF EngineTypeOK, TypeOK, Sides
      <4>10. ASSUME NEW i \in DOMAIN q, IsCandidate(q[i])
             PROVE  i <= taken + 1 <=> q[i].val <= Len(added) + 1
        <5>0. q[i].val \in Nat
          BY <4>4, <4>10 DEF Ordered
        <5>1. CASE i <= taken
          <6>1. q[i].val <= Len(added)
            BY <3>3, <4>10, <5>1 DEF AddInv
          <6> QED
            BY <4>7, <4>9, <5>0, <5>1, <6>1
        <5>2. CASE i = taken + 1
          BY <4>5, <4>7, <4>9, <5>2
        <5>3. CASE i > taken + 1
          <6>1. taken + 1 < i
            BY <4>9, <5>3
          <6>2. c < q[i].val
            BY <4>1, <4>4, <4>10, <6>1 DEF Ordered
          <6> QED
            BY <4>5, <4>7, <4>9, <5>0, <5>3, <6>2
        <5> QED
          BY <4>9, <5>1, <5>2, <5>3
      <4>11. \E i \in 1 .. taken + 1 : IsCandidate(q[i]) /\ q[i].val = Len(added) + 1
        BY <4>1, <4>5, <4>9
      <4> HIDE DEF c
      <4> QED
        BY <3>0, <4>1, <4>7, <4>8, <4>10, <4>11 DEF AddInv
    <3>4. CASE Sdk!OnCandidate /\ raced
      BY <3>0, <3>4 DEF AddInv
    <3> QED
      BY <2>2, <3>1, <3>2, <3>3, <3>4 DEF SdkStep, SdkTakes, Sdk!Wait
  <2>3. ASSUME NEW type, Sdk!OnSuccess(type) PROVE AddInv'
    BY <2>1, <2>3 DEF Sdk!OnSuccess
  <2>4. CASE Sdk!OnIceCandidate
    BY <2>1, <2>4 DEF Sdk!OnIceCandidate
  <2>5. CASE UNCHANGED engineVars
    BY <2>1, <2>5 DEF engineVars
  <2> QED
    BY <2>2, <2>3, <2>4, <2>5, PeerMoves DEF peerVars
<1> QED
  BY <1>1, <1>2, PeerHasManager, TypeCorrect, GateInvHolds, SendingInvHolds, StoredInvHolds,
     EngineType, EngineInvHolds, OrderHolds, PTL DEF PeerSpec, Spec

\* The peer connection refuses no candidate, and adds them as they came: the
\* Manager's order, and a peer connection that has its remote description in time,
\* unless two threads raced.
THEOREM CandidatesAddedHolds == PeerSpec => []CandidatesAreAdded
<1>1. AddInv => CandidatesAreAdded
  BY DEF AddInv, CandidatesAreAdded
<1> QED
  BY <1>1, AddInvHolds, PTL
=============================================================================
