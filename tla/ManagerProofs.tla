---------------------------- MODULE ManagerProofs ----------------------------
(***************************************************************************)
(* What holds of every Manager, however often each callback is entered     *)
(* (MaxCalls is any function) and however the threads interleave.          *)
(***************************************************************************)
EXTENDS Manager, FiniteSetTheorems, TLAPS

\* A call keeps the histories of calls well formed, raced or not.
LEMMA PushType ==
  ASSUME NEW t \in Threads, NEW s \in Sides, NEW m \in Message,
         out \in [Sides -> Seq(Message)], raced \in BOOLEAN,
         Push(t, s, m)
  PROVE  out' \in [Sides -> Seq(Message)] /\ raced' \in BOOLEAN
<1>1. raced' \in BOOLEAN
  BY Zenon DEF Push
<1>2. Append(out[s], m) \in Seq(Message)
  OBVIOUS
<1>3. out' \in [Sides -> Seq(Message)]
  BY <1>2 DEF Push
<1> QED
  BY <1>1, <1>3

\* Entering a callback counts it.
LEMMA EnterType ==
  ASSUME NEW t \in Threads, NEW c \in Callbacks,
         calls \in [Callbacks -> Nat], Enter(t, c)
  PROVE  calls' \in [Callbacks -> Nat]
BY DEF Enter

\* The callbacks that count their calls.
LEMMA CallbackNames ==
  {"onSdpOfferCb", "onSdpAnswerCb", "onIceCandidateCb", "onInitCall", "onLocalSdpCb",
   "onLocalIceCandidateCb", "setDeviceName", "toggleVideo", "newFrame"} \subseteq Callbacks
BY DEF Callbacks

\* The values every variable ranges over: queues and counters stay sequences
\* and naturals through every interleaving of the callbacks.
THEOREM TypeCorrect == Spec => []TypeOK
<1>1. Init => TypeOK
  <2> SUFFICES ASSUME Init PROVE TypeOK
    OBVIOUS
  <2>1. <<>> \in Seq(Nat) /\ <<>> \in Seq(Message)
    OBVIOUS
  <2> QED
    BY <2>1 DEF Init, TypeOK, Sides, Labels, Modes, Sources, NoSdp, Sdp
<1>2. TypeOK /\ [Next]_vars => TypeOK'
  <2> SUFFICES ASSUME TypeOK, [Next]_vars
               PROVE  TypeOK'
    OBVIOUS
  <2> USE DEF TypeOK, Goto, Hold, Choose, Labels, Draining, negotiation, video, sdkSource, history
  <2>0. /\ Threads = {"ui", "ws", "sdk"}
        /\ Negotiators \subseteq Threads
        /\ Sides = {"local", "remote"}
    BY DEF Threads, Negotiators, Sides
  <2>1. ASSUME NEW t \in Negotiators, TestSdp(t) PROVE TypeOK'
    BY <2>0, <2>1 DEF TestSdp, AfterSdp
  <2>2. ASSUME NEW t \in Negotiators, SendSdp(t) PROVE TypeOK'
    <3> DEFINE m == [kind |-> SdpKind(side[t]), sdp |-> sdp[side[t]]]
    <3>1. m \in Message
      BY <2>0 DEF Message, Told, SdpKind
    <3>2. out' \in [Sides -> Seq(Message)] /\ raced' \in BOOLEAN
      BY <2>0, <2>2, <3>1, PushType DEF SendSdp
    <3> QED
      BY <2>0, <2>2, <3>2 DEF SendSdp
  <2>3. ASSUME NEW t \in Negotiators, MarkSdp(t) PROVE TypeOK'
    BY <2>0, <2>3 DEF MarkSdp, AfterSdp
  <2>4. ASSUME NEW t \in Negotiators, TestDrain(t) PROVE TypeOK'
    BY <2>0, <2>4 DEF TestDrain, BothSent
  <2>5. ASSUME NEW t \in Negotiators, Claim(t) PROVE TypeOK'
    BY <2>0, <2>5 DEF Claim
  <2>6. ASSUME NEW t \in Negotiators, TestQueue(t) PROVE TypeOK'
    BY <2>0, <2>6 DEF TestQueue
  <2>7. ASSUME NEW t \in Negotiators, Front(t) PROVE TypeOK'
    <3> CASE candidates[side[t]] = <<>>
      BY <2>0, <2>7 DEF Front, Crash
    <3> CASE candidates[side[t]] # <<>>
      <4>1. Head(candidates[side[t]]) \in Nat
        BY <2>0
      <4> QED
        BY <2>0, <2>7, <4>1 DEF Front
    <3> QED
      OBVIOUS
  <2>8. ASSUME NEW t \in Negotiators, Pop(t) PROVE TypeOK'
    <3> CASE candidates[side[t]] = <<>>
      BY <2>0, <2>8 DEF Pop, Crash
    <3> CASE candidates[side[t]] # <<>>
      <4>1. candidates[side[t]] \in Seq(Nat)
        BY <2>0
      <4>2. Tail(candidates[side[t]]) \in Seq(Nat)
        BY <4>1
      <4>3. candidates' = [candidates EXCEPT ![side[t]] = Tail(candidates[side[t]])]
        BY <2>8 DEF Pop
      <4>4. candidates' \in [Sides -> Seq(Nat)]
        BY <4>2, <4>3
      <4> QED
        BY <2>0, <2>8, <4>4 DEF Pop
    <3> QED
      OBVIOUS
  <2>9. ASSUME NEW t \in Negotiators, SendCandidate(t) PROVE TypeOK'
    <3>1. [kind |-> "candidate", val |-> held[t]] \in Message
      BY <2>0 DEF Message, Told
    <3>2. out' \in [Sides -> Seq(Message)] /\ raced' \in BOOLEAN
      BY <2>0, <2>9, <3>1, PushType DEF SendCandidate
    <3> QED
      BY <2>0, <2>9, <3>2 DEF SendCandidate
  <2>10. ASSUME NEW t \in Negotiators, Release(t) PROVE TypeOK'
    BY <2>0, <2>10 DEF Release
  <2>11. ASSUME NEW t \in Negotiators, SendMode(t) PROVE TypeOK'
    <3>1. [kind |-> "mode", mode |-> videoMode] \in Message
      BY DEF Message, Told
    <3>2. out' \in [Sides -> Seq(Message)] /\ raced' \in BOOLEAN
      BY <2>0, <2>11, <3>1, PushType DEF SendMode
    <3> QED
      BY <2>0, <2>11, <3>2 DEF SendMode
  <2>12. ASSUME NEW t \in Negotiators, TestConnected(t) PROVE TypeOK'
    BY <2>0, <2>12 DEF TestConnected, BothSent
  <2>13. ASSUME NEW t \in Threads, NEW s \in Sides, NEW c \in Callbacks,
                NEW type \in {"offer", "answer"}, NewSdp(t, s, type, c)
         PROVE  TypeOK'
    <3>1. calls' \in [Callbacks -> Nat]
      BY <2>13, EnterType DEF NewSdp
    <3>2. Received(s) + 1 \in Nat
      <4>1. /\ calls["onLocalSdpCb"] \in Nat
            /\ calls["onSdpOfferCb"] \in Nat /\ calls["onSdpAnswerCb"] \in Nat
        BY CallbackNames
      <4>2. Received(s) =
              IF s = "local" THEN calls["onLocalSdpCb"]
                             ELSE calls["onSdpOfferCb"] + calls["onSdpAnswerCb"]
        BY Zenon DEF Received
      <4> QED
        BY <4>1, <4>2
    <3> QED
      BY <2>0, <2>13, <3>1, <3>2 DEF NewSdp, Sdp
  <2>14. ASSUME NEW t \in Threads, NEW s \in Sides, NEW c \in Callbacks,
                NewCandidate(t, s, c)
         PROVE  TypeOK'
    <3>1. calls' \in [Callbacks -> Nat]
      BY <2>14, EnterType DEF NewCandidate
    <3>2. Arrived(s) + 1 \in Nat
      <4>1. /\ calls["onLocalIceCandidateCb"] \in Nat
            /\ calls["onIceCandidateCb"] \in Nat
        BY CallbackNames
      <4>2. Arrived(s) = IF s = "local" THEN calls["onLocalIceCandidateCb"]
                                        ELSE calls["onIceCandidateCb"]
        BY Zenon DEF Arrived
      <4> QED
        BY <4>1, <4>2
    <3>3. raced' \in BOOLEAN
      BY <2>14, Zenon DEF NewCandidate
    <3>4. candidates' \in [Sides -> Seq(Nat)]
      <4>1. Append(candidates[s], Arrived(s) + 1) \in Seq(Nat)
        BY <3>2
      <4> HIDE DEF video, sdkSource, history, negotiation
      <4>2. \/ candidates' = [candidates EXCEPT ![s] = Append(candidates[s], Arrived(s) + 1)]
            \/ candidates' = candidates
        BY <2>14 DEF NewCandidate
      <4> QED
        BY <4>1, <4>2
    <3> QED
      BY <2>0, <2>14, <3>1, <3>3, <3>4 DEF NewCandidate
  <2>15. CASE onSdpAnswerCb
    <3>1. CASE NewSdp("ws", "remote", "answer", "onSdpAnswerCb")
      BY <2>13, <3>1, CallbackNames DEF Threads, Sides
    <3>2. CASE /\ Enter("ws", "onSdpAnswerCb")
               /\ Crash
               /\ UNCHANGED <<negotiation, video, chosen, side, held, out, skipped, raced>>
      <4>1. calls' \in [Callbacks -> Nat]
        BY <3>2, EnterType, CallbackNames DEF Threads
      <4>2. pc' \in [Threads -> Labels] /\ \A t \in Threads : pc'[t] = "crashed"
        BY <3>2 DEF Crash, Labels
      <4> QED
        BY <2>0, <3>2, <4>1, <4>2
    <3> QED
      BY <2>15, <3>1, <3>2 DEF onSdpAnswerCb
  <2>16. CASE onInitCall
    BY <2>0, <2>16, EnterType, CallbackNames DEF onInitCall
  <2>17. ASSUME NEW source \in Sources, setDeviceName(source) PROVE TypeOK'
    BY <2>0, <2>17, EnterType, CallbackNames DEF setDeviceName
  <2>18. CASE SetMode
    BY <2>0, <2>18 DEF SetMode, ModeOf, Modes
  <2>19. ASSUME NEW t \in Threads, ReadSource(t) PROVE TypeOK'
    BY <2>0, <2>19 DEF ReadSource, Sources
  <2>20. ASSUME NEW t \in Threads, SetSource(t) PROVE TypeOK'
    BY <2>0, <2>20 DEF SetSource
  <2>21. CASE SendInit
    <3>1. [kind |-> "init"] \in Message
      BY DEF Message, Told
    <3>2. out' \in [Sides -> Seq(Message)] /\ raced' \in BOOLEAN
      BY <2>0, <2>21, <3>1, PushType DEF SendInit
    <3> QED
      BY <2>0, <2>21, <3>2 DEF SendInit
  <2>22. CASE toggleVideo
    BY <2>0, <2>22, EnterType, CallbackNames DEF toggleVideo
  <2>23. CASE SendToggle
    <3> DEFINE m == [kind |-> "mode",
                     mode |-> IF isOn THEN videoMode ELSE "MODE_NONE"]
    <3>1. m \in Message
      BY DEF Message, Told, Modes
    <3>2. out' \in [Sides -> Seq(Message)] /\ raced' \in BOOLEAN
      BY <2>0, <2>23, <3>1, PushType DEF SendToggle
    <3> QED
      BY <2>0, <2>23, <3>2 DEF SendToggle
  <2>24. CASE UNCHANGED vars
    BY <2>24 DEF vars
  <2>25. CASE StartSending
    BY <2>0, <2>25 DEF StartSending
  <2>26. CASE newFrame
    BY <2>0, <2>26, EnterType, CallbackNames DEF newFrame
  <2>27. CASE SendFrame
    <3>1. [kind |-> "frame"] \in Message
      BY DEF Message, Told
    <3>2. out' \in [Sides -> Seq(Message)] /\ raced' \in BOOLEAN
      BY <2>0, <2>27, <3>1, PushType DEF SendFrame
    <3> QED
      BY <2>0, <2>27, <3>2 DEF SendFrame
  <2>30. CASE Dequeue
    <3>1. raced' \in BOOLEAN
      BY <2>30, Zenon DEF Dequeue
    <3> QED
      BY <2>0, <2>30, <3>1 DEF Dequeue
  <2>31. CASE SetConductor
    BY <2>0, <2>31 DEF SetConductor
  <2>28. CASE Call
    BY <2>0, <2>13, <2>14, <2>15, <2>16, <2>17, <2>22, <2>28, <2>25, <2>26,
       CallbackNames, SMTT(30)
    DEF Call, onSdpOfferCb, onIceCandidateCb, onLocalSdpCb, onLocalIceCandidateCb
  <2>29. ASSUME NEW t \in Threads, Run(t) PROVE TypeOK'
    BY <2>1, <2>2, <2>3, <2>4, <2>5, <2>6, <2>7, <2>8, <2>9, <2>10, <2>11, <2>12,
       <2>18, <2>19, <2>20, <2>21, <2>23, <2>29, <2>27, <2>31 DEF Run, handleMessages
  <2> QED
    BY <2>24, <2>28, <2>29, <2>30 DEF Next
<1> QED
  BY <1>1, <1>2, PTL DEF Spec

-----------------------------------------------------------------------------
(* Candidates stay behind the SDP of their side. *)

Opened(s) == \E j \in DOMAIN out[s] : IsSdp(out[s][j])

\* What the flags and program counters say about the calls made so far.  A
\* thread drains only after it has seen both flags, a flag is set only after
\* the call, and no flag is ever cleared.
GateInv ==
  /\ \A t \in Negotiators : pc[t] \in Draining \cup {"claim"} => BothSent
  /\ ~raced => \A s \in Sides : sent[s] => Opened(s)
  /\ ~raced => \A t \in Negotiators : pc[t] = "markSdp" => Opened(side[t])
  /\ SdpBeforeCandidates

\* Without a race, a call is recorded and changes nothing else.
LEMMA PushRecords ==
  ASSUME NEW t, NEW s, NEW m, Push(t, s, m), ~raced'
  PROVE  ~raced /\ out' = [out EXCEPT ![s] = Append(@, m)]
<1>1. raced' = raced /\ out' = [out EXCEPT ![s] = Append(@, m)]
  BY Zenon DEF Push
<1> QED
  BY <1>1

\* Without a race, a candidate joins the others.
LEMMA CandidateRecords ==
  ASSUME NEW t, NEW s, NEW c, NewCandidate(t, s, c), ~raced'
  PROVE  /\ ~raced
         /\ candidates' = [candidates EXCEPT ![s] = Append(@, Arrived(s) + 1)]
<1>1. /\ raced' = raced
      /\ candidates' = [candidates EXCEPT ![s] = Append(@, Arrived(s) + 1)]
  BY Zenon DEF NewCandidate
<1> QED
  BY <1>1

\* A recorded call opens its side if it is an SDP, closes no side, and keeps
\* candidates behind SDPs unless it is a candidate on a side not yet open.
LEMMA PushKeepsOrder ==
  ASSUME out \in [Sides -> Seq(Message)], SdpBeforeCandidates, ~raced, ~raced',
         NEW to \in Sides, NEW m \in Message,
         out' = [out EXCEPT ![to] = Append(@, m)],
         IsCandidate(m) => Opened(to)
  PROVE  /\ \A s \in Sides : Opened(s) => Opened(s)'
         /\ IsSdp(m) => Opened(to)'
         /\ SdpBeforeCandidates'
<1>1. /\ out'[to] = Append(out[to], m)
      /\ \A s \in Sides \ {to} : out'[s] = out[s]
  OBVIOUS
<1>2. /\ DOMAIN out'[to] = 1 .. Len(out[to]) + 1
      /\ DOMAIN out[to] = 1 .. Len(out[to])
      /\ Len(out[to]) \in Nat
      /\ out'[to][Len(out[to]) + 1] = m
      /\ \A i \in DOMAIN out[to] : out'[to][i] = out[to][i]
  <2> DEFINE q == out[to]
  <2>1. q \in Seq(Message)
    OBVIOUS
  <2>2. /\ DOMAIN Append(q, m) = 1 .. Len(q) + 1
        /\ DOMAIN q = 1 .. Len(q)
        /\ Len(q) \in Nat
        /\ Append(q, m)[Len(q) + 1] = m
        /\ \A i \in DOMAIN q : Append(q, m)[i] = q[i]
    <3> HIDE DEF q
    <3> QED
      BY <2>1
  <2> QED
    BY <1>1, <2>2
<1>3. \A s \in Sides : Opened(s) => Opened(s)'
  BY <1>1, <1>2 DEF Opened
<1>4. IsSdp(m) => Opened(to)'
  <2>1. Len(out[to]) + 1 \in DOMAIN out'[to]
    BY <1>2
  <2> QED
    BY <1>2, <2>1 DEF Opened
<1>5. ASSUME NEW s \in Sides, NEW i \in DOMAIN out'[s], IsCandidate(out'[s][i])
      PROVE  \E j \in 1 .. i - 1 : IsSdp(out'[s][j])
  <2>1. CASE s # to
    BY <1>1, <1>5, <2>1 DEF SdpBeforeCandidates
  <2>2. CASE s = to /\ i \in DOMAIN out[to]
    <3>1. PICK j \in 1 .. i - 1 : IsSdp(out[to][j])
      BY <1>2, <1>5, <2>2 DEF SdpBeforeCandidates
    <3> QED
      BY <1>2, <2>2, <3>1
  <2>3. CASE s = to /\ i = Len(out[to]) + 1
    <3>1. Opened(to)
      BY <1>2, <1>5, <2>3
    <3>2. PICK j \in DOMAIN out[to] : IsSdp(out[to][j])
      BY <3>1 DEF Opened
    <3> QED
      BY <1>2, <2>3, <3>2
  <2> QED
    BY <1>2, <1>5, <2>1, <2>2, <2>3
<1> QED
  BY <1>3, <1>4, <1>5 DEF SdpBeforeCandidates

\* A step that makes no call leaves GateInv to be shown for the flags and the
\* program counters alone.
LEMMA QuietStep ==
  ASSUME out' = out, raced => raced', SdpBeforeCandidates
  PROVE  /\ SdpBeforeCandidates'
         /\ \A s \in Sides : Opened(s)' <=> Opened(s)
BY DEF SdpBeforeCandidates, Opened

\* GateInv is kept by every step of every thread.
LEMMA GateInvHolds == Spec => []GateInv
<1> USE DEF GateInv, Goto, Hold, Choose, Draining, negotiation, video, sdkSource, history
<1>1. Init => GateInv
  BY DEF Init, Sides, Negotiators, Threads, SdpBeforeCandidates
<1>2. TypeOK /\ GateInv /\ [Next]_vars => GateInv'
  <2> SUFFICES ASSUME TypeOK, GateInv, [Next]_vars
               PROVE  GateInv'
    OBVIOUS
  <2>0. /\ Negotiators \subseteq Threads
        /\ "remote" \in Sides /\ "local" \in Sides
        /\ sent \in [Sides -> BOOLEAN]
        /\ out \in [Sides -> Seq(Message)]
        /\ pc \in [Threads -> Labels] /\ side \in [Threads -> Sides]
    BY DEF Threads, Negotiators, Sides, TypeOK
  <2>1. ASSUME NEW t \in Threads, NEW to \in Sides, NEW m \in Message,
               Push(t, to, m), IsCandidate(m) => sent[to]
        PROVE  /\ raced \/ raced' \/ \A s \in Sides : Opened(s) => Opened(s)'
               /\ raced \/ raced' \/ (IsSdp(m) => Opened(to)')
               /\ SdpBeforeCandidates'
               /\ raced => raced'
    <3>1. CASE raced'
      <4>1. SdpBeforeCandidates'
        BY <3>1 DEF SdpBeforeCandidates
      <4> QED
        BY <3>1, <4>1
    <3>2. CASE ~raced'
      <4>1. ~raced /\ out' = [out EXCEPT ![to] = Append(@, m)]
        BY <2>1, <3>2, PushRecords
      <4> QED
        BY <2>0, <2>1, <3>2, <4>1, PushKeepsOrder
    <3> QED
      BY <3>1, <3>2
  <2>2. ASSUME UNCHANGED <<out, raced>>
        PROVE  SdpBeforeCandidates' /\ \A s \in Sides : Opened(s)' <=> Opened(s)
    BY <2>2, QuietStep
  <2>3. ASSUME NEW t \in Negotiators, TestSdp(t) PROVE GateInv'
    BY <2>0, <2>2, <2>3 DEF TestSdp, AfterSdp, BothSent
  <2>4. ASSUME NEW t \in Negotiators, SendSdp(t) PROVE GateInv'
    <3> DEFINE m == [kind |-> SdpKind(side[t]), sdp |-> sdp[side[t]]]
    <3>1. m \in Message /\ ~IsCandidate(m) /\ IsSdp(m)
      BY <2>0 DEF Message, Told, SdpKind, IsCandidate, IsSdp, TypeOK
    <3> QED
      BY <2>0, <2>1, <2>4, <3>1 DEF SendSdp, BothSent
  <2>5. ASSUME NEW t \in Negotiators, MarkSdp(t) PROVE GateInv'
    <3>1. /\ pc[t] = "markSdp" /\ out' = out /\ raced' = raced
          /\ sent' = [sent EXCEPT ![side[t]] = TRUE]
          /\ pc' = [pc EXCEPT ![t] = "testSdp"] \/ pc' = [pc EXCEPT ![t] = "testDrain"]
          /\ \A u \in Threads \ {t} : side'[u] = side[u]
      BY <2>0, <2>5 DEF MarkSdp, AfterSdp
    <3>2. ~raced => \A s \in Sides : sent'[s] => Opened(s)
      BY <2>0, <3>1
    <3>3. \A u \in Negotiators : pc'[u] \in Draining \cup {"claim"} => BothSent'
      BY <2>0, <3>1 DEF BothSent
    <3>4. \A u \in Negotiators : pc'[u] = "markSdp" =>
                                   pc[u] = "markSdp" /\ side'[u] = side[u]
      BY <2>0, <3>1
    <3> QED
      BY <2>0, <2>2, <3>1, <3>2, <3>3, <3>4
  <2>6. ASSUME NEW t \in Negotiators, TestDrain(t) PROVE GateInv'
    BY <2>0, <2>2, <2>6 DEF TestDrain, BothSent
  <2>7. ASSUME NEW t \in Negotiators, Claim(t) PROVE GateInv'
    BY <2>0, <2>7, QuietStep DEF Claim, BothSent
  <2>8. ASSUME NEW t \in Negotiators, TestQueue(t) PROVE GateInv'
    BY <2>0, <2>2, <2>8 DEF TestQueue, BothSent
  <2>9. ASSUME NEW t \in Negotiators, Front(t) PROVE GateInv'
    BY <2>0, <2>2, <2>9 DEF Front, Crash, BothSent
  <2>10. ASSUME NEW t \in Negotiators, Pop(t) PROVE GateInv'
    BY <2>0, <2>2, <2>10 DEF Pop, Crash, BothSent
  <2>11. ASSUME NEW t \in Negotiators, SendCandidate(t) PROVE GateInv'
    <3>1. [kind |-> "candidate", val |-> held[t]] \in Message
      BY <2>0 DEF Message, Told, TypeOK
    <3> QED
      BY <2>0, <2>1, <2>11, <3>1 DEF SendCandidate, BothSent
  <2>12. ASSUME NEW t \in Negotiators, Release(t) PROVE GateInv'
    BY <2>0, <2>2, <2>12 DEF Release, BothSent
  <2>13. ASSUME NEW t \in Negotiators, SendMode(t) PROVE GateInv'
    <3>1. /\ [kind |-> "mode", mode |-> videoMode] \in Message
          /\ ~IsCandidate([kind |-> "mode", mode |-> videoMode])
      BY DEF Message, Told, TypeOK, IsCandidate
    <3> QED
      BY <2>0, <2>1, <2>13, <3>1 DEF SendMode, BothSent
  <2>14. ASSUME NEW t \in Negotiators, TestConnected(t) PROVE GateInv'
    BY <2>0, <2>2, <2>14 DEF TestConnected, BothSent
  <2>15. ASSUME NEW t \in Threads, NEW s \in Sides, NEW c, NEW type,
                NewSdp(t, s, type, c) \/ NewCandidate(t, s, c)
         PROVE  GateInv'
    <3>1. out' = out /\ (raced' = raced \/ raced' = TRUE)
      BY <2>15 DEF NewSdp, NewCandidate
    <3>2. /\ SdpBeforeCandidates'
          /\ \A r \in Sides : Opened(r)' <=> Opened(r)
      BY <3>1, QuietStep
    <3> QED
      BY <2>0, <2>15, <3>1, <3>2 DEF NewSdp, NewCandidate, Enter, BothSent
  <2>16. CASE onSdpAnswerCb
    BY <2>0, <2>2, <2>15, <2>16 DEF onSdpAnswerCb, Enter, Crash, BothSent, Threads
  <2>17. CASE \/ onInitCall \/ toggleVideo \/ StartSending \/ newFrame
              \/ \E source \in Sources : setDeviceName(source)
    BY <2>0, <2>2, <2>17
    DEF onInitCall, toggleVideo, setDeviceName, StartSending, newFrame, Enter, BothSent
  <2>18. CASE SetMode
    BY <2>0, <2>2, <2>18 DEF SetMode, BothSent
  <2>19. ASSUME NEW t \in Threads, ReadSource(t) PROVE GateInv'
    BY <2>0, <2>2, <2>19 DEF ReadSource, BothSent
  <2>20. ASSUME NEW t \in Threads, SetSource(t) PROVE GateInv'
    BY <2>0, <2>20, QuietStep DEF SetSource, BothSent
  <2>21. CASE SendInit
    <3>1. /\ [kind |-> "init"] \in Message
          /\ ~IsCandidate([kind |-> "init"])
      BY DEF Message, Told, IsCandidate
    <3> QED
      BY <2>0, <2>1, <2>21, <3>1 DEF SendInit, BothSent, Threads
  <2>22. CASE SendToggle
    <3> DEFINE m == [kind |-> "mode",
                     mode |-> IF isOn THEN videoMode ELSE "MODE_NONE"]
    <3>1. m \in Message /\ ~IsCandidate(m)
      BY DEF Message, Told, Modes, TypeOK, IsCandidate
    <3> QED
      BY <2>0, <2>1, <2>22, <3>1 DEF SendToggle, BothSent, Threads
  <2>23. CASE SendFrame
    <3>1. [kind |-> "frame"] \in Message /\ ~IsCandidate([kind |-> "frame"])
      BY DEF Message, Told, IsCandidate
    <3> QED
      BY <2>0, <2>1, <2>23, <3>1 DEF SendFrame, BothSent, Threads
  <2>24. CASE UNCHANGED vars
    BY <2>0, <2>2, <2>24 DEF vars, BothSent
  <2>27. CASE Dequeue \/ SetConductor
    <3>1. /\ out' = out /\ (raced' = raced \/ raced' = TRUE)
          /\ UNCHANGED <<pc, side, sent>>
      BY <2>27 DEF Dequeue, SetConductor
    <3>2. /\ SdpBeforeCandidates'
          /\ \A r \in Sides : Opened(r)' <=> Opened(r)
      BY <3>1, QuietStep
    <3> QED
      BY <2>0, <3>1, <3>2 DEF BothSent
  <2>25. CASE Call
    BY <2>0, <2>15, <2>16, <2>17, <2>25
    DEF Call, onSdpOfferCb, onIceCandidateCb, onLocalSdpCb, onLocalIceCandidateCb,
        Threads
  <2>26. ASSUME NEW t \in Threads, Run(t) PROVE GateInv'
    BY <2>3, <2>4, <2>5, <2>6, <2>7, <2>8, <2>9, <2>10, <2>11, <2>12, <2>13, <2>14,
       <2>18, <2>19, <2>20, <2>21, <2>22, <2>26, <2>23, <2>27 DEF Run, handleMessages
  <2> QED
    BY <2>24, <2>25, <2>26, <2>27 DEF Next
<1> QED
  BY <1>1, <1>2, TypeCorrect, PTL DEF Spec

\* A peer connection accepts candidates only after a description: on the way to
\* the server and on the way to the SDK, every candidate has an SDP before it,
\* unless two threads raced on a container.
THEOREM GateHolds == Spec => []SdpBeforeCandidates
<1>1. GateInv => SdpBeforeCandidates
  BY DEF GateInv
<1> QED
  BY <1>1, GateInvHolds, PTL

-----------------------------------------------------------------------------
(* A side is negotiated once. *)

\* A call that is not an SDP adds none to what was called, raced or not.
LEMMA PushAddsNoSdp ==
  ASSUME out \in [Sides -> Seq(Message)],
         NEW t, NEW to \in Sides, NEW m \in Message, ~IsSdp(m), Push(t, to, m)
  PROVE  \A s \in Sides : \A i \in DOMAIN out'[s] \ DOMAIN out[s] : ~IsSdp(out'[s][i])
<1> DEFINE q == out[to]
<1>1. CASE out' = out
  BY <1>1
<1>2. CASE out' = [out EXCEPT ![to] = Append(@, m)]
  <2>1. out'[to] = Append(q, m) /\ \A s \in Sides \ {to} : out'[s] = out[s]
    BY <1>2
  <2>2. q \in Seq(Message)
    OBVIOUS
  <2>3. \A i \in DOMAIN Append(q, m) \ DOMAIN q : Append(q, m)[i] = m
    <3> HIDE DEF q
    <3> QED
      BY <2>2
  <2> QED
    BY <2>1, <2>3
<1> QED
  BY <1>1, <1>2, Zenon DEF Push

\* A step that makes no call and sends no thread to hand an SDP over.
LEMMA QuietStaysSettled ==
  ASSUME out' = out, sent' = sent, NEW s,
         \A t \in Negotiators : pc'[t] \in {"sendSdp", "markSdp"} =>
                                  pc'[t] = pc[t] /\ side'[t] = side[t]
  PROVE  StaysSettled(s)
BY DEF StaysSettled, Settled

\* Nothing clears a sent flag, and a thread only goes to hand over an SDP whose
\* flag it has found clear: an SDP that comes after its side has settled is
\* stored and stays here, however often the peer offers.
THEOREM NeverRenegotiated == Spec => NoRenegotiation
<1> USE DEF Goto, Hold, Choose, Draining, negotiation, video, sdkSource, history
<1>1. TypeOK /\ [Next]_vars => [\A s \in Sides : StaysSettled(s)]_vars
  <2> SUFFICES ASSUME TypeOK, Next, NEW s \in Sides
               PROVE  StaysSettled(s)
    OBVIOUS
  <2>0. /\ Negotiators \subseteq Threads
        /\ "remote" \in Sides /\ "local" \in Sides
        /\ sent \in [Sides -> BOOLEAN]
        /\ out \in [Sides -> Seq(Message)]
        /\ pc \in [Threads -> Labels] /\ side \in [Threads -> Sides]
    BY DEF Threads, Negotiators, Sides, TypeOK
  <2>1. ASSUME NEW t \in Threads, NEW to \in Sides, NEW m \in Message, ~IsSdp(m),
               Push(t, to, m), UNCHANGED <<sent, side>>,
               NEW label \in Labels \ {"sendSdp", "markSdp"}, Goto(t, label)
        PROVE  StaysSettled(s)
    BY <2>0, <2>1, PushAddsNoSdp DEF StaysSettled, Settled
  <2>2. ASSUME NEW t \in Threads, UNCHANGED <<out, sent>>,
               \A u \in Threads \ {t} : side'[u] = side[u],
               NEW label \in Labels \ {"sendSdp", "markSdp"}, Goto(t, label) \/ Crash
        PROVE  StaysSettled(s)
    BY <2>0, <2>2, QuietStaysSettled DEF Crash
  <2>3. ASSUME NEW t \in Negotiators, TestSdp(t) PROVE StaysSettled(s)
    <3>1. CASE ~sent[side[t]] /\ sdp[side[t]] # NoSdp
      BY <2>0, <2>3, <3>1 DEF TestSdp, StaysSettled, Settled
    <3>2. CASE ~(~sent[side[t]] /\ sdp[side[t]] # NoSdp)
      BY <2>0, <2>2, <2>3, <3>2 DEF TestSdp, AfterSdp, Labels
    <3> QED
      BY <3>1, <3>2
  <2>4. ASSUME NEW t \in Negotiators, SendSdp(t) PROVE StaysSettled(s)
    <3>1. CASE side[t] = s
      BY <2>0, <2>4, <3>1 DEF SendSdp, StaysSettled, Settled
    <3>2. CASE side[t] # s
      <4>1. out'[s] = out[s]
        BY <2>0, <2>4, <3>2 DEF SendSdp, Push
      <4> QED
        BY <2>0, <2>4, <3>2, <4>1 DEF SendSdp, StaysSettled, Settled
    <3> QED
      BY <3>1, <3>2
  <2>5. ASSUME NEW t \in Negotiators, MarkSdp(t) PROVE StaysSettled(s)
    BY <2>0, <2>5 DEF MarkSdp, AfterSdp, StaysSettled, Settled
  <2>6. ASSUME NEW t \in Negotiators,
               \/ TestDrain(t) \/ Claim(t) \/ TestQueue(t) \/ Front(t) \/ Pop(t)
               \/ Release(t) \/ TestConnected(t)
        PROVE  StaysSettled(s)
    BY <2>0, <2>6, QuietStaysSettled
    DEF TestDrain, Claim, TestQueue, Front, Pop, Release, TestConnected, Crash
  <2>7. ASSUME NEW t \in Negotiators, SendCandidate(t) PROVE StaysSettled(s)
    <3>1. /\ [kind |-> "candidate", val |-> held[t]] \in Message
          /\ ~IsSdp([kind |-> "candidate", val |-> held[t]])
      BY <2>0 DEF Message, Told, TypeOK, IsSdp
    <3> QED
      BY <2>0, <2>1, <2>7, <3>1 DEF SendCandidate, Labels
  <2>8. ASSUME NEW t \in Negotiators, SendMode(t) PROVE StaysSettled(s)
    <3>1. /\ [kind |-> "mode", mode |-> videoMode] \in Message
          /\ ~IsSdp([kind |-> "mode", mode |-> videoMode])
      BY DEF Message, Told, TypeOK, IsSdp
    <3> QED
      BY <2>0, <2>1, <2>8, <3>1 DEF SendMode, Labels
  <2>9. ASSUME NEW t \in Threads, NEW r \in Sides, NEW c, NEW type,
               NewSdp(t, r, type, c) \/ NewCandidate(t, r, c)
        PROVE  StaysSettled(s)
    BY <2>0, <2>9, QuietStaysSettled DEF NewSdp, NewCandidate, Enter
  <2>10. CASE onSdpAnswerCb
    BY <2>0, <2>9, <2>10, QuietStaysSettled DEF onSdpAnswerCb, Enter, Crash, Threads
  <2>11. CASE \/ onInitCall \/ toggleVideo \/ StartSending \/ newFrame
              \/ \E source \in Sources : setDeviceName(source)
    BY <2>0, <2>11, QuietStaysSettled
    DEF onInitCall, toggleVideo, setDeviceName, StartSending, newFrame, Enter
  <2>12. ASSUME NEW t \in Threads, ReadSource(t) \/ SetSource(t) \/ SetMode
         PROVE  StaysSettled(s)
    BY <2>0, <2>12, QuietStaysSettled DEF ReadSource, SetSource, SetMode
  <2>13. CASE SendInit
    <3>1. [kind |-> "init"] \in Message /\ ~IsSdp([kind |-> "init"])
      BY DEF Message, Told, IsSdp
    <3> QED
      BY <2>0, <2>1, <2>13, <3>1 DEF SendInit, Threads, Labels
  <2>14. CASE SendToggle
    <3> DEFINE m == [kind |-> "mode",
                     mode |-> IF isOn THEN videoMode ELSE "MODE_NONE"]
    <3>1. m \in Message /\ ~IsSdp(m)
      BY DEF Message, Told, Modes, TypeOK, IsSdp
    <3> QED
      BY <2>0, <2>1, <2>14, <3>1 DEF SendToggle, Threads, Labels
  <2>15. CASE SendFrame
    <3>1. [kind |-> "frame"] \in Message /\ ~IsSdp([kind |-> "frame"])
      BY DEF Message, Told, IsSdp
    <3> QED
      BY <2>0, <2>1, <2>15, <3>1 DEF SendFrame, Threads, Labels
  <2>18. CASE Dequeue \/ SetConductor
    BY <2>18, QuietStaysSettled DEF Dequeue, SetConductor
  <2>16. CASE Call
    BY <2>9, <2>10, <2>11, <2>16
    DEF Call, onSdpOfferCb, onIceCandidateCb, onLocalSdpCb, onLocalIceCandidateCb,
        Threads, Sides
  <2>17. ASSUME NEW t \in Threads, Run(t) PROVE StaysSettled(s)
    BY <2>3, <2>4, <2>5, <2>6, <2>7, <2>8, <2>12, <2>13, <2>14, <2>15, <2>17, <2>18
    DEF Run, handleMessages
  <2> QED
    BY <2>16, <2>17, <2>18 DEF Next
<1> QED
  BY <1>1, TypeCorrect, PTL DEF Spec, NoRenegotiation
-----------------------------------------------------------------------------
(* The source the user selected. *)

Selecting == {"setMode", "readSource", "setSource", "crashed"}

\* The window passes on what it has just selected.  What the service's thread
\* passes on may be older, and is kept in `chosen' until it passes on the next.
SourceInv ==
  /\ pc["ui"] = "setSource" => chosen["ui"] = deviceType
  /\ pc["ui"] \notin Selecting /\ pc["ws"] # "setSource"
       => dataSource = deviceType \/ forgotten \/ dataSource = chosen["ws"]

\* A step that does not touch the selection.
LEMMA SelectionKept ==
  ASSUME SourceInv, UNCHANGED <<deviceType, dataSource, forgotten, chosen>>,
         pc'["ui"] = pc["ui"] \/ pc'["ui"] = "crashed"
           \/ {pc["ui"], pc'["ui"]} \cap Selecting = {},
         pc'["ui"] = "crashed" \/ (pc["ws"] = "setSource" => pc'["ws"] = "setSource")
  PROVE  SourceInv'
BY DEF SourceInv, Selecting

\* SourceInv is kept by every step of every thread.
LEMMA SourceInvHolds == Spec => []SourceInv
<1>1. Init => SourceInv
  BY DEF Init, SourceInv, Threads
<1>2. TypeOK /\ SourceInv /\ [Next]_vars => SourceInv'
  <2> SUFFICES ASSUME TypeOK, SourceInv, [Next]_vars
               PROVE  SourceInv'
    OBVIOUS
  <2> USE DEF Goto, Choose, Hold, negotiation, video, sdkSource, history
  <2>0. /\ Threads = {"ui", "ws", "sdk"} /\ Negotiators = {"ws", "sdk"}
        /\ pc \in [Threads -> Labels] /\ chosen \in [Threads -> Sources \cup {"none"}]
    BY DEF Threads, Negotiators, TypeOK
  <2>1. ASSUME NEW t \in Negotiators, handleMessages(t) PROVE SourceInv'
    <3>1. /\ UNCHANGED <<deviceType, dataSource, forgotten, chosen>>
          /\ pc'["ui"] = pc["ui"] \/ pc'["ui"] = "crashed"
      BY <2>0, <2>1
      DEF handleMessages, TestSdp, SendSdp, MarkSdp, AfterSdp, TestDrain, Claim, TestQueue,
          Front, Pop, SendCandidate, Release, SendMode, TestConnected, Crash
    <3>2. pc'["ui"] = "crashed" \/ (pc["ws"] = "setSource" => pc'["ws"] = "setSource")
      BY <2>0, <2>1
      DEF handleMessages, TestSdp, SendSdp, MarkSdp, AfterSdp, TestDrain, Claim, TestQueue,
          Front, Pop, SendCandidate, Release, SendMode, TestConnected, Crash
    <3> QED
      BY <3>1, <3>2, SelectionKept
  <2>2. ASSUME NEW t \in Negotiators, NEW s, NEW type, NEW c,
               NewSdp(t, s, type, c) \/ NewCandidate(t, s, c)
        PROVE  SourceInv'
    BY <2>0, <2>2, SelectionKept DEF NewSdp, NewCandidate, Enter
  <2>3. CASE onSdpAnswerCb
    BY <2>0, <2>2, <2>3, SelectionKept DEF onSdpAnswerCb, Enter, Crash
  <2>4. CASE onInitCall
    BY <2>0, <2>4, SelectionKept DEF onInitCall, Enter
  <2>5. ASSUME NEW source \in Sources, setDeviceName(source) PROVE SourceInv'
    BY <2>0, <2>5 DEF setDeviceName, Enter, SourceInv, Selecting
  <2>6. CASE toggleVideo \/ StartSending \/ newFrame
    BY <2>0, <2>6, SelectionKept DEF toggleVideo, StartSending, newFrame, Enter, Selecting
  <2>7. CASE SetMode
    BY <2>0, <2>7 DEF SetMode, SourceInv, Selecting
  <2>8. ASSUME NEW t \in {"ui", "ws"}, ReadSource(t) PROVE SourceInv'
    BY <2>0, <2>8 DEF ReadSource, SourceInv, Selecting
  <2>9. ASSUME NEW t \in {"ui", "ws"}, SetSource(t) PROVE SourceInv'
    BY <2>0, <2>9 DEF SetSource, SourceInv, Selecting
  <2>10. CASE SendInit
    BY <2>0, <2>10, SelectionKept DEF SendInit
  <2>11. CASE SendToggle \/ SendFrame
    BY <2>0, <2>11, SelectionKept DEF SendToggle, SendFrame, Selecting
  <2>12. CASE Dequeue \/ SetConductor
    BY <2>12, SelectionKept DEF Dequeue, SetConductor
  <2>13. CASE UNCHANGED vars
    BY <2>13 DEF vars, SourceInv
  <2>14. CASE Call
    BY <2>0, <2>2, <2>3, <2>4, <2>5, <2>6, <2>14
    DEF Call, onSdpOfferCb, onIceCandidateCb, onLocalSdpCb, onLocalIceCandidateCb
  <2>15. ASSUME NEW t \in Threads, Run(t) PROVE SourceInv'
    BY <2>0, <2>1, <2>7, <2>8, <2>9, <2>10, <2>11, <2>12, <2>15 DEF Run
  <2> QED
    BY <2>12, <2>13, <2>14, <2>15 DEF Next
<1> QED
  BY <1>1, <1>2, TypeCorrect, PTL DEF Spec

\* However the window and onInitCall interleave, and whenever the Conductor comes,
\* the SDK captures from the device selected last, or had no Conductor when it was
\* told, or was told an older selection by onInitCall: nothing else parts the two.
THEOREM SourceSelected == Spec => []SourceIsSelected
<1>1. SourceInv => SourceIsSelected
  BY DEF SourceInv, SourceIsSelected, Selecting
<1> QED
  BY <1>1, SourceInvHolds, PTL

-----------------------------------------------------------------------------
(* How often the SDP of a side is handed over. *)

SdpsOf(q) == {i \in DOMAIN q : IsSdp(q[i])}
Sdps(s) == SdpsOf(out[s])

\* A call adds one to the SDPs called if it is an SDP, and none otherwise.
LEMMA SdpsAppend ==
  ASSUME NEW q \in Seq(Message), NEW m \in Message
  PROVE  /\ IsFiniteSet(SdpsOf(q)) /\ Cardinality(SdpsOf(q)) \in Nat
         /\ IsSdp(m) =>
              Cardinality(SdpsOf(Append(q, m))) = Cardinality(SdpsOf(q)) + 1
         /\ ~IsSdp(m) => SdpsOf(Append(q, m)) = SdpsOf(q)
<1>1. /\ Len(q) \in Nat /\ DOMAIN q = 1 .. Len(q)
      /\ DOMAIN Append(q, m) = 1 .. Len(q) + 1
      /\ Append(q, m)[Len(q) + 1] = m
      /\ \A i \in 1 .. Len(q) : Append(q, m)[i] = q[i]
  OBVIOUS
<1>2. IsFiniteSet(SdpsOf(q))
  <2>1. IsFiniteSet(1 .. Len(q))
    BY <1>1, FS_Interval
  <2>2. SdpsOf(q) \subseteq 1 .. Len(q)
    BY <1>1 DEF SdpsOf
  <2> QED
    BY <2>1, <2>2, FS_Subset
<1>3. Cardinality(SdpsOf(q)) \in Nat
  BY <1>2, FS_CardinalityType
<1>4. IsSdp(m) => SdpsOf(Append(q, m)) = SdpsOf(q) \cup {Len(q) + 1}
  BY <1>1 DEF SdpsOf
<1>5. ~IsSdp(m) => SdpsOf(Append(q, m)) = SdpsOf(q)
  BY <1>1 DEF SdpsOf
<1>6. Len(q) + 1 \notin SdpsOf(q)
  BY <1>1 DEF SdpsOf
<1> QED
  BY <1>2, <1>3, <1>4, <1>5, <1>6, FS_AddElement

\* So that they can be counted.
LEMMA SdpsFinite ==
  ASSUME out \in [Sides -> Seq(Message)]
  PROVE  \A s \in Sides : Cardinality(Sdps(s)) \in Nat
<1>1. [kind |-> "init"] \in Message
  BY DEF Message, Told
<1> QED
  BY <1>1, SdpsAppend DEF Sdps

\* Thread t is at this place of handleMessages, for side s.
At(t, label, s) == IF pc[t] = label /\ side[t] = s THEN 1 ELSE 0

\* Before its flag is set, the SDPs handed over are in the hands of the threads
\* that go on to set it; those that will hand one over have not done so.
CountInv ==
  /\ pc["ws"] = "crashed" <=> pc["sdk"] = "crashed"
  /\ \A s \in Sides :
       /\ ~sent[s] /\ pc["ws"] # "crashed" =>
            Cardinality(Sdps(s)) <= At("ws", "markSdp", s) + At("sdk", "markSdp", s)
       /\ Cardinality(Sdps(s)) + At("ws", "sendSdp", s) + At("sdk", "sendSdp", s) <= 2

\* A step that hands no SDP over and moves no thread to or from one.
LEMMA CountKept ==
  ASSUME CountInv, sent' = sent, \A s \in Sides : Sdps(s)' = Sdps(s),
         \A t \in Negotiators : pc'[t] = "crashed" <=> pc[t] = "crashed",
         \A t \in Negotiators : \A s \in Sides :
           /\ At(t, "markSdp", s)' = At(t, "markSdp", s)
           /\ At(t, "sendSdp", s)' = At(t, "sendSdp", s)
  PROVE  CountInv'
BY DEF CountInv, Negotiators

\* The end of the program.
LEMMA CountCrash ==
  ASSUME TypeOK, CountInv, Crash, sent' = sent, out' = out
  PROVE  CountInv'
<1>1. pc'["ws"] = "crashed" /\ pc'["sdk"] = "crashed"
  BY DEF Crash, Threads
<1> SUFFICES ASSUME NEW s \in Sides
             PROVE  Cardinality(Sdps(s)) \in Nat /\ Cardinality(Sdps(s)) <= 2
  <2>1. ASSUME NEW s \in Sides
        PROVE  /\ Sdps(s)' = Sdps(s)
               /\ \A t \in Negotiators : /\ At(t, "markSdp", s)' = 0
                                          /\ At(t, "sendSdp", s)' = 0
    BY <1>1 DEF At, Sdps, Negotiators
  <2> QED
    BY <1>1, <2>1 DEF CountInv, Negotiators
<1>2. Cardinality(Sdps(s)) \in Nat
  BY SdpsFinite DEF TypeOK
<1> QED
  BY <1>2 DEF CountInv, At

\* Two threads may each find a flag clear; each hands the SDP over at most once.
THEOREM OnceEach == Spec => []OneSdpPerThread
<1>1. Init => CountInv
  <2> SUFFICES ASSUME Init PROVE CountInv
    OBVIOUS
  <2>1. pc["ws"] = "idle" /\ pc["sdk"] = "idle"
    BY DEF Init, Threads
  <2>2. \A s \in Sides : Sdps(s) = {}
    BY DEF Init, Sdps, SdpsOf
  <2> QED
    BY <2>1, <2>2, FS_EmptySet DEF CountInv, At
<1>2. TypeOK /\ CountInv /\ [Next]_vars => CountInv'
  <2> SUFFICES ASSUME TypeOK, CountInv, [Next]_vars
               PROVE  CountInv'
    OBVIOUS
  <2> USE DEF Goto, Choose, Hold, negotiation, video, sdkSource, history
  <2>0. /\ Threads = {"ui", "ws", "sdk"} /\ Negotiators = {"ws", "sdk"}
        /\ pc \in [Threads -> Labels] /\ side \in [Threads -> Sides]
        /\ sent \in [Sides -> BOOLEAN] /\ out \in [Sides -> Seq(Message)]
        /\ "local" \in Sides /\ "remote" \in Sides
    BY DEF Threads, Negotiators, TypeOK, Sides
  <2>1. ASSUME NEW t \in Threads, NEW to \in Sides, NEW m \in Message, Push(t, to, m)
        PROVE  /\ \A s \in Sides \ {to} : Sdps(s)' = Sdps(s)
               /\ ~IsSdp(m) => Sdps(to)' = Sdps(to)
               /\ \A s \in Sides : Cardinality(Sdps(s)) \in Nat
               /\ \A s \in Sides : Cardinality(Sdps(s)') \in Nat
               /\ Cardinality(Sdps(to)') <= Cardinality(Sdps(to)) + 1
    <3>1. \A s \in Sides : Cardinality(Sdps(s)) \in Nat
      BY <2>0, <2>1, SdpsAppend DEF Sdps
    <3>2. CASE out' = out
      BY <3>1, <3>2 DEF Sdps
    <3>3. CASE out' = [out EXCEPT ![to] = Append(@, m)]
      <4>1. out'[to] = Append(out[to], m) /\ \A s \in Sides \ {to} : out'[s] = out[s]
        BY <2>0, <3>3
      <4>2. /\ IsSdp(m) => Cardinality(SdpsOf(Append(out[to], m)))
                             = Cardinality(SdpsOf(out[to])) + 1
            /\ ~IsSdp(m) => SdpsOf(Append(out[to], m)) = SdpsOf(out[to])
        BY <2>0, SdpsAppend
      <4>3. Sdps(to)' = SdpsOf(Append(out[to], m)) /\ Sdps(to) = SdpsOf(out[to])
        BY <4>1 DEF Sdps
      <4>4. \A s \in Sides \ {to} : Sdps(s)' = Sdps(s)
        BY <4>1 DEF Sdps
      <4>5. /\ Cardinality(Sdps(to)') \in Nat
            /\ Cardinality(Sdps(to)') <= Cardinality(Sdps(to)) + 1
        BY <3>1, <4>2, <4>3
      <4> QED
        BY <3>1, <4>2, <4>3, <4>4, <4>5
    <3> QED
      BY <2>1, <3>2, <3>3, Zenon DEF Push
  <2>2. ASSUME NEW t \in Threads, NEW to \in Sides, NEW m \in Message, ~IsSdp(m),
               Push(t, to, m), UNCHANGED <<sent, side>>,
               pc[t] \notin {"sendSdp", "markSdp", "crashed"},
               NEW label \in Labels \ {"sendSdp", "markSdp", "crashed"}, Goto(t, label)
        PROVE  CountInv'
    <3>1. \A s \in Sides : Sdps(s)' = Sdps(s)
      BY <2>1, <2>2
    <3>2. \A u \in Negotiators : \A s \in Sides :
            /\ At(u, "markSdp", s)' = At(u, "markSdp", s)
            /\ At(u, "sendSdp", s)' = At(u, "sendSdp", s)
      BY <2>0, <2>2 DEF At
    <3>3. \A u \in Negotiators : pc'[u] = "crashed" <=> pc[u] = "crashed"
      BY <2>0, <2>2
    <3> QED
      BY <2>2, <3>1, <3>2, <3>3, CountKept
  <2>3. ASSUME NEW t \in Threads, UNCHANGED <<out, sent>>,
               \A u \in Threads \ {t} : side'[u] = side[u],
               pc[t] \notin {"sendSdp", "markSdp", "crashed"},
               NEW label \in Labels \ {"sendSdp", "markSdp", "crashed"}, Goto(t, label)
        PROVE  CountInv'
    <3>1. \A s \in Sides : Sdps(s)' = Sdps(s)
      BY <2>3 DEF Sdps
    <3>2. \A u \in Negotiators : \A s \in Sides :
            /\ At(u, "markSdp", s)' = At(u, "markSdp", s)
            /\ At(u, "sendSdp", s)' = At(u, "sendSdp", s)
      BY <2>0, <2>3 DEF At
    <3>3. \A u \in Negotiators : pc'[u] = "crashed" <=> pc[u] = "crashed"
      BY <2>0, <2>3
    <3> QED
      BY <2>3, <3>1, <3>2, <3>3, CountKept
  <2>4. ASSUME NEW t \in Negotiators, TestSdp(t) PROVE CountInv'
    <3>1. CASE ~sent[side[t]] /\ sdp[side[t]] # NoSdp
      <4>1. /\ pc[t] = "testSdp" /\ pc' = [pc EXCEPT ![t] = "sendSdp"]
            /\ side' = side /\ sent' = sent /\ out' = out
        BY <2>4, <3>1 DEF TestSdp
      <4>2. /\ pc["ws"] # "crashed" /\ pc["sdk"] # "crashed"
            /\ pc'["ws"] # "crashed" /\ pc'["sdk"] # "crashed"
        BY <2>0, <4>1 DEF CountInv
      <4>3. \A s \in Sides : Sdps(s)' = Sdps(s) /\ Cardinality(Sdps(s)) \in Nat
        BY <2>0, <4>1, SdpsFinite DEF Sdps
      <4>0. PICK to \in Sides : to = side[t]
        BY <2>0
      <4>4. /\ ~sent[to]
            /\ At(t, "markSdp", to)' = 0 /\ At(t, "markSdp", to) = 0
            /\ At(t, "sendSdp", to)' = 1 /\ At(t, "sendSdp", to) = 0
        BY <2>0, <3>1, <4>0, <4>1 DEF At
      <4>5. ASSUME NEW u \in Negotiators, NEW s \in Sides, u # t \/ s # to
            PROVE  /\ At(u, "markSdp", s)' = At(u, "markSdp", s)
                   /\ At(u, "sendSdp", s)' = At(u, "sendSdp", s)
        BY <2>0, <4>0, <4>1, <4>5 DEF At
      <4>6. \A u \in Negotiators, s \in Sides :
              /\ At(u, "markSdp", s) \in {0, 1} /\ At(u, "sendSdp", s) \in {0, 1}
              /\ At(u, "markSdp", s) + At(u, "sendSdp", s) <= 1
        BY DEF At
      <4>7. /\ Cardinality(Sdps(to)) <= At("ws", "markSdp", to) + At("sdk", "markSdp", to)
            /\ Cardinality(Sdps(to)) + At("ws", "sendSdp", to) + At("sdk", "sendSdp", to)
                 <= 2
        BY <4>2, <4>4 DEF CountInv
      <4>8. /\ Cardinality(Sdps(to)) <= At("ws", "markSdp", to)' + At("sdk", "markSdp", to)'
            /\ Cardinality(Sdps(to)) + At("ws", "sendSdp", to)' + At("sdk", "sendSdp", to)'
                 <= 2
        <5>1. CASE t = "ws"
          <6>1. /\ At("ws", "markSdp", to)' = 0 /\ At("ws", "markSdp", to) = 0
                /\ At("ws", "sendSdp", to)' = 1 /\ At("ws", "sendSdp", to) = 0
            BY <4>4, <5>1
          <6>2. /\ At("sdk", "markSdp", to)' = At("sdk", "markSdp", to)
                /\ At("sdk", "sendSdp", to)' = At("sdk", "sendSdp", to)
            BY <2>0, <4>5, <5>1
          <6>3. /\ At("sdk", "markSdp", to) \in {0, 1}
                /\ At("sdk", "sendSdp", to) \in {0, 1}
                /\ At("sdk", "markSdp", to) + At("sdk", "sendSdp", to) <= 1
            BY <2>0, <4>6
          <6> QED
            BY <4>3, <4>7, <6>1, <6>2, <6>3
        <5>2. CASE t = "sdk"
          <6>1. /\ At("sdk", "markSdp", to)' = 0 /\ At("sdk", "markSdp", to) = 0
                /\ At("sdk", "sendSdp", to)' = 1 /\ At("sdk", "sendSdp", to) = 0
            BY <4>4, <5>2
          <6>2. /\ At("ws", "markSdp", to)' = At("ws", "markSdp", to)
                /\ At("ws", "sendSdp", to)' = At("ws", "sendSdp", to)
            BY <2>0, <4>5, <5>2
          <6>3. /\ At("ws", "markSdp", to) \in {0, 1}
                /\ At("ws", "sendSdp", to) \in {0, 1}
                /\ At("ws", "markSdp", to) + At("ws", "sendSdp", to) <= 1
            BY <2>0, <4>6
          <6> QED
            BY <4>3, <4>7, <6>1, <6>2, <6>3
        <5> QED
          BY <2>0, <5>1, <5>2
      <4>9. ASSUME NEW s \in Sides \ {to}
            PROVE  \A u \in Negotiators : /\ At(u, "markSdp", s)' = At(u, "markSdp", s)
                                          /\ At(u, "sendSdp", s)' = At(u, "sendSdp", s)
        BY <4>5
      <4>10. ASSUME NEW s \in Sides
             PROVE  /\ ~sent'[s] =>
                         Cardinality(Sdps(s)) <=
                           At("ws", "markSdp", s)' + At("sdk", "markSdp", s)'
                    /\ Cardinality(Sdps(s)) + At("ws", "sendSdp", s)' + At("sdk", "sendSdp", s)'
                         <= 2
        <5>1. CASE s = to
          BY <4>8, <5>1
        <5>2. CASE s # to
          BY <2>0, <4>1, <4>2, <4>9, <5>2 DEF CountInv
        <5> QED
          BY <5>1, <5>2
      <4> QED
        BY <4>2, <4>3, <4>10 DEF CountInv
    <3>2. CASE ~(~sent[side[t]] /\ sdp[side[t]] # NoSdp)
      BY <2>0, <2>3, <2>4, <3>2 DEF TestSdp, AfterSdp, Labels
    <3> QED
      BY <3>1, <3>2
  <2>5. ASSUME NEW t \in Negotiators, SendSdp(t) PROVE CountInv'
    <3>0. PICK to \in Sides : to = side[t]
      BY <2>0
    <3> DEFINE m == [kind |-> SdpKind(to), sdp |-> sdp[to]]
    <3>1. m \in Message
      BY <2>0 DEF Message, Told, SdpKind, TypeOK
    <3>2. /\ Push(t, to, m) /\ pc[t] = "sendSdp" /\ pc' = [pc EXCEPT ![t] = "markSdp"]
          /\ side' = side /\ sent' = sent
      BY <2>5, <3>0 DEF SendSdp
    <3>3. /\ \A s \in Sides \ {to} : Sdps(s)' = Sdps(s)
          /\ \A s \in Sides : Cardinality(Sdps(s)) \in Nat
          /\ \A s \in Sides : Cardinality(Sdps(s)') \in Nat
          /\ Cardinality(Sdps(to)') <= Cardinality(Sdps(to)) + 1
      <4>1. ASSUME NEW r \in Sides, NEW n \in Message, Push(t, r, n)
            PROVE  /\ \A s \in Sides \ {r} : Sdps(s)' = Sdps(s)
                   /\ \A s \in Sides : Cardinality(Sdps(s)) \in Nat
                   /\ \A s \in Sides : Cardinality(Sdps(s)') \in Nat
                   /\ Cardinality(Sdps(r)') <= Cardinality(Sdps(r)) + 1
        BY <2>0, <2>1, <4>1
      <4> HIDE DEF m
      <4> QED
        BY <3>1, <3>2, <4>1
    <3>4. ASSUME NEW s \in Sides \ {to}
          PROVE  \A u \in Negotiators : /\ At(u, "markSdp", s)' = At(u, "markSdp", s)
                                        /\ At(u, "sendSdp", s)' = At(u, "sendSdp", s)
      BY <2>0, <3>0, <3>2, <3>4 DEF At
    <3>5. /\ At(t, "markSdp", to)' = 1 /\ At(t, "markSdp", to) = 0
          /\ At(t, "sendSdp", to)' = 0 /\ At(t, "sendSdp", to) = 1
          /\ \A u \in Negotiators \ {t} : /\ At(u, "markSdp", to)' = At(u, "markSdp", to)
                                          /\ At(u, "sendSdp", to)' = At(u, "sendSdp", to)
      BY <2>0, <3>0, <3>2 DEF At
    <3>6. \A u \in Negotiators : pc'[u] = "crashed" <=> pc[u] = "crashed"
      BY <2>0, <3>2
    <3>7. \A u \in Negotiators, s \in Sides : /\ At(u, "markSdp", s) \in {0, 1}
                                              /\ At(u, "sendSdp", s) \in {0, 1}
      BY DEF At
    <3> HIDE DEF m
    <3>8. /\ ~sent'[to] /\ pc'["ws"] # "crashed" =>
               Cardinality(Sdps(to)') <= At("ws", "markSdp", to)' + At("sdk", "markSdp", to)'
          /\ Cardinality(Sdps(to)') + At("ws", "sendSdp", to)' + At("sdk", "sendSdp", to)'
               <= 2
      <4>1. /\ ~sent[to] /\ pc["ws"] # "crashed" =>
                  Cardinality(Sdps(to)) <= At("ws", "markSdp", to) + At("sdk", "markSdp", to)
            /\ Cardinality(Sdps(to)) + At("ws", "sendSdp", to) + At("sdk", "sendSdp", to)
                  <= 2
        BY <3>1 DEF CountInv
      <4>2. /\ Cardinality(Sdps(to)) \in Nat /\ Cardinality(Sdps(to)') \in Nat
            /\ pc'["ws"] = "crashed" <=> pc["ws"] = "crashed"
        BY <2>0, <3>1, <3>3, <3>6
      <4>3. CASE t = "ws"
        <5>1. /\ At("ws", "markSdp", to)' = 1 /\ At("ws", "markSdp", to) = 0
              /\ At("ws", "sendSdp", to)' = 0 /\ At("ws", "sendSdp", to) = 1
          BY <3>5, <4>3
        <5>2. /\ At("sdk", "markSdp", to)' = At("sdk", "markSdp", to)
              /\ At("sdk", "sendSdp", to)' = At("sdk", "sendSdp", to)
          BY <2>0, <3>5, <4>3
        <5>3. At("sdk", "markSdp", to) \in {0, 1} /\ At("sdk", "sendSdp", to) \in {0, 1}
          BY <2>0, <3>7
        <5>4. Cardinality(Sdps(to)') <= Cardinality(Sdps(to)) + 1 /\ sent'[to] = sent[to]
          BY <3>2, <3>3
        <5> QED
          BY <4>1, <4>2, <5>1, <5>2, <5>3, <5>4
      <4>4. CASE t = "sdk"
        <5>1. /\ At("sdk", "markSdp", to)' = 1 /\ At("sdk", "markSdp", to) = 0
              /\ At("sdk", "sendSdp", to)' = 0 /\ At("sdk", "sendSdp", to) = 1
          BY <3>5, <4>4
        <5>2. /\ At("ws", "markSdp", to)' = At("ws", "markSdp", to)
              /\ At("ws", "sendSdp", to)' = At("ws", "sendSdp", to)
          BY <2>0, <3>5, <4>4
        <5>3. At("ws", "markSdp", to) \in {0, 1} /\ At("ws", "sendSdp", to) \in {0, 1}
          BY <2>0, <3>7
        <5>4. Cardinality(Sdps(to)') <= Cardinality(Sdps(to)) + 1 /\ sent'[to] = sent[to]
          BY <3>2, <3>3
        <5> QED
          BY <4>1, <4>2, <5>1, <5>2, <5>3, <5>4
      <4> QED
        BY <2>0, <4>3, <4>4
    <3>9. ASSUME NEW s \in Sides \ {to}
          PROVE  /\ ~sent'[s] /\ pc'["ws"] # "crashed" =>
                      Cardinality(Sdps(s)') <=
                        At("ws", "markSdp", s)' + At("sdk", "markSdp", s)'
                 /\ Cardinality(Sdps(s)') + At("ws", "sendSdp", s)' + At("sdk", "sendSdp", s)'
                      <= 2
      BY <2>0, <3>2, <3>3, <3>4, <3>6, <3>9 DEF CountInv
    <3>10. pc'["ws"] = "crashed" <=> pc'["sdk"] = "crashed"
      BY <2>0, <3>6 DEF CountInv
    <3> QED
      BY <3>8, <3>9, <3>10 DEF CountInv
  <2>6. ASSUME NEW t \in Negotiators, MarkSdp(t) PROVE CountInv'
    <3>1. /\ pc[t] = "markSdp" /\ out' = out
          /\ sent' = [sent EXCEPT ![side[t]] = TRUE]
          /\ pc' = [pc EXCEPT ![t] = "testSdp"] \/ pc' = [pc EXCEPT ![t] = "testDrain"]
          /\ \A u \in Threads \ {t} : side'[u] = side[u]
      BY <2>0, <2>6 DEF MarkSdp, AfterSdp
    <3>2. \A s \in Sides : Sdps(s)' = Sdps(s)
      BY <3>1 DEF Sdps
    <3>3. \A u \in Negotiators : \A s \in Sides : At(u, "sendSdp", s)' = At(u, "sendSdp", s)
      BY <2>0, <3>1 DEF At
    <3>4. \A u \in Negotiators : \A s \in Sides \ {side[t]} :
            At(u, "markSdp", s)' = At(u, "markSdp", s)
      BY <2>0, <3>1 DEF At
    <3>5. sent'[side[t]] /\ \A s \in Sides \ {side[t]} : sent'[s] = sent[s]
      BY <2>0, <3>1
    <3>6. \A u \in Negotiators : pc'[u] = "crashed" <=> pc[u] = "crashed"
      BY <2>0, <3>1
    <3> QED
      BY <2>0, <3>2, <3>3, <3>4, <3>5, <3>6, ZenonT(60) DEF CountInv
  <2>7. ASSUME NEW t \in Negotiators, TestDrain(t) \/ Claim(t) \/ TestQueue(t)
                                        \/ Release(t) \/ TestConnected(t)
        PROVE  CountInv'
    <3>1. /\ UNCHANGED <<out, sent>> /\ \A u \in Threads \ {t} : side'[u] = side[u]
          /\ pc[t] \notin {"sendSdp", "markSdp", "crashed"}
          /\ \E label \in Labels \ {"sendSdp", "markSdp", "crashed"} : Goto(t, label)
      BY <2>0, <2>7
      DEF TestDrain, Claim, TestQueue, Release, TestConnected, Labels, Draining
    <3> QED
      BY <2>0, <2>3, <3>1
  <2>8. ASSUME NEW t \in Negotiators, Front(t) \/ Pop(t) PROVE CountInv'
    <3>1. /\ UNCHANGED <<out, sent, side>>
          /\ pc[t] \notin {"sendSdp", "markSdp", "crashed"}
          /\ Crash \/ \E label \in Labels \ {"sendSdp", "markSdp", "crashed"} : Goto(t, label)
      BY <2>0, <2>8 DEF Front, Pop, Labels, Draining
    <3> QED
      BY <2>0, <2>3, <3>1, CountCrash
  <2>9. ASSUME NEW t \in Negotiators, SendCandidate(t) PROVE CountInv'
    <3>1. /\ [kind |-> "candidate", val |-> held[t]] \in Message
          /\ ~IsSdp([kind |-> "candidate", val |-> held[t]])
      BY <2>0 DEF Message, Told, TypeOK, IsSdp
    <3> QED
      BY <2>0, <2>2, <2>9, <3>1 DEF SendCandidate, Labels, Draining
  <2>10. ASSUME NEW t \in Negotiators, SendMode(t) PROVE CountInv'
    <3>1. /\ [kind |-> "mode", mode |-> videoMode] \in Message
          /\ ~IsSdp([kind |-> "mode", mode |-> videoMode])
      BY DEF Message, Told, TypeOK, IsSdp
    <3> QED
      BY <2>0, <2>2, <2>10, <3>1 DEF SendMode, Labels
  <2>11. ASSUME NEW t \in Threads, NEW s, NEW type, NEW c,
                NewSdp(t, s, type, c) \/ NewCandidate(t, s, c)
         PROVE  CountInv'
    BY <2>0, <2>3, <2>11 DEF NewSdp, NewCandidate, Enter, Labels
  <2>12. CASE onSdpAnswerCb
    BY <2>0, <2>11, <2>12, CountCrash DEF onSdpAnswerCb
  <2>13. CASE onInitCall
    BY <2>0, <2>3, <2>13 DEF onInitCall, Enter, Labels
  <2>14. CASE toggleVideo \/ newFrame \/ \E source \in Sources : setDeviceName(source)
    BY <2>0, <2>3, <2>14 DEF toggleVideo, newFrame, setDeviceName, Enter, Labels
  <2>15. CASE StartSending \/ UNCHANGED vars
    <3>1. UNCHANGED <<out, sent, pc, side>>
      BY <2>15 DEF StartSending, vars
    <3> QED
      BY <3>1, CountKept DEF Sdps, At
  <2>16. ASSUME NEW t \in {"ui", "ws"}, ReadSource(t) \/ SetSource(t) PROVE CountInv'
    BY <2>0, <2>3, <2>16 DEF ReadSource, SetSource, Labels
  <2>17. CASE SetMode
    BY <2>0, <2>3, <2>17 DEF SetMode, Labels
  <2>18. CASE SendInit
    <3>1. [kind |-> "init"] \in Message /\ ~IsSdp([kind |-> "init"])
      BY DEF Message, Told, IsSdp
    <3> QED
      BY <2>0, <2>2, <2>18, <3>1 DEF SendInit, Labels
  <2>19. CASE SendToggle
    <3> DEFINE m == [kind |-> "mode",
                     mode |-> IF isOn THEN videoMode ELSE "MODE_NONE"]
    <3>1. m \in Message /\ ~IsSdp(m)
      BY DEF Message, Told, Modes, TypeOK, IsSdp
    <3> QED
      BY <2>0, <2>2, <2>19, <3>1 DEF SendToggle, Labels
  <2>20. CASE SendFrame
    <3>1. [kind |-> "frame"] \in Message /\ ~IsSdp([kind |-> "frame"])
      BY DEF Message, Told, IsSdp
    <3> QED
      BY <2>0, <2>2, <2>20, <3>1 DEF SendFrame, Labels
  <2>23. CASE Dequeue \/ SetConductor
    <3>1. UNCHANGED <<out, sent, pc, side>>
      BY <2>23 DEF Dequeue, SetConductor
    <3> QED
      BY <3>1, CountKept DEF Sdps, At
  <2>21. CASE Call
    BY <2>0, <2>11, <2>12, <2>13, <2>14, <2>15, <2>21
    DEF Call, onSdpOfferCb, onIceCandidateCb, onLocalSdpCb, onLocalIceCandidateCb
  <2>22. ASSUME NEW t \in Threads, Run(t) PROVE CountInv'
    BY <2>0, <2>4, <2>5, <2>6, <2>7, <2>8, <2>9, <2>10, <2>16, <2>17, <2>18, <2>19,
       <2>20, <2>22, <2>23
    DEF Run, handleMessages
  <2> QED
    BY <2>15, <2>21, <2>22, <2>23 DEF Next
<1>3. TypeOK /\ CountInv => OneSdpPerThread
  <2> SUFFICES ASSUME TypeOK, CountInv, NEW s \in Sides
               PROVE  Cardinality(Sdps(s)) <= Cardinality(Negotiators)
    BY DEF OneSdpPerThread, Sdps, SdpsOf
  <2>1. Cardinality(Negotiators) = 2
    <3>1. Negotiators = {"ws"} \cup {"sdk"} /\ "sdk" \notin {"ws"}
      BY DEF Negotiators
    <3>2. IsFiniteSet({"ws"}) /\ Cardinality({"ws"}) = 1
      BY FS_Singleton
    <3>3. Cardinality({"ws"} \cup {"sdk"}) = Cardinality({"ws"}) + 1
      BY <3>1, <3>2, FS_AddElement
    <3> QED
      BY <3>1, <3>2, <3>3
  <2>2. Cardinality(Sdps(s)) \in Nat
    BY SdpsFinite DEF TypeOK
  <2> QED
    BY <2>1, <2>2 DEF CountInv, At
<1> QED
  BY <1>1, <1>2, <1>3, TypeCorrect, PTL DEF Spec
=============================================================================
