---------------------------- MODULE HandoffProofs ----------------------------
(***************************************************************************)
(* The hand-off of every Manager: that each direction implements Handoff,  *)
(* and with it the order of the candidates; that none is stranded but by a *)
(* skipped drain; and that a connected Manager has announced its video.    *)
(***************************************************************************)
EXTENDS MCManager, ManagerProofs

AsideLabels == {"idle", "setMode", "readSource", "setSource", "sendInit",
                "sendToggle", "sendFrame"}

\* What all steps outside handleMessages() and the callbacks that feed it have in
\* common: they leave the negotiation alone, and what they push is neither an SDP
\* nor a candidate.
Aside ==
  /\ UNCHANGED <<sdp, sent, candidates, processing, connected, side, held, skipped>>
  /\ raced => raced'
  /\ \A s \in Sides : Arrived(s)' = Arrived(s)
  /\ \E t \in Threads, label \in AsideLabels :
       pc[t] \in AsideLabels /\ pc' = [pc EXCEPT ![t] = label]
  /\ \/ out' = out
     \/ \E to \in Sides, m \in Told :
          ~IsCandidate(m) /\ ~IsSdp(m) /\ out' = [out EXCEPT ![to] = Append(@, m)]

LEMMA AsidePush ==
  ASSUME NEW t \in Threads, NEW to \in Sides, NEW m \in Told,
         ~IsCandidate(m), ~IsSdp(m), Push(t, to, m), raced \in BOOLEAN
  PROVE  /\ raced => raced'
         /\ \/ out' = out
            \/ \E r \in Sides, n \in Told :
                 ~IsCandidate(n) /\ ~IsSdp(n) /\ out' = [out EXCEPT ![r] = Append(@, n)]
<1>1. raced => raced'
  BY Zenon DEF Push
<1>2. out' = out \/ out' = [out EXCEPT ![to] = Append(@, m)]
  BY Zenon DEF Push
<1> QED
  BY <1>1, <1>2

\* The steps of a Manager, as far as the hand-off is concerned.
LEMMA Steps ==
  ASSUME TypeOK, Next
  PROVE  \/ \E t \in Negotiators : handleMessages(t)
         \/ \E t \in Negotiators, s \in Sides, type \in {"offer", "answer"} :
              \E c \in {"onLocalSdpCb", "onSdpOfferCb", "onSdpAnswerCb"} :
                NewSdp(t, s, type, c)
         \/ onLocalIceCandidateCb \/ onIceCandidateCb
         \/ Crash /\ UNCHANGED <<negotiation, side, held, out, skipped, raced>>
         \/ Aside
<1> USE DEF Goto, Hold, Choose, negotiation, video, sdkSource, history
<1>0. /\ Threads = {"ui", "ws", "sdk"} /\ Negotiators = {"ws", "sdk"}
      /\ Sides = {"local", "remote"}
      /\ pc \in [Threads -> Labels] /\ calls \in [Callbacks -> Nat] /\ raced \in BOOLEAN
      /\ videoMode \in Modes
  BY DEF Threads, Negotiators, Sides, TypeOK
<1>1. CASE onSdpOfferCb \/ onLocalIceCandidateCb \/ onIceCandidateCb
           \/ \E type \in {"offer", "answer"} : onLocalSdpCb(type)
  BY <1>0, <1>1 DEF onSdpOfferCb, onLocalSdpCb
<1>2. CASE onSdpAnswerCb
  BY <1>0, <1>2 DEF onSdpAnswerCb
<1>3. ASSUME NEW c \in {"onInitCall", "setDeviceName", "toggleVideo", "newFrame"},
             NEW t \in Threads, Enter(t, c)
      PROVE  pc[t] = "idle" /\ \A s \in Sides : Arrived(s)' = Arrived(s)
  <2>1. /\ pc[t] = "idle"
        /\ calls'["onLocalIceCandidateCb"] = calls["onLocalIceCandidateCb"]
        /\ calls'["onIceCandidateCb"] = calls["onIceCandidateCb"]
    BY <1>0, <1>3, CallbackNames DEF Enter
  <2> QED
    BY <2>1 DEF Arrived
<1>4. CASE onInitCall \/ toggleVideo \/ newFrame
           \/ \E source \in Sources : setDeviceName(source)
  BY <1>0, <1>3, <1>4
  DEF Aside, AsideLabels, onInitCall, toggleVideo, newFrame, setDeviceName
<1>5. CASE StartSending
  <2>1. pc' = [pc EXCEPT !["ui"] = "idle"] /\ pc["ui"] = "idle"
    BY <1>0, <1>5 DEF StartSending
  <2>2. \A s \in Sides : Arrived(s)' = Arrived(s)
    BY <1>5 DEF StartSending, Arrived
  <2> QED
    BY <1>0, <1>5, <2>1, <2>2 DEF Aside, AsideLabels, StartSending
<1>6. CASE SetMode \/ ReadSource("ui") \/ ReadSource("ws")
           \/ SetSource("ui") \/ SetSource("ws")
  <2>1. \A s \in Sides : Arrived(s)' = Arrived(s)
    BY <1>6 DEF SetMode, ReadSource, SetSource, Arrived
  <2>2. raced => raced'
    BY <1>6 DEF SetMode, ReadSource, SetSource
  <2>3. \E t \in Threads, label \in AsideLabels :
          pc[t] \in AsideLabels /\ pc' = [pc EXCEPT ![t] = label]
    BY <1>0, <1>6 DEF SetMode, ReadSource, SetSource, AsideLabels
  <2> QED
    BY <1>6, <2>1, <2>2, <2>3 DEF Aside, SetMode, ReadSource, SetSource
<1>7. ASSUME NEW t \in Threads, NEW to \in Sides, NEW m \in Told,
             ~IsCandidate(m), ~IsSdp(m), Push(t, to, m),
             pc[t] \in AsideLabels, Goto(t, "idle"),
             UNCHANGED <<negotiation, side, held, calls, skipped>>
      PROVE  Aside
  <2>1. \A s \in Sides : Arrived(s)' = Arrived(s)
    BY <1>7 DEF Arrived
  <2>2. /\ raced => raced'
        /\ \/ out' = out
           \/ \E r \in Sides, n \in Told :
                ~IsCandidate(n) /\ ~IsSdp(n) /\ out' = [out EXCEPT ![r] = Append(@, n)]
    BY <1>0, <1>7, AsidePush
  <2>3. \E u \in Threads, label \in AsideLabels :
          pc[u] \in AsideLabels /\ pc' = [pc EXCEPT ![u] = label]
    BY <1>7 DEF AsideLabels
  <2> QED
    BY <1>7, <2>1, <2>2, <2>3 DEF Aside
<1>8. CASE SendInit
  <2>1. [kind |-> "init"] \in Told /\ ~IsSdp([kind |-> "init"])
          /\ ~IsCandidate([kind |-> "init"])
    BY DEF Told, IsSdp, IsCandidate
  <2> QED
    BY <1>0, <1>7, <1>8, <2>1 DEF SendInit, AsideLabels
<1>9. CASE SendToggle
  <2> DEFINE m == [kind |-> "mode", mode |-> IF isOn THEN videoMode ELSE "MODE_NONE"]
  <2>1. m \in Told /\ ~IsSdp(m) /\ ~IsCandidate(m)
    BY <1>0 DEF Told, Modes, IsSdp, IsCandidate
  <2> QED
    BY <1>0, <1>7, <1>9, <2>1 DEF SendToggle, AsideLabels
<1>10. CASE SendFrame
  <2>1. [kind |-> "frame"] \in Told /\ ~IsSdp([kind |-> "frame"])
          /\ ~IsCandidate([kind |-> "frame"])
    BY DEF Told, IsSdp, IsCandidate
  <2> QED
    BY <1>0, <1>7, <1>10, <2>1 DEF SendFrame, AsideLabels
<1>11. CASE Dequeue \/ SetConductor
  <2>1. pc["sdk"] = "idle" /\ pc' = [pc EXCEPT !["sdk"] = "idle"]
    BY <1>0, <1>11 DEF Dequeue, SetConductor
  <2>2. \A s \in Sides : Arrived(s)' = Arrived(s)
    BY <1>11 DEF Dequeue, SetConductor, Arrived
  <2>3. raced => raced'
    BY <1>0, <1>11 DEF Dequeue, SetConductor
  <2>4. \E t \in Threads, label \in AsideLabels :
          pc[t] \in AsideLabels /\ pc' = [pc EXCEPT ![t] = label]
    BY <1>0, <2>1 DEF AsideLabels
  <2> QED
    BY <1>11, <2>2, <2>3, <2>4 DEF Aside, Dequeue, SetConductor
<1> QED
  BY <1>0, <1>1, <1>2, <1>4, <1>5, <1>6, <1>8, <1>9, <1>10, <1>11 DEF Next, Call, Run

-----------------------------------------------------------------------------
(* One thread drains at a time, or the threads raced. *)

\* The thread that drains is alone, so what it has seen in a queue is still
\* there: the queue it found filled is, and the candidate it read is the first.
DrainInv ==
  ~raced => \A t \in Negotiators :
    /\ \A u \in Negotiators : pc[t] \in Draining /\ pc[u] \in Draining => t = u
    /\ pc[t] \in {"front", "pop"} => candidates[side[t]] # <<>>
    /\ pc[t] = "pop" => held[t] = Head(candidates[side[t]])

\* A step that keeps the queues, or adds to one, and sends nobody into the drain.
LEMMA DrainKept ==
  ASSUME DrainInv, raced => raced', candidates \in [Sides -> Seq(Nat)],
         \A t \in Negotiators : side[t] \in Sides,
         \/ candidates' = candidates
         \/ \E s \in Sides, k \in Nat :
              candidates' = [candidates EXCEPT ![s] = Append(@, k)],
         \A t \in Negotiators : pc'[t] \in Draining =>
           UNCHANGED <<pc[t], side[t], held[t]>>
  PROVE  DrainInv'
<1>1. \A s \in Sides : candidates[s] # <<>> =>
        candidates'[s] # <<>> /\ Head(candidates'[s]) = Head(candidates[s])
  <2>1. ASSUME NEW q \in Seq(Nat), NEW k \in Nat, NEW r, r = Append(q, k), q # <<>>
        PROVE  r # <<>> /\ Head(r) = Head(q)
    BY <2>1
  <2>2. \A s \in Sides : \/ candidates'[s] = candidates[s]
                          \/ \E k \in Nat : candidates'[s] = Append(candidates[s], k)
    OBVIOUS
  <2>3. \A s \in Sides : candidates[s] \in Seq(Nat)
    OBVIOUS
  <2> SUFFICES ASSUME NEW s \in Sides, candidates[s] # <<>>
               PROVE  candidates'[s] # <<>> /\ Head(candidates'[s]) = Head(candidates[s])
    OBVIOUS
  <2>4. CASE candidates'[s] = candidates[s]
    BY <2>4
  <2>5. ASSUME NEW k \in Nat, candidates'[s] = Append(candidates[s], k)
        PROVE  candidates'[s] # <<>> /\ Head(candidates'[s]) = Head(candidates[s])
    BY <2>1, <2>3, <2>5
  <2> QED
    BY <2>2, <2>4, <2>5
<1> QED
  BY <1>1, ZenonT(60) DEF DrainInv, Draining

LEMMA DrainInvHolds == Spec => []DrainInv
<1>1. Init => DrainInv
  BY DEF Init, DrainInv, Draining, Negotiators, Threads
<1>2. TypeOK /\ DrainInv /\ [Next]_vars => DrainInv'
  <2> SUFFICES ASSUME TypeOK, DrainInv, [Next]_vars, ~raced' PROVE DrainInv'
    BY DEF DrainInv
  <2> USE DEF Goto, Hold, Choose, Draining, negotiation, video, sdkSource, history
  <2>0. /\ Negotiators \subseteq Threads /\ raced \in BOOLEAN
        /\ pc \in [Threads -> Labels] /\ side \in [Threads -> Sides]
        /\ held \in [Threads -> Nat]
        /\ candidates \in [Sides -> Seq(Nat)]
    BY DEF Threads, Negotiators, TypeOK
  <2>1. ASSUME NEW t \in Negotiators, TestSdp(t) PROVE DrainInv'
    BY <2>0, <2>1, DrainKept DEF TestSdp, AfterSdp
  <2>2. ASSUME NEW t \in Negotiators, SendSdp(t) PROVE DrainInv'
    <3>1. raced => raced'
      BY <2>2, Zenon DEF SendSdp, Push
    <3> QED
      BY <2>0, <2>2, <3>1, DrainKept DEF SendSdp
  <2>3. ASSUME NEW t \in Negotiators, MarkSdp(t) PROVE DrainInv'
    BY <2>0, <2>3, DrainKept DEF MarkSdp, AfterSdp
  <2>4. ASSUME NEW t \in Negotiators, TestDrain(t) PROVE DrainInv'
    BY <2>0, <2>4, DrainKept DEF TestDrain
  <2>5. ASSUME NEW t \in Negotiators, Claim(t) PROVE DrainInv'
    <3>1. ~raced /\ \A u \in Negotiators \ {t} : pc[u] \notin Draining
      BY <2>0, <2>5 DEF Claim
    <3> QED
      BY <2>0, <2>5, <3>1 DEF Claim, DrainInv
  <2>6. ASSUME NEW t \in Negotiators, TestQueue(t) PROVE DrainInv'
    BY <2>0, <2>6 DEF TestQueue, DrainInv
  <2>7. ASSUME NEW t \in Negotiators, Front(t) PROVE DrainInv'
    BY <2>0, <2>7 DEF Front, Crash, DrainInv
  <2>8. ASSUME NEW t \in Negotiators, Pop(t) PROVE DrainInv'
    BY <2>0, <2>8 DEF Pop, Crash, DrainInv
  <2>9. ASSUME NEW t \in Negotiators, SendCandidate(t) PROVE DrainInv'
    <3>1. ~raced
      BY <2>9, PushRecords DEF SendCandidate
    <3> QED
      BY <2>0, <2>9, <3>1 DEF SendCandidate, DrainInv
  <2>10. ASSUME NEW t \in Negotiators, Release(t) PROVE DrainInv'
    BY <2>0, <2>10 DEF Release, DrainInv
  <2>11. ASSUME NEW t \in Negotiators, SendMode(t) PROVE DrainInv'
    <3>1. ~raced
      BY <2>11, PushRecords DEF SendMode
    <3> QED
      BY <2>0, <2>11, <3>1, DrainKept DEF SendMode
  <2>12. ASSUME NEW t \in Negotiators, TestConnected(t) PROVE DrainInv'
    BY <2>0, <2>12, DrainKept DEF TestConnected
  <2>13. ASSUME NEW t \in Negotiators, NEW s \in Sides, NEW c, NEW type, NewSdp(t, s, type, c)
         PROVE  DrainInv'
    BY <2>0, <2>13, DrainKept DEF NewSdp, Enter
  <2>14. ASSUME NEW t \in Negotiators, NEW s \in Sides, NEW c, NewCandidate(t, s, c)
         PROVE  DrainInv'
    <3>1. Arrived(s) + 1 \in Nat
      BY CallbackNames DEF Arrived, TypeOK
    <3>2. /\ ~raced
          /\ candidates' = [candidates EXCEPT ![s] = Append(@, Arrived(s) + 1)]
      BY <2>14, CandidateRecords
    <3>3. \A u \in Negotiators : pc'[u] \in Draining => UNCHANGED <<pc[u], side[u], held[u]>>
      BY <2>0, <2>14 DEF NewCandidate, Enter
    <3> QED
      BY <2>0, <3>1, <3>2, <3>3, DrainKept
  <2>15. CASE onLocalIceCandidateCb \/ onIceCandidateCb
    BY <2>14, <2>15 DEF onLocalIceCandidateCb, onIceCandidateCb, Negotiators, Sides
  <2>16. CASE Crash /\ UNCHANGED <<negotiation, side, held, out, skipped, raced>>
    BY <2>0, <2>16, DrainKept DEF Crash
  <2>17. CASE Aside
    BY <2>0, <2>17, DrainKept DEF Aside, AsideLabels
  <2>18. CASE UNCHANGED vars
    BY <2>0, <2>18, DrainKept DEF vars
  <2> QED
    BY <2>1, <2>2, <2>3, <2>4, <2>5, <2>6, <2>7, <2>8, <2>9, <2>10, <2>11, <2>12, <2>13,
       <2>15, <2>16, <2>17, <2>18, Steps DEF handleMessages
<1> QED
  BY <1>1, <1>2, TypeCorrect, PTL DEF Spec

-----------------------------------------------------------------------------
(* Each direction implements Handoff. *)

\* The actions of Handoff for side s, as steps of a Manager.
KeepFor(s) == UNCHANGED <<Arrived(s), Pending(s), out[s]>>

TakeFor(s) ==
  /\ Arrived(s)' = Arrived(s) + 1
  /\ Pending(s)' = Append(Pending(s), Arrived(s) + 1)
  /\ out'[s] = out[s]

TellFor(s) ==
  /\ UNCHANGED <<Arrived(s), Pending(s)>>
  /\ \E m \in Told : ~IsCandidate(m) /\ out'[s] = Append(out[s], m)

DeliverFor(s) ==
  /\ Opened(s)
  /\ Pending(s) # <<>>
  /\ out'[s] = Append(out[s], [kind |-> "candidate", val |-> Head(Pending(s))])
  /\ Pending(s)' = Tail(Pending(s))
  /\ Arrived(s)' = Arrived(s)

\* What is pending when one thread, or none, has a candidate in its hands.
LEMMA PendingHeld ==
  ASSUME NEW s, NEW t, InHand(s) = {t}
  PROVE  Pending(s) = <<held[t]>> \o candidates[s]
<1>1. (CHOOSE u \in {t} : TRUE) = t
  OBVIOUS
<1> QED
  BY <1>1 DEF Pending

LEMMA PendingKept ==
  ASSUME NEW s, InHand(s)' = InHand(s), candidates'[s] = candidates[s],
         \A t \in InHand(s) : held'[t] = held[t]
  PROVE  Pending(s)' = Pending(s)
<1>1. CASE InHand(s) = {}
  BY <1>1 DEF Pending
<1>2. CASE InHand(s) # {}
  <2>1. (CHOOSE u \in InHand(s) : TRUE) \in InHand(s)
    BY <1>2
  <2> QED
    BY <1>2, <2>1 DEF Pending
<1> QED
  BY <1>1, <1>2

\* A queue with a candidate put before it.
LEMMA BeforeQueue ==
  ASSUME NEW q \in Seq(Nat), NEW h \in Nat, NEW k \in Nat
  PROVE  /\ <<h>> \o q # <<>>
         /\ Head(<<h>> \o q) = h
         /\ Tail(<<h>> \o q) = q
         /\ Append(<<h>> \o q, k) = <<h>> \o Append(q, k)
         /\ q # <<>> => <<Head(q)>> \o Tail(q) = q
OBVIOUS

\* Without a race the candidate in a thread's hands is the only one.
LEMMA OneInHand ==
  ASSUME DrainInv, ~raced, NEW s, NEW t \in Negotiators, pc[t] \in Draining
  PROVE  InHand(s) = IF pc[t] = "sendCandidate" /\ side[t] = s THEN {t} ELSE {}
BY DEF DrainInv, InHand, Draining

\* Every step of a Manager that neither races nor ends the program is a step of
\* Handoff, or none, for each side.
LEMMA StepsRefine ==
  ASSUME TypeOK, GateInv, DrainInv, [Next]_vars, ~raced', ~Crashed', NEW s \in Sides
  PROVE  /\ ~raced /\ ~Crashed
         /\ KeepFor(s) \/ TakeFor(s) \/ TellFor(s) \/ DeliverFor(s)
<1> USE DEF Goto, Hold, Choose, negotiation, video, sdkSource, history
<1>0. /\ Negotiators \subseteq Threads /\ raced \in BOOLEAN
      /\ pc \in [Threads -> Labels] /\ side \in [Threads -> Sides]
      /\ held \in [Threads -> Nat] /\ candidates \in [Sides -> Seq(Nat)]
      /\ out \in [Sides -> Seq(Message)]
  BY DEF Threads, Negotiators, TypeOK
<1>1. ASSUME NEW t \in Threads, NEW label, Goto(t, label), pc[t] # "crashed"
      PROVE  ~Crashed
  BY <1>0, <1>1 DEF Crashed
\* A step that hands nothing over, and nobody a candidate.
<1>2. ASSUME raced => raced', UNCHANGED <<candidates, out, Arrived(s)>>, ~Crashed,
             InHand(s)' = InHand(s), \A u \in InHand(s) : held'[u] = held[u]
      PROVE  ~raced /\ ~Crashed /\ KeepFor(s)
  BY <1>2, PendingKept DEF KeepFor
<1>3. ASSUME NEW t \in Negotiators, NEW label, Goto(t, label), raced => raced',
             pc[t] \notin {"sendCandidate", "crashed"}, label # "sendCandidate",
             UNCHANGED <<candidates, out, calls>>,
             \A u \in Negotiators \ {t} : side'[u] = side[u] /\ held'[u] = held[u]
      PROVE  ~raced /\ ~Crashed /\ KeepFor(s)
  <2>1. InHand(s)' = InHand(s) /\ t \notin InHand(s)
    BY <1>0, <1>3 DEF InHand
  <2>2. Arrived(s)' = Arrived(s)
    BY <1>3 DEF Arrived
  <2>3. \A u \in InHand(s) : held'[u] = held[u]
    BY <1>3, <2>1 DEF InHand
  <2> QED
    BY <1>0, <1>1, <1>2, <1>3, <2>1, <2>2, <2>3
\* A step that pushes something else than a candidate.
<1>4. ASSUME NEW to \in Sides, NEW m \in Told, ~IsCandidate(m), ~raced, ~Crashed,
             out' = [out EXCEPT ![to] = Append(@, m)],
             UNCHANGED <<candidates, Arrived(s)>>,
             InHand(s)' = InHand(s), \A u \in InHand(s) : held'[u] = held[u]
      PROVE  KeepFor(s) \/ TellFor(s)
  <2>1. Pending(s)' = Pending(s)
    BY <1>4, PendingKept
  <2>2. out'[s] = IF s = to THEN Append(out[s], m) ELSE out[s]
    BY <1>0, <1>4
  <2> QED
    BY <1>4, <2>1, <2>2 DEF KeepFor, TellFor
<1>5. ASSUME NEW t \in Negotiators, NEW label, NEW to \in Sides, NEW m \in Told,
             Goto(t, label), ~IsCandidate(m), Push(t, to, m),
             pc[t] \notin {"sendCandidate", "crashed"}, label # "sendCandidate",
             UNCHANGED <<candidates, side, held, calls>>
      PROVE  ~raced /\ ~Crashed /\ (KeepFor(s) \/ TellFor(s))
  <2>1. ~raced /\ out' = [out EXCEPT ![to] = Append(@, m)]
    BY <1>5, PushRecords
  <2>2. InHand(s)' = InHand(s) /\ ~Crashed
    BY <1>0, <1>1, <1>5 DEF InHand
  <2>3. Arrived(s)' = Arrived(s)
    BY <1>5 DEF Arrived
  <2> QED
    BY <1>4, <1>5, <2>1, <2>2, <2>3
<1>6. ASSUME NEW t \in Negotiators,
             \/ TestSdp(t) \/ MarkSdp(t) \/ TestDrain(t) \/ Claim(t) \/ TestQueue(t)
             \/ Release(t) \/ TestConnected(t)
      PROVE  ~raced /\ ~Crashed /\ KeepFor(s)
  <2>1. /\ pc[t] \notin {"sendCandidate", "crashed"}
        /\ \E label \in Labels \ {"sendCandidate"} : Goto(t, label)
        /\ UNCHANGED <<candidates, out, calls, held>> /\ (raced => raced')
        /\ \A u \in Negotiators \ {t} : side'[u] = side[u]
    BY <1>0, <1>6
    DEF TestSdp, MarkSdp, AfterSdp, TestDrain, Claim, TestQueue, Release, TestConnected,
        Labels, Draining
  <2> QED
    BY <1>3, <2>1
<1>7. ASSUME NEW t \in Negotiators, Front(t)
      PROVE  ~raced /\ ~Crashed /\ KeepFor(s)
  <2>1. ~Crash
    BY <1>0 DEF Crash, Crashed
  <2>2. /\ pc[t] = "front" /\ Goto(t, "pop") /\ UNCHANGED <<candidates, out, calls, side>>
        /\ raced' = raced /\ \A u \in Negotiators \ {t} : held'[u] = held[u]
    BY <1>0, <1>7, <2>1 DEF Front
  <2> QED
    BY <1>3, <2>2
<1>8. ASSUME NEW t \in Negotiators, Pop(t)
      PROVE  ~raced /\ ~Crashed /\ KeepFor(s)
  <2>1. ~Crash
    BY <1>0 DEF Crash, Crashed
  <2>2. /\ pc[t] = "pop" /\ Goto(t, "sendCandidate") /\ candidates[side[t]] # <<>>
        /\ candidates' = [candidates EXCEPT ![side[t]] = Tail(candidates[side[t]])]
        /\ UNCHANGED <<out, calls, side, held, raced>>
    BY <1>8, <2>1 DEF Pop
  <2>3. ~raced /\ held[t] = Head(candidates[side[t]]) /\ ~Crashed
    BY <1>0, <1>1, <2>2 DEF DrainInv
  <2>4. /\ InHand(s) = {} /\ InHand(s)' = IF side[t] = s THEN {t} ELSE {}
    <3>1. InHand(s) = {}
      BY <2>2, <2>3, OneInHand DEF Draining
    <3> QED
      BY <1>0, <2>2, <3>1 DEF InHand
  <2>5. Arrived(s)' = Arrived(s)
    BY <2>2 DEF Arrived
  <2>6. CASE side[t] = s
    <3>1. Pending(s) = candidates[s]
      BY <2>4 DEF Pending
    <3>2. Pending(s)' = <<held[t]>> \o Tail(candidates[s])
      <4>1. InHand(s)' = {t} /\ candidates'[s] = Tail(candidates[s]) /\ held' = held
        BY <1>0, <2>2, <2>4, <2>6
      <4>2. (CHOOSE u \in {t} : TRUE) = t
        OBVIOUS
      <4> QED
        BY <4>1, <4>2 DEF Pending
    <3>3. candidates[s] \in Seq(Nat) /\ candidates[s] # <<>>
            /\ held[t] = Head(candidates[s])
      BY <1>0, <2>2, <2>3, <2>6
    <3> QED
      BY <2>2, <2>3, <2>5, <3>1, <3>2, <3>3, BeforeQueue DEF KeepFor
  <2>7. CASE side[t] # s
    <3>1. candidates'[s] = candidates[s] /\ InHand(s)' = InHand(s)
      BY <1>0, <2>2, <2>4, <2>7
    <3> QED
      BY <2>2, <2>3, <2>5, <3>1, PendingKept DEF KeepFor
  <2> QED
    BY <2>6, <2>7
<1>9. ASSUME NEW t \in Negotiators, SendCandidate(t)
      PROVE  ~raced /\ ~Crashed /\ (KeepFor(s) \/ DeliverFor(s))
  <2> DEFINE m == [kind |-> "candidate", val |-> held[t]]
  <2>1. /\ pc[t] = "sendCandidate" /\ Push(t, side[t], m) /\ Goto(t, "testQueue")
        /\ UNCHANGED <<candidates, side, calls>>
        /\ \A u \in Negotiators \ {t} : held'[u] = held[u]
    BY <1>0, <1>9 DEF SendCandidate
  <2> HIDE DEF m
  <2>2. ~raced /\ out' = [out EXCEPT ![side[t]] = Append(@, m)] /\ ~Crashed
    <3>1. ~raced /\ out' = [out EXCEPT ![side[t]] = Append(@, m)]
      BY <2>1, PushRecords
    <3>2. ~Crashed
      BY <1>0, <1>1, <2>1
    <3> QED
      BY <3>1, <3>2
  <2>3. /\ InHand(s) = IF side[t] = s THEN {t} ELSE {}
        /\ InHand(s)' = {}
    <3>1. InHand(s) = IF side[t] = s THEN {t} ELSE {}
      BY <2>1, <2>2, OneInHand DEF Draining
    <3> QED
      BY <1>0, <2>1, <3>1 DEF InHand
  <2>4. Arrived(s)' = Arrived(s)
    BY <2>1 DEF Arrived
  <2>5. CASE side[t] = s
    <3>1. Pending(s) = <<held[t]>> \o candidates[s]
      BY <2>3, <2>5, PendingHeld
    <3>2. Pending(s)' = candidates[s]
      BY <2>1, <2>3 DEF Pending
    <3>3. candidates[s] \in Seq(Nat) /\ held[t] \in Nat
      BY <1>0
    <3>4. /\ Pending(s) # <<>> /\ Head(Pending(s)) = held[t]
          /\ Pending(s)' = Tail(Pending(s))
      BY <3>1, <3>2, <3>3, BeforeQueue
    <3>5. out'[s] = Append(out[s], m)
      BY <1>0, <2>2, <2>5
    <3>6. Opened(s)
      BY <2>1, <2>2 DEF GateInv, BothSent, Draining
    <3> QED
      BY <2>2, <2>4, <3>4, <3>5, <3>6 DEF DeliverFor, m
  <2>6. CASE side[t] # s
    <3>1. InHand(s)' = InHand(s) /\ InHand(s) = {} /\ out'[s] = out[s]
      BY <1>0, <2>2, <2>3, <2>6
    <3> QED
      BY <2>1, <2>2, <2>4, <3>1, PendingKept DEF KeepFor
  <2> QED
    BY <2>5, <2>6
<1>10. ASSUME NEW t \in Negotiators, SendSdp(t)
       PROVE  ~raced /\ ~Crashed /\ (KeepFor(s) \/ TellFor(s))
  <2> DEFINE m == [kind |-> SdpKind(side[t]), sdp |-> sdp[side[t]]]
  <2>1. m \in Told /\ ~IsCandidate(m)
    BY <1>0 DEF Told, SdpKind, IsCandidate, TypeOK
  <2>2. /\ pc[t] = "sendSdp" /\ Goto(t, "markSdp") /\ Push(t, side[t], m)
        /\ UNCHANGED <<candidates, side, held, calls>>
    BY <1>10 DEF SendSdp
  <2> HIDE DEF m
  <2> QED
    BY <1>0, <1>5, <2>1, <2>2
<1>11. ASSUME NEW t \in Negotiators, SendMode(t)
       PROVE  ~raced /\ ~Crashed /\ (KeepFor(s) \/ TellFor(s))
  <2> DEFINE m == [kind |-> "mode", mode |-> videoMode]
  <2>1. m \in Told /\ ~IsCandidate(m)
    BY <1>0 DEF Told, IsCandidate, TypeOK
  <2>2. /\ pc[t] = "sendMode" /\ Goto(t, "testConnected") /\ Push(t, "local", m)
        /\ UNCHANGED <<candidates, side, held, calls>>
    BY <1>11 DEF SendMode
  <2> HIDE DEF m
  <2> QED
    BY <1>0, <1>5, <2>1, <2>2 DEF Sides
\* The callbacks.
<1>12. ASSUME NEW t \in Negotiators, NEW r \in Sides, NEW type, NEW c \in Callbacks,
              c \notin {"onLocalIceCandidateCb", "onIceCandidateCb"}, NewSdp(t, r, type, c)
       PROVE  ~raced /\ ~Crashed /\ KeepFor(s)
  <2>1. /\ pc[t] = "idle" /\ Goto(t, "testSdp")
        /\ UNCHANGED <<candidates, out, side, held, raced>>
    BY <1>12 DEF NewSdp, Enter
  <2>2. Arrived(s)' = Arrived(s)
    BY <1>12, CallbackNames DEF NewSdp, Enter, Arrived, TypeOK
  <2>3. InHand(s)' = InHand(s) /\ ~Crashed
    BY <1>0, <1>1, <2>1 DEF InHand
  <2> QED
    BY <1>2, <2>1, <2>2, <2>3
<1>13. ASSUME NEW t \in Negotiators, NEW r \in Sides, NEW c \in Callbacks,
              c = (IF r = "local" THEN "onLocalIceCandidateCb" ELSE "onIceCandidateCb"),
              NewCandidate(t, r, c)
       PROVE  ~raced /\ ~Crashed /\ (KeepFor(s) \/ TakeFor(s))
  <2>1. /\ pc[t] = "idle" /\ Goto(t, "testSdp")
        /\ calls' = [calls EXCEPT ![c] = @ + 1]
        /\ candidates' = [candidates EXCEPT ![r] = Append(@, Arrived(r) + 1)]
        /\ UNCHANGED <<out, side, held, raced>>
    BY <1>13 DEF NewCandidate, Enter
  <2>2. InHand(s)' = InHand(s) /\ ~raced /\ ~Crashed
    BY <1>0, <1>1, <2>1 DEF InHand
  <2>3. CASE s = r
    <3>1. Arrived(s)' = Arrived(s) + 1 /\ Arrived(s) \in Nat
      BY <1>13, <2>1, <2>3 DEF Arrived, TypeOK
    <3>2. candidates'[s] = Append(candidates[s], Arrived(s) + 1)
      BY <1>0, <2>1, <2>3
    <3>3. Pending(s)' = Append(Pending(s), Arrived(s) + 1)
      <4>1. CASE InHand(s) = {}
        BY <2>2, <3>2, <4>1 DEF Pending
      <4>2. CASE InHand(s) # {}
        <5> DEFINE u == CHOOSE v \in InHand(s) : TRUE
        <5>1. u \in InHand(s)
          BY <4>2
        <5>2. held[u] \in Nat /\ candidates[s] \in Seq(Nat)
          BY <1>0, <5>1 DEF InHand
        <5>3. /\ Pending(s) = <<held[u]>> \o candidates[s]
              /\ Pending(s)' = <<held[u]>> \o candidates'[s]
          BY <2>1, <2>2, <4>2 DEF Pending
        <5> HIDE DEF u
        <5>4. Arrived(s) + 1 \in Nat
          BY <3>1
        <5>5. Append(<<held[u]>> \o candidates[s], Arrived(s) + 1)
                = <<held[u]>> \o Append(candidates[s], Arrived(s) + 1)
          BY ONLY <5>2, <5>4, BeforeQueue
        <5> QED
          BY <3>2, <5>3, <5>5
      <4> QED
        BY <4>1, <4>2
    <3> QED
      BY <2>1, <2>2, <3>1, <3>3 DEF TakeFor
  <2>4. CASE s # r
    <3>1. Arrived(s)' = Arrived(s)
      BY <1>13, <2>1, <2>4, CallbackNames DEF Arrived, TypeOK, Sides
    <3>2. candidates'[s] = candidates[s]
      BY <1>0, <2>1, <2>4
    <3> QED
      BY <2>1, <2>2, <3>1, <3>2, PendingKept DEF KeepFor
  <2> QED
    BY <2>3, <2>4
<1>14. CASE onLocalIceCandidateCb \/ onIceCandidateCb
  BY <1>13, <1>14, CallbackNames
  DEF onLocalIceCandidateCb, onIceCandidateCb, Negotiators, Sides
<1>15. ~Crash
  BY DEF Crash, Crashed, Threads
<1>16. CASE Aside
  <2>1. PICK t \in Threads, label \in AsideLabels :
          pc[t] \in AsideLabels /\ pc' = [pc EXCEPT ![t] = label]
    BY <1>16 DEF Aside
  <2>2. InHand(s)' = InHand(s) /\ ~Crashed /\ held' = held
    BY <1>0, <1>1, <1>16, <2>1 DEF Aside, AsideLabels, InHand
  <2>3. UNCHANGED <<candidates, Arrived(s)>> /\ ~raced
    BY <1>16 DEF Aside
  <2>4. CASE out' = out
    BY <1>2, <2>2, <2>3, <2>4
  <2>5. ASSUME NEW to \in Sides, NEW m \in Told, ~IsCandidate(m),
               out' = [out EXCEPT ![to] = Append(@, m)]
        PROVE  KeepFor(s) \/ TellFor(s)
    BY <1>4, <2>2, <2>3, <2>5
  <2> QED
    BY <1>16, <2>2, <2>3, <2>4, <2>5 DEF Aside
<1>17. CASE UNCHANGED vars
  BY <1>17 DEF vars, KeepFor, Arrived, Pending, InHand, Crashed
<1> QED
  BY <1>6, <1>7, <1>8, <1>9, <1>10, <1>11, <1>12, <1>14, <1>15, <1>16, <1>17, Steps,
     CallbackNames
  DEF handleMessages

\* What goes to the server is handed off as promised: by two threads that interleave
\* in handleMessages(), one flag and one queue at a time.
THEOREM LocalRefines == Spec => LocalHandoff
<1>1. Init => ToServer!Init
  BY CallbackNames
  DEF Init, ToServer!Init, Arrived, Pending, InHand, Crashed, Threads, Negotiators, Sides
<1>2. TypeOK /\ GateInv /\ DrainInv /\ [Next]_vars => [ToServer!Next]_(ToServer!vars)
  <2> SUFFICES ASSUME TypeOK, GateInv, DrainInv, [Next]_vars
               PROVE  ToServer!Next \/ UNCHANGED ToServer!vars
    OBVIOUS
  <2>1. CASE raced' \/ Crashed'
    BY <2>1 DEF ToServer!Next, ToServer!Break
  <2>2. CASE ~raced' /\ ~Crashed'
    <3> DEFINE s == "local"
    <3>1. /\ ~raced /\ ~Crashed
          /\ KeepFor(s) \/ TakeFor(s) \/ TellFor(s) \/ DeliverFor(s)
      BY <2>2, StepsRefine DEF Sides
    <3>2. UNCHANGED (raced \/ Crashed)
      BY <2>2, <3>1
    <3>3. out[s] \in Seq(Message)
      BY DEF TypeOK, Sides
    <3>4. CASE KeepFor(s)
      BY <3>2, <3>4 DEF KeepFor, ToServer!vars
    <3>5. CASE TakeFor(s)
      BY <3>2, <3>5 DEF TakeFor, ToServer!Next, ToServer!Take
    <3>6. CASE TellFor(s)
      <4>1. PICK m \in Told : ~IsCandidate(m) /\ out'[s] = Append(out[s], m)
        BY <3>6 DEF TellFor
      <4>2. /\ Len(out'[s]) = Len(out[s]) + 1 /\ out'[s][Len(out[s]) + 1] = m
        <5> DEFINE q == out[s]
        <5>1. m \in Message /\ q \in Seq(Message)
          BY <3>3, <4>1 DEF Message
        <5>2. Len(Append(q, m)) = Len(q) + 1 /\ Append(q, m)[Len(q) + 1] = m
          <6> HIDE DEF q
          <6> QED
            BY <5>1
        <5> QED
          BY <4>1, <5>2
      <4> QED
        BY <3>2, <3>6, <4>1, <4>2
        DEF TellFor, IsCandidate, ToServer!Next, ToServer!Tell, ToServer!IsCandidate
    <3>7. CASE DeliverFor(s)
      BY <3>2, <3>7
      DEF DeliverFor, Opened, IsSdp, ToServer!Next, ToServer!Deliver, ToServer!IsDescription,
          ToServer!Candidate
    <3> QED
      BY <3>1, <3>4, <3>5, <3>6, <3>7
  <2> QED
    BY <2>1, <2>2
<1> QED
  BY <1>1, <1>2, TypeCorrect, GateInvHolds, DrainInvHolds, PTL
  DEF Spec, LocalHandoff, ToServer!Spec

\* And so is what goes to the SDK.
THEOREM RemoteRefines == Spec => RemoteHandoff
<1>1. Init => ToSdk!Init
  BY CallbackNames
  DEF Init, ToSdk!Init, Arrived, Pending, InHand, Crashed, Threads, Negotiators, Sides
<1>2. TypeOK /\ GateInv /\ DrainInv /\ [Next]_vars => [ToSdk!Next]_(ToSdk!vars)
  <2> SUFFICES ASSUME TypeOK, GateInv, DrainInv, [Next]_vars
               PROVE  ToSdk!Next \/ UNCHANGED ToSdk!vars
    OBVIOUS
  <2>1. CASE raced' \/ Crashed'
    BY <2>1 DEF ToSdk!Next, ToSdk!Break
  <2>2. CASE ~raced' /\ ~Crashed'
    <3> DEFINE s == "remote"
    <3>1. /\ ~raced /\ ~Crashed
          /\ KeepFor(s) \/ TakeFor(s) \/ TellFor(s) \/ DeliverFor(s)
      BY <2>2, StepsRefine DEF Sides
    <3>2. UNCHANGED (raced \/ Crashed)
      BY <2>2, <3>1
    <3>3. out[s] \in Seq(Message)
      BY DEF TypeOK, Sides
    <3>4. CASE KeepFor(s)
      BY <3>2, <3>4 DEF KeepFor, ToSdk!vars
    <3>5. CASE TakeFor(s)
      BY <3>2, <3>5 DEF TakeFor, ToSdk!Next, ToSdk!Take
    <3>6. CASE TellFor(s)
      <4>1. PICK m \in Told : ~IsCandidate(m) /\ out'[s] = Append(out[s], m)
        BY <3>6 DEF TellFor
      <4>2. /\ Len(out'[s]) = Len(out[s]) + 1 /\ out'[s][Len(out[s]) + 1] = m
        <5> DEFINE q == out[s]
        <5>1. m \in Message /\ q \in Seq(Message)
          BY <3>3, <4>1 DEF Message
        <5>2. Len(Append(q, m)) = Len(q) + 1 /\ Append(q, m)[Len(q) + 1] = m
          <6> HIDE DEF q
          <6> QED
            BY <5>1
        <5> QED
          BY <4>1, <5>2
      <4> QED
        BY <3>2, <3>6, <4>1, <4>2
        DEF TellFor, IsCandidate, ToSdk!Next, ToSdk!Tell, ToSdk!IsCandidate
    <3>7. CASE DeliverFor(s)
      BY <3>2, <3>7
      DEF DeliverFor, Opened, IsSdp, ToSdk!Next, ToSdk!Deliver, ToSdk!IsDescription,
          ToSdk!Candidate
    <3> QED
      BY <3>1, <3>4, <3>5, <3>6, <3>7
  <2> QED
    BY <2>1, <2>2
<1> QED
  BY <1>1, <1>2, TypeCorrect, GateInvHolds, DrainInvHolds, PTL
  DEF Spec, RemoteHandoff, ToSdk!Spec

\* So candidates leave in the order they came, each once, and none is lost, in both
\* directions: Handoff's own theorem, of what implements it.
THEOREM OrderHolds == Spec => []CandidatesInOrder
<1>1. TypeOK /\ ToServer!HandoffInv /\ ToSdk!HandoffInv => CandidatesInOrder
  <2> SUFFICES ASSUME ToServer!HandoffInv, ToSdk!HandoffInv, ~raced, ~Crashed
               PROVE  CandidatesInOrder
    BY DEF CandidatesInOrder
  <2>1. ToServer!InOrder /\ ToSdk!InOrder
    BY DEF ToServer!HandoffInv, ToSdk!HandoffInv
  <2>2. Ordered("local")
    <3>1. Passed("local") = ToServer!Gone /\ Passed("local") \in Nat
      BY DEF Passed, ToServer!Gone, ToServer!HandoffInv, ToServer!HandoffTypeOK
    <3>2. \A k : ToServer!Candidate(k).kind = "candidate" /\ ToServer!Candidate(k).val = k
      BY DEF ToServer!Candidate
    <3>3. \A m : IsCandidate(m) <=> ToServer!IsCandidate(m)
      BY DEF IsCandidate, ToServer!IsCandidate
    <3>4. \A k \in 1 .. Passed("local") : \E i \in DOMAIN out["local"] :
            IsCandidate(out["local"][i]) /\ out["local"][i].val = k
      BY <2>1, <3>1, <3>2 DEF ToServer!InOrder, IsCandidate
    <3>5. Pending("local") = [i \in 1 .. Len(Pending("local")) |-> Passed("local") + i]
      BY <2>1, <3>1 DEF ToServer!InOrder
    <3>6. \A i, j \in DOMAIN out["local"] :
            i < j /\ IsCandidate(out["local"][i]) /\ IsCandidate(out["local"][j])
              => out["local"][i].val < out["local"][j].val
      BY <2>1, <3>3 DEF ToServer!InOrder
    <3>7. \A i \in DOMAIN out["local"] :
            IsCandidate(out["local"][i]) => out["local"][i].val \in 1 .. Passed("local")
      BY <2>1, <3>1, <3>3 DEF ToServer!InOrder
    <3> QED
      BY <3>1, <3>4, <3>5, <3>6, <3>7 DEF Ordered
  <2>3. Ordered("remote")
    <3>1. Passed("remote") = ToSdk!Gone /\ Passed("remote") \in Nat
      BY DEF Passed, ToSdk!Gone, ToSdk!HandoffInv, ToSdk!HandoffTypeOK
    <3>2. \A k : ToSdk!Candidate(k).kind = "candidate" /\ ToSdk!Candidate(k).val = k
      BY DEF ToSdk!Candidate
    <3>3. \A m : IsCandidate(m) <=> ToSdk!IsCandidate(m)
      BY DEF IsCandidate, ToSdk!IsCandidate
    <3>4. \A k \in 1 .. Passed("remote") : \E i \in DOMAIN out["remote"] :
            IsCandidate(out["remote"][i]) /\ out["remote"][i].val = k
      BY <2>1, <3>1, <3>2 DEF ToSdk!InOrder, IsCandidate
    <3>5. Pending("remote") = [i \in 1 .. Len(Pending("remote")) |-> Passed("remote") + i]
      BY <2>1, <3>1 DEF ToSdk!InOrder
    <3>6. \A i, j \in DOMAIN out["remote"] :
            i < j /\ IsCandidate(out["remote"][i]) /\ IsCandidate(out["remote"][j])
              => out["remote"][i].val < out["remote"][j].val
      BY <2>1, <3>3 DEF ToSdk!InOrder
    <3>7. \A i \in DOMAIN out["remote"] :
            IsCandidate(out["remote"][i]) => out["remote"][i].val \in 1 .. Passed("remote")
      BY <2>1, <3>1, <3>3 DEF ToSdk!InOrder
    <3> QED
      BY <3>1, <3>4, <3>5, <3>6, <3>7 DEF Ordered
  <2> QED
    BY <2>2, <2>3 DEF CandidatesInOrder, Sides
<1> QED
  BY <1>1, TypeCorrect, LocalRefines, RemoteRefines, ToServer!InOrderHolds,
     ToSdk!InOrderHolds, PTL
  DEF LocalHandoff, RemoteHandoff

-----------------------------------------------------------------------------
(* No candidate is left behind, unless its handler was turned away. *)

\* Thread t will look at the queue of side s before its callback returns: it has
\* the drain before it, or it is in a drain that has not come past that side.
Ahead == {"testSdp", "sendSdp", "markSdp", "testDrain", "claim"}
InQueue == {"testQueue", "front", "pop", "sendCandidate"}
WillSee(t, s) ==
  \/ pc[t] \in Ahead
  \/ pc[t] \in InQueue /\ (side[t] = "local" \/ s = "remote")

\* Once both SDPs went out, a candidate that waits is ahead of some thread: of
\* its own handler, of the one that set the second flag, or of the one that had
\* claimed the drain when its own was turned away.
StrandInv ==
  /\ \A t \in Negotiators :
       pc[t] \notin {"testSdp", "sendSdp", "markSdp", "crashed"} \cup InQueue
         => side[t] = "local"
  /\ \A s \in Sides : BothSent /\ candidates[s] # <<>> /\ ~skipped /\ ~Crashed
       => \E t \in Negotiators : WillSee(t, s)

\* A step of thread t keeps StrandInv if t does not turn away from a queue with
\* candidates, and looks at what it adds.
LEMMA StrandKept ==
  ASSUME TypeOK, StrandInv, NEW t \in Negotiators, NEW label, Goto(t, label),
         pc[t] # "crashed",
         label \in {"testSdp", "sendSdp", "markSdp", "crashed"} \cup InQueue
           \/ side'[t] = "local",
         \A u \in Negotiators \ {t} : side'[u] = side[u],
         \A s \in Sides : candidates'[s] # <<>> /\ BothSent' /\ ~skipped' =>
           \/ WillSee(t, s)'
           \/ candidates[s] # <<>> /\ BothSent /\ ~skipped /\ ~WillSee(t, s)
  PROVE  StrandInv'
<1>0. /\ Negotiators \subseteq Threads
      /\ pc \in [Threads -> Labels] /\ side \in [Threads -> Sides]
  BY DEF TypeOK, Threads, Negotiators
<1>1. /\ pc'[t] = label
      /\ \A u \in Threads \ {t} : pc'[u] = pc[u]
  BY <1>0 DEF Goto
<1>2. ASSUME NEW u \in Negotiators,
             pc'[u] \notin {"testSdp", "sendSdp", "markSdp", "crashed"} \cup InQueue
      PROVE  side'[u] = "local"
  BY <1>0, <1>1, <1>2 DEF StrandInv
<1>3. ~Crashed' => ~Crashed
  BY <1>0, <1>1 DEF Crashed
<1>4. \A u \in Negotiators \ {t} : \A s \in Sides : WillSee(u, s)' <=> WillSee(u, s)
  BY <1>0, <1>1 DEF WillSee
<1>5. ASSUME NEW s \in Sides, BothSent', candidates'[s] # <<>>, ~skipped', ~Crashed'
      PROVE  \E u \in Negotiators : WillSee(u, s)'
  <2>1. CASE WillSee(t, s)'
    BY <2>1
  <2>2. CASE candidates[s] # <<>> /\ BothSent /\ ~skipped /\ ~WillSee(t, s)
    <3>1. PICK u \in Negotiators : WillSee(u, s)
      BY <1>3, <1>5, <2>2 DEF StrandInv
    <3> QED
      BY <1>4, <2>2, <3>1
  <2> QED
    BY <1>5, <2>1, <2>2
<1> QED
  BY <1>2, <1>5 DEF StrandInv

LEMMA StrandInvHolds == Spec => []StrandInv
<1>1. Init => StrandInv
  BY DEF Init, StrandInv, Negotiators, Threads, Sides
<1>2. TypeOK /\ StrandInv /\ [Next]_vars => StrandInv'
  <2> SUFFICES ASSUME TypeOK, StrandInv, [Next]_vars PROVE StrandInv'
    OBVIOUS
  <2> USE DEF negotiation, video, sdkSource, history
  <2>0. /\ Negotiators \subseteq Threads /\ Threads = {"ui", "ws", "sdk"}
        /\ pc \in [Threads -> Labels] /\ side \in [Threads -> Sides]
        /\ sent \in [Sides -> BOOLEAN] /\ skipped \in BOOLEAN
        /\ candidates \in [Sides -> Seq(Nat)]
        /\ Sides = {"local", "remote"}
    BY DEF Threads, Negotiators, TypeOK, Sides
  <2>1. ASSUME NEW t \in Negotiators, TestSdp(t) PROVE StrandInv'
    <3>1. /\ pc[t] = "testSdp" /\ UNCHANGED <<sent, candidates, skipped>>
          /\ \A u \in Negotiators \ {t} : side'[u] = side[u]
          /\ \/ \E label \in {"sendSdp", "testSdp"} : Goto(t, label)
             \/ Goto(t, "testDrain") /\ side'[t] = "local"
      BY <2>0, <2>1 DEF TestSdp, AfterSdp, Goto
    <3>2. \A s \in Sides : WillSee(t, s)'
      BY <2>0, <3>1 DEF WillSee, Ahead, Goto
    <3> QED
      BY <3>1, <3>2, StrandKept
  <2>2. ASSUME NEW t \in Negotiators, SendSdp(t) PROVE StrandInv'
    BY <2>0, <2>2, StrandKept DEF SendSdp, StrandInv, WillSee, Ahead, InQueue, BothSent, Labels, Draining, Goto
  <2>3. ASSUME NEW t \in Negotiators, MarkSdp(t) PROVE StrandInv'
    <3>1. /\ pc[t] = "markSdp"
          /\ \A u \in Negotiators \ {t} : side'[u] = side[u]
          /\ \/ Goto(t, "testSdp")
             \/ Goto(t, "testDrain") /\ side'[t] = "local"
      BY <2>0, <2>3 DEF MarkSdp, AfterSdp, Goto
    <3>2. \A s \in Sides : WillSee(t, s)'
      BY <2>0, <3>1 DEF WillSee, Ahead, Goto
    <3> QED
      BY <3>1, <3>2, StrandKept
  <2>4. ASSUME NEW t \in Negotiators, TestDrain(t) PROVE StrandInv'
    BY <2>0, <2>4, StrandKept DEF TestDrain, StrandInv, WillSee, Ahead, InQueue, BothSent, Labels, Draining, Goto
  <2>5. ASSUME NEW t \in Negotiators, Claim(t) PROVE StrandInv'
    BY <2>0, <2>5, StrandKept DEF Claim, StrandInv, WillSee, Ahead, InQueue, BothSent, Labels, Draining, Goto
  <2>6. ASSUME NEW t \in Negotiators, TestQueue(t) PROVE StrandInv'
    <3>1. /\ pc[t] = "testQueue" /\ UNCHANGED <<sent, candidates, skipped>>
          /\ \A u \in Negotiators \ {t} : side'[u] = side[u]
      BY <2>0, <2>6 DEF TestQueue
    <3>2. CASE candidates[side[t]] # <<>>
      <4>1. Goto(t, "front") /\ side' = side
        BY <2>6, <3>2 DEF TestQueue
      <4>2. \A s \in Sides : WillSee(t, s)' <=> WillSee(t, s)
        BY <2>0, <3>1, <4>1 DEF WillSee, Ahead, InQueue, Goto
      <4> QED
        BY <3>1, <4>1, <4>2, StrandKept DEF InQueue, BothSent
    <3>3. CASE candidates[side[t]] = <<>> /\ side[t] = "local"
      <4>1. Goto(t, "testQueue") /\ side'[t] = "remote"
        BY <2>0, <2>6, <3>3 DEF TestQueue, Goto
      <4>2. \A s \in Sides : candidates[s] # <<>> => WillSee(t, s)'
        BY <2>0, <3>1, <3>3, <4>1 DEF WillSee, InQueue, Goto
      <4> QED
        BY <3>1, <4>1, <4>2, StrandKept DEF InQueue
    <3>4. CASE candidates[side[t]] = <<>> /\ side[t] = "remote"
      <4>1. Goto(t, "release") /\ side'[t] = "local"
        BY <2>0, <2>6, <3>4 DEF TestQueue, Goto
      <4>2. \A s \in Sides : candidates[s] # <<>> => ~WillSee(t, s)
        BY <2>0, <3>1, <3>4 DEF WillSee, Ahead
      <4> QED
        BY <3>1, <4>1, <4>2, StrandKept DEF BothSent
    <3> QED
      BY <2>0, <3>2, <3>3, <3>4
  <2>7. ASSUME NEW t \in Negotiators, Front(t) PROVE StrandInv'
    <3>1. CASE Crash
      BY <2>0, <2>7, <3>1 DEF Front, Crash, Crashed, StrandInv
    <3>2. CASE ~Crash
      <4>1. /\ pc[t] = "front" /\ Goto(t, "pop") /\ UNCHANGED <<sent, skipped, side>>
            /\ \A s \in Sides : candidates'[s] # <<>> => candidates[s] # <<>>
        BY <2>0, <2>7, <3>2 DEF Front
      <4>2. \A s \in Sides : WillSee(t, s)' <=> WillSee(t, s)
        BY <2>0, <4>1 DEF WillSee, Ahead, InQueue, Goto
      <4> QED
        BY <4>1, <4>2, StrandKept DEF InQueue, BothSent
    <3> QED
      BY <3>1, <3>2
  <2>8. ASSUME NEW t \in Negotiators, Pop(t) PROVE StrandInv'
    <3>1. CASE Crash
      BY <2>0, <2>8, <3>1 DEF Pop, Crash, Crashed, StrandInv
    <3>2. CASE ~Crash
      <4>1. /\ pc[t] = "pop" /\ Goto(t, "sendCandidate") /\ UNCHANGED <<sent, skipped, side>>
            /\ \A s \in Sides : candidates'[s] # <<>> => candidates[s] # <<>>
        BY <2>0, <2>8, <3>2 DEF Pop
      <4>2. \A s \in Sides : WillSee(t, s)' <=> WillSee(t, s)
        BY <2>0, <4>1 DEF WillSee, Ahead, InQueue, Goto
      <4> QED
        BY <4>1, <4>2, StrandKept DEF InQueue, BothSent
    <3> QED
      BY <3>1, <3>2
  <2>9. ASSUME NEW t \in Negotiators, SendCandidate(t) PROVE StrandInv'
    BY <2>0, <2>9, StrandKept DEF SendCandidate, StrandInv, WillSee, Ahead, InQueue, BothSent, Labels, Draining, Goto
  <2>10. ASSUME NEW t \in Negotiators, Release(t) \/ SendMode(t) \/ TestConnected(t)
         PROVE  StrandInv'
    <3>1. /\ pc[t] \in {"release", "sendMode", "testConnected"}
          /\ UNCHANGED <<sent, candidates, skipped, side>>
          /\ \E label \in {"sendMode", "testConnected", "idle"} : Goto(t, label)
      BY <2>0, <2>10 DEF Release, SendMode, TestConnected
    <3>2. side'[t] = "local" /\ \A s \in Sides : ~WillSee(t, s)
      BY <3>1 DEF StrandInv, WillSee, Ahead, InQueue
    <3> QED
      BY <3>1, <3>2, StrandKept DEF BothSent
  <2>11. ASSUME NEW t \in Negotiators, NEW s \in Sides, NEW type, NEW c,
                NewSdp(t, s, type, c) \/ NewCandidate(t, s, c)
         PROVE  StrandInv'
    <3>1. pc[t] = "idle" /\ Goto(t, "testSdp") /\ side' = side
      BY <2>11 DEF NewSdp, NewCandidate, Enter
    <3>2. \A r \in Sides : WillSee(t, r)'
      BY <2>0, <3>1 DEF WillSee, Ahead, Goto
    <3> QED
      BY <3>1, <3>2, StrandKept
  <2>12. CASE onLocalIceCandidateCb \/ onIceCandidateCb
    BY <2>11, <2>12 DEF onLocalIceCandidateCb, onIceCandidateCb, Negotiators, Sides
  <2>13. CASE Crash /\ UNCHANGED <<negotiation, side, held, out, skipped, raced>>
    BY <2>0, <2>13 DEF Crash, Crashed, StrandInv
  <2>14. CASE Aside
    <3>1. /\ \A u \in Negotiators : pc'[u] = pc[u] \/ {pc[u], pc'[u]} \subseteq AsideLabels
          /\ (Crashed => Crashed') /\ UNCHANGED <<sent, candidates, side, skipped>>
      BY <2>0, <2>14 DEF Aside, AsideLabels, Crashed
    <3>2. ASSUME NEW u \in Negotiators,
                 pc'[u] \notin {"testSdp", "sendSdp", "markSdp", "crashed"} \cup InQueue
          PROVE  side'[u] = "local"
      BY <3>1, <3>2 DEF StrandInv, InQueue, AsideLabels
    <3>3. \A u \in Negotiators, s \in Sides : WillSee(u, s) => WillSee(u, s)'
      BY <3>1 DEF WillSee, Ahead, InQueue, AsideLabels
    <3>4. BothSent' <=> BothSent
      BY <3>1 DEF BothSent
    <3> QED
      BY <3>1, <3>2, <3>3, <3>4 DEF StrandInv
  <2>15. CASE UNCHANGED vars
    BY <2>15 DEF vars, StrandInv, WillSee, BothSent, Crashed
  <2> QED
    BY <2>1, <2>2, <2>3, <2>4, <2>5, <2>6, <2>7, <2>8, <2>9, <2>10, <2>11,
       <2>12, <2>13, <2>14, <2>15, Steps DEF handleMessages
<1> QED
  BY <1>1, <1>2, TypeCorrect, PTL DEF Spec

\* With both SDPs out and no callback running, a candidate is left behind only
\* because a handler found m_processingCandidates set and returned: the flags
\* never let both threads miss that the other SDP went out.
THEOREM StrandedHolds == Spec => []StrandedOnlyBySkip
<1>1. TypeOK /\ StrandInv => StrandedOnlyBySkip
  <2>1. Quiet => ~Crashed /\ \A t \in Negotiators, s \in Sides : ~WillSee(t, s)
    BY DEF Quiet, Crashed, WillSee, Ahead, InQueue, Negotiators, Threads
  <2> QED
    BY <2>1 DEF StrandedOnlyBySkip, StrandInv
<1> QED
  BY <1>1, StrandInvHolds, TypeCorrect, PTL

-----------------------------------------------------------------------------
(* A connected Manager has announced its video. *)

Announced ==
  \E i, j \in DOMAIN out["local"] :
    i < j /\ IsSdp(out["local"][i]) /\ out["local"][j].kind = "mode"

\* From the moment both SDPs are out, a thread is on its way to the announcement
\* until it is made: one that finds the drain claimed leaves it to the claimant.
OnItsWay == Ahead \cup Draining \cup {"sendMode"}
AnnounceInv ==
  /\ connected => BothSent
  /\ processing /\ ~Crashed => \E t \in Negotiators : pc[t] \in Draining
  /\ BothSent /\ ~raced /\ ~Crashed =>
       Announced \/ \E t \in Negotiators : pc[t] \in OnItsWay

\* A call keeps what was announced; a mode behind an SDP is an announcement.
LEMMA AnnounceAppend ==
  ASSUME out \in [Sides -> Seq(Message)], NEW to \in Sides, NEW m \in Message,
         out' = [out EXCEPT ![to] = Append(@, m)]
  PROVE  /\ Announced => Announced'
         /\ to = "local" /\ m.kind = "mode" /\ Opened("local") => Announced'
<1> DEFINE q == out["local"]
<1>1. CASE to # "local"
  BY <1>1 DEF Announced
<1>2. CASE to = "local"
  <2>1. q \in Seq(Message) /\ out'["local"] = Append(q, m)
    BY <1>2
  <2>2. /\ DOMAIN Append(q, m) = 1 .. Len(q) + 1
        /\ DOMAIN q = 1 .. Len(q) /\ Len(q) \in Nat
        /\ Append(q, m)[Len(q) + 1] = m
        /\ \A i \in DOMAIN q : Append(q, m)[i] = q[i]
    <3> HIDE DEF q
    <3> QED
      BY <2>1
  <2>3. Announced => Announced'
    BY <2>1, <2>2 DEF Announced
  <2>4. ASSUME m.kind = "mode", Opened("local") PROVE Announced'
    <3>1. PICK i \in DOMAIN q : IsSdp(q[i])
      BY <2>4 DEF Opened
    <3>2. i < Len(q) + 1 /\ i \in 1 .. Len(q) + 1 /\ Len(q) + 1 \in 1 .. Len(q) + 1
      BY <2>2, <3>1
    <3> QED
      BY <2>1, <2>2, <2>4, <3>1, <3>2 DEF Announced
  <2> QED
    BY <2>3, <2>4
<1> QED
  BY <1>1, <1>2

\* A step that keeps the flags keeps AnnounceInv if its thread stays on its way.
LEMMA AnnounceKept ==
  ASSUME TypeOK, AnnounceInv, UNCHANGED <<sent, connected, processing>>, raced => raced',
         NEW t \in Threads, NEW label, Goto(t, label), pc[t] # "crashed",
         Announced /\ ~raced' => Announced',
         pc[t] \in Draining => label \in Draining,
         pc[t] \in OnItsWay /\ BothSent /\ ~raced' =>
           label \in OnItsWay \/ Announced' \/ \E u \in Negotiators \ {t} : pc[u] \in OnItsWay
  PROVE  AnnounceInv'
<1>1. /\ pc'[t] = label /\ \A u \in Threads \ {t} : pc'[u] = pc[u]
      /\ Negotiators \subseteq Threads
  BY DEF TypeOK, Goto, Threads, Negotiators
<1>2. (Crashed => Crashed') /\ (BothSent' <=> BothSent)
  BY <1>1 DEF Crashed, BothSent
<1>3. (\E u \in Negotiators : pc[u] \in Draining)
        => \E u \in Negotiators : pc'[u] \in Draining
  BY <1>1
<1>4. ASSUME BothSent, ~raced', ~Crashed', ~Announced'
      PROVE  \E u \in Negotiators : pc'[u] \in OnItsWay
  <2>1. PICK u \in Negotiators : pc[u] \in OnItsWay
    BY <1>2, <1>4 DEF AnnounceInv
  <2> QED
    BY <1>1, <1>4, <2>1
<1> QED
  BY <1>2, <1>3, <1>4 DEF AnnounceInv

LEMMA AnnounceInvHolds == Spec => []AnnounceInv
<1>1. Init => AnnounceInv
  BY DEF Init, AnnounceInv, BothSent, Sides
<1>2. TypeOK /\ GateInv /\ AnnounceInv /\ [Next]_vars => AnnounceInv'
  <2> SUFFICES ASSUME TypeOK, GateInv, AnnounceInv, [Next]_vars PROVE AnnounceInv'
    OBVIOUS
  <2> USE DEF negotiation, video, sdkSource, history
  <2>0. /\ Negotiators \subseteq Threads /\ Threads = {"ui", "ws", "sdk"}
        /\ pc \in [Threads -> Labels] /\ side \in [Threads -> Sides]
        /\ sent \in [Sides -> BOOLEAN] /\ processing \in BOOLEAN /\ raced \in BOOLEAN
        /\ out \in [Sides -> Seq(Message)]
        /\ Sides = {"local", "remote"}
    BY DEF Threads, Negotiators, TypeOK, Sides
  <2>1. ASSUME NEW t \in Negotiators, NEW to \in Sides, NEW m \in Message, Push(t, to, m)
        PROVE  /\ raced => raced'
               /\ Announced /\ ~raced' => Announced'
               /\ ~raced' /\ to = "local" /\ m.kind = "mode" /\ Opened("local") => Announced'
    <3>1. raced => raced'
      BY <2>1, Zenon DEF Push
    <3>2. CASE ~raced'
      BY <2>0, <2>1, <3>1, <3>2, PushRecords, AnnounceAppend
    <3> QED
      BY <3>1, <3>2
  <2>2. out' = out => (Announced' <=> Announced)
    BY DEF Announced
  <2>3. ASSUME NEW t \in Negotiators, TestSdp(t) PROVE AnnounceInv'
    <3>1. /\ pc[t] = "testSdp" /\ UNCHANGED <<sent, connected, processing, raced, out>>
          /\ \E label \in {"sendSdp", "testSdp", "testDrain"} : Goto(t, label)
      BY <2>0, <2>3 DEF TestSdp, AfterSdp
    <3> QED
      BY <2>0, <2>2, <3>1, AnnounceKept DEF OnItsWay, Ahead, Draining
  <2>4. ASSUME NEW t \in Negotiators, SendSdp(t) PROVE AnnounceInv'
    <3> DEFINE m == [kind |-> SdpKind(side[t]), sdp |-> sdp[side[t]]]
    <3>1. m \in Message
      BY <2>0 DEF Message, Told, SdpKind, TypeOK
    <3>2. /\ pc[t] = "sendSdp" /\ UNCHANGED <<sent, connected, processing>>
          /\ Goto(t, "markSdp") /\ Push(t, side[t], m)
      BY <2>4 DEF SendSdp
    <3> HIDE DEF m
    <3>3. (raced => raced') /\ (Announced /\ ~raced' => Announced')
      BY <2>0, <2>1, <3>1, <3>2
    <3> QED
      BY <2>0, <3>2, <3>3, AnnounceKept DEF OnItsWay, Ahead, Draining
  <2>5. ASSUME NEW t \in Negotiators, MarkSdp(t) PROVE AnnounceInv'
    <3>1. /\ pc[t] = "markSdp" /\ UNCHANGED <<connected, processing, raced, out>>
          /\ BothSent => BothSent'
          /\ \E label \in {"testSdp", "testDrain"} : Goto(t, label)
      BY <2>0, <2>5 DEF MarkSdp, AfterSdp, BothSent
    <3>2. /\ pc'[t] \in OnItsWay /\ \A u \in Threads \ {t} : pc'[u] = pc[u]
          /\ (Crashed => Crashed')
      BY <2>0, <3>1 DEF Goto, OnItsWay, Ahead, Crashed
    <3>3. \A u \in Negotiators : pc[u] \in Draining => pc'[u] \in Draining
      BY <2>0, <3>1, <3>2 DEF Draining
    <3> QED
      BY <3>1, <3>2, <3>3 DEF AnnounceInv
  <2>6. ASSUME NEW t \in Negotiators, TestDrain(t) PROVE AnnounceInv'
    <3>1. /\ pc[t] = "testDrain" /\ UNCHANGED <<sent, connected, processing, raced, out>>
          /\ Goto(t, IF BothSent /\ ~processing THEN "claim" ELSE "testConnected")
      BY <2>0, <2>6 DEF TestDrain
    <3>2. CASE Crashed
      <4>1. Crashed'
        BY <2>0, <3>1, <3>2 DEF Crashed, Goto
      <4> QED
        BY <3>1, <4>1 DEF AnnounceInv, BothSent
    <3>3. CASE ~Crashed
      <4>1. BothSent /\ processing => \E u \in Negotiators \ {t} : pc[u] \in OnItsWay
        BY <3>1, <3>3 DEF AnnounceInv, OnItsWay, Draining
      <4> QED
        BY <2>0, <2>2, <3>1, <4>1, AnnounceKept DEF OnItsWay, Ahead, Draining
    <3> QED
      BY <3>2, <3>3
  <2>7. ASSUME NEW t \in Negotiators, Claim(t) PROVE AnnounceInv'
    <3>1. /\ pc[t] = "claim" /\ UNCHANGED <<sent, connected, out>>
          /\ Goto(t, "testQueue")
      BY <2>0, <2>7 DEF Claim
    <3>2. pc'[t] \in Draining
      BY <2>0, <3>1 DEF Draining, Goto
    <3> QED
      BY <2>0, <3>1, <3>2 DEF AnnounceInv, OnItsWay, BothSent
  <2>8. ASSUME NEW t \in Negotiators, TestQueue(t) PROVE AnnounceInv'
    <3>1. /\ pc[t] = "testQueue" /\ UNCHANGED <<sent, connected, processing, raced, out>>
          /\ \E label \in {"front", "testQueue", "release"} : Goto(t, label)
      <4>1. CASE UNCHANGED pc
        BY <2>0, <2>8, <4>1 DEF TestQueue, Goto
      <4> QED
        BY <2>0, <2>8, <4>1 DEF TestQueue
    <3> QED
      BY <2>0, <2>2, <3>1, AnnounceKept DEF OnItsWay, Draining
  <2>9. ASSUME NEW t \in Negotiators, Front(t) \/ Pop(t) PROVE AnnounceInv'
    <3>1. CASE Crash
      BY <2>0, <2>9, <3>1 DEF Front, Pop, Crash, Crashed, AnnounceInv, BothSent
    <3>2. CASE ~Crash
      <4>1. /\ pc[t] \in {"front", "pop"}
            /\ UNCHANGED <<sent, connected, processing, raced, out>>
            /\ \E label \in {"pop", "sendCandidate"} : Goto(t, label)
        BY <2>9, <3>2 DEF Front, Pop
      <4> QED
        BY <2>0, <2>2, <4>1, AnnounceKept DEF OnItsWay, Draining
    <3> QED
      BY <3>1, <3>2
  <2>10. ASSUME NEW t \in Negotiators, SendCandidate(t) PROVE AnnounceInv'
    <3> DEFINE m == [kind |-> "candidate", val |-> held[t]]
    <3>1. m \in Message
      BY <2>0 DEF Message, TypeOK
    <3>2. /\ pc[t] = "sendCandidate" /\ UNCHANGED <<sent, connected, processing>>
          /\ Goto(t, "testQueue") /\ Push(t, side[t], m)
      BY <2>10 DEF SendCandidate
    <3> HIDE DEF m
    <3>3. (raced => raced') /\ (Announced /\ ~raced' => Announced')
      BY <2>0, <2>1, <3>1, <3>2
    <3> QED
      BY <2>0, <3>2, <3>3, AnnounceKept DEF OnItsWay, Draining
  <2>11. ASSUME NEW t \in Negotiators, Release(t) PROVE AnnounceInv'
    <3>1. /\ pc[t] = "release" /\ UNCHANGED <<sent, connected, raced, out>>
          /\ Goto(t, "sendMode") /\ processing' = FALSE
      BY <2>0, <2>11 DEF Release
    <3>2. pc'[t] \in OnItsWay
      BY <2>0, <3>1 DEF OnItsWay, Goto
    <3> QED
      BY <2>0, <3>1, <3>2 DEF AnnounceInv, BothSent
  <2>12. ASSUME NEW t \in Negotiators, SendMode(t) PROVE AnnounceInv'
    <3> DEFINE m == [kind |-> "mode", mode |-> videoMode]
    <3>1. m \in Message /\ m.kind = "mode"
      BY DEF Message, Told, TypeOK
    <3>2. /\ pc[t] = "sendMode" /\ UNCHANGED <<sent, connected, processing>>
          /\ Goto(t, "testConnected") /\ Push(t, "local", m)
      BY <2>12 DEF SendMode
    <3> HIDE DEF m
    <3>3. /\ raced => raced'
          /\ Announced /\ ~raced' => Announced'
          /\ ~raced' /\ Opened("local") => Announced'
      BY <2>0, <2>1, <3>1, <3>2
    <3>4. BothSent /\ ~raced' => Announced'
      BY <2>0, <3>3 DEF GateInv, BothSent
    <3> QED
      BY <2>0, <3>2, <3>3, <3>4, AnnounceKept DEF Draining
  <2>13. ASSUME NEW t \in Negotiators, TestConnected(t) PROVE AnnounceInv'
    <3>1. /\ pc[t] = "testConnected" /\ UNCHANGED <<sent, processing, raced, out>>
          /\ Goto(t, "idle") /\ (connected' => connected \/ BothSent)
      BY <2>0, <2>13 DEF TestConnected
    <3>2. /\ \A u \in Negotiators : pc[u] \in OnItsWay => pc'[u] = pc[u]
          /\ (Crashed => Crashed') /\ Draining \subseteq OnItsWay
      BY <2>0, <3>1 DEF Goto, OnItsWay, Ahead, Draining, Crashed
    <3> QED
      BY <2>2, <3>1, <3>2 DEF AnnounceInv, BothSent
  <2>14. ASSUME NEW t \in Negotiators, NEW s \in Sides, NEW type, NEW c,
                NewSdp(t, s, type, c) \/ NewCandidate(t, s, c)
         PROVE  AnnounceInv'
    <3>1. /\ pc[t] = "idle" /\ Goto(t, "testSdp")
          /\ UNCHANGED <<sent, connected, processing, out>>
          /\ raced' = raced \/ raced' = TRUE
      BY <2>14 DEF NewSdp, NewCandidate, Enter
    <3>2. raced => raced'
      BY <2>0, <3>1
    <3> QED
      BY <2>0, <2>2, <3>1, <3>2, AnnounceKept DEF OnItsWay, Ahead, Draining
  <2>15. CASE onLocalIceCandidateCb \/ onIceCandidateCb
    BY <2>14, <2>15 DEF onLocalIceCandidateCb, onIceCandidateCb, Negotiators, Sides
  <2>16. CASE Crash /\ UNCHANGED <<negotiation, side, held, out, skipped, raced>>
    BY <2>0, <2>16 DEF Crash, Crashed, AnnounceInv, BothSent
  <2>17. CASE Aside
    <3>1. PICK t \in Threads, label \in AsideLabels :
            pc[t] \in AsideLabels /\ pc' = [pc EXCEPT ![t] = label]
      BY <2>17 DEF Aside
    <3>2. UNCHANGED <<sent, connected, processing>> /\ (raced => raced')
      BY <2>17 DEF Aside
    <3>3. Announced => Announced'
      BY <2>0, <2>2, <2>17, AnnounceAppend DEF Aside, Message
    <3> QED
      BY <3>1, <3>2, <3>3, AnnounceKept DEF OnItsWay, Ahead, Draining, AsideLabels, Goto
  <2>18. CASE UNCHANGED vars
    BY <2>18 DEF vars, AnnounceInv, Announced, BothSent, Crashed
  <2> QED
    BY <2>3, <2>4, <2>5, <2>6, <2>7, <2>8, <2>9, <2>10, <2>11, <2>12, <2>13, <2>14,
       <2>15, <2>16, <2>17, <2>18, Steps DEF handleMessages
<1> QED
  BY <1>1, <1>2, TypeCorrect, GateInvHolds, PTL DEF Spec

\* MainWindow starts sending frames on connectionInitialized.  It is set only once
\* both SDPs are out, and when the callbacks have returned the server knows the
\* video mode, whichever of the two threads got to announce it.
THEOREM ConnectedHolds == Spec => []ConnectedMeansAnnounced
<1>1. TypeOK /\ GateInv /\ AnnounceInv => ConnectedMeansAnnounced
  <2>1. Quiet => ~Crashed /\ \A t \in Negotiators : pc[t] \notin OnItsWay
    BY DEF Quiet, Crashed, OnItsWay, Ahead, Draining, Negotiators, Threads
  <2> QED
    BY <2>1 DEF ConnectedMeansAnnounced, AnnounceInv, GateInv, BothSent, Announced, Opened,
                Sides
<1> QED
  BY <1>1, AnnounceInvHolds, GateInvHolds, TypeCorrect, PTL
=============================================================================
