------------------------------- MODULE Manager -------------------------------
(***************************************************************************)
(* The call hand-off of al_core: class Manager, between the signalling     *)
(* client (m_wsClient) and the WebRTC plugin (m_sdk).                      *)
(*                                                                         *)
(* Three threads enter a Manager and no lock protects it:                  *)
(*   ui   the SDL loop of MainWindow: setDeviceName, toggleVideo, and the  *)
(*        frames it pushes on m_sdk once connectionInitialized is set;     *)
(*   ws   the libwebsockets service loop: the AlWsCb callbacks;            *)
(*   sdk  the WebRTC thread: the AlSDKCb callbacks.                        *)
(* The ws and sdk callbacks end in handleMessages(), which the two threads *)
(* may run at the same time.  It is modelled one access to shared state    *)
(* per step, so that every interleaving of its tests and assignments is a  *)
(* behaviour.  The local and the remote half of handleMessages() have the  *)
(* same text; they are one set of actions over Sides.                      *)
(*                                                                         *)
(* A call made by the Manager on m_wsClient or m_sdk ends in a push on an  *)
(* unsynchronised std::queue of that component, and the candidates wait in *)
(* two more.  Two accesses that change such a queue may fall one after the *)
(* other or overlap, and then what was pushed may be lost.  `raced'        *)
(* records that two of them overlapped, or that two drain loops did; what  *)
(* a torn queue does later is not modelled.                                *)
(*                                                                         *)
(* The SDK here has its Manager (AlSdkPlugin::m_manager) from the start:   *)
(* Lifecycle models the calls that come before.  Its Conductor comes later *)
(* and what the SDK is told in between is forgotten.                       *)
(***************************************************************************)
EXTENDS Naturals, Sequences, FiniteSets

CONSTANT MaxCalls   \* how often each callback may be entered (bounds the model)

Sides == {"local", "remote"}
Threads == {"ui", "ws", "sdk"}
Negotiators == {"ws", "sdk"}        \* the threads that run handleMessages
Sources == {"CAMERA", "IMG_SNAPSHOTS"}
Modes == {"MODE_2D", "MODE_3D", "MODE_NONE"}
ModeOf(source) == IF source = "CAMERA" THEN "MODE_2D" ELSE "MODE_3D"

Callbacks == {"onSdpOfferCb", "onSdpAnswerCb", "onIceCandidateCb", "onInitCall",
              "onLocalSdpCb", "onLocalIceCandidateCb",
              "setDeviceName", "toggleVideo", "newFrame"}

ASSUME CallsAssumption == MaxCalls \in [Callbacks -> Nat]

VARIABLES
  sdp,         \* m_localSdp and m_remoteSdp
  sent,        \* m_sentLocalSdp and m_sentRemoteSdp
  candidates,  \* m_localCandidates and m_remoteCandidates
  processing,  \* m_processingCandidates
  calling,     \* m_calling
  connected,   \* connectionInitialized
  isOn,        \* m_videoSetting.isOn
  videoMode,   \* m_videoSetting.videoMode
  deviceType,  \* m_videoDeviceType
  dataSource,  \* m_desiredVideoSource of the SDK's data manager
  conductor,   \* m_conductor of AlManager is set
  forgotten,   \* history: the SDK had no Conductor when it was told a source
               \* last
  sending,     \* SceneRenderer::sendingFrames
  pc,          \* where each thread is
  side,        \* which half of handleMessages it is in
  held,        \* the candidate it has read from a queue, 0 for none
  chosen,      \* the source it is passing to the SDK, or passed on last
  out,         \* calls made: "local" on m_wsClient, "remote" on m_sdk
  calls,       \* history: how often each callback was entered
  skipped,     \* history: a handler found m_processingCandidates set since
               \* the last drain began
  raced        \* history: unsynchronised accesses to one queue overlapped

negotiation == <<sdp, sent, candidates, processing, calling, connected>>
sdkSource == <<dataSource, conductor, forgotten>>
video == <<isOn, videoMode, deviceType, sdkSource, sending>>
history == <<calls, skipped, raced>>
vars == <<sdp, sent, candidates, processing, calling, connected,
          isOn, videoMode, deviceType, dataSource, conductor, forgotten, sending,
          pc, side, held, chosen, out, calls, skipped, raced>>

\* A session description: how it was made, and which one of its side it is.
NoSdp == [type |-> "none", n |-> 0]
Sdp == [type : {"none", "offer", "answer"}, n : Nat]

\* On m_wsClient: an SDP as an offer or an answer, candidates, video modes.
\* On m_sdk: the start of a call, an SDP, candidates, frames.
Told == [kind : {"offer", "answer", "sdp"}, sdp : Sdp]
          \cup [kind : {"mode"}, mode : Modes]
          \cup [kind : {"init", "frame"}]
Message == Told \cup [kind : {"candidate"}, val : Nat]

Init ==
  /\ sdp = [s \in Sides |-> NoSdp]
  /\ sent = [s \in Sides |-> FALSE]
  /\ candidates = [s \in Sides |-> <<>>]
  /\ processing = FALSE
  /\ calling = FALSE
  /\ connected = FALSE
  /\ isOn = TRUE
  /\ videoMode = "MODE_2D"
  /\ deviceType = "CAMERA"
  /\ dataSource = "CAMERA"
  /\ conductor = FALSE
  /\ forgotten = FALSE
  /\ sending = FALSE
  /\ pc = [t \in Threads |-> "idle"]
  /\ side = [t \in Threads |-> "local"]
  /\ held = [t \in Threads |-> 0]
  /\ chosen = [t \in Threads |-> "none"]
  /\ out = [s \in Sides |-> <<>>]
  /\ calls = [c \in Callbacks |-> 0]
  /\ skipped = FALSE
  /\ raced = FALSE

-----------------------------------------------------------------------------
(* Threads and the unsynchronised containers they share. *)

Goto(t, label) == pc' = [pc EXCEPT ![t] = label]
Hold(t, candidate) == held' = [held EXCEPT ![t] = candidate]
Choose(t, source) == chosen' = [chosen EXCEPT ![t] = source]

Enter(t, callback) ==
  /\ pc[t] = "idle"
  /\ calls[callback] < MaxCalls[callback]
  /\ calls' = [calls EXCEPT ![callback] = @ + 1]

\* The program ends: an exception nobody catches, or a pop on an empty queue.
Crash == pc' = [t \in Threads |-> "crashed"]
Crashed == \E t \in Threads : pc[t] = "crashed"

\* The component whose message queue thread t is pushing on.
Pushing(t) ==
  CASE pc[t] \in {"sendSdp", "sendCandidate"} -> side[t]
    [] pc[t] \in {"sendMode", "sendToggle"} -> "local"
    [] pc[t] \in {"sendInit", "sendFrame"} -> "remote"
    [] OTHER -> "none"

\* A call that pushes msg on the queue of a component.
Push(t, to, msg) ==
  \/ /\ out' = [out EXCEPT ![to] = Append(@, msg)]
     /\ UNCHANGED raced
  \/ /\ \E u \in Threads \ {t} : Pushing(u) = to
     /\ raced' = TRUE
     /\ \/ out' = [out EXCEPT ![to] = Append(@, msg)]
        \/ out' = out

\* Another thread is taking a candidate of side s from its queue.
Popping(t, s) ==
  \E u \in Negotiators \ {t} : pc[u] \in {"front", "pop"} /\ side[u] = s

\* How many SDPs and how many candidates have come for side s.
Received(s) ==
  IF s = "local" THEN calls["onLocalSdpCb"]
                 ELSE calls["onSdpOfferCb"] + calls["onSdpAnswerCb"]
Arrived(s) ==
  calls[IF s = "local" THEN "onLocalIceCandidateCb" ELSE "onIceCandidateCb"]

\* From the local half of handleMessages() to the remote one, then on.
AfterSdp(t) ==
  IF side[t] = "local"
  THEN side' = [side EXCEPT ![t] = "remote"] /\ Goto(t, "testSdp")
  ELSE side' = [side EXCEPT ![t] = "local"] /\ Goto(t, "testDrain")

-----------------------------------------------------------------------------
(* Faulty variants of definitions below: what a slip in this code would     *)
(* look like.  No specification uses them; each property is known to fail   *)
(* when one of them takes the place of the definition it is named after.    *)

\* BothSent, of one SDP only.
EitherSent == \E s \in Sides : sent[s]
LocalSent == sent["local"]

\* MarkSdp that forgets the flag.
MarkSdpNever(t) ==
  /\ pc[t] = "markSdp"
  /\ AfterSdp(t)
  /\ UNCHANGED <<negotiation, video, chosen, held, out, history>>

\* TestQueue that ends the drain at the local queue.
TestQueueLocal(t) ==
  /\ pc[t] = "testQueue"
  /\ Goto(t, IF candidates["local"] = <<>> THEN "release" ELSE "front")
  /\ UNCHANGED <<negotiation, video, chosen, side, held, out, history>>

\* Front that reads back().
FrontOfBack(t) ==
  /\ pc[t] = "front"
  /\ candidates[side[t]] # <<>>
  /\ Hold(t, candidates[side[t]][Len(candidates[side[t]])])
  /\ Goto(t, "pop")
  /\ UNCHANGED <<negotiation, video, chosen, side, out, history>>

\* Pop left out.
PopNothing(t) ==
  /\ pc[t] = "pop"
  /\ Goto(t, "sendCandidate")
  /\ UNCHANGED <<negotiation, video, chosen, side, held, out, history>>

\* Release that skips userMode().
ReleaseOnly(t) ==
  /\ pc[t] = "release"
  /\ processing' = FALSE
  /\ Goto(t, "testConnected")
  /\ UNCHANGED <<sdp, sent, candidates, calling, connected, video, chosen, side, held,
                 out, history>>

\* NewSdp that clears the sent flag, for the peers to negotiate again.
NewSdpAgain(t, s, type, callback) ==
  /\ Enter(t, callback)
  /\ sdp' = [sdp EXCEPT ![s] = [type |-> type, n |-> Received(s) + 1]]
  /\ sent' = [sent EXCEPT ![s] = FALSE]
  /\ Goto(t, "testSdp")
  /\ UNCHANGED <<candidates, processing, calling, connected, video, chosen, side, held,
                 out, skipped, raced>>

\* onInitCall without m_calling.
onInitCallUnmarked ==
  /\ Enter("ws", "onInitCall")
  /\ Goto("ws", "readSource")
  /\ UNCHANGED <<negotiation, video, chosen, side, held, out, skipped, raced>>

\* SetMode without the call of _initVideoDevice().
SetModeOnly ==
  /\ pc["ui"] = "setMode"
  /\ videoMode' = ModeOf(deviceType)
  /\ Goto("ui", "idle")
  /\ UNCHANGED <<negotiation, isOn, deviceType, sdkSource, sending, side, held, out,
                 history, chosen>>

\* ReadSource without the argument.
ReadSourceUnset(t) ==
  /\ pc[t] = "readSource"
  /\ Goto(t, "setSource")
  /\ UNCHANGED <<negotiation, video, side, held, out, history, chosen>>

\* StartSending that does not wait for the connection.
StartSendingEarly ==
  /\ pc["ui"] = "idle"
  /\ ~sending /\ deviceType = "IMG_SNAPSHOTS"
  /\ sending' = TRUE
  /\ UNCHANGED <<negotiation, isOn, videoMode, deviceType, sdkSource, pc, side,
                 held, chosen, out, history>>

-----------------------------------------------------------------------------
(* handleMessages(), first part: hand each SDP over once. *)

BothSent == \A s \in Sides : sent[s]

TestSdp(t) ==
  /\ pc[t] = "testSdp"
  /\ IF ~sent[side[t]] /\ sdp[side[t]] # NoSdp
     THEN Goto(t, "sendSdp") /\ UNCHANGED side
     ELSE AfterSdp(t)
  /\ UNCHANGED <<negotiation, video, chosen, held, out, history>>

SdpKind(s) == IF s = "remote" THEN "sdp" ELSE IF calling THEN "offer" ELSE "answer"

SendSdp(t) ==
  /\ pc[t] = "sendSdp"
  /\ Push(t, side[t], [kind |-> SdpKind(side[t]), sdp |-> sdp[side[t]]])
  /\ Goto(t, "markSdp")
  /\ UNCHANGED <<negotiation, video, chosen, side, held, calls, skipped>>

MarkSdp(t) ==
  /\ pc[t] = "markSdp"
  /\ sent' = [sent EXCEPT ![side[t]] = TRUE]
  /\ AfterSdp(t)
  /\ UNCHANGED <<sdp, candidates, processing, calling, connected, video, chosen, held,
                 out, history>>

-----------------------------------------------------------------------------
(* handleMessages(), second part: drain both candidate queues. *)

Draining == {"testQueue", "front", "pop", "sendCandidate", "release"}

TestDrain(t) ==
  /\ pc[t] = "testDrain"
  /\ Goto(t, IF BothSent /\ ~processing THEN "claim" ELSE "testConnected")
  /\ skipped' = (skipped \/ (BothSent /\ processing))
  /\ UNCHANGED <<negotiation, video, chosen, side, held, out, calls, raced>>

Claim(t) ==
  /\ pc[t] = "claim"
  /\ processing' = TRUE
  /\ skipped' = FALSE
  /\ raced' = (raced \/ \E u \in Negotiators \ {t} : pc[u] \in Draining)
  /\ Goto(t, "testQueue")
  /\ UNCHANGED <<sdp, sent, candidates, calling, connected, video, chosen, side, held,
                 out, calls>>

TestQueue(t) ==
  /\ pc[t] = "testQueue"
  /\ \/ /\ candidates[side[t]] # <<>>
        /\ Goto(t, "front")
        /\ UNCHANGED side
     \/ /\ candidates[side[t]] = <<>>
        /\ side[t] = "local"
        /\ side' = [side EXCEPT ![t] = "remote"]
        /\ UNCHANGED pc
     \/ /\ candidates[side[t]] = <<>>
        /\ side[t] = "remote"
        /\ side' = [side EXCEPT ![t] = "local"]
        /\ Goto(t, "release")
  /\ UNCHANGED <<negotiation, video, chosen, held, out, history>>

Front(t) ==
  /\ pc[t] = "front"
  /\ IF candidates[side[t]] = <<>>
     THEN Crash /\ UNCHANGED held
     ELSE Hold(t, Head(candidates[side[t]])) /\ Goto(t, "pop")
  /\ UNCHANGED <<negotiation, video, chosen, side, out, history>>

Pop(t) ==
  /\ pc[t] = "pop"
  /\ IF candidates[side[t]] = <<>>
     THEN Crash /\ UNCHANGED candidates
     ELSE /\ candidates' = [candidates EXCEPT ![side[t]] = Tail(@)]
          /\ Goto(t, "sendCandidate")
  /\ UNCHANGED <<sdp, sent, processing, calling, connected, video, chosen, side, held,
                 out, history>>

SendCandidate(t) ==
  /\ pc[t] = "sendCandidate"
  /\ Push(t, side[t], [kind |-> "candidate", val |-> held[t]])
  /\ Hold(t, 0)
  /\ Goto(t, "testQueue")
  /\ UNCHANGED <<negotiation, video, chosen, side, calls, skipped>>

Release(t) ==
  /\ pc[t] = "release"
  /\ processing' = FALSE
  /\ Goto(t, "sendMode")
  /\ UNCHANGED <<sdp, sent, candidates, calling, connected, video, chosen, side, held,
                 out, history>>

\* "since we have connection - set desired video mode"
SendMode(t) ==
  /\ pc[t] = "sendMode"
  /\ Push(t, "local", [kind |-> "mode", mode |-> videoMode])
  /\ Goto(t, "testConnected")
  /\ UNCHANGED <<negotiation, video, chosen, side, held, calls, skipped>>

TestConnected(t) ==
  /\ pc[t] = "testConnected"
  /\ connected' = (connected \/ (BothSent /\ \A s \in Sides : candidates[s] = <<>>))
  /\ Goto(t, "idle")
  /\ UNCHANGED <<sdp, sent, candidates, processing, calling, video, chosen, side, held,
                 out, history>>

handleMessages(t) ==
  \/ TestSdp(t) \/ SendSdp(t) \/ MarkSdp(t)
  \/ TestDrain(t) \/ Claim(t) \/ TestQueue(t) \/ Front(t) \/ Pop(t)
  \/ SendCandidate(t) \/ Release(t) \/ SendMode(t) \/ TestConnected(t)

-----------------------------------------------------------------------------
(* The callbacks that feed handleMessages(). *)

NewSdp(t, s, type, callback) ==
  /\ Enter(t, callback)
  /\ sdp' = [sdp EXCEPT ![s] = [type |-> type, n |-> Received(s) + 1]]
  /\ Goto(t, "testSdp")
  /\ UNCHANGED <<sent, candidates, processing, calling, connected, video, chosen, side,
                 held, out, skipped, raced>>

NewCandidate(t, s, callback) ==
  /\ Enter(t, callback)
  /\ \/ /\ candidates' = [candidates EXCEPT ![s] = Append(@, Arrived(s) + 1)]
        /\ UNCHANGED raced
     \/ /\ Popping(t, s)
        /\ raced' = TRUE
        /\ \/ candidates' = [candidates EXCEPT ![s] = Append(@, Arrived(s) + 1)]
           \/ UNCHANGED candidates
  /\ Goto(t, "testSdp")
  /\ UNCHANGED <<sdp, sent, processing, calling, connected, video, chosen, side, held,
                 out, skipped>>

onSdpOfferCb == NewSdp("ws", "remote", "offer", "onSdpOfferCb")
onIceCandidateCb == NewCandidate("ws", "remote", "onIceCandidateCb")
onLocalSdpCb(type) == conductor /\ NewSdp("sdk", "local", type, "onLocalSdpCb")
onLocalIceCandidateCb ==
  conductor /\ NewCandidate("sdk", "local", "onLocalIceCandidateCb")

\* An error reply to room/offer is passed on as an answer: it has no "result",
\* pt.get throws, and nothing between here and the service loop catches it.
onSdpAnswerCb ==
  \/ NewSdp("ws", "remote", "answer", "onSdpAnswerCb")
  \/ /\ Enter("ws", "onSdpAnswerCb")
     /\ Crash
     /\ UNCHANGED <<negotiation, video, chosen, side, held, out, skipped, raced>>

-----------------------------------------------------------------------------
(* Starting a call and choosing the video source. *)

onInitCall ==
  /\ Enter("ws", "onInitCall")
  /\ calling' = TRUE
  /\ Goto("ws", "readSource")
  /\ UNCHANGED <<sdp, sent, candidates, processing, connected, video, chosen, side, held,
                 out, skipped, raced>>

setDeviceName(source) ==
  /\ Enter("ui", "setDeviceName")
  /\ deviceType' = source
  /\ Goto("ui", "setMode")
  /\ UNCHANGED <<negotiation, isOn, videoMode, sdkSource, sending, side, held, out,
                 skipped, raced, chosen>>

SetMode ==
  /\ pc["ui"] = "setMode"
  /\ videoMode' = ModeOf(deviceType)
  /\ Goto("ui", "readSource")
  /\ UNCHANGED <<negotiation, isOn, deviceType, sdkSource, sending, side, held, out,
                 history, chosen>>

\* _initVideoDevice(): the argument is evaluated, then the call stores it.
ReadSource(t) ==
  /\ pc[t] = "readSource"
  /\ Choose(t, deviceType)
  /\ Goto(t, "setSource")
  /\ UNCHANGED <<negotiation, video, side, held, out, history>>

\* "checking just for debug": without a Conductor the source is forgotten.
SetSource(t) ==
  /\ pc[t] = "setSource"
  /\ dataSource' = IF conductor THEN chosen[t] ELSE dataSource
  /\ forgotten' = ~conductor
  /\ Goto(t, IF t = "ws" THEN "sendInit" ELSE "idle")
  /\ UNCHANGED <<negotiation, isOn, videoMode, deviceType, conductor, sending, chosen,
                 side, held, out, history>>

SendInit ==
  /\ pc["ws"] = "sendInit"
  /\ Push("ws", "remote", [kind |-> "init"])
  /\ Goto("ws", "idle")
  /\ UNCHANGED <<negotiation, video, chosen, side, held, calls, skipped>>

toggleVideo ==
  /\ Enter("ui", "toggleVideo")
  /\ isOn' = ~isOn
  /\ Goto("ui", "sendToggle")
  /\ UNCHANGED <<negotiation, videoMode, deviceType, sdkSource, sending, side, held, out,
                 skipped, raced, chosen>>

SendToggle ==
  /\ pc["ui"] = "sendToggle"
  /\ Push("ui", "local",
          [kind |-> "mode", mode |-> IF isOn THEN videoMode ELSE "MODE_NONE"])
  /\ Goto("ui", "idle")
  /\ UNCHANGED <<negotiation, video, chosen, side, held, calls, skipped>>

-----------------------------------------------------------------------------
(* The WebRTC thread between the callbacks it makes. *)

SetConductor ==
  /\ pc["sdk"] = "idle"
  /\ ~conductor
  /\ conductor' = TRUE
  /\ UNCHANGED <<negotiation, isOn, videoMode, deviceType, dataSource, forgotten,
                 sending, pc, side, held, chosen, out, history>>

\* It takes a message of the SDK's queue, which `out' keeps for the record: what
\* remains of that queue, and what is done with the message, is Conductor's.
Dequeue ==
  /\ pc["sdk"] = "idle"
  /\ conductor /\ out["remote"] # <<>>
  /\ \/ UNCHANGED raced
     \/ (\E t \in Threads : Pushing(t) = "remote") /\ raced' = TRUE
  /\ UNCHANGED <<negotiation, video, pc, side, held, chosen, out, calls, skipped>>

-----------------------------------------------------------------------------
(* The frames of the UI loop. *)

\* "has to be called once": connects the frames of SceneRenderer to the SDK.
StartSending ==
  /\ pc["ui"] = "idle"
  /\ ~sending /\ connected /\ deviceType = "IMG_SNAPSHOTS"
  /\ sending' = TRUE
  /\ UNCHANGED <<negotiation, isOn, videoMode, deviceType, sdkSource, pc, side,
                 held, chosen, out, history>>

newFrame ==
  /\ sending
  /\ Enter("ui", "newFrame")
  /\ Goto("ui", "sendFrame")
  /\ UNCHANGED <<negotiation, video, side, held, chosen, out, skipped, raced>>

SendFrame ==
  /\ pc["ui"] = "sendFrame"
  /\ Push("ui", "remote", [kind |-> "frame"])
  /\ Goto("ui", "idle")
  /\ UNCHANGED <<negotiation, video, side, held, chosen, calls, skipped>>

-----------------------------------------------------------------------------

\* What a thread does inside a callback it has entered.
Run(t) ==
  \/ t \in Negotiators /\ handleMessages(t)
  \/ t # "sdk" /\ (ReadSource(t) \/ SetSource(t))
  \/ t = "ws" /\ SendInit
  \/ t = "ui" /\ (SetMode \/ SendToggle \/ SendFrame)
  \/ t = "sdk" /\ SetConductor

Call ==
  \/ onSdpOfferCb \/ onSdpAnswerCb \/ onIceCandidateCb \/ onInitCall
  \/ \E type \in {"offer", "answer"} : onLocalSdpCb(type)
  \/ onLocalIceCandidateCb
  \/ \E source \in Sources : setDeviceName(source)
  \/ toggleVideo \/ StartSending \/ newFrame

Next == Call \/ Dequeue \/ \E t \in Threads : Run(t)

Spec == Init /\ [][Next]_vars

\* The operating system schedules every thread; nobody has to make a call.
Fairness == \A t \in Threads : WF_vars(Run(t))

FairSpec == Spec /\ Fairness

-----------------------------------------------------------------------------
(* Correctness *)

Labels == {"idle", "crashed", "testSdp", "sendSdp", "markSdp", "testDrain",
           "claim", "testConnected", "sendMode", "setMode", "readSource",
           "setSource", "sendInit", "sendToggle", "sendFrame"} \cup Draining

TypeOK ==
  /\ sdp \in [Sides -> Sdp] /\ sent \in [Sides -> BOOLEAN]
  /\ candidates \in [Sides -> Seq(Nat)]
  /\ processing \in BOOLEAN /\ calling \in BOOLEAN /\ connected \in BOOLEAN
  /\ isOn \in BOOLEAN /\ videoMode \in Modes
  /\ deviceType \in Sources /\ dataSource \in Sources
  /\ conductor \in BOOLEAN /\ forgotten \in BOOLEAN /\ sending \in BOOLEAN
  /\ pc \in [Threads -> Labels] /\ side \in [Threads -> Sides]
  /\ held \in [Threads -> Nat] /\ chosen \in [Threads -> Sources \cup {"none"}]
  /\ \A t \in Threads : pc[t] = "setSource" => chosen[t] # "none"
  /\ out \in [Sides -> Seq(Message)]
  /\ calls \in [Callbacks -> Nat]
  /\ skipped \in BOOLEAN /\ raced \in BOOLEAN

Quiet == \A t \in Threads : pc[t] = "idle"
IsSdp(msg) == msg.kind \in {"offer", "answer", "sdp"}
IsCandidate(msg) == msg.kind = "candidate"

\* A peer connection takes candidates only after a description.  Whatever the
\* interleaving of the two handleMessages() runs, no candidate overtakes the
\* SDP of its side, on the way to the server or to the SDK.
SdpBeforeCandidates ==
  ~raced => \A s \in Sides : \A i \in DOMAIN out[s] :
              IsCandidate(out[s][i]) => \E j \in 1 .. i - 1 : IsSdp(out[s][j])

\* The candidates of side s that were accepted and not yet passed on: in the
\* hands of a thread between pop() and the call, then those in the queue.
InHand(s) == {t \in Negotiators : pc[t] = "sendCandidate" /\ side[t] = s}
Pending(s) ==
  IF InHand(s) = {} THEN candidates[s]
                    ELSE <<held[CHOOSE t \in InHand(s) : TRUE]>> \o candidates[s]
Passed(s) == Arrived(s) - Len(Pending(s))

\* The candidates of side s leave once each, in the order they came; those that
\* have not left yet wait in that order.
Ordered(s) ==
  /\ Passed(s) \in Nat
  /\ Pending(s) = [i \in 1 .. Len(Pending(s)) |-> Passed(s) + i]
  /\ \A k \in 1 .. Passed(s) : \E i \in DOMAIN out[s] :
       IsCandidate(out[s][i]) /\ out[s][i].val = k
  /\ \A i, j \in DOMAIN out[s] :
       i < j /\ IsCandidate(out[s][i]) /\ IsCandidate(out[s][j])
         => out[s][i].val < out[s][j].val
  /\ \A i \in DOMAIN out[s] :
       IsCandidate(out[s][i]) => out[s][i].val \in 1 .. Passed(s)

\* As long as no two drains overlap, candidates are passed on exactly once and
\* in the order they arrived: the rest waits, in order, and nothing is lost.  (A
\* program that ends has lost the candidate a thread had in its hands.)
CandidatesInOrder == ~raced /\ ~Crashed => \A s \in Sides : Ordered(s)

\* When no callback is running and both SDPs were handed over, a candidate can
\* only be left behind because a handler returned on m_processingCandidates:
\* the flags themselves never let both threads miss that the other SDP went out.
StrandedOnlyBySkip ==
  Quiet /\ BothSent /\ ~skipped => \A s \in Sides : candidates[s] = <<>>

\* The sent flags are set after the call, so both threads may hand over one
\* SDP; they never do so more often than once each.
OneSdpPerThread ==
  \A s \in Sides :
    Cardinality({i \in DOMAIN out[s] : IsSdp(out[s][i])}) <= Cardinality(Negotiators)

\* MainWindow starts sending frames on connectionInitialized: by then both SDPs
\* are on their way, and once the callbacks have returned the server has been
\* told a video mode after the local SDP.
ConnectedMeansAnnounced ==
  connected /\ Quiet /\ ~raced =>
    /\ \E i \in DOMAIN out["remote"] : IsSdp(out["remote"][i])
    /\ \E i, j \in DOMAIN out["local"] :
         i < j /\ IsSdp(out["local"][i]) /\ out["local"][j].kind = "mode"

\* The user selects a source on one thread while onInitCall passes the selection
\* on from another, through an SDK that forgets what it is told too early.  When
\* neither is at it, the SDK captures from the device selected last, with two
\* exceptions: it had no Conductor when it was told, or onInitCall had read an
\* older selection and stored that one last.
SourceIsSelected ==
  pc["ui"] \notin {"setMode", "readSource", "setSource", "crashed"}
    /\ pc["ws"] # "setSource"
      => dataSource = deviceType \/ forgotten \/ dataSource = chosen["ws"]

\* A user who switched the video off is not announced as sending any: with no
\* callback running, the last mode told to the server is then "none".
VideoOffAnnounced ==
  Quiet /\ ~raced /\ ~isOn =>
    \E i \in DOMAIN out["local"] :
      /\ out["local"][i] = [kind |-> "mode", mode |-> "MODE_NONE"]
      /\ \A j \in i + 1 .. Len(out["local"]) : out["local"][j].kind # "mode"

\* No thread will hand an SDP of side s over: one went out and none is on its way.
Settled(s) ==
  sent[s] /\ \A t \in Negotiators : ~(pc[t] \in {"sendSdp", "markSdp"} /\ side[t] = s)

StaysSettled(s) ==
  Settled(s) => /\ Settled(s)'
                /\ \A i \in DOMAIN out'[s] \ DOMAIN out[s] : ~IsSdp(out'[s][i])

\* A side of the call is negotiated once.  Whatever SDPs the peer or the SDK come
\* up with later, and whichever thread looks at them, a settled side stays settled
\* and none of them is handed over.
NoRenegotiation == [][\A s \in Sides : StaysSettled(s)]_vars

\* Liveness: once both SDPs are known, and as callbacks stop coming, every
\* candidate that arrived at either side is passed on, unless a handler skipped
\* the drain or the threads raced.
CandidatesHandedOver ==
  (\A s \in Sides : sdp[s] # NoSdp)
    ~> ((\A s \in Sides : Pending(s) = <<>>) \/ skipped \/ raced \/ Crashed)

=============================================================================
