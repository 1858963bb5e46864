-------------------------------- MODULE Peer --------------------------------
(***************************************************************************)
(* One end of a call: a Manager and the Conductor it drives.  What the     *)
(* Manager calls on m_sdk is the Conductor's inbox; what the Conductor     *)
(* reports enters the Manager on the WebRTC thread, which handles nothing  *)
(* else until the callback has returned.                                   *)
(*                                                                         *)
(* The other end and the server are the environment.  They follow the      *)
(* protocol: the peer that opened the room is sent an offer, the peer that *)
(* entered it makes one and is sent the answer, and the other end has      *)
(* candidates only once the negotiation has begun.                         *)
(***************************************************************************)
EXTENDS Manager

CONSTANTS Role,         \* "opener" or "enterer" of the room
          MaxGathered

ASSUME RoleAssumption == Role \in {"opener", "enterer"}

VARIABLES taken, peer, created, stream, signaling, hasRemote, creating, gathered,
          added, dropped, frames, down,
          late,        \* history: the source changed when the local stream
                       \* was open already
          lost         \* history: an older selection was passed on behind the
                       \* last one, or the stream opened when the SDK had
                       \* forgotten what it was told

Sdk == INSTANCE Conductor WITH inbox <- out["remote"], source <- dataSource

engineVars == <<taken, peer, created, stream, signaling, hasRemote, creating, gathered,
                added, dropped, frames, down>>
fate == <<late, lost>>
peerVars == <<vars, engineVars, fate>>

PeerInit == Init /\ Sdk!Init /\ late = FALSE /\ lost = FALSE

-----------------------------------------------------------------------------

\* The Conductor, once there is one, works while its thread is not inside the
\* Manager.
SdkIdle == pc["sdk"] = "idle" /\ conductor

\* A stream it opens captures from the SDK's source.
SdkTakes ==
  /\ SdkIdle
  /\ Sdk!Wait /\ Dequeue
  /\ lost' = (lost \/ (stream' # stream /\ forgotten))
  /\ UNCHANGED late

SdkStep == SdkTakes \/ (SdkIdle /\ Sdk!OnFailure /\ UNCHANGED <<vars, fate>>)

SdkReports ==
  /\ \/ \E type \in {"offer", "answer"} : Sdk!OnSuccess(type) /\ onLocalSdpCb(type)
     \/ Sdk!OnIceCandidate /\ onLocalIceCandidateCb
  /\ UNCHANGED fate

Offered == \E i \in DOMAIN out["local"] : out["local"][i].kind = "offer"
\* The window opens a room once, so the room is entered once at most.
Entered == calls["onInitCall"] = 0 /\ onInitCall
Offer == onSdpOfferCb
Answer == Offered /\ onSdpAnswerCb

Signal ==
  /\ \/ Role = "enterer" /\ (Entered \/ Answer \/ (Offered /\ onIceCandidateCb))
     \/ Role = "opener" /\ (Offer \/ (sdp["remote"] # NoSdp /\ onIceCandidateCb))
  /\ UNCHANGED <<engineVars, fate>>

User ==
  /\ \/ \E source \in Sources : setDeviceName(source)
     \/ toggleVideo \/ StartSending \/ newFrame
  /\ UNCHANGED <<engineVars, fate>>

PeerRun(t) ==
  /\ Run(t)
  /\ late' = (late \/ (stream # "none" /\ dataSource' # stream))
  /\ lost' = (lost \/ (pc[t] = "setSource" /\ chosen[t] # deviceType))
  /\ UNCHANGED engineVars

PeerNext ==
  /\ ~down
  /\ SdkStep \/ SdkReports \/ Signal \/ User \/ \E t \in Threads : PeerRun(t)

PeerSpec == PeerInit /\ [][PeerNext]_peerVars

\* Threads are scheduled, and the WebRTC thread keeps calling Wait.
PeerFairness ==
  /\ \A t \in Threads : WF_peerVars(~down /\ PeerRun(t))
  /\ WF_peerVars(~down /\ SdkTakes)

FairPeerSpec == PeerSpec /\ PeerFairness

-----------------------------------------------------------------------------
(* Correctness *)

Failed == down \/ Crashed

\* The peer connection refuses a candidate that comes before its remote
\* description, and nobody offers it again.  The order in which the Manager
\* calls is enough: none is ever refused, and they are added as they came.
CandidatesAreAdded ==
  ~raced =>
    /\ dropped = <<>>
    /\ \A i \in DOMAIN added : added[i] = i

\* RTC_DCHECK at the head of InitializePeerConnection: there is no peer
\* connection yet.  A session makes one, on the first message that needs it: an
\* enterer is sent no SDP before INIT_SM, which comes once, and an opener no
\* INIT_SM at all.
OnePeerConnection == created <= 1

\* Every SDP goes to the server the way it was made: an offer as room/offer, an
\* answer as the reply to the peer's offer, although m_calling is set on the
\* signalling thread and the SDP comes from the WebRTC thread.
SdpSentAsMade ==
  \A i \in DOMAIN out["local"] :
    LET msg == out["local"][i]
    IN msg.kind \in {"offer", "answer"} => msg.kind = msg.sdp.type

\* Every frame the Conductor is passed finds m_alVideoCapturer, which it uses
\* without a look at it: the stream was opened before the call was connected, and
\* from the sensor.  Unless the source changed after that, or the selection of
\* the sensor was lost on its way to the SDK: no Conductor was there to hear it,
\* or onInitCall passed an older one on behind it.
FramesFindCapturer ==
  ~late /\ ~lost => \A i \in DOMAIN out["remote"] :
    out["remote"][i].kind = "frame" => stream = "IMG_SNAPSHOTS"

\* Liveness: once both SDPs are known, every remote candidate that arrived ends
\* up in the peer connection, unless a handler skipped it, the threads raced, or
\* the program is gone.
CandidatesArrive ==
  (\A s \in Sides : sdp[s] # NoSdp)
    ~> ((\A k \in 1 .. Arrived("remote") : \E i \in DOMAIN added : added[i] = k)
          \/ skipped \/ raced \/ Failed)
=============================================================================
