------------------------------ MODULE Conductor ------------------------------
(***************************************************************************)
(* The WebRTC side of a call (altexosdk): the message queue of AlSdkPlugin *)
(* is read by CustomSocketServer::Wait, one message each time the WebRTC   *)
(* thread would sleep, and acted on by the Conductor, which owns the peer  *)
(* connection.  Everything here runs on that one thread.                   *)
(*                                                                         *)
(* The peer connection itself is external: what SetRemoteDescription,      *)
(* CreateAnswer, AddIceCandidate and their completions do is modelled by   *)
(* the signalling state they depend on.  The other peer's descriptions and *)
(* candidates are ones that parse.  `inbox' (every message ever pushed)    *)
(* and `source' belong to the threads that call the plugin; the actions    *)
(* below only read them.                                                   *)
(***************************************************************************)
EXTENDS Naturals, Sequences

CONSTANT MaxGathered   \* local candidates a session gathers (bounds the model)

VARIABLES
  inbox,      \* what was pushed on m_messageQueue
  source,     \* m_desiredVideoSource
  taken,      \* how many of inbox were dequeued
  peer,       \* m_peerConnection is not NULL
  created,    \* history: peer connections created
  stream,     \* what the local stream captures; m_alVideoCapturer # NULL if
              \* it is "IMG_SNAPSHOTS"
  signaling,  \* external: the signalling state of the peer connection
  hasRemote,  \* external: it has a remote description
  creating,   \* external: descriptions being created, first to complete first
  gathered,   \* external: local candidates found
  added,      \* candidates the peer connection accepted
  dropped,    \* candidates it refused: AddIceCandidate returned false
  frames,     \* frames passed to the capturer
  down        \* the program crashed on a null pointer

engine == <<taken, peer, created, stream, signaling, hasRemote, creating, gathered,
            added, dropped, frames, down>>

Signaling == {"stable", "have-local-offer", "have-remote-offer"}

Init ==
  /\ taken = 0
  /\ peer = FALSE
  /\ created = 0
  /\ stream = "none"
  /\ signaling = "stable"
  /\ hasRemote = FALSE
  /\ creating = <<>>
  /\ gathered = 0
  /\ added = <<>>
  /\ dropped = <<>>
  /\ frames = 0
  /\ down = FALSE

-----------------------------------------------------------------------------
(* InitializePeerConnection(), which does not look for a peer connection    *)
(* that exists already: that is an RTC_DCHECK, compiled out of releases.    *)

\* The local stream is opened once, from the source desired then.
AddStreams == stream' = IF stream = "none" THEN source ELSE stream

Connect ==
  /\ peer' = TRUE
  /\ created' = created + 1
  /\ AddStreams
  /\ UNCHANGED down

\* There is no factory, and it returns; or the factory makes no peer connection,
\* and AddStreams() uses it all the same if it has a stream to add.
FailToConnect ==
  /\ \/ UNCHANGED <<peer, down, signaling, hasRemote, creating>>
     \/ /\ peer' = FALSE
        /\ down' = (stream = "none")
        /\ signaling' = "stable" /\ hasRemote' = FALSE /\ creating' = <<>>
  /\ UNCHANGED <<created, stream>>

NextMessage(kind) ==
  /\ ~down
  /\ taken < Len(inbox)
  /\ inbox[taken + 1].kind = kind
  /\ taken' = taken + 1

\* INIT_SM: a new peer connection, asked for an offer.
OnInit ==
  /\ NextMessage("init")
  /\ \/ /\ Connect
        /\ signaling' = "stable"
        /\ hasRemote' = FALSE
        /\ creating' = Append(creating, "offer")
     \/ FailToConnect
  /\ UNCHANGED <<gathered, added, dropped, frames>>

-----------------------------------------------------------------------------
(* OnMessageFromPeer(): a message makes the peer connection if need be, and *)
(* is dropped if that fails.                                                *)

Ensure == IF peer THEN UNCHANGED <<peer, created, stream, down>> ELSE Connect

Accepts(type) ==
  IF type = "offer" THEN signaling # "have-local-offer"
                    ELSE signaling = "have-local-offer"

\* SetRemoteDescription, whose error nobody looks at; then, for an offer,
\* CreateAnswer in any case.
OnSdp ==
  /\ NextMessage("sdp")
  /\ LET type == inbox[taken + 1].sdp.type
     IN \/ /\ Ensure
           /\ IF Accepts(type)
              THEN /\ signaling' = (IF type = "offer" THEN "have-remote-offer"
                                                     ELSE "stable")
                   /\ hasRemote' = TRUE
              ELSE UNCHANGED <<signaling, hasRemote>>
           /\ creating' = IF type = "offer" THEN Append(creating, "answer") ELSE creating
        \/ ~peer /\ FailToConnect
  /\ UNCHANGED <<gathered, added, dropped, frames>>

\* AddIceCandidate, whose failure nobody looks at either.
OnCandidate ==
  /\ NextMessage("candidate")
  /\ LET candidate == inbox[taken + 1].val
     IN \/ /\ Ensure
           /\ IF hasRemote
              THEN added' = Append(added, candidate) /\ UNCHANGED dropped
              ELSE dropped' = Append(dropped, candidate) /\ UNCHANGED added
           /\ UNCHANGED <<signaling, hasRemote, creating>>
        \/ ~peer /\ FailToConnect /\ UNCHANGED <<added, dropped>>
  /\ UNCHANGED <<gathered, frames>>

\* NEW_FRAME_SM: m_alVideoCapturer is used without a look at it.
OnFrame ==
  /\ NextMessage("frame")
  /\ IF stream = "IMG_SNAPSHOTS"
     THEN frames' = frames + 1 /\ UNCHANGED down
     ELSE down' = TRUE /\ UNCHANGED frames
  /\ UNCHANGED <<peer, created, stream, signaling, hasRemote, creating, gathered,
                 added, dropped>>

Wait == OnInit \/ OnSdp \/ OnCandidate \/ OnFrame

-----------------------------------------------------------------------------
(* Completions that call back into the Manager. *)

\* A description was made: it is set as the local one (an error is ignored) and
\* passed on.
OnSuccess(type) ==
  /\ ~down /\ peer
  /\ creating # <<>> /\ Head(creating) = type
  /\ creating' = Tail(creating)
  /\ signaling' =
       IF type = "offer" /\ signaling = "stable" THEN "have-local-offer"
       ELSE IF type = "answer" /\ signaling = "have-remote-offer" THEN "stable"
       ELSE signaling
  /\ UNCHANGED <<taken, peer, created, stream, hasRemote, gathered, added, dropped,
                 frames, down>>

\* It could not be made.  Nothing retries: the call stays where it is.
OnFailure ==
  /\ ~down /\ peer
  /\ creating # <<>>
  /\ creating' = Tail(creating)
  /\ UNCHANGED <<taken, peer, created, stream, signaling, hasRemote, gathered, added,
                 dropped, frames, down>>

\* Gathering starts with the local description.
OnIceCandidate ==
  /\ ~down /\ peer
  /\ (signaling = "have-local-offer" \/ (signaling = "stable" /\ hasRemote))
  /\ gathered < MaxGathered
  /\ gathered' = gathered + 1
  /\ UNCHANGED <<taken, peer, created, stream, signaling, hasRemote, creating, added,
                 dropped, frames, down>>

=============================================================================
