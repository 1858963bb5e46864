------------------------------- MODULE MCPeer -------------------------------
(***************************************************************************)
(* Instances of Peer for TLC.                                              *)
(***************************************************************************)
EXTENDS Peer

Limit(f) == [c \in Callbacks |-> IF c \in DOMAIN f THEN f[c] ELSE 0]

\* The peer that entered the room: it offers and is answered.  The user may have
\* chosen a sensor, and then frames are sent.
MCEnterer == Limit(
  [onInitCall |-> 1, onLocalSdpCb |-> 1, onSdpAnswerCb |-> 1,
   onIceCandidateCb |-> 1, setDeviceName |-> 1, newFrame |-> 1])

\* The peer that opened the room: it is offered a call, twice, and answers.
MCOpener == Limit(
  [onSdpOfferCb |-> 2, onLocalSdpCb |-> 2,
   onLocalIceCandidateCb |-> 1, onIceCandidateCb |-> 2])

\* Small enough to check liveness.
MCLiveness == Limit(
  [onInitCall |-> 1, onLocalSdpCb |-> 1, onSdpAnswerCb |-> 1,
   onLocalIceCandidateCb |-> 1, onIceCandidateCb |-> 1])
=============================================================================
