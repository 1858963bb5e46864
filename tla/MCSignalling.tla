---------------------------- MODULE MCSignalling ----------------------------
(***************************************************************************)
(* Instances of Signalling for TLC.                                        *)
(***************************************************************************)
EXTENDS Signalling

Limit(f) == [o \in Operations |-> IF o \in DOMAIN f THEN f[o] ELSE 0]

\* A whole session, with a connection that fails.
MCSession == Limit(
  [roomOpen |-> 1, sendSdpOffer |-> 2, sendSdpAnswer |-> 1, send |-> 1,
   offer |-> 1, iceCandidate |-> 1, fault |-> 1])

\* The peer that opened the room is offered two calls.
MCTwoOffers == Limit([roomOpen |-> 1, sendSdpAnswer |-> 1, offer |-> 2])

\* A room is opened while the connection fails.
MCFault == Limit([roomOpen |-> 1, sendSdpOffer |-> 1, send |-> 1, fault |-> 2])
=============================================================================
