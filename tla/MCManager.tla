------------------------------ MODULE MCManager ------------------------------
(***************************************************************************)
(* Instances of Manager for TLC: which callbacks come, and how often; and  *)
(* the refinement mapping to Handoff, once for each direction.             *)
(***************************************************************************)
EXTENDS Manager

CallLimit(f) == [c \in Callbacks |-> IF c \in DOMAIN f THEN f[c] ELSE 0]

\* Both SDPs, and candidates from both ends; the server may answer once more,
\* with an error.
MCNegotiation == CallLimit(
  [onLocalSdpCb |-> 1, onSdpAnswerCb |-> 2,
   onLocalIceCandidateCb |-> 1, onIceCandidateCb |-> 2])

\* The user changes the source and switches the video while the call starts.
MCVideo == CallLimit(
  [onInitCall |-> 1, onLocalSdpCb |-> 1, onSdpAnswerCb |-> 1,
   setDeviceName |-> 2, toggleVideo |-> 1, newFrame |-> 1])

-----------------------------------------------------------------------------

ToServer == INSTANCE Handoff WITH
  taken <- Arrived("local"), waiting <- Pending("local"),
  passed <- out["local"], broken <- raced \/ Crashed

ToSdk == INSTANCE Handoff WITH
  taken <- Arrived("remote"), waiting <- Pending("remote"),
  passed <- out["remote"], broken <- raced \/ Crashed

\* Each direction of the Manager, with its threads interleaved in every way,
\* keeps the promise of Handoff.
LocalHandoff == ToServer!Spec
RemoteHandoff == ToSdk!Spec
=============================================================================
