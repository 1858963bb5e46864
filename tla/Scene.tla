-------------------------------- MODULE Scene --------------------------------
(***************************************************************************)
(* The scene: one pass of MainWindow::_render() after another, on the      *)
(* window's thread.  A pass handles the window's events, offers the        *)
(* sensors, has SceneRenderer draw and send the sensor's frame (Frames)    *)
(* and then draw the video stream (Video).  Beside it run the sensor's     *)
(* device and frame threads, the WebRTC thread, and the thread that        *)
(* decodes the video.                                                      *)
(***************************************************************************)
EXTENDS Frames, Video

CONSTANTS
  VideoFrames,   \* how many frames a stream has, by sensor (bounds the model)
  MaxResizes     \* how often the window is resized, by sensor (bounds the model)

ASSUME StreamAssumption == {VideoFrames, MaxResizes} \subseteq [Choices -> Nat]

vars == <<frameVars, videoVars>>

Init == FramesInit /\ VideoInit

-----------------------------------------------------------------------------

\* SDL_WINDOWEVENT_RESIZED.
ResizeWindow ==
  /\ ui = "idle" /\ place <= MaxResizes[sensor]
  /\ setPosition
  /\ UNCHANGED frameVars

DrawVideo ==
  /\ ui = "video" /\ Draw
  /\ UNCHANGED frameVars

\* The buffers are swapped; SDL_Delay.
SwapWindow ==
  /\ ui = "video" /\ draw = "done"
  /\ ui' = "idle" /\ draw' = "idle"
  /\ UNCHANGED <<sensorVars, renderer, textures, images, capture, geometry, videoFrame,
                 videoNew, frameMtx, decoder, incoming, screen>>

Stream(s) ==
  /\ incoming.n < VideoFrames[sensor]
  /\ OnFrame(incoming.n + 1, s)
  /\ UNCHANGED frameVars

Window ==
  \/ Render /\ UNCHANGED <<capture, videoVars>>
  \/ DrawVideo \/ SwapWindow

Next ==
  \/ FramesNext /\ UNCHANGED videoVars
  \/ ResizeWindow \/ DrawVideo \/ SwapWindow
  \/ (\E s \in Sizes : Stream(s))
  \/ Decode /\ UNCHANGED frameVars

Spec == Init /\ [][Next]_vars

\* The threads run.  A mutex is held while one picture is copied, and asked for
\* again a frame later: whoever waits for it gets it.  The devices, the streams
\* and the user are free to do nothing.
Fairness ==
  /\ WF_vars(Window)
  /\ SF_vars(LockScreen /\ ui = "video" /\ UNCHANGED frameVars)
  /\ WF_vars(Decode /\ UNCHANGED frameVars)
  /\ SF_vars(LockFrame /\ UNCHANGED frameVars)
  /\ WF_vars(Wait /\ UNCHANGED videoVars)
  /\ \A f \in FrameThreads :
       /\ WF_vars(FrameStep(f) /\ UNCHANGED <<textures, ui, images, capture, videoVars>>)
       /\ SF_vars(Lock(f) /\ UNCHANGED <<renderer, textures, ui, images, capture, videoVars>>)

FairSpec == Spec /\ Fairness

-----------------------------------------------------------------------------
(* Correctness: the properties of Frames and Video, of the whole. *)

TypeOK == FramesTypeOK /\ VideoTypeOK

\* Liveness: every frame of a stream is shown, or a later one is, although the
\* thread that decodes and the one that draws wait for each other.
StreamIsShown == \A p \in Choices : \A n \in 1 .. VideoFrames[p] : FrameShown(n)
=============================================================================
