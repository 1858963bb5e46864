----------------------------- MODULE VideoProofs -----------------------------
(***************************************************************************)
(* What holds of the video stream in every Scene, for every set of sizes,  *)
(* however many frames come and however often the window is resized.       *)
(***************************************************************************)
EXTENDS Scene, TLAPS

\* Every step of the scene is one of these for the stream, or leaves it alone.
VideoStep ==
  \/ \E n \in Nat \ {0}, s \in Sizes : OnFrame(n, s)
  \/ Decode \/ Draw \/ setPosition
  \/ /\ draw = "done" /\ draw' = "idle"
     /\ UNCHANGED <<geometry, videoFrame, videoNew, frameMtx, decoder, incoming, screen>>

\* What a step of the scene does to the stream.
LEMMA Steps ==
  ASSUME VideoTypeOK, [Next]_vars
  PROVE  [VideoStep]_videoVars
<1>1. ASSUME NEW s \in Sizes, Stream(s) PROVE VideoStep
  <2>1. incoming.n + 1 \in Nat \ {0}
    BY DEF VideoTypeOK, Frame
  <2> QED
    BY <1>1, <2>1 DEF Stream, VideoStep
<1>2. CASE ResizeWindow
  BY <1>2 DEF ResizeWindow, VideoStep
<1>3. CASE DrawVideo
  BY <1>3 DEF DrawVideo, VideoStep
<1>4. CASE SwapWindow
  BY <1>4 DEF SwapWindow, VideoStep
<1>5. CASE Decode
  BY <1>5 DEF VideoStep
<1>6. CASE UNCHANGED videoVars
  BY <1>6
<1>7. CASE UNCHANGED vars
  BY <1>7 DEF vars
<1> QED
  BY <1>1, <1>2, <1>3, <1>4, <1>5, <1>6, <1>7 DEF Next

-----------------------------------------------------------------------------

\* Types, and who holds m_remoteFrameMtx: the thread that is between its lock
\* and its unlock, through every interleaving of decoding and drawing.
THEOREM VideoTypeCorrect == Spec => []VideoTypeOK
<1>1. Init => VideoTypeOK
  <2>1. NoSize \in [Dimensions -> Nat]
    BY DEF NoSize
  <2>2. /\ NoFrame \in Frame
        /\ [size |-> NoSize, place |-> 1] \in [size : [Dimensions -> Nat], place : Nat]
    BY <2>1 DEF NoFrame, Frame
  <2> QED
    BY <2>1, <2>2 DEF Init, VideoInit, VideoTypeOK, DecoderLabels, DrawLabels, Dimensions
<1>2. VideoTypeOK /\ [Next]_vars => VideoTypeOK'
  <2> SUFFICES ASSUME VideoTypeOK, [Next]_vars
               PROVE  VideoTypeOK'
    OBVIOUS
  <2> USE DEF VideoTypeOK, Frame, DecoderLabels, DrawLabels, Dimensions, geometry
  <2>1. ASSUME NEW n \in Nat \ {0}, NEW s \in Sizes, OnFrame(n, s) PROVE VideoTypeOK'
    <3>1. SizeOf(s) \in [Dimensions -> Nat]
      BY VideoAssumption DEF SizeOf
    <3> QED
      BY <2>1, <3>1 DEF OnFrame
  <2>2. CASE LockFrame
    BY <2>2 DEF LockFrame
  <2>3. ASSUME NEW d \in Dimensions, SetSize(d) PROVE VideoTypeOK'
    BY <2>3 DEF SetSize
  <2>4. CASE ResizeFrame
    BY <2>4 DEF ResizeFrame
  <2>5. CASE CopyFrame
    BY <2>5 DEF CopyFrame
  <2>6. CASE FinishFrame
    BY <2>6 DEF FinishFrame
  <2>7. CASE TestUpdate
    BY <2>7 DEF TestUpdate
  <2>8. CASE ReadPlace
    BY <2>8 DEF ReadPlace
  <2>9. ASSUME NEW d \in Dimensions, ReadSize(d) PROVE VideoTypeOK'
    BY <2>9 DEF ReadSize
  <2>10. CASE TestFrame
    BY <2>10 DEF TestFrame
  <2>11. CASE LockScreen
    BY <2>11 DEF LockScreen
  <2>12. CASE UploadFrame
    BY <2>12 DEF UploadFrame
  <2>13. CASE Unlock
    BY <2>13 DEF Unlock
  <2>14. CASE setPosition
    BY <2>14 DEF setPosition
  <2>15. CASE /\ draw = "done" /\ draw' = "idle"
              /\ UNCHANGED <<geometry, videoFrame, videoNew, frameMtx, decoder, incoming,
                             screen>>
    BY <2>15
  <2>16. CASE UNCHANGED videoVars
    BY <2>16 DEF videoVars
  <2> QED
    BY Steps, <2>1, <2>2, <2>3, <2>4, <2>5, <2>6, <2>7, <2>8, <2>9, <2>10, <2>11, <2>12,
       <2>13, <2>14, <2>15, <2>16 DEF VideoStep, Decode, Draw
<1> QED
  BY <1>1, <1>2, PTL DEF Spec

-----------------------------------------------------------------------------
(* ShownWhole: the frame, its size and the flags that lead to an upload. *)

\* Between a resize and its end the size is ahead of the frame; otherwise the
\* frame has the size it is uploaded with.
SizesAgree ==
  /\ decoder = "height" => size["width"] = incoming.size["width"]
  /\ decoder = "resize" => size = incoming.size
  /\ decoder \notin {"height", "resize"} => videoFrame.size = size

\* A frame that was announced is there, but while the next is copied over it.
FrameIsThere ==
  /\ decoder # "idle" => incoming.n # 0
  /\ videoNew /\ decoder \notin {"copy", "finish"} => videoFrame.n # 0
  /\ draw \in {"lock", "upload"} => videoNew

WholeInv == SizesAgree /\ FrameIsThere /\ ShownWhole

\* setSize() changes the size in steps, and the frame at the end of them.
LEMMA SizesAgreeStep ==
  ASSUME VideoTypeOK, SizesAgree, [VideoStep]_videoVars
  PROVE  SizesAgree'
<1> USE DEF SizesAgree, VideoTypeOK, Frame, Dimensions, geometry
<1>1. ASSUME NEW n \in Nat \ {0}, NEW s \in Sizes, OnFrame(n, s) PROVE SizesAgree'
  BY <1>1 DEF OnFrame
<1>2. CASE LockFrame
  BY <1>2 DEF LockFrame
<1>3. ASSUME NEW d \in Dimensions, SetSize(d) PROVE SizesAgree'
  BY <1>3 DEF SetSize
<1>4. CASE ResizeFrame
  BY <1>4 DEF ResizeFrame
<1>5. CASE CopyFrame
  BY <1>5 DEF CopyFrame
<1>6. CASE FinishFrame
  BY <1>6 DEF FinishFrame
<1>7. CASE Draw
  BY <1>7 DEF Draw, TestUpdate, ReadPlace, ReadSize, TestFrame, LockScreen, UploadFrame,
              Unlock
<1>8. CASE setPosition
  BY <1>8 DEF setPosition
<1>9. CASE UNCHANGED <<size, decoder, incoming, videoFrame>>
  BY <1>9
<1> QED
  BY <1>1, <1>2, <1>3, <1>4, <1>5, <1>6, <1>7, <1>8, <1>9 DEF VideoStep, Decode, videoVars

\* Only a complete copy is announced.
LEMMA FrameIsThereStep ==
  ASSUME VideoTypeOK, FrameIsThere, [VideoStep]_videoVars
  PROVE  FrameIsThere'
<1> USE DEF FrameIsThere, VideoTypeOK, Frame, Dimensions, geometry
<1>1. ASSUME NEW n \in Nat \ {0}, NEW s \in Sizes, OnFrame(n, s) PROVE FrameIsThere'
  BY <1>1 DEF OnFrame
<1>2. CASE LockFrame
  BY <1>2 DEF LockFrame
<1>3. ASSUME NEW d \in Dimensions, SetSize(d) PROVE FrameIsThere'
  BY <1>3 DEF SetSize
<1>4. CASE ResizeFrame
  BY <1>4 DEF ResizeFrame
<1>5. CASE CopyFrame
  BY <1>5 DEF CopyFrame
<1>6. CASE FinishFrame
  BY <1>6 DEF FinishFrame
<1>7. CASE Draw
  BY <1>7 DEF Draw, TestUpdate, ReadPlace, ReadSize, TestFrame, LockScreen, UploadFrame,
              Unlock
<1>8. CASE setPosition
  BY <1>8 DEF setPosition
<1>9. CASE draw' = "idle" /\ UNCHANGED <<decoder, incoming, videoFrame, videoNew>>
  BY <1>9
<1>10. CASE UNCHANGED videoVars
  BY <1>10 DEF videoVars
<1> QED
  BY <1>1, <1>2, <1>3, <1>4, <1>5, <1>6, <1>7, <1>8, <1>9, <1>10 DEF VideoStep, Decode

\* Only an upload changes the screen, and the mutex lets it see no other frame
\* than an announced one.
LEMMA ShownWholeStep ==
  ASSUME VideoTypeOK, WholeInv, [VideoStep]_videoVars
  PROVE  ShownWhole'
<1> USE DEF WholeInv, ShownWhole, geometry
<1>1. CASE UploadFrame
  <2>1. decoder \notin {"height", "resize", "copy", "finish"}
    BY <1>1 DEF UploadFrame, VideoTypeOK, Dimensions
  <2>2. size = videoFrame.size /\ videoFrame.n # 0
    BY <1>1, <2>1 DEF UploadFrame, SizesAgree, FrameIsThere
  <2> QED
    BY <1>1, <2>2 DEF UploadFrame
<1>2. CASE UNCHANGED screen
  BY <1>2
<1> QED
  BY <1>1, <1>2 DEF VideoStep, videoVars, OnFrame, Decode, LockFrame, SetSize, ResizeFrame,
     CopyFrame, FinishFrame, Draw, TestUpdate, ReadPlace, ReadSize, TestFrame, LockScreen,
     Unlock, setPosition

\* What is on the screen is a whole frame in the size it came in, however the
\* decoding and the drawing thread interleave.
THEOREM WholeFrames == Spec => []ShownWhole
<1>1. Init => WholeInv
  BY DEF Init, VideoInit, WholeInv, SizesAgree, FrameIsThere, ShownWhole, NoFrame
<1>2. VideoTypeOK /\ WholeInv /\ [Next]_vars => WholeInv'
  BY Steps, SizesAgreeStep, FrameIsThereStep, ShownWholeStep DEF WholeInv
<1>3. WholeInv => ShownWhole
  BY DEF WholeInv
<1> QED
  BY <1>1, <1>2, <1>3, VideoTypeCorrect, PTL DEF Spec

-----------------------------------------------------------------------------
(* GeometryKept: what _updateVertices has read so far is still right. *)

GeometryInv ==
  ~updateSize /\ decoder \notin {"height", "resize"} =>
    /\ draw # "place" => vertices.place = place
    /\ draw \notin {"place", "width"} => vertices.size["width"] = size["width"]
    /\ draw \notin {"place", "width", "height"} =>
         vertices.size["height"] = size["height"]

\* Either thread leaves the geometry to the one that is drawing it.
LEMMA GeometryStep ==
  ASSUME VideoTypeOK, GeometryInv, [VideoStep]_videoVars
  PROVE  GeometryInv'
<1> USE DEF GeometryInv, VideoTypeOK, Dimensions, geometry
<1>1. ASSUME NEW n \in Nat \ {0}, NEW s \in Sizes, OnFrame(n, s) PROVE GeometryInv'
  BY <1>1 DEF OnFrame
<1>2. CASE LockFrame
  BY <1>2 DEF LockFrame
<1>3. ASSUME NEW d \in Dimensions, SetSize(d) PROVE GeometryInv'
  BY <1>3 DEF SetSize
<1>4. CASE ResizeFrame
  BY <1>4 DEF ResizeFrame
<1>5. CASE CopyFrame
  BY <1>5 DEF CopyFrame
<1>6. CASE FinishFrame
  BY <1>6 DEF FinishFrame
<1>7. CASE TestUpdate
  BY <1>7 DEF TestUpdate
<1>8. CASE ReadPlace
  BY <1>8 DEF ReadPlace
<1>9. ASSUME NEW d \in Dimensions, ReadSize(d) PROVE GeometryInv'
  BY <1>9 DEF ReadSize
<1>10. CASE TestFrame \/ LockScreen \/ UploadFrame \/ Unlock
  BY <1>10 DEF TestFrame, LockScreen, UploadFrame, Unlock
<1>11. CASE setPosition
  BY <1>11 DEF setPosition
<1>12. CASE draw = "done" /\ draw' = "idle" /\ UNCHANGED <<geometry, decoder>>
  BY <1>12
<1>13. CASE UNCHANGED videoVars
  BY <1>13 DEF videoVars
<1> QED
  BY <1>1, <1>2, <1>3, <1>4, <1>5, <1>6, <1>7, <1>8, <1>9, <1>10, <1>11, <1>12, <1>13
     DEF VideoStep, Decode, Draw

\* No resize of the stream or the window is lost: m_updateSize is cleared before
\* what it announces is read.
THEOREM GeometryHolds == Spec => []GeometryKept
<1>1. Init => GeometryInv
  BY DEF Init, VideoInit, GeometryInv
<1>2. VideoTypeOK /\ GeometryInv /\ [Next]_vars => GeometryInv'
  BY Steps, GeometryStep
<1>3. VideoTypeOK /\ GeometryInv => GeometryKept
  <2> SUFFICES ASSUME VideoTypeOK, GeometryInv, ~updateSize,
                      draw \notin Dimensions \cup {"place"},
                      decoder \notin {"height", "resize"}
               PROVE  vertices = [size |-> size, place |-> place]
    BY DEF GeometryKept
  <2>1. vertices.place = place
    BY DEF GeometryInv
  <2>2. \A d \in Dimensions : vertices.size[d] = size[d]
    BY DEF GeometryInv, Dimensions
  <2>3. vertices.size = size
    BY <2>2 DEF VideoTypeOK
  <2> QED
    BY <2>1, <2>3 DEF VideoTypeOK
<1> QED
  BY <1>1, <1>2, <1>3, VideoTypeCorrect, PTL DEF Spec
=============================================================================
