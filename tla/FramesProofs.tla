---------------------------- MODULE FramesProofs ----------------------------
(***************************************************************************)
(* What holds of the way from a sensor to the WebRTC capturer in every     *)
(* Scene, for any set of frame threads and however many pictures come.     *)
(***************************************************************************)
EXTENDS VideoProofs, FiniteSetTheorems

\* Every step of the scene is one of Frames, the end of a pass, or leaves these
\* variables alone.
EndOfPass ==
  /\ ui = "video" /\ ui' = "idle"
  /\ UNCHANGED <<sensorVars, renderer, textures, images, capture>>

\* What a step of the scene does to these variables.
LEMMA FrameSteps ==
  ASSUME [Next]_vars
  PROVE  FramesNext \/ EndOfPass \/ UNCHANGED frameVars
<1>1. CASE FramesNext
  BY <1>1
<1>2. CASE ResizeWindow \/ DrawVideo \/ (\E s \in Sizes : Stream(s))
  BY <1>2 DEF ResizeWindow, DrawVideo, Stream
<1>3. CASE SwapWindow
  BY <1>3 DEF SwapWindow, EndOfPass
<1>4. CASE UNCHANGED frameVars
  BY <1>4
<1>5. CASE UNCHANGED vars
  BY <1>5 DEF vars
<1> QED
  BY <1>1, <1>2, <1>3, <1>4, <1>5 DEF Next

-----------------------------------------------------------------------------

\* The values every variable ranges over, through every interleaving of the
\* device, the frame threads, the window and the WebRTC thread.
THEOREM FramesTypeCorrect == Spec => []FramesTypeOK
<1>1. Init => FramesTypeOK
  <2>1. <<>> \in Seq(Nat)
    OBVIOUS
  <2>2. NoPictures \in [Kinds -> Nat] /\ NoImage \in [Halves -> Nat]
    BY DEF NoPictures, NoImage
  <2>3. /\ [k \in Kinds \cup {"frame"} |-> FALSE] \in [Kinds \cup {"frame"} -> BOOLEAN]
        /\ [f \in FrameThreads |-> "none"] \in [FrameThreads -> FrameLabels]
        /\ [f \in FrameThreads |-> {}] \in [FrameThreads -> SUBSET Kinds]
        /\ [f \in FrameThreads |-> NoPictures] \in [FrameThreads -> [Kinds -> Nat]]
    BY <2>2 DEF FrameLabels
  <2>4. SensorInit => /\ sensor \in Choices /\ ready \in BOOLEAN /\ recycled \in BOOLEAN
                      /\ made \in [Kinds -> Nat] /\ buffer \in [Kinds -> Nat]
                      /\ fresh \in [Kinds \cup {"frame"} -> BOOLEAN]
                      /\ mutex \in FrameThreads \cup {NoThread}
                      /\ pc \in [FrameThreads -> FrameLabels]
                      /\ todo \in [FrameThreads -> SUBSET Kinds]
                      /\ hand \in [FrameThreads -> [Kinds -> Nat]]
    BY <2>2, <2>3 DEF SensorInit
  <2>5. FramesInit => /\ newFrame \in BOOLEAN /\ sending \in BOOLEAN
                      /\ pictures \in [Kinds -> Nat] /\ accepted \in [Kinds -> Nat]
                      /\ textures \in [Kinds -> Nat] /\ ui \in Uploads
    BY <2>2 DEF FramesInit, Uploads
  <2>6. FramesInit => /\ sent \in Nat /\ imageBytes \in [Halves -> Nat]
                      /\ copied \in SUBSET Halves /\ sdk \in Nat
                      /\ unread \in SUBSET Halves /\ got \in [Halves -> Nat]
    BY <2>2 DEF FramesInit
  <2>7. FramesInit => queue \in Seq(Nat) /\ SensorInit
    BY <2>1 DEF FramesInit
  <2> QED
    BY <2>4, <2>5, <2>6, <2>7 DEF Init, FramesTypeOK
<1>2. FramesTypeOK /\ [Next]_vars => FramesTypeOK'
  <2> SUFFICES ASSUME FramesTypeOK, [Next]_vars
               PROVE  FramesTypeOK'
    OBVIOUS
  <2> USE DEF FramesTypeOK, FrameLabels, Uploads, Uploading, device, requests, renderer,
          images, capture, GotoF, Return
  <2>1. ASSUME NEW k \in Kinds, PictureCallback(k),
               UNCHANGED <<renderer, textures, ui, images, capture>>
        PROVE  FramesTypeOK'
    <3>1. made' \in [Kinds -> Nat] /\ buffer' \in [Kinds -> Nat]
      BY <2>1 DEF PictureCallback
    <3>2. fresh' \in [Kinds \cup {"frame"} -> BOOLEAN]
      BY <2>1 DEF PictureCallback
    <3> QED
      BY <2>1, <3>1, <3>2 DEF PictureCallback, requests
  <2>2. ASSUME InitFinished, UNCHANGED <<renderer, textures, ui, images, capture>>
        PROVE  FramesTypeOK'
    BY <2>2 DEF InitFinished, requests
  <2>20. ASSUME WaitForFrames, UNCHANGED <<renderer, textures, ui, images, capture>>
         PROVE  FramesTypeOK'
    <3>1. made' \in [Kinds -> Nat]
      BY <2>20, SMTT(30) DEF WaitForFrames
    <3> QED
      BY <2>20, <3>1 DEF WaitForFrames, requests
  <2>21. ASSUME Publish, UNCHANGED <<renderer, textures, ui, images, capture>>
         PROVE  FramesTypeOK'
    <3>1. fresh' \in [Kinds \cup {"frame"} -> BOOLEAN]
      BY <2>21 DEF Publish
    <3> QED
      BY <2>21, <3>1 DEF Publish, requests
  <2>3. ASSUME NEW f \in FrameThreads, Request(f),
               UNCHANGED <<renderer, textures, ui, images, capture>>
        PROVE  FramesTypeOK'
    <3>1. pc' \in [FrameThreads -> FrameLabels]
      BY <2>3 DEF Request, RequestKinect, RequestRealsense, RequestFake
    <3>2. todo' \in [FrameThreads -> SUBSET Kinds]
      BY <2>3 DEF Request, RequestKinect, RequestRealsense, RequestFake
    <3>3. [k \in Kinds |-> 1] \in [Kinds -> Nat]
      OBVIOUS
    <3>4. hand' \in [FrameThreads -> [Kinds -> Nat]]
      BY <2>3, <3>3 DEF Request, RequestKinect, RequestRealsense, RequestFake
    <3> QED
      BY <2>3, <3>1, <3>2, <3>4 DEF Request
  <2>4. ASSUME NEW f \in FrameThreads, Lock(f),
               UNCHANGED <<renderer, textures, ui, images, capture>>
        PROVE  FramesTypeOK'
    <3>1. pc' \in [FrameThreads -> FrameLabels] /\ todo' \in [FrameThreads -> SUBSET Kinds]
      BY <2>4 DEF Lock
    <3>2. fresh' \in [Kinds \cup {"frame"} -> BOOLEAN]
      BY <2>4 DEF Lock
    <3> QED
      BY <2>4, <3>1, <3>2 DEF Lock
  <2>5. ASSUME NEW f \in FrameThreads, NEW k \in Kinds, Take(f, k),
               UNCHANGED <<renderer, textures, ui, images, capture>>
        PROVE  FramesTypeOK'
    <3>1. buffer[k] \in Nat /\ 0 \in Nat
      OBVIOUS
    <3>2. PICK p \in Nat : hand' = [hand EXCEPT ![f][k] = p]
      BY <2>5, <3>1 DEF Take, TakeKinect, TakeRealsense
    <3>3. hand' \in [FrameThreads -> [Kinds -> Nat]]
      BY <3>2
    <3>4. fresh' \in [Kinds \cup {"frame"} -> BOOLEAN]
      BY <2>5 DEF Take, TakeKinect, TakeRealsense
    <3>5. todo' \in [FrameThreads -> SUBSET Kinds]
      BY <2>5 DEF Take
    <3> QED
      BY <2>5, <3>3, <3>4, <3>5 DEF Take
  <2>22. ASSUME NEW f \in FrameThreads, Taken(f),
                UNCHANGED <<renderer, textures, ui, images, capture>>
         PROVE  FramesTypeOK'
    BY <2>22 DEF Taken
  <2>23. ASSUME NEW f \in FrameThreads, Return(f)
         PROVE  /\ pc' \in [FrameThreads -> FrameLabels]
                /\ mutex' \in FrameThreads \cup {NoThread}
                /\ todo' \in [FrameThreads -> SUBSET Kinds]
                /\ hand' \in [FrameThreads -> [Kinds -> Nat]]
    <3>1. NoPictures \in [Kinds -> Nat]
      BY DEF NoPictures
    <3> QED
      BY <2>23, <3>1
  <2>6. ASSUME NEW f \in FrameThreads, TestRoom(f),
               UNCHANGED <<textures, ui, images, capture>>
        PROVE  FramesTypeOK'
    <3>1. CASE ~newFrame
      BY <2>6, <3>1 DEF TestRoom
    <3>2. CASE newFrame /\ Return(f)
      <4> HIDE DEF Return
      <4> QED
        BY <2>6, <2>23, <3>2 DEF TestRoom
    <3> QED
      BY <2>6, <3>1, <3>2 DEF TestRoom
  <2>7. ASSUME NEW f \in FrameThreads, SwapRgb(f) \/ SwapDepth(f),
               UNCHANGED <<textures, ui, images, capture>>
        PROVE  FramesTypeOK'
    <3>1. pictures' \in [Kinds -> Nat]
      <4>1. hand[f] \in [Kinds -> Nat]
        BY <2>7
      <4> QED
        BY <2>7, <4>1 DEF SwapRgb, SwapDepth, Kinds
    <3>2. pc' \in [FrameThreads -> FrameLabels]
      BY <2>7 DEF SwapRgb, SwapDepth
    <3> QED
      BY <2>7, <3>1, <3>2 DEF SwapRgb, SwapDepth
  <2>8. ASSUME NEW f \in FrameThreads, SetNew(f),
               UNCHANGED <<textures, ui, images, capture>>
        PROVE  FramesTypeOK'
    <3>1. accepted' \in [Kinds -> Nat]
      BY <2>8 DEF SetNew
    <3> HIDE DEF Return
    <3> QED
      BY <2>8, <2>23, <3>1 DEF SetNew
  <2>9. ASSUME SelectSensor, UNCHANGED capture PROVE FramesTypeOK'
    BY <2>9 DEF SelectSensor, initSensor
  <2>10. ASSUME StartSending, UNCHANGED capture PROVE FramesTypeOK'
    BY <2>10 DEF StartSending, sensorVars
  <2>11. ASSUME RenderSensor \/ ClearNew \/ Send, UNCHANGED <<sensorVars, capture>>
         PROVE  FramesTypeOK'
    <3>1. CASE RenderSensor
      BY <2>11, <3>1 DEF RenderSensor, sensorVars
    <3>2. CASE ClearNew
      BY <2>11, <3>2 DEF ClearNew, sensorVars
    <3>3. CASE Send
      <4>1. sent' \in Nat /\ ui' \in Uploads
        BY <3>3 DEF Send
      <4> QED
        BY <2>11, <3>3, <4>1 DEF Send, sensorVars
    <3> QED
      BY <2>11, <3>1, <3>2, <3>3
  <2>24. ASSUME UploadRgb \/ UploadDepth, UNCHANGED <<sensorVars, capture>>
         PROVE  FramesTypeOK'
    <3>1. textures' \in [Kinds -> Nat] /\ ui' \in Uploads
      BY <2>24 DEF UploadRgb, UploadDepth, Kinds
    <3> QED
      BY <2>24, <3>1 DEF UploadRgb, UploadDepth, sensorVars
  <2>12. ASSUME NEW h \in Halves, CopyImage(h), UNCHANGED <<sensorVars, capture>>
         PROVE  FramesTypeOK'
    BY <2>12 DEF CopyImage, sensorVars
  <2>13. ASSUME PushNewFrame, UNCHANGED <<sensorVars, capture>>
         PROVE  FramesTypeOK'
    <3>1. queue' \in Seq(Nat)
      BY <2>13 DEF PushNewFrame
    <3> QED
      BY <2>13, <3>1 DEF PushNewFrame, sensorVars
  <2>14. ASSUME Dequeue, UNCHANGED <<sensorVars, renderer, textures, ui>>
         PROVE  FramesTypeOK'
    <3>1. queue' \in Seq(Nat) /\ sdk' \in Nat
      BY <2>14 DEF Dequeue
    <3> QED
      BY <2>14, <3>1 DEF Dequeue, sensorVars, NoImage
  <2>15. ASSUME NEW h \in Halves, ReadImage(h),
                UNCHANGED <<sensorVars, renderer, textures, ui>>
         PROVE  FramesTypeOK'
    BY <2>15 DEF ReadImage, sensorVars
  <2>16. ASSUME Capture, UNCHANGED <<sensorVars, renderer, textures, ui>>
         PROVE  FramesTypeOK'
    BY <2>16 DEF Capture, sensorVars
  <2>17. CASE EndOfPass
    BY <2>17 DEF EndOfPass, sensorVars
  <2>18. CASE UNCHANGED frameVars
    BY <2>18 DEF frameVars, sensorVars
  <2> QED
    BY FrameSteps, <2>1, <2>2, <2>3, <2>4, <2>5, <2>6, <2>7, <2>8, <2>9, <2>10, <2>11,
       <2>12, <2>13, <2>14, <2>15, <2>16, <2>17, <2>18, <2>20, <2>21, <2>22, <2>24
       DEF FramesNext, FramesStep, Wait, Device, FrameStep, RequestStep, Render
<1> QED
  BY <1>1, <1>2, PTL DEF Spec
-----------------------------------------------------------------------------
(* BuffersAreExclusive and DrawnTogether: what m_newFrame and m_mutex keep   *)
(* apart.                                                                    *)

\* A thread is started once, and selections name one sensor.
LEMMA StaysStarted ==
  ASSUME FramesTypeOK, [Next]_vars
  PROVE  sensor' = sensor /\ Started \subseteq Started'
<1> USE DEF FramesTypeOK, Started, sensorVars, device, requests, renderer, GotoF, Return
<1>1. ASSUME Device PROVE sensor' = sensor /\ Started \subseteq Started'
  BY <1>1 DEF Device, PictureCallback, InitFinished, WaitForFrames, Publish
<1>2. ASSUME NEW f \in FrameThreads, FrameStep(f)
      PROVE  sensor' = sensor /\ Started \subseteq Started'
  <2>1. CASE Request(f)
    BY <2>1 DEF Request, RequestKinect, RequestRealsense, RequestFake
  <2>2. CASE Lock(f) \/ Taken(f) \/ (\E k \in Kinds : Take(f, k))
    BY <2>2 DEF Lock, Taken, Take
  <2>3. CASE TestRoom(f) \/ SwapRgb(f) \/ SwapDepth(f) \/ SetNew(f)
    BY <2>3 DEF TestRoom, SwapRgb, SwapDepth, SetNew
  <2> QED
    BY <1>2, <2>1, <2>2, <2>3 DEF FrameStep, RequestStep
<1>3. CASE SelectSensor
  BY <1>3 DEF SelectSensor, initSensor
<1>4. CASE UNCHANGED sensorVars
  BY <1>4
<1> QED
  BY FrameSteps, <1>1, <1>2, <1>3, <1>4
     DEF FramesNext, FramesStep, Wait, StartSending, Render, EndOfPass, frameVars

\* RealSense's m_mutex is held from the reading of the pictures until the
\* renderer has them.
MutexSpans ==
  sensor = "realsense" =>
    \A f \in FrameThreads : pc[f] \in {"take", "test"} \cup Writing => mutex = f

\* How far a thread is in newFrame(), and the window in its uploads, says which
\* buffer holds what; textures and m_newFrame say the rest.
WritersKnow ==
  \A f \in FrameThreads :
    /\ pc[f] \in Writing => ~newFrame
    /\ pc[f] = "swapDepth" => pictures["rgb"] = hand[f]["rgb"]
    /\ pc[f] = "setNew" => pictures = hand[f]

UploadsKnow ==
  /\ newFrame => pictures = accepted
  /\ ui = "uploadDepth" => textures["rgb"] = pictures["rgb"]
  /\ ui = "clearNew" => textures = pictures
  /\ ~newFrame => textures = accepted

ExclusiveInv ==
  /\ MutexSpans
  /\ ui \in Uploading => newFrame
  /\ OneWriter => WritersKnow /\ UploadsKnow

\* Only the holder of m_mutex gives it up, when newFrame() has returned.
LEMMA MutexSpansStep ==
  ASSUME FramesTypeOK, MutexSpans, [Next]_vars
  PROVE  MutexSpans'
<1> USE SensorAssumption
    DEF FramesTypeOK, MutexSpans, Writing, FrameLabels, device, requests, GotoF, Return,
        renderer
<1>1. CASE Device
  BY <1>1 DEF Device, PictureCallback, InitFinished, WaitForFrames, Publish
<1>2. ASSUME NEW f \in FrameThreads, FrameStep(f) PROVE MutexSpans'
  <2>1. CASE Request(f)
    BY <2>1 DEF Request, RequestKinect, RequestRealsense, RequestFake
  <2>2. CASE Lock(f)
    BY <2>2 DEF Lock
  <2>3. CASE Taken(f) \/ (\E k \in Kinds : Take(f, k))
    BY <2>3 DEF Taken, Take
  <2>4. CASE TestRoom(f) \/ SwapRgb(f) \/ SwapDepth(f) \/ SetNew(f)
    BY <2>4 DEF TestRoom, SwapRgb, SwapDepth, SetNew
  <2> QED
    BY <1>2, <2>1, <2>2, <2>3, <2>4 DEF FrameStep, RequestStep
<1>3. CASE SelectSensor
  BY <1>3 DEF SelectSensor, initSensor
<1>4. CASE UNCHANGED sensorVars
  BY <1>4 DEF sensorVars
<1> QED
  BY FrameSteps, <1>1, <1>2, <1>3, <1>4
     DEF FramesNext, FramesStep, Wait, StartSending, Render, EndOfPass, frameVars

\* The thread that writes is the only one that has passed m_mutex, or the only one.
LEMMA OneThreadWritesHolds ==
  ASSUME MutexSpans, OneWriter
  PROVE  OneThreadWrites
BY DEF MutexSpans, OneWriter, OneThreadWrites, Started, Writing

\* Every swap finds m_newFrame false, every upload finds it true, and no other
\* thread between its steps.
LEMMA ExclusiveStep ==
  ASSUME FramesTypeOK, ExclusiveInv, [Next]_vars
  PROVE  ExclusiveInv'
<1>1. MutexSpans'
  BY MutexSpansStep DEF ExclusiveInv
<1>2. OneWriter' => OneWriter
  BY StaysStarted DEF OneWriter
<1>3. OneWriter => OneThreadWrites
  BY OneThreadWritesHolds DEF ExclusiveInv
<1> DEFINE Rest == (ui \in Uploading => newFrame) /\ (OneWriter => WritersKnow /\ UploadsKnow)
<1> SUFFICES Rest'
  BY <1>1 DEF ExclusiveInv
<1> USE <1>2, <1>3 DEF FramesTypeOK, ExclusiveInv, WritersKnow, UploadsKnow, Uploads,
        Uploading, Writing, FrameLabels, device, requests, renderer, images, GotoF, Return
<1>4. ASSUME NEW f \in FrameThreads, RequestStep(f), UNCHANGED <<renderer, textures, ui>>
      PROVE  Rest'
  BY <1>4, SMTT(30) DEF RequestStep, Request, RequestKinect, RequestRealsense, RequestFake, Lock,
              Taken, Take, TakeKinect, TakeRealsense
<1>5. ASSUME NEW f \in FrameThreads, TestRoom(f), UNCHANGED <<textures, ui>> PROVE Rest'
  BY <1>5 DEF TestRoom
<1>6. ASSUME NEW f \in FrameThreads, SwapRgb(f), UNCHANGED <<textures, ui>> PROVE Rest'
  <2>1. /\ pictures'["rgb"] = hand[f]["rgb"] /\ hand' = hand
        /\ pc' = [pc EXCEPT ![f] = "swapDepth"]
    BY <1>6 DEF SwapRgb, Kinds
  <2>2. CASE OneWriter
    <3>1. ~newFrame /\ newFrame' = newFrame /\ ui \notin Uploading
      BY <1>6, <2>2 DEF SwapRgb
    <3>2. \A g \in FrameThreads : pc[g] \in Writing => g = f
      BY <1>6, <2>2 DEF SwapRgb, OneThreadWrites
    <3>3. WritersKnow'
      BY <2>1, <3>1, <3>2
    <3>4. UploadsKnow'
      BY <1>6, <2>2, <3>1 DEF SwapRgb
    <3> QED
      BY <1>6, <3>1, <3>3, <3>4
  <2> QED
    BY <1>6, <2>2 DEF SwapRgb
<1>7. ASSUME NEW f \in FrameThreads, SwapDepth(f), UNCHANGED <<textures, ui>> PROVE Rest'
  BY <1>7 DEF SwapDepth, OneThreadWrites, Kinds
<1>8. ASSUME NEW f \in FrameThreads, SetNew(f), UNCHANGED <<textures, ui>> PROVE Rest'
  BY <1>8 DEF SetNew, OneThreadWrites
<1>9. CASE SelectSensor
  BY <1>9 DEF SelectSensor, initSensor
<1>10. CASE RenderSensor /\ UNCHANGED sensorVars
  BY <1>10 DEF RenderSensor, sensorVars
<1>11. CASE UploadRgb /\ UNCHANGED sensorVars
  <2>1. textures'["rgb"] = pictures["rgb"]
    BY <1>11 DEF UploadRgb, Kinds
  <2> QED
    BY <1>11, <2>1 DEF UploadRgb, sensorVars
<1>16. CASE UploadDepth /\ UNCHANGED sensorVars
  <2>1. newFrame
    BY <1>16 DEF UploadDepth
  <2>2. textures["rgb"] = pictures["rgb"] => textures' = pictures
    BY <1>16 DEF UploadDepth, Kinds
  <2> QED
    BY <1>16, <2>1, <2>2 DEF UploadDepth, sensorVars
<1>12. CASE ClearNew /\ UNCHANGED sensorVars
  BY <1>12 DEF ClearNew, sensorVars
<1>13. CASE (Send \/ PushNewFrame \/ EndOfPass) /\ UNCHANGED sensorVars
  <2>1. /\ UNCHANGED <<pc, hand, newFrame, pictures, accepted, textures>>
        /\ ui \notin Uploading /\ ui' \notin Uploading
    BY <1>13 DEF Send, PushNewFrame, EndOfPass, sensorVars
  <2> QED
    BY <2>1
<1>17. CASE (\E h \in Halves : CopyImage(h)) /\ UNCHANGED sensorVars
  BY <1>17 DEF CopyImage, sensorVars
<1>14. CASE UNCHANGED <<pc, hand, newFrame, pictures, accepted, textures, ui>>
  BY <1>14
<1>15. Device => UNCHANGED <<pc, hand>>
  BY DEF Device, PictureCallback, InitFinished, WaitForFrames, Publish
<1> QED
  BY FrameSteps, <1>4, <1>5, <1>6, <1>7, <1>8, <1>9, <1>10, <1>11, <1>12, <1>13, <1>14,
     <1>15, <1>16, <1>17
     DEF FramesNext, FramesStep, FrameStep, Wait, StartSending, Render, EndOfPass, frameVars,
         sensorVars

\* It holds from the start: no thread is in newFrame() then.
LEMMA ExclusiveHolds == Spec => []ExclusiveInv
<1>1. Init => ExclusiveInv
  BY DEF Init, FramesInit, SensorInit, ExclusiveInv, MutexSpans, WritersKnow, UploadsKnow,
         Writing, Uploading, OneWriter
<1>2. FramesTypeOK /\ ExclusiveInv /\ [Next]_vars => ExclusiveInv'
  BY ExclusiveStep
<1> QED
  BY <1>1, <1>2, FramesTypeCorrect, PTL DEF Spec

\* newFrame()'s swaps, render()'s uploads and two requests are kept apart by
\* m_newFrame, and by m_mutex for RealSense: whatever the number of frame threads.
THEOREM BuffersHold == Spec => []BuffersAreExclusive
<1>1. ExclusiveInv => BuffersAreExclusive
  BY OneThreadWritesHolds
     DEF ExclusiveInv, WritersKnow, BuffersAreExclusive
<1> QED
  BY <1>1, ExclusiveHolds, PTL

\* What is drawn is the last frame newFrame() took, colours and depths together.
THEOREM DrawnTogetherHolds == Spec => []DrawnTogether
<1>1. ExclusiveInv => DrawnTogether
  BY DEF ExclusiveInv, UploadsKnow, DrawnTogether
<1> QED
  BY <1>1, ExclusiveHolds, PTL
-----------------------------------------------------------------------------
(* OneWait: RealSense's pictures stay together.                              *)

OneFrame(p) == p["rgb"] = p["depth"] \/ \E k \in Kinds : p[k] = 0

\* Under m_mutex a thread reads what the pointers point at, or what the device
\* makes of it; nobody moves the pointers meanwhile.
TakenTogether ==
  \A f \in FrameThreads :
    /\ pc[f] = "take" => \A k \in Kinds \ todo[f] : hand[f][k] \in {0, buffer[k]}
    /\ pc[f] \in {"test"} \cup Writing => OneFrame(hand[f])

OneWaitInv ==
  sensor = "realsense" =>
    /\ made["rgb"] = made["depth"] /\ buffer["rgb"] = buffer["depth"]
    /\ TakenTogether
    /\ OneFrame(accepted)
    /\ ui \notin Uploading => OneFrame(textures)

\* The pictures that are passed on were read in one hold of m_mutex.
LEMMA OneWaitStep ==
  ASSUME FramesTypeOK, ExclusiveInv, OneWaitInv, [Next]_vars
  PROVE  OneWaitInv'
<1>0. sensor' = sensor
  BY StaysStarted
<1> SUFFICES ASSUME sensor = "realsense" PROVE OneWaitInv'
  BY <1>0 DEF OneWaitInv
<1>1. MutexSpans /\ MutexSpans' /\ OneWriter /\ UploadsKnow
  BY MutexSpansStep DEF ExclusiveInv, OneWriter
<1> USE <1>0 DEF FramesTypeOK, OneWaitInv, FrameLabels, Uploads, Uploading, device, requests,
        renderer, images, GotoF, Return
<1>2. ASSUME Device, UNCHANGED <<renderer, textures, ui>> PROVE OneWaitInv'
  <2>1. CASE InitFinished
    BY <1>2, <2>1 DEF InitFinished, TakenTogether
  <2>2. CASE WaitForFrames
    <3>1. made'["rgb"] = made'["depth"]
      BY <2>2 DEF WaitForFrames, Kinds
    <3> QED
      BY <1>2, <2>2, <3>1 DEF WaitForFrames, TakenTogether
  <2>3. CASE Publish
    <3>1. \A f \in FrameThreads : pc[f] # "take"
      BY <1>1, <2>3, SensorAssumption DEF Publish, MutexSpans
    <3> QED
      BY <1>2, <2>3, <3>1 DEF Publish, TakenTogether
  <2> QED
    BY <1>2, <2>1, <2>2, <2>3 DEF Device, PictureCallback
<1>3. ASSUME NEW f \in FrameThreads, FrameStep(f), UNCHANGED <<textures, ui>>
      PROVE  OneWaitInv'
  <2>1. CASE Request(f) /\ UNCHANGED renderer
    BY <1>3, <2>1 DEF Request, RequestKinect, RequestRealsense, RequestFake, TakenTogether,
                      Writing
  <2>2. CASE Lock(f) /\ UNCHANGED renderer
    BY <1>3, <2>2 DEF Lock, TakenTogether, Writing
  <2>3. ASSUME NEW k \in Kinds, Take(f, k), UNCHANGED renderer PROVE OneWaitInv'
    <3>1. PICK p \in {0, buffer[k]} : hand' = [hand EXCEPT ![f][k] = p]
      BY <2>3 DEF Take, TakeKinect, TakeRealsense
    <3>2. /\ pc' = pc /\ buffer' = buffer /\ made' = made
          /\ todo' = [todo EXCEPT ![f] = @ \ {k}] /\ pc[f] = "take"
      BY <2>3 DEF Take
    <3>3. TakenTogether'
      <4> SUFFICES ASSUME NEW g \in FrameThreads
                   PROVE  /\ pc[g] = "take" =>
                               \A l \in Kinds \ todo'[g] : hand'[g][l] \in {0, buffer[l]}
                          /\ pc[g] \in {"test"} \cup Writing => OneFrame(hand'[g])
        BY <3>2 DEF TakenTogether
      <4>1. CASE g # f
        <5>1. hand'[g] = hand[g] /\ todo'[g] = todo[g]
          BY <3>1, <3>2, <4>1
        <5> QED
          BY <5>1 DEF TakenTogether
      <4>2. CASE g = f
        <5>1. hand'[f] = [hand[f] EXCEPT ![k] = p] /\ todo'[f] = todo[f] \ {k}
          BY <3>1, <3>2
        <5>2. \A l \in Kinds \ todo'[f] : hand'[f][l] \in {0, buffer[l]}
          BY <3>2, <5>1, SMTT(30) DEF TakenTogether
        <5> QED
          BY <3>2, <4>2, <5>2 DEF Writing
      <4> QED
        BY <4>1, <4>2
    <3> QED
      BY <1>3, <2>3, <3>2, <3>3
  <2>4. CASE Taken(f) /\ UNCHANGED renderer
    <3>1. hand[f]["rgb"] \in {0, buffer["rgb"]} /\ hand[f]["depth"] \in {0, buffer["depth"]}
      BY <2>4 DEF Taken, TakenTogether, Kinds
    <3>2. OneFrame(hand[f])
      BY <3>1 DEF OneFrame, Kinds
    <3> QED
      BY <1>3, <2>4, <3>2 DEF Taken, TakenTogether
  <2>5. CASE TestRoom(f)
    BY <1>3, <2>5 DEF TestRoom, TakenTogether, Writing
  <2>6. CASE SwapRgb(f) \/ SwapDepth(f)
    BY <1>3, <2>6 DEF SwapRgb, SwapDepth, TakenTogether, Writing
  <2>7. CASE SetNew(f)
    BY <1>3, <2>7 DEF SetNew, TakenTogether, Writing
  <2> QED
    BY <1>3, <2>1, <2>2, <2>3, <2>4, <2>5, <2>6, <2>7 DEF FrameStep, RequestStep
<1>4. CASE SelectSensor
  BY <1>4 DEF SelectSensor, initSensor, TakenTogether, Writing
<1>5. CASE (RenderSensor \/ UploadRgb \/ UploadDepth) /\ UNCHANGED sensorVars
  BY <1>5 DEF RenderSensor, UploadRgb, UploadDepth, sensorVars, TakenTogether
<1>6. CASE ClearNew /\ UNCHANGED sensorVars
  <2>1. textures = accepted
    BY <1>1, <1>6 DEF ClearNew, UploadsKnow, ExclusiveInv
  <2> QED
    BY <1>6, <2>1 DEF ClearNew, sensorVars, TakenTogether
<1>7. CASE /\ Send \/ (\E h \in Halves : CopyImage(h)) \/ PushNewFrame \/ EndOfPass
           /\ UNCHANGED sensorVars
  <2>1. UNCHANGED <<renderer, textures>> /\ ui \notin Uploading /\ ui' \notin Uploading
    BY <1>7 DEF Send, CopyImage, PushNewFrame, EndOfPass
  <2> QED
    BY <1>7, <2>1 DEF sensorVars, TakenTogether
<1>8. CASE UNCHANGED <<sensorVars, renderer, textures, ui>>
  BY <1>8 DEF sensorVars, TakenTogether
<1> QED
  BY FrameSteps, <1>2, <1>3, <1>4, <1>5, <1>6, <1>7, <1>8
     DEF FramesNext, FramesStep, Wait, StartSending, Render, EndOfPass, frameVars

\* The two pictures of a RealSense frame come from one wait_for_frames() and are
\* drawn together, however many threads ask for them.
THEOREM OneWaitHolds == Spec => []OneWait
<1>1. Init => OneWaitInv
  BY DEF Init, FramesInit, SensorInit, OneWaitInv, TakenTogether, OneFrame, NoPictures,
         Kinds, Writing
<1>2. FramesTypeOK /\ ExclusiveInv /\ OneWaitInv /\ [Next]_vars => OneWaitInv'
  BY OneWaitStep
<1>3. OneWaitInv => OneWait
  BY DEF OneWaitInv, OneWait, OneFrame
<1> QED
  BY <1>1, <1>2, <1>3, FramesTypeCorrect, ExclusiveHolds, PTL DEF Spec

-----------------------------------------------------------------------------
(* NeverOlder: m_imageBytes only moves on.                                   *)

\* What was announced is in m_imageBytes, or something later is.
AnnouncedIsThere ==
  \A h \in Halves :
    /\ \A i \in 1 .. Len(queue) : queue[i] <= imageBytes[h]
    /\ sdk <= imageBytes[h]
    /\ imageBytes[h] <= sent
    /\ ui = "copy" /\ h \in copied => imageBytes[h] = sent

OlderInv == AnnouncedIsThere /\ NeverOlder

\* An image is announced after it is copied, and only newer ones follow.
LEMMA OlderStep ==
  ASSUME FramesTypeOK, OlderInv, [Next]_vars
  PROVE  OlderInv'
<1> USE DEF FramesTypeOK, OlderInv, AnnouncedIsThere, NeverOlder, renderer, images
<1>1. CASE Send /\ UNCHANGED capture
  BY <1>1 DEF Send, capture
<1>2. ASSUME NEW g \in Halves, CopyImage(g), UNCHANGED capture PROVE OlderInv'
  BY <1>2 DEF CopyImage, capture
<1>3. CASE PushNewFrame /\ UNCHANGED capture
  BY <1>3 DEF PushNewFrame, capture
<1>4. CASE Dequeue /\ ui' = ui
  BY <1>4 DEF Dequeue
<1>5. ASSUME NEW g \in Halves, ReadImage(g), ui' = ui PROVE OlderInv'
  BY <1>5 DEF ReadImage
<1>6. CASE Capture /\ ui' = ui
  BY <1>6 DEF Capture
<1>7. CASE /\ UNCHANGED <<sent, imageBytes, copied, queue, capture>>
           /\ ui' = ui \/ ui' # "copy"
  BY <1>7 DEF capture
<1>8. RenderSensor \/ UploadRgb \/ UploadDepth \/ ClearNew
        => UNCHANGED <<sent, imageBytes, copied, queue>> /\ ui' # "copy"
  BY DEF RenderSensor, UploadRgb, UploadDepth, ClearNew
<1>9. SelectSensor \/ StartSending => UNCHANGED <<sent, imageBytes, copied, queue, ui>>
  BY DEF SelectSensor, StartSending
<1> QED
  BY FrameSteps, <1>1, <1>2, <1>3, <1>4, <1>5, <1>6, <1>7, <1>8, <1>9
     DEF FramesNext, FramesStep, Wait, Render, EndOfPass, frameVars, capture

\* What the WebRTC thread captures for a NEW_FRAME is never older than the image
\* it was pushed for, though nothing locks m_imageBytes.
THEOREM NeverOlderHolds == Spec => []NeverOlder
<1>1. Init => OlderInv
  BY DEF Init, FramesInit, OlderInv, AnnouncedIsThere, NeverOlder, NoImage
<1>2. FramesTypeOK /\ OlderInv /\ [Next]_vars => OlderInv'
  BY OlderStep
<1> QED
  BY <1>1, <1>2, FramesTypeCorrect, PTL DEF Spec, OlderInv

\* Both halves of the scene keep their types.
THEOREM SceneTypeCorrect == Spec => []TypeOK
BY FramesTypeCorrect, VideoTypeCorrect, PTL DEF TypeOK

-----------------------------------------------------------------------------
(* DepthAdvances: what the new-frame flags say of the pictures.              *)

OneStarted == \A f, g \in Started : f = g

\* The flag that requestNewFrame() tests.
Announced == IF sensor = "kinect" THEN fresh["depth"] ELSE fresh["frame"]

\* A thread from its first picture to the return of newFrame(), and one that has
\* taken the picture of a kind.
Holding == {"take", "test"} \cup Writing
Has(f, k) == pc[f] \in Holding /\ (pc[f] = "take" => k \notin todo[f])

\* The device's pictures only get later.
DeviceInv ==
  /\ \A k \in Kinds : buffer[k] <= made[k]
  /\ sensor = "kinect" => buffer = made
  /\ recycled => sensor = "realsense" /\ buffer["depth"] < made["depth"]

\* What is announced, and what a thread has taken, is later than what was
\* accepted, and earlier than what is announced after that.
KinectKnows(f) ==
  /\ pc[f] = "take" /\ "depth" \in todo[f] => Announced
  /\ Has(f, "rgb") => accepted["rgb"] <= hand[f]["rgb"]
  /\ Has(f, "depth") => /\ accepted["depth"] < hand[f]["depth"]
                        /\ Announced => hand[f]["depth"] < buffer["depth"]

RealsenseKnows(f) ==
  /\ pc[f] = "lock" => Announced
  /\ pc[f] \in Holding => ~Announced
  /\ Has(f, "depth") => hand[f]["depth"] = 0 \/ accepted["depth"] < hand[f]["depth"]

FrameKnows(f) ==
  /\ pc[f] = "lock" => sensor = "realsense"
  /\ pc[f] \in Holding => sensor # "none" /\ accepted["depth"] < buffer["depth"]
  /\ \A k \in Kinds : Has(f, k) => hand[f][k] <= buffer[k]
  /\ sensor = "kinect" => KinectKnows(f)
  /\ sensor = "realsense" => RealsenseKnows(f)

AdvanceInv ==
  OneStarted /\ sensor # "fake" =>
    /\ \A k \in Kinds : accepted[k] <= buffer[k]
    /\ Announced => accepted["depth"] < buffer["depth"]
    /\ \A f \in FrameThreads : FrameKnows(f)

\* Only the device writes its pictures, and numbers them upwards.
LEMMA DeviceStep ==
  ASSUME FramesTypeOK, DeviceInv, [Next]_vars
  PROVE  DeviceInv'
<1> USE DEF FramesTypeOK, DeviceInv, Kinds, device, requests, renderer
<1>1. ASSUME NEW k \in Kinds, PictureCallback(k) PROVE DeviceInv'
  BY <1>1 DEF PictureCallback
<1>2. CASE InitFinished
  BY <1>2 DEF InitFinished
<1>3. CASE WaitForFrames
  BY <1>3 DEF WaitForFrames
<1>4. CASE Publish
  BY <1>4 DEF Publish
<1>5. CASE UNCHANGED <<sensor, made, buffer, recycled>>
  BY <1>5
<1>6. ASSUME NEW f \in FrameThreads, FrameStep(f)
      PROVE  UNCHANGED <<sensor, made, buffer, recycled>>
  BY <1>6 DEF FrameStep, RequestStep, Request, Lock, Take, Taken, TestRoom, SwapRgb,
              SwapDepth, SetNew
<1> QED
  BY FrameSteps, <1>1, <1>2, <1>3, <1>4, <1>5, <1>6
     DEF FramesNext, FramesStep, Device, SelectSensor, initSensor, StartSending, Render,
         Wait, EndOfPass, frameVars, sensorVars

\* Whoever takes a picture clears the flag that led to it, and the device sets it for
\* a later one: step by step, for the only thread that asks.
LEMMA AdvanceStep ==
  ASSUME FramesTypeOK, MutexSpans, DeviceInv, AdvanceInv, [Next]_vars
  PROVE  AdvanceInv'
<1> SUFFICES ASSUME OneStarted', sensor' # "fake"
             PROVE  /\ \A k \in Kinds : accepted'[k] <= buffer'[k]
                    /\ Announced' => accepted'["depth"] < buffer'["depth"]
                    /\ \A f \in FrameThreads : FrameKnows(f)'
  BY DEF AdvanceInv
<1>0. OneStarted /\ sensor' = sensor /\ sensor # "fake"
  BY StaysStarted DEF OneStarted
<1>00. /\ \A k \in Kinds : accepted[k] <= buffer[k]
       /\ Announced => accepted["depth"] < buffer["depth"]
       /\ \A f \in FrameThreads : FrameKnows(f)
  BY <1>0 DEF AdvanceInv
<1> DEFINE Goal == /\ \A k \in Kinds : accepted'[k] <= buffer'[k]
                   /\ Announced' => accepted'["depth"] < buffer'["depth"]
                   /\ \A f \in FrameThreads : FrameKnows(f)'
<1> SUFFICES Goal
  OBVIOUS
<1>1. /\ "rgb" \in Kinds /\ "depth" \in Kinds
      /\ \A k \in Kinds : k = "rgb" \/ k = "depth"
  BY DEF Kinds
<1>3. /\ sensor \in Choices /\ fresh \in [Kinds \cup {"frame"} -> BOOLEAN]
      /\ made \in [Kinds -> Nat] /\ buffer \in [Kinds -> Nat]
      /\ accepted \in [Kinds -> Nat] /\ hand \in [FrameThreads -> [Kinds -> Nat]]
      /\ pc \in [FrameThreads -> FrameLabels] /\ todo \in [FrameThreads -> SUBSET Kinds]
  BY DEF FramesTypeOK
<1> USE DEF device, requests, renderer, GotoF, Return
\* A step of the only thread leaves the others where they are.
<1>4. ASSUME NEW f \in FrameThreads, FrameStep(f)
      PROVE  \A g \in FrameThreads \ {f} : FrameKnows(g)'
  <2>1. pc[f] # "none"
    BY <1>4 DEF FrameStep, RequestStep, Request, Lock, Take, Taken, TestRoom, SwapRgb,
                SwapDepth, SetNew
  <2>2. \A g \in FrameThreads \ {f} : pc[g] = "none"
    BY <1>0, <2>1 DEF OneStarted, Started
  <2>3. \A g \in FrameThreads \ {f} : pc'[g] = pc[g]
    BY <1>3, <1>4 DEF FrameStep, RequestStep, Request, RequestKinect, RequestRealsense,
                      RequestFake, Lock, Take, Taken, TestRoom, SwapRgb, SwapDepth, SetNew
  <2> QED
    BY <2>2, <2>3 DEF FrameKnows, KinectKnows, RealsenseKnows, Has, Holding, Writing
<1>5. ASSUME NEW k \in Kinds, PictureCallback(k), UNCHANGED accepted PROVE Goal
  <2>1. /\ sensor = "kinect" /\ buffer = made
        /\ UNCHANGED <<sensor, pc, todo, hand, accepted>>
    BY <1>5 DEF PictureCallback, DeviceInv
  <2>2. /\ buffer' = [buffer EXCEPT ![k] = buffer[k] + 1]
        /\ fresh' = [fresh EXCEPT ![k] = TRUE]
    BY <1>5, <2>1 DEF PictureCallback
  <2>3. \A j \in Kinds : buffer'[j] \in Nat /\ buffer[j] \in Nat /\ buffer[j] <= buffer'[j]
    BY <1>3, <2>2
  <2>4. CASE k = "depth"
    <3>1. buffer'["depth"] = buffer["depth"] + 1 /\ fresh'["depth"]
      BY <1>1, <1>3, <2>2, <2>4
    <3> QED
      BY <1>00, <1>1, <1>3, <2>1, <2>3, <3>1
      DEF Announced, FrameKnows, KinectKnows, Has
  <2>5. CASE k = "rgb"
    <3>1. buffer'["depth"] = buffer["depth"] /\ fresh'["depth"] = fresh["depth"]
      BY <1>1, <1>3, <2>2, <2>5
    <3> QED
      BY <1>00, <1>1, <1>3, <2>1, <2>3, <3>1
      DEF Announced, FrameKnows, KinectKnows, Has
  <2> QED
    BY <1>1, <2>4, <2>5
<1>6. CASE (InitFinished \/ WaitForFrames) /\ UNCHANGED accepted
  <2>1. UNCHANGED <<sensor, buffer, fresh, pc, todo, hand, accepted>>
    BY <1>6 DEF InitFinished, WaitForFrames
  <2> QED
    BY <1>00, <2>1 DEF Announced, FrameKnows, KinectKnows, RealsenseKnows, Has
<1>7. CASE Publish /\ UNCHANGED accepted
  <2>1. /\ sensor = "realsense" /\ buffer' = made /\ mutex = NoThread
        /\ UNCHANGED <<sensor, pc, todo, hand, accepted>>
    BY <1>7 DEF Publish, DeviceInv
  <2>2. \A f \in FrameThreads : pc[f] \notin Holding
    BY <2>1, SensorAssumption DEF MutexSpans, Holding
  <2>3. buffer["depth"] < buffer'["depth"] /\ \A k \in Kinds : buffer[k] <= buffer'[k]
    BY <1>7, <2>1 DEF Publish, DeviceInv
  <2>4. Announced'
    BY <1>3, <1>7, <2>1 DEF Publish, Announced
  <2>5. \A f \in FrameThreads : FrameKnows(f)'
    BY <2>1, <2>2, <2>4 DEF FrameKnows, RealsenseKnows, Has
  <2> QED
    BY <1>00, <1>1, <1>3, <2>1, <2>3, <2>5
<1>8. ASSUME NEW f \in FrameThreads, FrameStep(f) PROVE Goal
  <2>0. \A g \in FrameThreads \ {f} : FrameKnows(g)'
    BY <1>4, <1>8
  <2> DEFINE Mine == /\ \A k \in Kinds : accepted'[k] <= buffer'[k]
                     /\ Announced' => accepted'["depth"] < buffer'["depth"]
                     /\ FrameKnows(f)'
  <2> SUFFICES Mine
    BY <2>0
  <2>1. /\ sensor = "kinect" \/ sensor = "realsense" \/ sensor = "none"
        /\ FrameKnows(f) /\ buffer' = buffer /\ sensor' = sensor
    BY <1>0, <1>00, <1>3, <1>8
    DEF Choices, Plugins, FrameStep, RequestStep, Request, Lock, Take, Taken, TestRoom,
        SwapRgb, SwapDepth, SetNew
  <2>2. /\ accepted["rgb"] <= buffer["rgb"] /\ accepted["depth"] <= buffer["depth"]
        /\ Announced => accepted["depth"] < buffer["depth"]
        /\ hand[f]["rgb"] \in Nat /\ hand[f]["depth"] \in Nat
        /\ accepted["rgb"] \in Nat /\ accepted["depth"] \in Nat
        /\ buffer["rgb"] \in Nat /\ buffer["depth"] \in Nat
    BY <1>00, <1>1, <1>3
  <2> USE <1>1, <2>1, <2>2
      DEF FrameKnows, KinectKnows, RealsenseKnows, Has, Holding, Writing, Announced
  <2>3. CASE Request(f) /\ UNCHANGED renderer
    <3>1. /\ UNCHANGED <<fresh, accepted>> /\ pc[f] = "idle"
          /\ \/ sensor = "kinect" /\ Announced /\ pc'[f] = "take" /\ todo'[f] = Kinds
             \/ sensor = "realsense" /\ Announced /\ pc'[f] = "lock"
      BY <1>0, <1>3, <2>3 DEF Request, RequestKinect, RequestRealsense, RequestFake
    <3> QED
      BY <3>1
  <2>4. CASE Lock(f) /\ UNCHANGED renderer
    <3>1. /\ pc[f] = "lock" /\ pc'[f] = "take" /\ todo'[f] = Kinds
          /\ UNCHANGED <<accepted, hand>> /\ fresh'["frame"] = FALSE
      BY <1>3, <2>4 DEF Lock
    <3> QED
      BY <3>1
  <2>5. ASSUME NEW k \in Kinds, Take(f, k), UNCHANGED renderer PROVE Mine
    <3>1. /\ pc[f] = "take" /\ k \in todo[f] /\ todo'[f] = todo[f] \ {k}
          /\ UNCHANGED <<pc, accepted>>
      BY <1>3, <2>5 DEF Take
    <3>2. \A j \in Kinds \ {k} : hand'[f][j] = hand[f][j] /\ (j \in todo'[f] <=> j \in todo[f])
      BY <1>3, <2>5, <3>1 DEF Take, TakeKinect, TakeRealsense
    <3>3. CASE TakeKinect(f, k)
      <4>1. /\ sensor = "kinect" /\ hand'[f][k] = buffer[k] /\ fresh'[k] = FALSE
            /\ \A j \in Kinds \ {k} : fresh'[j] = fresh[j]
        BY <1>3, <3>3 DEF TakeKinect
      <4>2. CASE k = "rgb"
        BY <3>1, <3>2, <4>1, <4>2
      <4>3. CASE k = "depth"
        BY <3>1, <3>2, <4>1, <4>3
      <4> QED
        BY <4>2, <4>3
    <3>4. CASE TakeRealsense(f, k)
      <4>1. /\ sensor = "realsense" /\ fresh' = fresh
            /\ hand'[f][k] = buffer[k] \/ hand'[f][k] = 0
        BY <1>3, <3>4 DEF TakeRealsense
      <4>2. CASE k = "rgb"
        BY <3>1, <3>2, <4>1, <4>2
      <4>3. CASE k = "depth"
        BY <3>1, <3>2, <4>1, <4>3
      <4> QED
        BY <4>2, <4>3
    <3> QED
      BY <2>5, <3>3, <3>4 DEF Take
  <2>6. CASE Taken(f) /\ UNCHANGED renderer
    <3>1. /\ pc[f] = "take" /\ todo[f] = {} /\ pc'[f] = "test"
          /\ UNCHANGED <<fresh, todo, hand, accepted>>
      BY <1>3, <2>6 DEF Taken
    <3> QED
      BY <3>1
  <2>7. CASE TestRoom(f) \/ SwapRgb(f) \/ SwapDepth(f)
    <3>1. /\ UNCHANGED <<fresh, todo, accepted>> /\ pc[f] \in Holding /\ pc[f] # "take"
          /\ \/ pc'[f] \in Writing /\ hand' = hand
             \/ pc'[f] = "idle"
      BY <1>3, <2>7 DEF TestRoom, SwapRgb, SwapDepth
    <3> QED
      BY <3>1
  <2>8. CASE SetNew(f)
    <3>1. /\ UNCHANGED <<fresh, todo>> /\ accepted' = hand[f]
          /\ pc[f] = "setNew" /\ pc'[f] = "idle"
      BY <1>3, <2>8 DEF SetNew
    <3> QED
      BY <3>1
  <2> QED
    BY <1>8, <2>3, <2>4, <2>5, <2>6, <2>7, <2>8 DEF FrameStep, RequestStep
<1>9. CASE SelectSensor
  <2>1. PICK f \in FrameThreads :
          pc[f] = "none" /\ pc' = [pc EXCEPT ![f] = "idle"]
    BY <1>9 DEF SelectSensor, initSensor
  <2>2. UNCHANGED <<sensor, buffer, fresh, todo, hand, accepted>>
    BY <1>9 DEF SelectSensor, initSensor
  <2>3. \A g \in FrameThreads : pc'[g] = pc[g] \/ pc'[g] = "idle"
    BY <1>3, <2>1
  <2> QED
    BY <1>00, <2>2, <2>3
    DEF Announced, FrameKnows, KinectKnows, RealsenseKnows, Has, Holding, Writing
<1>10. CASE UNCHANGED <<sensorVars, accepted>>
  BY <1>00, <1>10
  DEF sensorVars, Announced, FrameKnows, KinectKnows, RealsenseKnows, Has
<1> QED
  BY FrameSteps, <1>5, <1>6, <1>7, <1>8, <1>9, <1>10
     DEF FramesNext, FramesStep, Device, StartSending, Render, RenderSensor, UploadRgb,
         UploadDepth, ClearNew, Send, CopyImage, PushNewFrame, images, Wait, EndOfPass,
         frameVars, sensorVars

\* Selections are one at a time: finitely many threads were started.
LEMMA StartedStep ==
  ASSUME FramesTypeOK, IsFiniteSet(Started), [Next]_vars
  PROVE  IsFiniteSet(Started')
<1> USE DEF FramesTypeOK, device, requests, renderer, GotoF, Return
<1>1. CASE SelectSensor
  <2>1. PICK f \in FrameThreads : pc' = [pc EXCEPT ![f] = "idle"]
    BY <1>1 DEF SelectSensor, initSensor
  <2>2. Started' = Started \cup {f}
    BY <2>1 DEF Started
  <2> QED
    BY <2>2, FS_AddElement
<1>2. ASSUME NEW f \in FrameThreads, FrameStep(f) PROVE Started' = Started
  BY <1>2 DEF FrameStep, RequestStep, Request, RequestKinect, RequestRealsense,
              RequestFake, Lock, Take, Taken, TestRoom, SwapRgb, SwapDepth, SetNew, Started
<1>3. CASE pc' = pc
  BY <1>3 DEF Started
<1>4. Device => pc' = pc
  BY DEF Device, PictureCallback, InitFinished, WaitForFrames, Publish
<1> QED
  BY FrameSteps, <1>1, <1>2, <1>3, <1>4
     DEF FramesNext, FramesStep, StartSending, Render, Wait, EndOfPass, frameVars,
         sensorVars

\* All that DepthAdvances rests on.
LEMMA AdvanceHolds == Spec => [](DeviceInv /\ AdvanceInv /\ IsFiniteSet(Started))
<1> DEFINE Inv == DeviceInv /\ AdvanceInv /\ IsFiniteSet(Started)
<1>1. Init => Inv
  <2> SUFFICES ASSUME FramesInit PROVE Inv
    BY DEF Init
  <2>1. Started = {} /\ \A f \in FrameThreads : pc[f] = "none"
    BY DEF FramesInit, SensorInit, Started
  <2>2. DeviceInv
    BY DEF FramesInit, SensorInit, DeviceInv, NoPictures
  <2>3. AdvanceInv
    BY <2>1 DEF FramesInit, SensorInit, AdvanceInv, Announced, NoPictures, FrameKnows,
                KinectKnows, RealsenseKnows, Has, Holding, Writing, Kinds
  <2> QED
    BY <2>1, <2>2, <2>3, FS_EmptySet
<1>2. FramesTypeOK /\ MutexSpans /\ Inv /\ [Next]_vars => Inv'
  BY DeviceStep, AdvanceStep, StartedStep
<1>3. ExclusiveInv => MutexSpans
  BY DEF ExclusiveInv
<1> QED
  BY <1>1, <1>2, <1>3, FramesTypeCorrect, ExclusiveHolds, PTL DEF Spec

\* With one selection of a Kinect or a RealSense no depth picture is handed to the
\* renderer twice, and none after a later one: the flag that a request tests is
\* cleared by whoever takes the picture, and only a later picture sets it again.
THEOREM DepthAdvancesHolds == Spec => DepthAdvances
<1>1. FramesTypeOK /\ AdvanceInv /\ IsFiniteSet(Started) /\ [Next]_vars
        => [LaterDepth]_frameVars
  <2> SUFFICES ASSUME FramesTypeOK, AdvanceInv, IsFiniteSet(Started), [Next]_vars,
                      ~newFrame, newFrame', Cardinality(Started) <= 1, sensor # "fake",
                      accepted'["depth"] # 0
               PROVE  /\ accepted'["depth"] > accepted["depth"]
                      /\ sensor = "kinect" => accepted'["rgb"] >= accepted["rgb"]
    BY DEF LaterDepth
  <2>1. PICK f \in FrameThreads : SetNew(f)
    BY FrameSteps
    DEF FramesNext, FramesStep, FrameStep, SelectSensor, StartSending, Render,
        RenderSensor, UploadRgb, UploadDepth, ClearNew, Send, CopyImage, PushNewFrame,
        Wait, EndOfPass, TestRoom, SwapRgb, SwapDepth, renderer, frameVars
  <2>2. OneStarted
    <3> SUFFICES ASSUME NEW g \in Started, NEW h \in Started, g # h PROVE FALSE
      BY DEF OneStarted
    <3>1. /\ IsFiniteSet(Started \ {g})
          /\ Cardinality(Started \ {g}) = Cardinality(Started) - 1
          /\ Cardinality(Started) \in Nat /\ Cardinality(Started \ {g}) \in Nat
      BY FS_RemoveElement, FS_CardinalityType
    <3>2. Cardinality(Started \ {g}) = 0
      BY <3>1
    <3> QED
      BY <3>1, <3>2, FS_EmptySet
  <2>3. pc[f] = "setNew" /\ accepted' = hand[f] /\ FrameKnows(f)
    BY <2>1, <2>2 DEF SetNew, AdvanceInv
  <2>4. Has(f, "rgb") /\ Has(f, "depth") /\ sensor \in {"kinect", "realsense"}
    BY <2>3 DEF Has, Holding, Writing, FrameKnows, FramesTypeOK, Choices, Plugins
  <2>5. accepted["depth"] \in Nat /\ hand[f]["depth"] \in Nat
        /\ accepted["rgb"] \in Nat /\ hand[f]["rgb"] \in Nat
    BY DEF FramesTypeOK, Kinds
  <2> QED
    BY <2>3, <2>4, <2>5 DEF FrameKnows, KinectKnows, RealsenseKnows
<1> QED
  BY <1>1, FramesTypeCorrect, AdvanceHolds, PTL DEF Spec, DepthAdvances
=============================================================================
