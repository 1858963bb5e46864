-------------------------------- MODULE Video --------------------------------
(***************************************************************************)
(* One video stream on its way to the screen: AlVideoRenderer's thread     *)
(* calls VideoStreamRenderer::updateFrame(), through AlSdkPlugin, Manager  *)
(* and SceneRenderer, and the window's thread draws.  m_remoteFrameMtx     *)
(* guards the frame, m_updateSize alone the geometry.                      *)
(*                                                                         *)
(* A size is a pair; a frame is its number of arrival.  The window's place *)
(* for the stream (setPosition) is a number too.                           *)
(***************************************************************************)
EXTENDS Naturals

CONSTANT Sizes   \* the sizes frames come in, pairs of width and height

ASSUME VideoAssumption == Sizes \subseteq Nat \X Nat

Dimensions == {"width", "height"}

VARIABLES
  size,        \* m_width and m_height
  place,       \* m_x1 .. m_winHeight, as the number of the last setPosition
  updateSize,  \* m_updateSize
  videoFrame,  \* m_remoteFrame: the number of the frame in it, and its size
  videoNew,    \* m_newFrame, which nothing clears
  frameMtx,    \* who holds m_remoteFrameMtx: "decoder", "ui" or "none"
  decoder,     \* where AlVideoRenderer's thread is in updateFrame()
  incoming,    \* the frame it brings
  draw,        \* where the window's thread is in render()
  vertices,    \* the size and the place the vertices were computed from
  screen       \* the texture: a frame, and the size it was uploaded with

geometry == <<size, place, updateSize, vertices>>
videoVars == <<size, place, updateSize, videoFrame, videoNew, frameMtx, decoder, incoming,
               draw, vertices, screen>>

NoSize == [d \in Dimensions |-> 0]
NoFrame == [n |-> 0, size |-> NoSize]
SizeOf(s) == [d \in Dimensions |-> IF d = "width" THEN s[1] ELSE s[2]]

\* The constructor of SceneRenderer has called setPosition, and init() has
\* computed the vertices once.
VideoInit ==
  /\ size = NoSize /\ place = 1 /\ updateSize = TRUE
  /\ videoFrame = NoFrame /\ videoNew = FALSE /\ frameMtx = "none"
  /\ decoder = "idle" /\ incoming = NoFrame
  /\ draw = "idle" /\ vertices = [size |-> NoSize, place |-> 1] /\ screen = NoFrame

-----------------------------------------------------------------------------
(* Faulty variants of definitions below: what a slip in this code would     *)
(* look like.  No specification uses them.                                  *)

\* LockFrame without the lock.
LockNothing ==
  /\ decoder = "lock"
  /\ decoder' = IF size = incoming.size THEN "copy" ELSE "width"
  /\ UNCHANGED <<geometry, videoFrame, videoNew, frameMtx, incoming, draw, screen>>

\* ResizeFrame that does not ask for new vertices.
ResizeOnly ==
  /\ decoder = "resize"
  /\ videoFrame' = [n |-> 0, size |-> incoming.size]
  /\ decoder' = "copy"
  /\ UNCHANGED <<geometry, videoNew, frameMtx, incoming, draw, screen>>

\* Unlock left out.
KeepLock ==
  /\ draw = "unlock"
  /\ draw' = "done"
  /\ UNCHANGED <<geometry, videoFrame, videoNew, frameMtx, decoder, incoming, screen>>

-----------------------------------------------------------------------------
(* AlVideoRenderer::OnFrame and VideoStreamRenderer::updateFrame. *)

OnFrame(n, s) ==
  /\ decoder = "idle"
  /\ incoming' = [n |-> n, size |-> SizeOf(s)]
  /\ decoder' = "lock"
  /\ UNCHANGED <<geometry, videoFrame, videoNew, frameMtx, draw, screen>>

LockFrame ==
  /\ decoder = "lock" /\ frameMtx = "none"
  /\ frameMtx' = "decoder"
  /\ decoder' = IF size = incoming.size THEN "copy" ELSE "width"
  /\ UNCHANGED <<geometry, videoFrame, videoNew, incoming, draw, screen>>

SetSize(d) ==
  /\ decoder = d
  /\ size' = [size EXCEPT ![d] = incoming.size[d]]
  /\ decoder' = IF d = "width" THEN "height" ELSE "resize"
  /\ UNCHANGED <<place, updateSize, vertices, videoFrame, videoNew, frameMtx, incoming,
                 draw, screen>>

\* m_remoteFrame.resize(), then m_updateSize.
ResizeFrame ==
  /\ decoder = "resize"
  /\ videoFrame' = [n |-> 0, size |-> incoming.size]
  /\ updateSize' = TRUE
  /\ decoder' = "copy"
  /\ UNCHANGED <<size, place, vertices, videoNew, frameMtx, incoming, draw, screen>>

\* std::copy, under way: the frame is neither the old nor the new one.
CopyFrame ==
  /\ decoder = "copy"
  /\ videoFrame' = [videoFrame EXCEPT !.n = 0]
  /\ decoder' = "finish"
  /\ UNCHANGED <<geometry, videoNew, frameMtx, incoming, draw, screen>>

FinishFrame ==
  /\ decoder = "finish"
  /\ videoFrame' = [videoFrame EXCEPT !.n = incoming.n]
  /\ videoNew' = TRUE
  /\ frameMtx' = "none"
  /\ decoder' = "idle"
  /\ UNCHANGED <<geometry, incoming, draw, screen>>

Decode ==
  \/ LockFrame \/ (\E d \in Dimensions : SetSize(d)) \/ ResizeFrame
  \/ CopyFrame \/ FinishFrame

-----------------------------------------------------------------------------
(* VideoStreamRenderer::render(); bindToTex() uploads in the same way. *)

TestUpdate ==
  /\ draw = "idle"
  /\ draw' = IF updateSize THEN "place" ELSE "test"
  /\ updateSize' = FALSE
  /\ UNCHANGED <<size, place, vertices, videoFrame, videoNew, frameMtx, decoder, incoming,
                 screen>>

ReadPlace ==
  /\ draw = "place"
  /\ vertices' = [vertices EXCEPT !.place = place]
  /\ draw' = "width"
  /\ UNCHANGED <<size, place, updateSize, videoFrame, videoNew, frameMtx, decoder,
                 incoming, screen>>

\* _updateVertices() reads m_width and m_height without the mutex.
ReadSize(d) ==
  /\ draw = d
  /\ vertices' = [vertices EXCEPT !.size[d] = size[d]]
  /\ draw' = IF d = "width" THEN "height" ELSE "test"
  /\ UNCHANGED <<size, place, updateSize, videoFrame, videoNew, frameMtx, decoder,
                 incoming, screen>>

TestFrame ==
  /\ draw = "test"
  /\ draw' = IF videoNew THEN "lock" ELSE "done"
  /\ UNCHANGED <<geometry, videoFrame, videoNew, frameMtx, decoder, incoming, screen>>

LockScreen ==
  /\ draw = "lock" /\ frameMtx = "none"
  /\ frameMtx' = "ui"
  /\ draw' = "upload"
  /\ UNCHANGED <<geometry, videoFrame, videoNew, decoder, incoming, screen>>

\* glTexImage2D with m_width, m_height and the bytes of m_remoteFrame.
UploadFrame ==
  /\ draw = "upload"
  /\ screen' = [n |-> IF size = videoFrame.size THEN videoFrame.n ELSE 0, size |-> size]
  /\ draw' = "unlock"
  /\ UNCHANGED <<geometry, videoFrame, videoNew, frameMtx, decoder, incoming>>

Unlock ==
  /\ draw = "unlock"
  /\ frameMtx' = "none"
  /\ draw' = "done"
  /\ UNCHANGED <<geometry, videoFrame, videoNew, decoder, incoming, screen>>

Draw ==
  \/ TestUpdate \/ ReadPlace \/ (\E d \in Dimensions : ReadSize(d))
  \/ TestFrame \/ LockScreen \/ UploadFrame \/ Unlock

\* setPosition(), from SceneRenderer::onWinResize on the window's thread.
setPosition ==
  /\ draw = "idle"
  /\ place' = place + 1
  /\ updateSize' = TRUE
  /\ UNCHANGED <<size, vertices, videoFrame, videoNew, frameMtx, decoder, incoming, draw,
                 screen>>

-----------------------------------------------------------------------------
(* Correctness *)

DecoderLabels == {"idle", "lock", "resize", "copy", "finish"} \cup Dimensions
DrawLabels == {"idle", "place", "test", "lock", "upload", "unlock", "done"} \cup Dimensions
Frame == [n : Nat, size : [Dimensions -> Nat]]

VideoTypeOK ==
  /\ size \in [Dimensions -> Nat] /\ place \in Nat /\ updateSize \in BOOLEAN
  /\ videoFrame \in Frame /\ videoNew \in BOOLEAN
  /\ frameMtx \in {"decoder", "ui", "none"}
  /\ decoder \in DecoderLabels /\ incoming \in Frame
  /\ draw \in DrawLabels
  /\ vertices \in [size : [Dimensions -> Nat], place : Nat] /\ screen \in Frame
  /\ frameMtx = "ui" <=> draw \in {"upload", "unlock"}
  /\ frameMtx = "decoder" <=> decoder \in {"resize", "copy", "finish"} \cup Dimensions

\* What is shown is one whole frame, in the size it came in.
ShownWhole == screen # NoFrame => screen.n # 0

\* m_updateSize is cleared before the size and the place are read, and set after
\* they are written, so no change of either is missed: with the flag clear, and
\* neither thread on the way, the vertices are those of the frame and the window.
GeometryKept ==
  /\ ~updateSize
  /\ draw \notin Dimensions \cup {"place"}
  /\ decoder \notin {"height", "resize"}
  => vertices = [size |-> size, place |-> place]

\* Liveness: a frame the WebRTC thread brings is shown, or a later one is.
FrameShown(n) == decoder # "idle" /\ incoming.n = n ~> screen.n >= n
=============================================================================
