------------------------------ MODULE MCScene ------------------------------
(***************************************************************************)
(* An instance of Scene for TLC.  What a run takes depends on the sensor:  *)
(* RealSense is selected twice, images are sent with the fake sensor, and  *)
(* a stream is shown, and the window resized, in a call without a sensor.  *)
(***************************************************************************)
EXTENDS Scene

BySensor(kinect, realsense, fake, none) ==
  [p \in Choices |-> CASE p = "kinect" -> kinect
                       [] p = "realsense" -> realsense
                       [] p = "fake" -> fake
                       [] p = "none" -> none]

MCThreads == BySensor(1, 2, 1, 0)
MCPictures == BySensor(2, 2, 0, 0)
MCImages == BySensor(0, 0, 2, 0)
MCFrames == BySensor(0, 0, 0, 2)
MCResizes == BySensor(0, 0, 0, 1)
MCSizes == {<<2, 1>>, <<1, 2>>}

\* Kinect is selected a second time, and nothing else happens.
MCTwice == BySensor(2, 0, 0, 0)
MCNothing == BySensor(0, 0, 0, 0)
=============================================================================
