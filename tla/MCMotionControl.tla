--------------------------- MODULE MCMotionControl ---------------------------
(* MotionControl for TLC: both signs of both arguments and zero, and the   *)
(* 16-bit degree that has no opposite.                                     *)
EXTENDS MotionControl

MCDistances == {-1, 0, 20}
MCDegrees   == {-32768, -30, 0, 30}
=============================================================================
