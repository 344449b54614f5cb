------------------------------ MODULE MCFrames ------------------------------
(* Instance of Frames for TLC.                                             *)
EXTENDS Frames

\* Nothing, a byte, and a proof of two branches.
MCLengths == {0, 1, 128}
============================================================================
