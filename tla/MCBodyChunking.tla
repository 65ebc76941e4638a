--------------------------- MODULE MCBodyChunking ---------------------------
(* A small instance of BodyChunking for TLC. *)
EXTENDS BodyChunking
SmallLengths == 1..10
SmallFrames == 0..7
=============================================================================
