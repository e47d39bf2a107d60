---------------------------- MODULE MCGeometryJob ----------------------------
(* An instance of GeometryJob for TLC: the scores are 0, 1 and a strict pass, 2. *)
EXTENDS GeometryJob, TLC

MCVerdicts == 0..TopScore
=============================================================================
