---------------------------- MODULE MCDirectBench ----------------------------
(* DirectBench for TLC: the realtime clock is set forward or back. *)
EXTENDS DirectBench

MCSettings == {-2, 1}
=============================================================================
