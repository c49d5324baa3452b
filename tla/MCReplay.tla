------------------------------ MODULE MCReplay ------------------------------
(* Instances of Replay for TLC: every bound is a number of its configuration.  *)
EXTENDS Replay
=============================================================================
