---------------------------- MODULE MCDetector ----------------------------
(* Detector for TLC: the constants are numbers given in the cfg files. *)
EXTENDS Detector
============================================================================
