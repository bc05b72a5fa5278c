---------------------------- MODULE MCRecording ----------------------------
(* Instances of the composition of Recorder and Player for TLC. *)
EXTENDS Recording, MCRecorder
=============================================================================
