----------------------------- MODULE MCRecorder -----------------------------
(* Instances of Recorder for TLC. *)
EXTENDS Recorder

\* "kill -USR1 pid" of the child, or "pkill -USR1 ttyrec".
AnyRequest == {{"child"}, {"parent", "child"}}
Pipes == {"stdout", "stderr"}
AnyMode == {"none", "zstd"}
=============================================================================
