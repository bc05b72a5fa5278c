----------------------------- MODULE Recording ------------------------------
(***************************************************************************)
(* A session being recorded (Recorder) while someone watches its file with *)
(* ttyplay -p (Player).  The two processes share the files only.           *)
(***************************************************************************)
EXTENDS Recorder, Player

vars == <<recorderVars, playerVars>>

TypeOK == RecorderTypeOK /\ PlayerTypeOK

Init == RecorderInit /\ PlayerInit

Next ==
    \/ RecorderNext /\ UNCHANGED playerVars
    \/ PlayerNext /\ UNCHANGED recorderVars

Spec == Init /\ [][Next]_vars

\* The kernel runs the child and the player whenever they can run.
Fairness ==
    /\ WF_vars(ChildStep /\ UNCHANGED playerVars)
    /\ WF_vars(PlayerNext /\ UNCHANGED recorderVars)

FairSpec == Spec /\ Fairness
----------------------------------------------------------------------------
(* Properties *)

\* Who watches an uncompressed file as it grows has seen exactly the records that it
\* begins with, in order, and never falls out of step.
PlaysWhatWasRecorded ==
    mode = "none" =>
        next # "lost" /\ IsPrefix(RecordsOf(played), Parts(PeekedFile))

\* Whoever watches an uncompressed file sees all of it in the end.
CatchesUp ==
    [](mode = "none" => <>(played = DataOf(Parts(PeekedFile))))
----------------------------------------------------------------------------
(* What a comment says of the player, and it does not do *)

\* "Read persistently just like tail -f." (ttyplay.c:253): the player never falls
\* out of step with a compressed file either.
PeeksCompressedFile == next # "lost"
=============================================================================
