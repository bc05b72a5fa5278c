---------------------------- MODULE MCSessionExit ---------------------------
(* Instances of SessionExit for TLC. *)
EXTENDS SessionExit

\* A terminal, with a watcher or with a program that ignores SIGTERM; pipes.
AnySetup == {[tty |-> TRUE, watcher |-> TRUE, stubborn |-> FALSE],
             [tty |-> TRUE, watcher |-> FALSE, stubborn |-> TRUE],
             [tty |-> FALSE, watcher |-> FALSE, stubborn |-> FALSE]}

\* A code of the program's own, and SIGKILL.
AnyStatus == {Exited(7), Killed(9)}

\* The watcher and the kill code signal the child; an operator the parent; a terminal
\* that hangs up, both.
AnyCommand == {<<{"child"}, "TERM">>, <<{"parent"}, "TERM">>, <<Proc, "HUP">>}
=============================================================================
