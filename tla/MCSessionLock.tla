--------------------------- MODULE MCSessionLock ---------------------------
(* Instances of SessionLock for TLC. *)
EXTENDS SessionLock

\* "pkill ttyrec" reaches both processes, "kill pid" one of them.
AnyTarget == {{"parent"}, {"child"}, {"parent", "child"}}
OneProcess == {{"parent"}, {"child"}}
Both == {"URG", "USR2"}
=============================================================================
