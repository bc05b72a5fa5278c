---------------------------- MODULE SessionExit -----------------------------
(***************************************************************************)
(* How a session ends.  Three processes run: the program (the subchild),   *)
(* the child that records it, the parent that reads the keyboard.  The     *)
(* child waits for the program, the parent for the child, each in two      *)
(* places: a blocking waitpid at the end of its loop, and the handler of   *)
(* SIGCHLD, which may run at any time before, in or after it, in the       *)
(* parent also in the thread of the watcher.  Both call done(), as do the  *)
(* handlers of SIGTERM and SIGHUP and fail().                              *)
(*                                                                         *)
(* A thread is a stack of program counters: its loop, and the handlers and *)
(* the done() that run on top of it.  What the child records meanwhile is  *)
(* in module Recorder, the lock that done() releases in SessionLock.       *)
(***************************************************************************)
EXTENDS Integers, Sequences, SequencesExt

CONSTANTS
    Setups,     \* the sessions considered, see Setup
    Statuses,   \* the wait statuses the program may end with by itself
    Failures,   \* what may fail: subset of {"exec", "write"}
    Commands,   \* what the operator sends: subset of (SUBSET Proc) \X {"TERM", "HUP"}
    MaxCommands \* bound: commands of the operator or of the watcher, and failed writes

Proc == {"parent", "child"}
Thread == {"main", "watcher", "child"}
Signal == {"CHLD", "TERM", "HUP"}

\* use_tty; whether the parent has its second thread; whether the program ignores SIGTERM.
Setup == [tty : BOOLEAN, watcher : BOOLEAN, stubborn : BOOLEAN]

ASSUME ExitAssumption ==
    /\ Setups \subseteq Setup
    /\ Statuses \subseteq Nat
    /\ Failures \subseteq {"exec", "write"}
    /\ Commands \subseteq (SUBSET Proc) \X {"TERM", "HUP"}
    /\ MaxCommands \in Nat

\* The wait status of a process that exits with a code, or that a signal killed.
Exited(code) == 256 * code
Killed(signal) == signal
SIGTERM == 15

\* Mutant of ExitCode: the status itself is the code.
ExitCodeRaw(wait_status) == wait_status

\* WEXITSTATUS(status)
ExitCode(wait_status) == (wait_status \div 256) % 256

EXIT_SUCCESS == 0
EXIT_FAILURE == 1

VARIABLES
    setup,      \* the session considered, chosen at startup
    stack,      \* what each thread is doing, the running context last
    pending,    \* the signals sent to each process and not yet handled
    known,      \* the processes whose fork() has returned: child, or subchild, is set
    childexit,  \* childexit of each process
    canExit,    \* can_exit of the child
    entered,    \* the processes that hold entered_done
    status,     \* what the done() that got through was given
    process,    \* the child and the program: running, a zombie, or reaped
    ended,      \* the wait status of the child and of the program
    exitCode,   \* the exit code of the parent, -1 while it runs
    raw,        \* whether the user's terminal is in raw mode
    jammed,     \* whether program, child and caller all wait to write to each other
    output,     \* whether someone still holds the program's side of the terminal or pipes
    commands    \* how many commands were sent

\* History of the run: read by properties only.
VARIABLES
    told,       \* the processes that were sent SIGTERM or SIGHUP
    cleaned     \* how often each process ran the body of done()

signalVars == <<pending, told>>
waitVars == <<childexit, canExit, process, ended>>
doneVars == <<entered, status, exitCode, raw, cleaned>>
sceneVars == <<setup, known, jammed, output, commands>>
vars == <<stack, signalVars, waitVars, doneVars, sceneVars>>

LoopPc == {"fork", "input", "output", "sleep", "wait", "wait_store", "leave", "abort", "return"}
HandlerPc == [CHLD |-> {"reap", "store", "report"},
              TERM |-> {"term", "warn", "term_die"},
              HUP  |-> {"hup", "hup_die"}]
DonePc == {"clean", "exit"}
Pc == LoopPc \cup (UNION {HandlerPc[s] : s \in Signal}) \cup DonePc

----------------------------------------------------------------------------
(* Threads *)

ProcOf(t) == IF t = "child" THEN "child" ELSE "parent"

\* The only process that each of the two waits for.
ChildOf(p) == IF p = "parent" THEN "child" ELSE "program"

Alive(p) == IF p = "parent" THEN exitCode = -1 ELSE process["child"] = "running"

TypeOK ==
    /\ setup \in Setup
    /\ \A t \in Thread : stack[t] \in Seq(Pc) /\ (stack[t] = <<>> <=> ~Alive(ProcOf(t)))
    /\ pending \in [Proc -> SUBSET Signal]
    /\ told \subseteq Proc \cup {"program"} /\ known \subseteq Proc /\ entered \subseteq Proc
    /\ childexit \in [Proc -> Nat] /\ status \in [Proc -> Nat]
    /\ {canExit, raw, jammed, output} \subseteq BOOLEAN
    /\ process \in [{"child", "program"} -> {"running", "zombie", "reaped"}]
    /\ ended \in [{"child", "program"} -> Nat]
    /\ exitCode \in -1..255 /\ commands \in Nat
    /\ cleaned \in [Proc -> Nat]

At(t, pc) == Alive(ProcOf(t)) /\ Last(stack[t]) = pc
\* kill(): a signal for the processes that are alive, and not yet pending.
Sent(targets, signal, signals) ==
    [p \in Proc |-> IF p \in targets /\ Alive(p) THEN signals[p] \cup {signal} ELSE signals[p]]

Goto(t, pc) == stack' = [stack EXCEPT ![t] = Append(Front(@), pc)]
Call(t, pc) == stack' = [stack EXCEPT ![t] = Append(@, pc)]
Return(t) == stack' = [stack EXCEPT ![t] = Front(@)]

Handles(t, signal) == \E pc \in HandlerPc[signal] : Contains(stack[t], pc)

\* A signal is taken by any thread of the process that is not in its handler already.
\* A thread inside the system call that stores a status takes none.
Deliver(t, signal) ==
    /\ Alive(ProcOf(t))
    /\ t = "watcher" => setup.watcher /\ "parent" \in known
    /\ signal \in pending[ProcOf(t)]
    /\ Last(stack[t]) \notin {"store", "wait_store"}
    /\ ~Handles(t, signal)
    /\ pending' = [pending EXCEPT ![ProcOf(t)] = @ \ {signal}]
    /\ Call(t, CASE signal = "CHLD" -> "reap" [] signal = "TERM" -> "term"
                 [] signal = "HUP" -> "hup")
    /\ UNCHANGED <<told, waitVars, doneVars, sceneVars>>
----------------------------------------------------------------------------
(* done() *)

\* Mutant of Done: entered_done is not tried.
DoneAgain(t, wait_status, otherwise) ==
    /\ entered' = entered \cup {ProcOf(t)}
    /\ status' = [status EXCEPT ![ProcOf(t)] = wait_status]
    /\ Call(t, "clean")
    /\ UNCHANGED <<exitCode, raw, cleaned>>

\* Thread t calls done(wait_status).  The first call gets through and does not come
\* back; any other returns at once, and the caller goes on as in otherwise.
Done(t, wait_status, otherwise) ==
    IF ProcOf(t) \in entered
    THEN otherwise /\ UNCHANGED doneVars
    ELSE /\ entered' = entered \cup {ProcOf(t)}
         /\ status' = [status EXCEPT ![ProcOf(t)] = wait_status]
         /\ Call(t, "clean")
         /\ UNCHANGED <<exitCode, raw, cleaned>>

\* Mutant of Clean: the terminal is restored by the process that has no subchild to clean up.
CleanOther(t) ==
    /\ At(t, "clean")
    /\ raw' = (raw /\ (ProcOf(t) = "parent" /\ "parent" \in known))
    /\ cleaned' = [cleaned EXCEPT ![ProcOf(t)] = @ + 1]
    /\ Goto(t, "exit")
    /\ UNCHANGED <<signalVars, waitVars, entered, status, exitCode, sceneVars>>

\* The child closes its file and its terminal; who has no subchild restores the user's terminal.
Clean(t) ==
    /\ At(t, "clean")
    /\ raw' = (raw /\ ProcOf(t) = "child" /\ "child" \in known)
    /\ cleaned' = [cleaned EXCEPT ![ProcOf(t)] = @ + 1]
    /\ Goto(t, "exit")
    /\ UNCHANGED <<signalVars, waitVars, entered, status, exitCode, sceneVars>>

\* The process of thread t is gone, with its threads and signals; its parent is told.
Leave(t, code) ==
    /\ stack' = [u \in Thread |-> IF ProcOf(u) = ProcOf(t) THEN <<>> ELSE stack[u]]
    /\ IF ProcOf(t) = "parent"
       THEN /\ exitCode' = code
            /\ pending' = [pending EXCEPT !["parent"] = {}]
            /\ UNCHANGED <<process, ended>>
       ELSE /\ process' = [process EXCEPT !["child"] = "zombie"]
            /\ ended' = [ended EXCEPT !["child"] = Exited(code)]
            /\ pending' = Sent({"parent"}, "CHLD", [pending EXCEPT !["child"] = {}])
            /\ UNCHANGED exitCode

\* exit(WEXITSTATUS(status)) at the end of done().
Exit(t) ==
    /\ At(t, "exit")
    /\ Leave(t, ExitCode(status[ProcOf(t)]))
    /\ UNCHANGED <<told, childexit, canExit, entered, status, raw, cleaned, sceneVars>>

\* done() has returned to the loop, which returns to main(), which returns 0.
ReturnFromMain(t) ==
    /\ At(t, "return")
    /\ Leave(t, EXIT_SUCCESS)
    /\ UNCHANGED <<told, childexit, canExit, entered, status, raw, cleaned, sceneVars>>
----------------------------------------------------------------------------
(* The two loops *)

\* fork() returns in the parent, or in the child, and its result is stored.
ForkReturns(t) ==
    /\ At(t, "fork")
    /\ known' = known \cup {ProcOf(t)}
    /\ Goto(t, IF t = "child" THEN "output" ELSE IF setup.tty THEN "input" ELSE "wait")
    /\ UNCHANGED <<signalVars, waitVars, doneVars, setup, jammed, output, commands>>

\* doinput: read(0) returns no more.
KeyboardEnds ==
    /\ At("main", "input")
    /\ Goto("main", "wait")
    /\ UNCHANGED <<signalVars, waitVars, doneVars, sceneVars>>

\* SIGTERM for every process of the group: the program has one of its own with a tty.
KillGroup ==
    /\ pending' = Sent(Proc, "TERM", pending)
    /\ told' = told \cup Proc \cup (IF setup.tty THEN {} ELSE {"program"})

\* doinput: write(master) fails; fail() kills the group, then calls done().
InputFails ==
    /\ "write" \in Failures
    /\ At("main", "input")
    /\ commands < MaxCommands
    /\ commands' = commands + 1
    /\ KillGroup
    /\ Goto("main", "abort")
    /\ UNCHANGED <<waitVars, doneVars, setup, known, jammed, output>>

Abort ==
    /\ At("main", "abort")
    /\ Done("main", EXIT_FAILURE, Goto("main", "input"))
    /\ UNCHANGED <<signalVars, waitVars, sceneVars>>

\* dooutput: nothing is left to read, or what was read cannot be shown.
OutputLoopEnds ==
    /\ At("child", "output")
    /\ ~output
    /\ Goto("child", "wait")
    /\ UNCHANGED <<signalVars, waitVars, doneVars, sceneVars>>

\* The blocking waitpid, which returns when there is a child to reap, or none at all.
Wait(t) ==
    /\ At(t, "wait")
    /\ \/ /\ t = "child" /\ canExit
          /\ Goto(t, "leave")
          /\ UNCHANGED <<canExit, process>>
       \/ /\ ~(t = "child" /\ canExit)
          /\ process[ChildOf(ProcOf(t))] = "zombie"
          /\ process' = [process EXCEPT ![ChildOf(ProcOf(t))] = "reaped"]
          /\ Goto(t, "wait_store")
          /\ UNCHANGED canExit
       \/ /\ ~(t = "child" /\ canExit)
          /\ process[ChildOf(ProcOf(t))] = "reaped"
          /\ Goto(t, "leave")
          /\ canExit' = (canExit \/ t = "child")
          /\ UNCHANGED process
    /\ UNCHANGED <<signalVars, childexit, ended, doneVars, sceneVars>>

\* The status is stored.  The child's loop tests can_exit again, the parent goes on.
WaitStore(t) ==
    /\ At(t, "wait_store")
    /\ childexit' = [childexit EXCEPT ![ProcOf(t)] = ended[ChildOf(ProcOf(t))]]
    /\ Goto(t, IF t = "child" THEN "wait" ELSE "leave")
    /\ UNCHANGED <<signalVars, canExit, process, ended, doneVars, sceneVars>>

\* The loop has ended: done(childexit).
LoopEnds(t) ==
    /\ At(t, "leave")
    /\ Done(t, childexit[ProcOf(t)], Goto(t, "return"))
    /\ UNCHANGED <<signalVars, waitVars, sceneVars>>
----------------------------------------------------------------------------
(* The handlers *)

\* finish: waitpid with WNOHANG.
Reap(t) ==
    /\ At(t, "reap")
    /\ IF process[ChildOf(ProcOf(t))] = "zombie"
       THEN /\ process' = [process EXCEPT ![ChildOf(ProcOf(t))] = "reaped"]
            /\ Goto(t, "store")
       ELSE Return(t) /\ UNCHANGED process
    /\ UNCHANGED <<signalVars, childexit, canExit, ended, doneVars, sceneVars>>

\* Mutant of Store: the handler has a status of its own.
StoreLocally(t) ==
    /\ At(t, "store")
    /\ canExit' = (canExit \/ (t = "child" /\ "child" \in known))
    /\ IF ProcOf(t) = "parent" /\ "parent" \in known THEN Goto(t, "report") ELSE Return(t)
    /\ UNCHANGED <<signalVars, childexit, process, ended, doneVars, sceneVars>>

\* The status is stored and the pid looked at: the program's sets can_exit, the
\* child's ends the parent, and one that fork() has not returned yet is nobody's.
Store(t) ==
    /\ At(t, "store")
    /\ childexit' = [childexit EXCEPT ![ProcOf(t)] = ended[ChildOf(ProcOf(t))]]
    /\ canExit' = (canExit \/ (t = "child" /\ "child" \in known))
    /\ IF ProcOf(t) = "parent" /\ "parent" \in known THEN Goto(t, "report") ELSE Return(t)
    /\ UNCHANGED <<signalVars, process, ended, doneVars, sceneVars>>

\* finish: done(childexit)
Report(t) ==
    /\ At(t, "report")
    /\ Done(t, childexit[ProcOf(t)], Return(t))
    /\ UNCHANGED <<signalVars, waitVars, sceneVars>>

TellProgram == told' = told \cup {"program"}

\* Mutant of Terminated: the message is printed before the program is killed.
TerminatedSpeaking(t) ==
    /\ At(t, "term")
    /\ IF t = "child" /\ "child" \in known
       THEN ~jammed /\ TellProgram /\ Goto(t, "warn") /\ UNCHANGED doneVars
       ELSE Done(t, EXIT_SUCCESS, Return(t)) /\ UNCHANGED told
    /\ UNCHANGED <<pending, waitVars, sceneVars>>

\* sigterm_handler: the child kills the program and prints a message, then it calls
\* done(), as the parent does at once.
Terminated(t) ==
    /\ At(t, "term")
    /\ IF t = "child" /\ "child" \in known
       THEN TellProgram /\ Goto(t, "warn") /\ UNCHANGED doneVars
       ELSE Done(t, EXIT_SUCCESS, Return(t)) /\ UNCHANGED told
    /\ UNCHANGED <<pending, waitVars, sceneVars>>

\* The message is printed, which blocks while the caller does not read.
Warn(t) ==
    /\ At(t, "warn")
    /\ ~jammed
    /\ Goto(t, "term_die")
    /\ UNCHANGED <<signalVars, waitVars, doneVars, sceneVars>>

\* sighup_handler: as sigterm_handler, without the message.
HungUp(t) ==
    /\ At(t, "hup")
    /\ IF t = "child" /\ "child" \in known
       THEN TellProgram /\ Goto(t, "hup_die") /\ UNCHANGED doneVars
       ELSE Done(t, EXIT_SUCCESS, Return(t)) /\ UNCHANGED told
    /\ UNCHANGED <<pending, waitVars, sceneVars>>

\* The end of both handlers: done(EXIT_SUCCESS).
HandlerDies(t) ==
    /\ At(t, "term_die") \/ At(t, "hup_die")
    /\ Done(t, EXIT_SUCCESS, Return(t))
    /\ UNCHANGED <<signalVars, waitVars, sceneVars>>
----------------------------------------------------------------------------
(* The program, its caller, and the operator *)

\* The program is gone.  While all are jammed, only a signal ends it.  What an orphan
\* does is left out.
ProgramEnds(wait_status) ==
    /\ Alive("child") /\ process["program"] = "running"
    /\ wait_status = Killed(SIGTERM) \/ jammed => "program" \in told /\ ~setup.stubborn
    /\ process' = [process EXCEPT !["program"] = "zombie"]
    /\ ended' = [ended EXCEPT !["program"] = wait_status]
    /\ pending' = Sent({"child"}, "CHLD", pending)
    /\ jammed' = FALSE
    /\ UNCHANGED <<stack, told, childexit, canExit, doneVars, setup, known, output, commands>>

\* execvp fails in the subchild: its fail() kills the group and exits.
ExecFails ==
    /\ "exec" \in Failures
    /\ Alive("child") /\ process["program"] = "running" /\ output /\ ~jammed
    /\ process' = [process EXCEPT !["program"] = "zombie"]
    /\ ended' = [ended EXCEPT !["program"] = Exited(ExitCode(EXIT_FAILURE))]
    /\ IF setup.tty
       THEN pending' = Sent({"child"}, "CHLD", pending) /\ UNCHANGED told
       ELSE /\ pending' = Sent(Proc, "TERM", Sent({"child"}, "CHLD", pending))
            /\ told' = told \cup Proc
    /\ UNCHANGED <<stack, childexit, canExit, doneVars, sceneVars>>

\* The last holder of the program's side of the terminal or the pipes closes it.
OutputCloses ==
    /\ Alive("child") /\ output
    /\ output' = FALSE
    /\ UNCHANGED <<stack, signalVars, waitVars, doneVars, setup, known, jammed, commands>>

\* The caller writes to a program that waits to write to a child that waits to
\* write to the caller.  A program that ignores SIGTERM would keep it so.
Jam ==
    /\ ~setup.tty /\ ~setup.stubborn
    /\ Alive("child") /\ stack["child"][1] = "output" /\ output
    /\ process["program"] = "running"
    /\ ~jammed
    /\ jammed' = TRUE
    /\ UNCHANGED <<stack, signalVars, waitVars, doneVars, setup, known, output, commands>>

\* The operator, the watcher or the kill code sends a signal.
Command(targets, signal) ==
    /\ commands < MaxCommands
    /\ \E p \in targets : Alive(p)
    /\ commands' = commands + 1
    /\ pending' = Sent(targets, signal, pending)
    /\ told' = told \cup targets
    /\ UNCHANGED <<stack, waitVars, doneVars, setup, known, jammed, output>>

Init ==
    /\ setup \in Setups
    /\ stack = [t \in Thread |-> IF t = "watcher" THEN <<"sleep">> ELSE <<"fork">>]
    /\ pending = [p \in Proc |-> {}]
    /\ known = {} /\ entered = {} /\ told = {}
    /\ childexit = [p \in Proc |-> 254]
    /\ status = [p \in Proc |-> 0] /\ cleaned = [p \in Proc |-> 0]
    /\ canExit = FALSE
    /\ process = [p \in {"child", "program"} |-> "running"]
    /\ ended = [p \in {"child", "program"} |-> 0]
    /\ exitCode = -1
    /\ raw = setup.tty
    /\ jammed = FALSE /\ output = TRUE
    /\ commands = 0

ThreadStep(t) ==
    \/ \E signal \in Signal : Deliver(t, signal)
    \/ Clean(t) \/ Exit(t) \/ ReturnFromMain(t)
    \/ ForkReturns(t) \/ Wait(t) \/ WaitStore(t) \/ LoopEnds(t)
    \/ Reap(t) \/ Store(t) \/ Report(t)
    \/ Terminated(t) \/ Warn(t) \/ HungUp(t) \/ HandlerDies(t)
    \/ t = "main" /\ Abort
    \/ t = "child" /\ OutputLoopEnds

Next ==
    \/ \E t \in Thread : ThreadStep(t)
    \/ KeyboardEnds \/ InputFails
    \/ \E wait_status \in Statuses \cup {Killed(SIGTERM)} : ProgramEnds(wait_status)
    \/ ExecFails \/ OutputCloses \/ Jam
    \/ \E command \in Commands : Command(command[1], command[2])

Spec == Init /\ [][Next]_vars

\* Threads are scheduled; a program that was killed dies; and when the program has
\* ended, what it left behind lets go of its terminal or pipes in the end.
Fairness ==
    /\ \A t \in Thread : WF_vars(ThreadStep(t))
    /\ WF_vars("program" \in told /\ ~setup.stubborn /\ ProgramEnds(Killed(SIGTERM)))
    /\ WF_vars(process["program"] # "running" /\ OutputCloses)

FairSpec == Spec /\ Fairness
----------------------------------------------------------------------------
(* Properties *)

\* A session that nobody interrupts reports the program's exit code, and not before
\* the program has ended and been waited for, wherever the two waits and the two
\* handlers meet.  With a second thread in the parent the two calls of done() may
\* race, and main() then returns 0.
StatusReported ==
    exitCode # -1 /\ told = {} =>
        /\ process = [p \in {"child", "program"} |-> "reaped"]
        /\ \/ exitCode = ExitCode(ended["program"])
           \/ setup.watcher /\ exitCode = 0

\* However the parent ends, the user's terminal is as it was (with the same exception).
TerminalGivenBack == exitCode # -1 /\ ~setup.watcher => ~raw

\* Whatever interrupts done(), its body is run at most once in a process (ttyrec.c:1651).
DoneOnce == \A p \in Proc : cleaned[p] =< 1

\* The child was waited for before fork() had told the parent its pid: finish did not
\* know it, and the keyboard is read until its end.
ForkLost == At("main", "input") /\ process["child"] = "reaped"

\* When the program has ended, or the child was told to end, all end; also when the
\* program, the child and the caller were waiting for each other (ttyrec.c:1627).
SessionEnds ==
    process["program"] # "running" \/ "child" \in told
        ~> (exitCode # -1 /\ process["child"] # "running") \/ ForkLost
=============================================================================
