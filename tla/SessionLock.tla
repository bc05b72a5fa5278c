---------------------------- MODULE SessionLock ----------------------------
(***************************************************************************)
(* The session lock of ttyrec: two processes that each keep their own      *)
(* locked_since, and keep the two copies equal by echoing SIGURG (lock)    *)
(* and SIGUSR2 (unlock) to each other.                                     *)
(*                                                                         *)
(* The parent reads the keyboard (thread "main") and, when a timeout is    *)
(* set, runs timeout_watcher (thread "watcher").  The child reads the      *)
(* program's output and draws the lock screen.  A signal sent to a process *)
(* is run by any of its threads that is not already inside the handler of  *)
(* that signal; handlers of different signals nest, since every sigaction  *)
(* is installed with an empty sa_mask and without SA_NODEFER.  A signal    *)
(* that is already pending is not queued twice.                            *)
(*                                                                         *)
(* Recording of the output is in module Recorder; here the child's loop    *)
(* only waits for the program's end.                                       *)
(***************************************************************************)
EXTENDS Integers, FiniteSets

CONSTANTS
    UseTty,         \* use_tty
    TimeoutLock,    \* timeout_lock, 0 when -t is not given
    TimeoutKill,    \* timeout_kill, 0 when -k is not given
    WarnBeforeLock, \* warn_before_lock_seconds
    WarnBeforeKill, \* warn_before_kill_seconds
    InputKinds,     \* what the user may do: subset of {"plain", "lock", "kill", "eof"}
    OperatorTargets,\* which processes one command of the operator may reach
    OperatorSignals,\* the commands of the operator: subset of {"URG", "USR2"}
    OperatorWaits,  \* whether operator, user and program wait until all is settled
    MaxCommands,    \* bound: commands of the operator and inputs of the user
    MaxTime         \* bound: the last second of a behaviour

\* What main() accepts of the timeouts, and the domains of the other parameters: a
\* command of the operator reaches someone.
ASSUME OptionsAssumption ==
    /\ UseTty \in BOOLEAN /\ OperatorWaits \in BOOLEAN
    /\ {TimeoutLock, TimeoutKill, WarnBeforeLock, WarnBeforeKill} \subseteq Nat
    /\ {MaxCommands, MaxTime} \subseteq Nat
    /\ TimeoutLock > 0 /\ TimeoutKill > 0 => TimeoutLock =< TimeoutKill
    /\ WarnBeforeLock =< TimeoutLock
    /\ WarnBeforeKill =< TimeoutKill
    /\ OperatorTargets \subseteq (SUBSET {"parent", "child"}) \ {{}}
    /\ OperatorSignals \subseteq {"URG", "USR2"}
    /\ InputKinds \subseteq {"plain", "lock", "kill", "eof"}

Proc == {"parent", "child"}
HasWatcher == TimeoutLock > 0 \/ TimeoutKill > 0
Thread == {"main", "child"} \cup (IF HasWatcher THEN {"watcher"} ELSE {})
Signal == {"URG", "USR2", "TERM"}

\* What a thread may be in the middle of: its own loop, a handler, or done().
Context == {"base", "done"} \cup Signal

Pc == {"idle", "read", "wait", "forward", "sleep", "lock_check", "kill_check",
       "kill_send", "lock_test", "lock_set", "lock_send", "draw", "unlock_test",
       "unlock_set", "unlock_send", "redraw", "restore", "kill_shell",
       "exit"}

ProcOf(t) == IF t = "child" THEN "child" ELSE "parent"
Peer(p) == IF p = "child" THEN "parent" ELSE "child"

VARIABLES
    locked,     \* locked_since of each process, 0 when it is unlocked
    activity,   \* last_activity of the parent, the only copy that is read
    warned,     \* lock_warned and kill_warned of the parent
    pending,    \* signals sent to each process and not yet handled
    at,         \* program counter of each thread in each context
    top,        \* the context each thread is running
    under,      \* the context a handler interrupted
    typed,      \* what the last read(0) returned
    screen,     \* what the user's terminal shows
    shell,      \* whether the recorded program is alive
    entered,    \* whether the child holds entered_done
    exited,     \* whether the child has exited
    now,        \* time(NULL)
    woken,      \* the watcher's local now
    commands    \* how many commands have been given

\* History of the run: read by properties only.
VARIABLES
    granted,    \* when the parent, unlocked, forwarded input or finished an unlock
    announced,  \* when the kill warning was last printed
    nested,     \* whether a handler of the child ever interrupted another one
    wanted      \* the operator's last command, kept when the operator waits

daemonVars == <<locked, activity, warned>>
frameVars == <<pending, at, top, under>>
sceneVars == <<typed, screen, shell, entered, exited>>
timeVars == <<now, woken, commands>>
historyVars == <<granted, announced, nested, wanted>>
vars == <<daemonVars, frameVars, sceneVars, timeVars, historyVars>>

TypeOK ==
    /\ locked \in [Proc -> Nat]
    /\ activity \in Nat
    /\ warned \subseteq {"lock", "kill"}
    /\ pending \in [Proc -> SUBSET Signal]
    /\ at \in [Thread -> [Context -> Pc]]
    /\ top \in [Thread -> Context]
    /\ under \in [Thread -> [Signal \cup {"done"} -> Context]]
    /\ typed \in {"plain", "lock", "kill"}
    /\ screen \in {"session", "lock"}
    /\ shell \in {"running", "dead"}
    /\ entered \in BOOLEAN
    /\ exited \in BOOLEAN
    /\ now \in Nat /\ woken \in Nat /\ commands \in Nat
    /\ granted \in Nat /\ announced \in Nat
    /\ nested \in BOOLEAN
    /\ wanted \in {"none", "lock", "unlock"}
----------------------------------------------------------------------------
(* Threads, handlers and signals *)

\* Thread t is running context c and is about to execute pc.
At(t, c, pc) ==
    /\ t \in Thread /\ c \in Context
    /\ ~exited
    /\ top[t] = c
    /\ at[t][c] = pc

Goto(t, c, pc) ==
    /\ at' = [at EXCEPT ![t][c] = pc]
    /\ UNCHANGED <<top, under>>

\* The handler c of thread t returns to what it interrupted.
Return(t, c) ==
    /\ at' = [at EXCEPT ![t][c] = "idle"]
    /\ top' = [top EXCEPT ![t] = under[t][c]]
    /\ under' = [under EXCEPT ![t][c] = "base"]

\* Context c of thread t, now at pc, is interrupted by (or calls) context d.
Enter(t, d, first) ==
    /\ at' = [at EXCEPT ![t][d] = first]
    /\ top' = [top EXCEPT ![t] = d]
    /\ under' = [under EXCEPT ![t][d] = top[t]]

\* kill(p, sig): a signal that is already pending is not queued again.
Kill(p, sig) == pending' = [pending EXCEPT ![p] = @ \cup {sig}]

\* lock_session returns, or do_lock returns to its caller.
FinishLock(t, c) ==
    IF c = "URG" THEN Return(t, c)
    ELSE Goto(t, c, IF t = "main" THEN "read" ELSE "kill_check")

\* unlock_session returns: to the interrupted code when it is the handler, to
\* sigterm_handler or to done() when they called it.
FinishUnlock(t, c) ==
    IF c = "USR2" THEN Return(t, c)
    ELSE Goto(t, c, IF c = "TERM" THEN "kill_shell" ELSE "exit")

\* Thread t is in its own loop and waits: for input, output, a death or a timer.
Resting(t) ==
    /\ \A c \in Context \ {"base"} : at[t][c] = "idle"
    /\ at[t]["base"] \in {"read", "wait", "sleep"}
    /\ t = "child" => shell = "running"

\* Nothing is under way.
Settled ==
    /\ \A p \in Proc : pending[p] = {}
    /\ \A t \in Thread : Resting(t)

Deliver(t, sig) ==
    /\ t \in Thread
    /\ ~exited
    /\ sig \in pending[ProcOf(t)]
    /\ at[t][sig] = "idle"
    /\ pending' = [pending EXCEPT ![ProcOf(t)] = @ \ {sig}]
    /\ Enter(t, sig, IF sig = "URG" THEN "lock_test" ELSE "unlock_test")
    /\ nested' = (nested \/ (t = "child" /\ top[t] # "base"))
    /\ UNCHANGED <<daemonVars, sceneVars, timeVars, granted, announced, wanted>>
----------------------------------------------------------------------------
(* lock_session and do_lock *)

\* Mutant of LockTest: the test that avoids the signal storm is dropped.
LockTestMutant(t) ==
    /\ At(t, "URG", "lock_test")
    /\ Goto(t, "URG", "lock_set")
    /\ UNCHANGED <<daemonVars, pending, sceneVars, timeVars, historyVars>>

\* "to avoid signal storm, abort if locked"
LockTest(t) ==
    /\ At(t, "URG", "lock_test")
    /\ IF locked[ProcOf(t)] # 0 THEN Return(t, "URG")
                                ELSE Goto(t, "URG", "lock_set")
    /\ UNCHANGED <<daemonVars, pending, sceneVars, timeVars, historyVars>>

\* The child only tests its copy, so that any non-zero value stands for the time.
LockSet(t, c) ==
    /\ At(t, c, "lock_set")
    /\ locked' = [locked EXCEPT ![ProcOf(t)] = IF t = "child" THEN 1 ELSE now]
    /\ Goto(t, c, "lock_send")
    /\ UNCHANGED <<activity, warned, pending, sceneVars, timeVars, historyVars>>

\* Mutants of LockSend: the child's handler, or do_lock, does not tell the peer.
LockSendNoEcho(t, c) ==
    /\ At(t, c, "lock_send")
    /\ IF t = "child" THEN UNCHANGED pending /\ Goto(t, c, "draw")
                      ELSE Kill("child", "URG") /\ FinishLock(t, c)
    /\ UNCHANGED <<daemonVars, sceneVars, timeVars, historyVars>>

LockSendNoDoLock(t, c) ==
    /\ At(t, c, "lock_send")
    /\ IF c = "base" THEN UNCHANGED pending
                     ELSE Kill(Peer(ProcOf(t)), "URG")
    /\ IF t = "child" THEN Goto(t, c, "draw") ELSE FinishLock(t, c)
    /\ UNCHANGED <<daemonVars, sceneVars, timeVars, historyVars>>

LockSend(t, c) ==
    /\ At(t, c, "lock_send")
    /\ Kill(Peer(ProcOf(t)), "URG")
    /\ IF t = "child" THEN Goto(t, c, "draw") ELSE FinishLock(t, c)
    /\ UNCHANGED <<daemonVars, sceneVars, timeVars, historyVars>>

\* The child saves the screen, clears it and prints the banner.
DrawLock(t, c) ==
    /\ At(t, c, "draw")
    /\ screen' = "lock"
    /\ FinishLock(t, c)
    /\ UNCHANGED <<daemonVars, pending, typed, shell, entered, exited, timeVars,
                   historyVars>>
----------------------------------------------------------------------------
(* unlock_session, run as a handler or called by sigterm_handler and done() *)

\* Mutant of UnlockTest: an unlock does not count as activity.
UnlockTestNoStamp(t, c) ==
    /\ At(t, c, "unlock_test")
    /\ UNCHANGED <<activity, warned>>
    /\ IF locked[ProcOf(t)] = 0 THEN FinishUnlock(t, c)
                                ELSE Goto(t, c, "unlock_set")
    /\ UNCHANGED <<locked, pending, sceneVars, timeVars, historyVars>>

\* Activity is stamped before the test, hence before the flag is cleared.
UnlockTest(t, c) ==
    /\ At(t, c, "unlock_test")
    /\ IF t = "child" THEN UNCHANGED <<activity, warned>>
                      ELSE activity' = now /\ warned' = {}
    /\ IF locked[ProcOf(t)] = 0 THEN FinishUnlock(t, c)
                                ELSE Goto(t, c, "unlock_set")
    /\ UNCHANGED <<locked, pending, sceneVars, timeVars, historyVars>>

\* Mutant of UnlockSet: -1 stands for "not locked".
UnlockSetMinusOne(t, c) ==
    /\ At(t, c, "unlock_set")
    /\ locked' = [locked EXCEPT ![ProcOf(t)] = -1]
    /\ granted' = IF t = "child" THEN granted ELSE now
    /\ Goto(t, c, "unlock_send")
    /\ UNCHANGED <<activity, warned, pending, sceneVars, timeVars, announced,
                   nested, wanted>>

UnlockSet(t, c) ==
    /\ At(t, c, "unlock_set")
    /\ locked' = [locked EXCEPT ![ProcOf(t)] = 0]
    /\ granted' = IF t = "child" THEN granted ELSE now
    /\ Goto(t, c, "unlock_send")
    /\ UNCHANGED <<activity, warned, pending, sceneVars, timeVars, announced,
                   nested, wanted>>

\* Mutant of UnlockSend: the child relies on the parent having been told too.
UnlockSendNoEcho(t, c) ==
    /\ At(t, c, "unlock_send")
    /\ IF t = "child" THEN UNCHANGED pending ELSE Kill("child", "USR2")
    /\ Goto(t, c, IF t = "child" THEN "restore" ELSE "redraw")
    /\ UNCHANGED <<daemonVars, sceneVars, timeVars, historyVars>>

UnlockSend(t, c) ==
    /\ At(t, c, "unlock_send")
    /\ Kill(Peer(ProcOf(t)), "USR2")
    /\ Goto(t, c, IF t = "child" THEN "restore" ELSE "redraw")
    /\ UNCHANGED <<daemonVars, sceneVars, timeVars, historyVars>>

\* The parent resizes the program's terminal up and down, sleeping 300 ms twice.
Redraw(t, c) ==
    /\ At(t, c, "redraw")
    /\ FinishUnlock(t, c)
    /\ UNCHANGED <<daemonVars, pending, sceneVars, timeVars, historyVars>>

\* The child leaves the alternate screen.
RestoreScreen(t, c) ==
    /\ At(t, c, "restore")
    /\ screen' = "session"
    /\ FinishUnlock(t, c)
    /\ UNCHANGED <<daemonVars, pending, typed, shell, entered, exited, timeVars,
                   historyVars>>
----------------------------------------------------------------------------
(* The end of the child: sigterm_handler, the end of dooutput, done() *)

\* SIGTERM is forwarded to the program, which may ignore it, and done() is called:
\* it is entered once, a second caller returns at once.
EndSession(t) ==
    /\ At(t, "TERM", "kill_shell")
    /\ shell' \in {shell, "dead"}
    /\ IF entered
       THEN Return(t, "TERM") /\ UNCHANGED entered
       ELSE Enter(t, "done", "unlock_test") /\ entered' = TRUE
    /\ UNCHANGED <<daemonVars, pending, typed, screen, exited, timeVars, historyVars>>

\* Mutant of OutputEnds: done() does not unlock first.
OutputEndsLocked(t) ==
    /\ t = "child" /\ At(t, "base", "read")
    /\ shell = "dead" /\ ~entered
    /\ Enter(t, "done", "exit")
    /\ entered' = TRUE
    /\ UNCHANGED <<daemonVars, pending, typed, screen, shell, exited, timeVars,
                   historyVars>>

\* The program is gone: read(master) ends the loop of dooutput, which calls done().
\* The mutex is always free then: a handler that took it does not return here.
OutputEnds(t) ==
    /\ t = "child" /\ At(t, "base", "read")
    /\ shell = "dead" /\ ~entered
    /\ Enter(t, "done", "unlock_test")
    /\ entered' = TRUE
    /\ UNCHANGED <<daemonVars, pending, typed, screen, shell, exited, timeVars,
                   historyVars>>

\* The child's death ends the session: how the parent reaps it and exits is in
\* module SessionExit.
ChildExit(t) ==
    /\ At(t, "done", "exit")
    /\ exited' = TRUE
    /\ UNCHANGED <<daemonVars, frameVars, typed, screen, shell, entered, timeVars,
                   historyVars>>
----------------------------------------------------------------------------
(* doinput: the keyboard *)

\* read(0) returns; input read while the parent is locked is dropped.  "lock" is
\* a byte that completes the lock sequence, "kill" one that completes the kill
\* sequence.
ReadInput(t, kind) ==
    /\ t = "main" /\ At(t, "base", "read")
    /\ locked["parent"] = 0
    /\ commands < MaxCommands
    /\ OperatorWaits => Settled
    /\ commands' = commands + 1
    /\ wanted' = IF OperatorWaits /\ kind = "lock" THEN "lock" ELSE wanted
    /\ typed' = kind
    /\ Goto(t, "base", "forward")
    /\ UNCHANGED <<daemonVars, pending, screen, shell, entered, exited, now, woken,
                   granted, announced, nested>>

\* write(master), the stamp, then handle_cheatcodes.
Forward(t) ==
    /\ At(t, "base", "forward")
    /\ activity' = now
    /\ warned' = {}
    /\ granted' = IF locked["parent"] = 0 THEN now ELSE granted
    /\ typed' = "plain"
    /\ Goto(t, "base",
            [plain |-> "read", lock |-> "lock_set", kill |-> "kill_send"][typed])
    /\ UNCHANGED <<locked, pending, screen, shell, entered, exited, timeVars,
                   announced, nested, wanted>>

\* End of file on standard input: doinput goes on to waitpid.
CloseInput(t) ==
    /\ "eof" \in InputKinds
    /\ t = "main" /\ At(t, "base", "read")
    /\ Goto(t, "base", "wait")
    /\ UNCHANGED <<daemonVars, pending, sceneVars, timeVars, historyVars>>

\* kill(child, SIGTERM), by the kill sequence or by the watcher.
SendKill(t) ==
    /\ At(t, "base", "kill_send")
    /\ Kill("child", "TERM")
    /\ Goto(t, "base", IF t = "main" THEN "read" ELSE "sleep")
    /\ UNCHANGED <<daemonVars, sceneVars, timeVars, historyVars>>
----------------------------------------------------------------------------
(* timeout_watcher *)

WatcherWakes(t) ==
    /\ At(t, "base", "sleep")
    /\ now > woken
    /\ woken' = now
    /\ Goto(t, "base", "lock_check")
    /\ UNCHANGED <<daemonVars, pending, sceneVars, now, commands, historyVars>>

Idle == woken - activity

LockWarningDue ==
    /\ WarnBeforeLock > 0
    /\ "lock" \notin warned
    /\ Idle + WarnBeforeLock > TimeoutLock

\* Mutant of LockDue: the timeout runs from the warning.
LockDueLate == TimeoutLock > 0 /\ Idle > TimeoutLock + WarnBeforeLock

LockDue == TimeoutLock > 0 /\ Idle > TimeoutLock

CheckLock(t) ==
    /\ At(t, "base", "lock_check")
    /\ IF UseTty /\ locked["parent"] = 0
       THEN /\ warned' = IF LockWarningDue THEN warned \cup {"lock"} ELSE warned
            /\ Goto(t, "base", IF LockDue THEN "lock_set" ELSE "kill_check")
       ELSE Goto(t, "base", "kill_check") /\ UNCHANGED warned
    /\ UNCHANGED <<locked, activity, pending, sceneVars, timeVars, historyVars>>

\* How long the session has been held against the kill timeout, and that timeout.
Held == IF locked["parent"] # 0 THEN woken - locked["parent"] ELSE Idle
KillLimit == IF locked["parent"] # 0 THEN TimeoutKill - TimeoutLock ELSE TimeoutKill

\* Mutant of KillWarningDue: kill_warned is not tested.
KillWarningAgain == WarnBeforeKill > 0 /\ Held > KillLimit - WarnBeforeKill

KillWarningDue ==
    /\ WarnBeforeKill > 0
    /\ "kill" \notin warned
    /\ Held > KillLimit - WarnBeforeKill

\* Mutant of KillDue: "if" instead of "else if".
KillDueAtOnce == Held > KillLimit

\* An iteration that prints the warning does not kill.
KillDue == ~KillWarningDue /\ Held > KillLimit

CheckKill(t) ==
    /\ At(t, "base", "kill_check")
    /\ IF TimeoutKill > 0 /\ KillWarningDue
       THEN warned' = warned \cup {"kill"} /\ announced' = woken
       ELSE UNCHANGED <<warned, announced>>
    /\ Goto(t, "base", IF TimeoutKill > 0 /\ KillDue THEN "kill_send" ELSE "sleep")
    /\ UNCHANGED <<locked, activity, pending, sceneVars, timeVars, granted, nested,
                   wanted>>
----------------------------------------------------------------------------
(* The surroundings: the operator, the recorded program, the clock *)

\* "pkill -URG ttyrec" reaches both processes, "kill -URG pid" only one.
OperatorSends(targets, sig) ==
    /\ commands < MaxCommands
    /\ OperatorWaits => Settled
    /\ ~exited
    /\ commands' = commands + 1
    /\ pending' = [p \in Proc |-> IF p \in targets THEN pending[p] \cup {sig}
                                  ELSE pending[p]]
    /\ wanted' = IF ~OperatorWaits THEN wanted
                 ELSE IF sig = "URG" THEN "lock" ELSE "unlock"
    /\ UNCHANGED <<daemonVars, at, top, under, sceneVars, now, woken, granted,
                   announced, nested>>

ProgramEnds ==
    /\ shell = "running"
    /\ ~exited
    /\ OperatorWaits => Settled
    /\ shell' = "dead"
    /\ UNCHANGED <<daemonVars, frameVars, typed, screen, entered, exited, timeVars,
                   historyVars>>

\* Time moves in seconds, and only when every thread rests and no signal is
\* pending: a step takes no time, the 600 ms the parent sleeps while it redraws
\* are below the resolution of time(NULL), and the watcher starts an iteration at
\* most two seconds after the previous one.
Tick ==
    /\ now < MaxTime
    /\ ~exited
    /\ Settled
    /\ HasWatcher => now - woken =< 1
    /\ now' = now + 1
    /\ UNCHANGED <<daemonVars, frameVars, sceneVars, woken, commands, historyVars>>
----------------------------------------------------------------------------
Init ==
    /\ locked = [p \in Proc |-> 0]
    /\ activity = 1
    /\ warned = {}
    /\ pending = [p \in Proc |-> {}]
    /\ at = [t \in Thread |-> [c \in Context |->
                IF c # "base" THEN "idle"
                ELSE IF t = "watcher" THEN "sleep"
                ELSE IF t = "main" /\ ~UseTty THEN "wait"
                ELSE "read"]]
    /\ top = [t \in Thread |-> "base"]
    /\ under = [t \in Thread |-> [c \in Signal \cup {"done"} |-> "base"]]
    /\ typed = "plain"
    /\ screen = "session"
    /\ shell = "running"
    /\ entered = FALSE
    /\ exited = FALSE
    /\ now = 1 /\ woken = 1 /\ commands = 0
    /\ granted = 1 /\ announced = 0 /\ nested = FALSE /\ wanted = "none"

\* The steps a thread takes on its own once it has something to do.
ThreadStep(t) ==
    \/ \E sig \in Signal : Deliver(t, sig)
    \/ LockTest(t) \/ EndSession(t) \/ OutputEnds(t) \/ ChildExit(t)
    \/ \E c \in Context :
          \/ LockSet(t, c) \/ LockSend(t, c) \/ DrawLock(t, c)
          \/ UnlockTest(t, c) \/ UnlockSet(t, c) \/ UnlockSend(t, c)
          \/ Redraw(t, c) \/ RestoreScreen(t, c)
    \/ Forward(t) \/ SendKill(t)
    \/ WatcherWakes(t) \/ CheckLock(t) \/ CheckKill(t)

Surroundings ==
    \/ \E t \in Thread : CloseInput(t) \/ \E kind \in InputKinds \ {"eof"} : ReadInput(t, kind)
    \/ \E targets \in OperatorTargets, sig \in OperatorSignals :
          OperatorSends(targets, sig)
    \/ ProgramEnds
    \/ Tick

Next == (\E t \in Thread : ThreadStep(t)) \/ Surroundings

Spec == Init /\ [][Next]_vars

\* The kernel schedules every thread that can run, and signals do not keep exit()
\* from finishing.
Fairness ==
    /\ \A t \in Thread : WF_vars(ThreadStep(t))
    /\ SF_vars(ChildExit("child"))

FairSpec == Spec /\ Fairness
----------------------------------------------------------------------------
(* Properties *)

\* Some step is still due that will make process p lock (unlock): the peer is
\* about to send the signal, the signal is pending, or p is inside the routine.
LockComing(p) ==
    \/ \E t \in Thread, c \in Context :
          \/ ProcOf(t) # p /\ at[t][c] = "lock_send"
          \/ ProcOf(t) = p /\ at[t][c] \in {"lock_test", "lock_set"}
    \/ "URG" \in pending[p]

UnlockComing(p) ==
    \/ \E t \in Thread, c \in Context :
          \/ ProcOf(t) # p /\ at[t][c] = "unlock_send"
          \/ ProcOf(t) = p /\ at[t][c] \in {"unlock_test", "unlock_set"}
    \/ "USR2" \in pending[p]

\* When the two copies of locked_since disagree, a correction is under way: the
\* unlocked process is going to be locked, or the locked one unlocked.  This is
\* why each handler echoes the signal to its peer (ttyrec.c:1147, 1197).
Reconciling ==
    ~exited =>
        \A p \in Proc :
            locked[p] # 0 /\ locked[Peer(p)] = 0 =>
                LockComing(Peer(p)) \/ UnlockComing(p)

\* Once every signal has been handled the two processes agree on whether the
\* session is locked: keyboard and screen are never left frozen one without the
\* other.
Agreement ==
    ~exited /\ Settled => (locked["parent"] = 0 <=> locked["child"] = 0)

\* As long as no handler of the child interrupted another one, the terminal shows
\* the lock screen exactly while the child is locked, and the child never exits
\* with the lock screen on display.
ScreenFollowsLock ==
    ~nested =>
        /\ exited => screen = "session"
        /\ top["child"] = "base" => (screen = "lock" <=> locked["child"] # 0)

\* Whoever gives a lock or unlock command, to either process or to both, once the
\* previous command has settled, finds it obeyed by both processes.
LastCommandWins ==
    OperatorWaits /\ TimeoutLock = 0 /\ wanted # "none" /\ ~exited /\ Settled =>
        \A p \in Proc : locked[p] # 0 <=> wanted = "lock"

\* "to avoid signal storm": the echoes of one command die out.
Settles == []<>(Settled \/ exited)

\* The watcher never decides to lock, or to kill, a session whose user was active
\* (typed something, or was granted an unlock) less than the timeout ago, however
\* the unlock interleaves with the watcher's own reads.  A lock given by hand
\* leaves the user the kill timeout minus the lock timeout.
WatcherSparesActiveUser ==
    [][\A t \in Thread :
          /\ at[t]["base"] = "lock_check" /\ at'[t]["base"] = "lock_set" =>
                woken - granted > TimeoutLock
          /\ at[t]["base"] = "kill_check" /\ at'[t]["base"] = "kill_send" =>
                woken - granted > TimeoutKill - TimeoutLock]_vars

\* The watcher kills only a session whose user was told so in an earlier
\* iteration, and has not been active since.
KillIsAnnounced ==
    [][\A t \in Thread :
          at[t]["base"] = "kill_check" /\ at'[t]["base"] = "kill_send" =>
             WarnBeforeKill = 0 \/ (granted =< announced /\ announced < woken)]_vars

\* How late an iteration of the watcher may be: sleep(1) and the seconds' rounding.
WatcherLag == 2

\* An idle session with a terminal ends up locked on both sides within the lag.
LockedInTime ==
    UseTty /\ TimeoutLock > 0 /\ ~exited /\ Settled
        /\ now - activity > TimeoutLock + WatcherLag =>
            \A p \in Proc : locked[p] # 0

\* No idle session outlives the kill timeout by more than the lag of the lock,
\* that of the kill, and one iteration spent on the warning.
KilledInTime ==
    UseTty /\ TimeoutLock > 0 /\ TimeoutKill > 0 /\ ~exited =>
        now - activity =< TimeoutKill + 2 * WatcherLag + 1
----------------------------------------------------------------------------
(* What the documentation says of the program, and the program does not do *)

\* "if we were locked, unlock before exiting to avoid leaving the real terminal of
\* our user stuck in altscreen" (comment in done(), ttyrec.c:1664)
ScreenRestoredOnExit == exited => screen = "session"

\* "if we're locked [...] (never happens if !use_tty)" (comment, ttyrec.c:1307)
NeverLockedWithoutTty == ~UseTty => \A p \in Proc : locked[p] = 0
=============================================================================
