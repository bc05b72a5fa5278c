----------------------------- MODULE WindowSize -----------------------------
(***************************************************************************)
(* The size of the program's terminal.  The parent copies that of the      *)
(* user's terminal to it, at the start and whenever it changes; and after  *)
(* an unlock it makes it one row higher for 300 ms, and then as it was, so *)
(* that the program draws everything again.  SIGWINCH and SIGUSR2 do this  *)
(* in handlers, which interrupt each other, in either thread.              *)
(***************************************************************************)
EXTENDS Integers, Sequences, SequencesExt

CONSTANTS
    Sizes,      \* the sizes, in rows, that the user's terminal may have
    MaxResizes, \* bound: how often its size changes
    MaxLocks    \* bound: how often the session is locked, and how often unlocked

ASSUME WindowAssumption ==
    Sizes \subseteq Nat \ {0} /\ {MaxResizes, MaxLocks} \subseteq Nat

VARIABLES
    real,       \* the size of the user's terminal
    winsize,    \* parent_stdin_winsize
    pty,        \* the size of the program's terminal
    installed,  \* whether the parent has a handler for SIGWINCH
    lockedSince,    \* whether locked_since of the parent is set
    pending,    \* the signals sent to the parent and not yet handled
    stack,      \* what each thread of the parent does: places, with the size in tmpwin
    resizes, locks, unlocks   \* how often each happened

\* History of the run: read by properties only.
VARIABLES
    missed,     \* whether the size has changed unnoticed since it was last read
    overdrawn   \* whether a redraw has undone, or will undo, a change of the size

sizeVars == <<real, winsize, pty, installed>>
historyVars == <<missed, overdrawn>>
lockVars == <<lockedSince, locks, unlocks>>
windowVars == <<sizeVars, lockVars, pending, stack, resizes, historyVars>>

Thread == {"main", "watcher"}
SizePc == {"get", "set"}
RedrawPc == {"test", "clear", "measure", "grow", "shrink"}
Place == [pc : SizePc \cup RedrawPc \cup {"start", "install", "loop"}, rows : Nat]
At(pc, rows) == [pc |-> pc, rows |-> rows]

Top(t) == Last(stack[t])
In(t, pc) == stack[t] # <<>> /\ Top(t).pc = pc
Goto(t, pc, rows) == stack' = [stack EXCEPT ![t] = Append(Front(@), At(pc, rows))]
Call(t, pc) == stack' = [stack EXCEPT ![t] = Append(@, At(pc, 0))]
Return(t) == stack' = [stack EXCEPT ![t] = Front(@)]
Runs(t, pcs) == \E i \in 1..Len(stack[t]) : stack[t][i].pc \in pcs

\* A redraw that has measured the terminal will set that size in the end.
Measured == \E t \in Thread : Runs(t, {"grow", "shrink"})

\* A handler starts, in a thread in which it does not run already.  The watcher is
\* created after the first copy of the size.
Deliver(t, signal, pcs, first) ==
    /\ signal \in pending
    /\ \/ t = "main" \/ installed
       \/ Runs("main", {"install"}) /\ ~Runs("main", SizePc)
    /\ ~Runs(t, pcs)
    /\ pending' = pending \ {signal}
    /\ Call(t, first)
    /\ UNCHANGED <<sizeVars, lockVars, resizes, historyVars>>
----------------------------------------------------------------------------
(* The copy of the size: sigwinch_handler_parent *)

\* TIOCGWINSZ on the user's terminal.
GetSize(t) ==
    /\ In(t, "get")
    /\ winsize' = real
    /\ missed' = FALSE
    /\ Goto(t, "set", 0)
    /\ UNCHANGED <<real, pty, installed, lockVars, pending, resizes, overdrawn>>

\* TIOCSWINSZ on the program's.
SetSize(t) ==
    /\ In(t, "set")
    /\ pty' = winsize
    /\ overdrawn' = Measured
    /\ Return(t)
    /\ UNCHANGED <<real, winsize, installed, lockVars, pending, resizes, missed>>

\* Mutant of FirstCopy: main() leaves it to the handler.
FirstCopyLeftOut ==
    /\ In("main", "start")
    /\ Goto("main", "install", 0)
    /\ UNCHANGED <<sizeVars, lockVars, pending, resizes, historyVars>>

\* main() copies the size, then doinput installs the handler.
FirstCopy ==
    /\ In("main", "start")
    /\ stack' = [stack EXCEPT !["main"] = <<At("install", 0), At("get", 0)>>]
    /\ UNCHANGED <<sizeVars, lockVars, pending, resizes, historyVars>>

Install ==
    /\ In("main", "install")
    /\ installed' = TRUE
    /\ Goto("main", "loop", 0)
    /\ UNCHANGED <<real, winsize, pty, lockVars, pending, resizes, historyVars>>
----------------------------------------------------------------------------
(* The redraw: unlock_session *)

TestLocked(t) ==
    /\ In(t, "test")
    /\ IF lockedSince THEN Goto(t, "clear", 0) ELSE Return(t)
    /\ UNCHANGED <<sizeVars, lockVars, pending, resizes, historyVars>>

ClearLocked(t) ==
    /\ In(t, "clear")
    /\ lockedSince' = FALSE
    /\ Goto(t, "measure", 0)
    /\ UNCHANGED <<sizeVars, locks, unlocks, pending, resizes, historyVars>>

\* TIOCGWINSZ on the program's terminal, which another redraw may have made higher.
Measure(t) ==
    /\ In(t, "measure")
    /\ Goto(t, "grow", pty)
    /\ overdrawn' = (overdrawn \/ \E u \in Thread : Runs(u, {"shrink"}))
    /\ UNCHANGED <<sizeVars, lockVars, pending, resizes, missed>>

Grow(t) ==
    /\ In(t, "grow")
    /\ pty' = Top(t).rows + 1
    /\ Goto(t, "shrink", Top(t).rows)
    /\ UNCHANGED <<real, winsize, installed, lockVars, pending, resizes, historyVars>>

\* Mutant of Shrink: the row that was added is taken off twice.
ShrinkTwice(t) ==
    /\ In(t, "shrink")
    /\ pty' = Top(t).rows - 1
    /\ Return(t)
    /\ UNCHANGED <<real, winsize, installed, lockVars, pending, resizes, historyVars>>

Shrink(t) ==
    /\ In(t, "shrink")
    /\ pty' = Top(t).rows
    /\ Return(t)
    /\ UNCHANGED <<real, winsize, installed, lockVars, pending, resizes, historyVars>>
----------------------------------------------------------------------------
(* The surroundings *)

\* The user's terminal changes its size.  Without a handler, the signal is ignored.
Resize(rows) ==
    /\ resizes < MaxResizes
    /\ resizes' = resizes + 1
    /\ rows # real /\ real' = rows
    /\ pending' = IF installed THEN pending \cup {"WINCH"} ELSE pending
    /\ missed' = ~installed
    /\ UNCHANGED <<winsize, pty, installed, lockVars, stack, overdrawn>>

\* The parent is locked, by a handler, the watcher or the lock code (SessionLock).
Lock ==
    /\ locks < MaxLocks
    /\ locks' = locks + 1
    /\ lockedSince' = TRUE
    /\ UNCHANGED <<sizeVars, unlocks, pending, stack, resizes, historyVars>>

\* SIGUSR2, from an operator or from the child.
Unlock ==
    /\ unlocks < MaxLocks
    /\ unlocks' = unlocks + 1
    /\ pending' = pending \cup {"USR2"}
    /\ UNCHANGED <<sizeVars, lockedSince, locks, stack, resizes, historyVars>>

\* getmaster has read the size; only openpty has set it.
WindowInit ==
    /\ real \in Sizes /\ winsize = real /\ pty \in {0, real}
    /\ installed = FALSE /\ lockedSince = FALSE /\ pending = {}
    /\ stack = [t \in Thread |-> IF t = "main" THEN <<At("start", 0)>> ELSE <<>>]
    /\ resizes = 0 /\ locks = 0 /\ unlocks = 0
    /\ missed = FALSE /\ overdrawn = FALSE

WindowNext ==
    \/ \E t \in Thread :
          \/ Deliver(t, "WINCH", SizePc, "get") \/ Deliver(t, "USR2", RedrawPc, "test")
          \/ GetSize(t) \/ SetSize(t)
          \/ TestLocked(t) \/ ClearLocked(t) \/ Measure(t) \/ Grow(t) \/ Shrink(t)
    \/ FirstCopy \/ Install
    \/ \E rows \in Sizes : Resize(rows)
    \/ Lock \/ Unlock

WindowSpec == WindowInit /\ [][WindowNext]_windowVars
----------------------------------------------------------------------------
(* Properties *)

WindowTypeOK ==
    /\ {real, winsize} \subseteq Sizes /\ pty \in Nat
    /\ {installed, lockedSince, missed, overdrawn} \subseteq BOOLEAN
    /\ pending \subseteq {"WINCH", "USR2"}
    /\ stack \in [Thread -> Seq(Place)]
    /\ resizes \in 0..MaxResizes /\ {locks, unlocks} \subseteq 0..MaxLocks

\* When all handlers are done, the program's terminal has the size of the user's, with
\* two exceptions that last until the next change: a change between the first copy and
\* the handler's installation (ttyrec.c:842, 921), and one that comes while a redraw
\* holds the size it has measured, or a redraw within another (ttyrec.c:1158).
SizeFollows ==
    /\ installed /\ pending = {}
    /\ \A t \in Thread : ~Runs(t, SizePc \cup RedrawPc)
    /\ ~missed /\ ~overdrawn
    => pty = real
=============================================================================
