------------------------------ MODULE Recorder ------------------------------
(***************************************************************************)
(* The recording side of ttyrec, in the child process: the loop of         *)
(* dooutput, which reads the program's output, shows it and records it;    *)
(* the writer it goes through; the rotation of the file by SIGUSR1, which  *)
(* runs in a signal handler; and the end of the session in done(), called  *)
(* by the loop, by the handler of SIGTERM or SIGHUP, or by fail().         *)
(*                                                                         *)
(* The loop, swing_output_file and done() are the three contexts the       *)
(* child's only thread can be in; a handler may run between any two steps  *)
(* of what it interrupts.  A call of the stdio or zstd library is one step.*)
(* How the child comes to be locked is in module SessionLock.              *)
(***************************************************************************)
EXTENDS RecordFile, FiniteSets

CONSTANTS
    Sources,        \* what the loop reads: {"tty"}, or {"stdout", "stderr"} without a tty
    Stealth,        \* the pipes that are not recorded: --stealth-stdout, --stealth-stderr
    MaxFlush,       \* zstd_max_flush_seconds
    Failures,       \* what may fail: subset of {"crash", "show", "fopen"}
    RotateTargets,  \* which processes one rotation request reaches
    MaxRequests,    \* bound: rotation requests
    MaxToggles,     \* bound: how often the child is locked or unlocked
    MaxClock        \* bound: the clock

ASSUME RecorderAssumption ==
    /\ Sources \subseteq {"tty", "stdout", "stderr"}
    /\ Stealth \subseteq {"stdout", "stderr"}
    /\ Failures \subseteq {"crash", "show", "fopen"}
    /\ RotateTargets \subseteq (SUBSET {"parent", "child"}) \ {{}}
    /\ {MaxFlush, MaxRequests, MaxToggles, MaxClock} \subseteq Nat

VARIABLES
    stack,      \* the contexts of the child, the running one last
    at,         \* program counter of each context
    chunk,      \* the chunk in obuf, 0 before the first one
    hidden,     \* dont_write
    script,     \* fscript: the file that is open, 0 when it has been closed
    frame,      \* whether cstream exists
    pool,       \* what zstd has taken in and not put out, and when
    synced,     \* last_sync
    rotated,    \* last_rotate, 0 before the first rotation
    swings,     \* the processes that have a SIGUSR1 pending
    locked,     \* whether locked_since of the child is set
    entered,    \* whether entered_done is held
    alive,      \* whether the child runs
    clock       \* the time, in units of the 250 ms that separate two rotations

\* History of the run: read by properties only.
VARIABLES
    wanted,     \* the chunks shown on the user's terminal that are to be recorded, in order
    leaked,     \* how many chunks were shown since the session was locked
    asked,      \* the times at which a rotation was requested
    toggles,    \* how often the lock changed
    wrote       \* when the writer was last called

loopVars == <<chunk, hidden, wanted, leaked>>
writerVars == <<files, mode, script, frame, pool, synced, wrote>>
rotateVars == <<rotated, swings, asked>>
lockVars == <<locked, toggles>>
endVars == <<entered, alive>>
recorderVars == <<stack, at, loopVars, writerVars, rotateVars, lockVars, endVars, clock>>

Context == {"loop", "swing", "done"}
Pc == {"idle", "read", "test", "show", "header", "data", "wait", "close", "open", "exit"}

RecorderTypeOK ==
    /\ FileTypeOK
    /\ stack \in {<<"loop">>, <<"loop", "swing">>, <<"loop", "done">>,
                  <<"loop", "swing", "done">>, <<"loop", "done", "swing">>}
    /\ at \in [Context -> Pc]
    /\ chunk \in 0..MaxChunks /\ hidden \in BOOLEAN
    /\ script \in 0..Len(files)
    /\ frame \in BOOLEAN
    /\ pool \in Seq([part : Part, time : Nat])
    /\ {synced, rotated, clock, toggles, wrote, leaked} \subseteq Nat
    /\ swings \subseteq {"parent", "child"}
    /\ {locked, entered, alive} \subseteq BOOLEAN
    /\ wanted \in Seq(Chunk)
    /\ asked \subseteq Nat
----------------------------------------------------------------------------
(* Contexts *)

In(context, pc) == alive /\ Last(stack) = context /\ at[context] = pc
Goto(context, pc) == at' = [at EXCEPT ![context] = pc] /\ UNCHANGED stack
Push(context, pc) ==
    /\ at' = [at EXCEPT ![context] = pc]
    /\ stack' = Append(stack, context)
Pop(context) ==
    /\ at' = [at EXCEPT ![context] = "idle"]
    /\ stack' = Front(stack)

\* The call of done(): entered once, a second caller returns at once.
CallDone ==
    /\ ~entered
    /\ entered' = TRUE
    /\ Push("done", "close")
    /\ UNCHANGED alive
----------------------------------------------------------------------------
(* The writer: fwrite, or fwrite_wrapper_zstd *)

PoolParts == [i \in 1..Len(pool) |-> pool[i].part]

ToDisk(parts) == files' = [files EXCEPT ![script] = Append(@, parts)]

\* Mutant of WriteZstd: last_sync is reset by every call.
WriteZstdNeverDue(part) ==
    LET start == IF frame THEN synced ELSE clock
        all == Append(PoolParts, part)
        stamped == [part |-> part, time |-> clock]
    IN /\ frame' = TRUE
       /\ \/ /\ pool # <<>>
             /\ ToDisk(PoolParts) /\ pool' = <<stamped>>
          \/ ToDisk(all) /\ pool' = <<>>
          \/ /\ start + MaxFlush >= clock
             /\ pool' = Append(pool, stamped)
             /\ UNCHANGED files
       /\ synced' = clock

\* ZSTD_compressStream takes the part in and puts a block out when its buffer is
\* full, which may leave a rest of this very part in the buffer.  When nothing was
\* put out for more than MaxFlush, everything is flushed.
WriteZstd(part) ==
    LET start == IF frame THEN synced ELSE clock
        all == Append(PoolParts, part)
        stamped == [part |-> part, time |-> clock]
    IN /\ frame' = TRUE
       /\ \/ /\ pool # <<>>
             /\ ToDisk(PoolParts) /\ pool' = <<stamped>> /\ synced' = clock
          \/ ToDisk(all) /\ pool' = <<>> /\ synced' = clock
          \/ /\ start + MaxFlush >= clock
             /\ pool' = Append(pool, stamped) /\ synced' = start
             /\ UNCHANGED files

Write(part) ==
    /\ IF mode = "zstd" THEN WriteZstd(part)
                        ELSE ToDisk(<<part>>) /\ UNCHANGED <<frame, pool, synced>>
    /\ wrote' = clock
    /\ UNCHANGED <<mode, script>>

\* Mutant of Close: the frame is freed and not ended.
CloseUnflushed ==
    /\ frame' = FALSE /\ pool' = <<>> /\ script' = 0
    /\ UNCHANGED <<files, mode, synced, wrote>>

\* fclose_wrapper: the frame is ended, then the file closed.  Closing a file that
\* has been closed is undefined: the process may also stop here (see Crash).
Close ==
    /\ IF frame /\ pool # <<>> THEN ToDisk(PoolParts) ELSE UNCHANGED files
    /\ frame' = FALSE /\ pool' = <<>> /\ script' = 0
    /\ UNCHANGED <<mode, synced, wrote>>
----------------------------------------------------------------------------
(* dooutput *)

\* read() returns output of the program.
ReadOutput(source) ==
    /\ In("loop", "read")
    /\ chunk < MaxChunks
    /\ chunk' = chunk + 1
    /\ hidden' = (source \in Stealth)
    /\ Goto("loop", "test")
    /\ UNCHANGED <<wanted, leaked, writerVars, rotateVars, lockVars, endVars,
                   clock>>

\* Mutant of TestLock: output is shown and recorded although the session is locked.
TestLockNever ==
    /\ In("loop", "test")
    /\ Goto("loop", "show")
    /\ UNCHANGED <<loopVars, writerVars, rotateVars, lockVars, endVars, clock>>

\* Output read while the session is locked is dropped.
TestLock ==
    /\ In("loop", "test")
    /\ Goto("loop", IF locked THEN "read" ELSE "show")
    /\ UNCHANGED <<loopVars, writerVars, rotateVars, lockVars, endVars, clock>>

\* write(1 or 2, obuf, cc)
Show ==
    /\ In("loop", "show")
    /\ wanted' = IF hidden THEN wanted ELSE Append(wanted, chunk)
    /\ leaked' = IF locked THEN leaked + 1 ELSE leaked
    /\ Goto("loop", IF hidden THEN "read" ELSE "header")
    /\ UNCHANGED <<chunk, hidden, writerVars, rotateVars, lockVars, endVars,
                   clock>>

\* The terminal is gone: the loop ends.
ShowFails ==
    /\ "show" \in Failures
    /\ In("loop", "show")
    /\ Goto("loop", "wait")
    /\ UNCHANGED <<loopVars, writerVars, rotateVars, lockVars, endVars, clock>>

WriteHeader ==
    /\ In("loop", "header")
    /\ Write(Header(chunk))
    /\ Goto("loop", "data")
    /\ UNCHANGED <<loopVars, rotateVars, lockVars, endVars, clock>>

WriteData ==
    /\ In("loop", "data")
    /\ Write(Data(chunk))
    /\ Goto("loop", "read")
    /\ UNCHANGED <<loopVars, rotateVars, lockVars, endVars, clock>>

\* The program's output has ended, and the loop with it.
OutputEnds ==
    /\ In("loop", "read")
    /\ Goto("loop", "wait")
    /\ UNCHANGED <<loopVars, writerVars, rotateVars, lockVars, endVars, clock>>

\* The program has been reaped: done() is called.
ProgramReaped ==
    /\ In("loop", "wait")
    /\ CallDone
    /\ UNCHANGED <<loopVars, writerVars, rotateVars, lockVars, clock>>
----------------------------------------------------------------------------
(* swing_output_file *)

\* The operator sends SIGUSR1 to one process, or to all of them by name.
RequestRotation(targets) ==
    /\ alive
    /\ Cardinality(asked) < MaxRequests
    /\ clock \notin asked
    /\ asked' = asked \cup {clock}
    /\ swings' = swings \cup targets
    /\ UNCHANGED <<stack, at, loopVars, writerVars, rotated, lockVars, endVars, clock>>

\* The parent's handler forwards the signal.
ForwardRotation ==
    /\ alive
    /\ "parent" \in swings
    /\ swings' = (swings \ {"parent"}) \cup {"child"}
    /\ UNCHANGED <<stack, at, loopVars, writerVars, rotated, asked, lockVars, endVars,
                   clock>>

\* Mutant of StartRotation: the handler is installed with SA_NODEFER.
StartRotationNoDefer ==
    /\ alive
    /\ "child" \in swings
    /\ swings' = swings \ {"child"}
    /\ Push("swing", "test")
    /\ UNCHANGED <<loopVars, writerVars, rotated, asked, lockVars, endVars, clock>>

\* The child's handler starts.
StartRotation ==
    /\ alive
    /\ "child" \in swings
    /\ at["swing"] = "idle"
    /\ swings' = swings \ {"child"}
    /\ Push("swing", "test")
    /\ UNCHANGED <<loopVars, writerVars, rotated, asked, lockVars, endVars, clock>>

\* Mutant of TestRotation: requests are not coalesced.
TestRotationAlways ==
    /\ In("swing", "test")
    /\ rotated' = clock
    /\ Goto("swing", "close")
    /\ UNCHANGED <<loopVars, writerVars, swings, asked, lockVars, endVars, clock>>

\* "multiple signal received in a short amount of time, only rotate once"
TestRotation ==
    /\ In("swing", "test")
    /\ IF rotated # 0 /\ clock - rotated < 1
       THEN Pop("swing") /\ UNCHANGED rotated
       ELSE Goto("swing", "close") /\ rotated' = clock
    /\ UNCHANGED <<loopVars, writerVars, swings, asked, lockVars, endVars, clock>>

CloseOld ==
    /\ In("swing", "close")
    /\ Close
    /\ Goto("swing", "open")
    /\ UNCHANGED <<loopVars, rotateVars, lockVars, endVars, clock>>

OpenNew ==
    /\ In("swing", "open")
    /\ files' = Append(files, <<>>)
    /\ script' = Len(files) + 1
    /\ Pop("swing")
    /\ UNCHANGED <<loopVars, mode, frame, pool, synced, wrote, rotateVars, lockVars,
                   endVars, clock>>

\* fopen fails: fail() calls done(), which closes a stream that is not there.  When
\* done() was entered before, swing_output_file goes on with a null stream.
OpenFails ==
    /\ "fopen" \in Failures
    /\ In("swing", "open")
    /\ \/ CallDone
       \/ entered /\ alive' = FALSE /\ UNCHANGED <<stack, at, entered>>
    /\ UNCHANGED <<loopVars, writerVars, rotateVars, lockVars, clock>>
----------------------------------------------------------------------------
(* The end of the child *)

\* SIGTERM or SIGHUP: the handler calls done().
Terminate ==
    /\ alive
    /\ CallDone
    /\ UNCHANGED <<loopVars, writerVars, rotateVars, lockVars, clock>>

\* Mutant of CloseLast: done() leaves the closing to exit().
CloseLastForgotten ==
    /\ In("done", "close")
    /\ Goto("done", "exit")
    /\ UNCHANGED <<loopVars, writerVars, rotateVars, lockVars, endVars, clock>>

CloseLast ==
    /\ In("done", "close")
    /\ Close
    /\ Goto("done", "exit")
    /\ UNCHANGED <<loopVars, rotateVars, lockVars, endVars, clock>>

Exit ==
    /\ In("done", "exit")
    /\ alive' = FALSE
    /\ UNCHANGED <<stack, at, loopVars, writerVars, rotateVars, lockVars, entered, clock>>

\* SIGKILL, the end of the machine, or the undefined second fclose.
Crash ==
    /\ alive
    /\ \/ "crash" \in Failures
       \/ script = 0 /\ (In("done", "close") \/ In("swing", "close"))
    /\ alive' = FALSE
    /\ UNCHANGED <<stack, at, loopVars, writerVars, rotateVars, lockVars, entered, clock>>
----------------------------------------------------------------------------
(* The surroundings *)

\* lock_session or unlock_session runs in the child (module SessionLock).
LockChanges ==
    /\ alive
    /\ toggles < MaxToggles
    /\ toggles' = toggles + 1
    /\ locked' = ~locked
    /\ leaked' = 0
    /\ UNCHANGED <<stack, at, chunk, hidden, wanted, writerVars, rotateVars,
                   endVars, clock>>

\* A signal is handled, and a rotation finished, within 250 ms.
Tick ==
    /\ alive
    /\ clock < MaxClock
    /\ swings = {} /\ at["swing"] = "idle"
    /\ clock' = clock + 1
    /\ UNCHANGED <<stack, at, loopVars, writerVars, rotateVars, lockVars, endVars>>

RecorderInit ==
    /\ mode \in Modes
    /\ files = << <<>> >>
    /\ stack = <<"loop">>
    /\ at = [context \in Context |-> IF context = "loop" THEN "read" ELSE "idle"]
    /\ chunk = 0 /\ hidden = FALSE
    /\ script = 1 /\ frame = FALSE /\ pool = <<>> /\ synced = 0
    /\ rotated = 0 /\ swings = {}
    /\ locked = FALSE /\ entered = FALSE /\ alive = TRUE
    /\ clock = 1
    /\ wanted = <<>> /\ leaked = 0 /\ asked = {}
    /\ toggles = 0 /\ wrote = 0

ChildStep ==
    \/ TestLock \/ Show \/ ShowFails \/ WriteHeader \/ WriteData
    \/ StartRotation \/ TestRotation \/ CloseOld \/ OpenNew \/ OpenFails
    \/ CloseLast \/ Exit

RecorderNext ==
    \/ ChildStep
    \/ \E source \in Sources : ReadOutput(source)
    \/ OutputEnds \/ ProgramReaped \/ Terminate \/ Crash
    \/ \E targets \in RotateTargets : RequestRotation(targets)
    \/ ForwardRotation
    \/ LockChanges
    \/ Tick

RecorderSpec == RecorderInit /\ [][RecorderNext]_recorderVars
----------------------------------------------------------------------------
(* Properties *)

\* What the loop has shown and is still to write of the chunk in obuf.
Missing == CASE at["loop"] = "header" -> <<Header(chunk), Data(chunk)>>
             [] at["loop"] = "data"   -> <<Data(chunk)>>
             [] OTHER                 -> <<>>

\* The files, read one after the other, with what the compressor still holds and
\* what is about to be written, are exactly the records of what the user was shown,
\* once each and in order, however often the file was rotated, whatever interrupted
\* what, and even when the session was killed half-way.
RecordedAsShown == AllParts \o PoolParts \o Missing = RecordsOf(wanted)

\* A session that is locked shows at most the one chunk that had passed the test
\* before the lock came (ttyrec.c:1503).
LockHidesOutput == locked => leaked =< 1

\* Each request rotates the file exactly once, whether it was sent to the parent,
\* to the child or to both, as long as requests are 250 ms apart.
RotatesOnce ==
    alive /\ ~entered /\ swings = {} /\ at["swing"] = "idle" =>
        Len(files) = 1 + Cardinality(asked)

\* When the writer returns, nothing it was given more than MaxFlush earlier is in
\* memory only.
FlushedInTime == \A i \in 1..Len(pool) : wrote - pool[i].time =< MaxFlush
----------------------------------------------------------------------------
(* The recorder implements the transcript *)

Abstract == INSTANCE Transcript WITH
    shown <- wanted,
    held <- PoolParts,
    disk <- AllParts,
    fate <- IF alive THEN "running" ELSE IF at["done"] = "exit" THEN "ended" ELSE "crashed"

\* Rotations, flushes, handlers and errors are not to be seen in the transcript: no
\* step loses or reorders what was recorded, and a session that comes to the end of
\* done() has all of it on disk.
Transcribes == Abstract!TranscriptSpec
----------------------------------------------------------------------------
(* What the documentation says of the program, and the program does not do *)

\* "close current ttyrec file and reopen a new one (log rotation)" (ttyrec.1:102):
\* a file that was rotated away holds whole records and nothing else.
RotatedFilesAreWhole ==
    \A k \in 1..Len(files) - 1 : Parts(k) = RecordsOf(DataOf(Parts(k)))
=============================================================================
