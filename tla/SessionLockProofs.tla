------------------------- MODULE SessionLockProofs -------------------------
(***************************************************************************)
(* Proofs about module SessionLock, for every value of its constants:      *)
(* type correctness, the agreement of the two processes on whether the     *)
(* session is locked, the lock screen, what the watcher may and must do,   *)
(* and that the last command is obeyed.                                    *)
(***************************************************************************)
EXTENDS SessionLock, TLAPS

\* The part of TypeOK about the threads' frames.
FramesOK ==
    /\ at \in [Thread -> [Context -> Pc]]
    /\ top \in [Thread -> Context]
    /\ under \in [Thread -> [Signal \cup {"done"} -> Context]]

LEMMA GotoType ==
    ASSUME FramesOK, NEW t \in Thread, NEW c \in Context, NEW pc \in Pc, Goto(t, c, pc)
    PROVE  FramesOK'
  BY DEF FramesOK, Goto

LEMMA ReturnType ==
    ASSUME FramesOK, NEW t \in Thread, NEW c \in Signal, Return(t, c)
    PROVE  FramesOK'
  BY DEF FramesOK, Return, Context, Signal, Pc

LEMMA EnterType ==
    ASSUME FramesOK, NEW t \in Thread, NEW d \in Signal \cup {"done"}, NEW pc \in Pc,
           Enter(t, d, pc)
    PROVE  FramesOK'
  BY DEF FramesOK, Enter, Context, Signal

LEMMA FinishLockType ==
    ASSUME FramesOK, NEW t \in Thread, NEW c \in Context, FinishLock(t, c)
    PROVE  FramesOK'
<1>1. CASE c = "URG"
  BY <1>1, ReturnType DEF FinishLock, Signal
<1>2. CASE c # "URG"
  BY <1>2, GotoType DEF FinishLock, Pc
<1>3. QED BY <1>1, <1>2

LEMMA FinishUnlockType ==
    ASSUME FramesOK, NEW t \in Thread, NEW c \in Context, FinishUnlock(t, c)
    PROVE  FramesOK'
<1>1. CASE c = "USR2"
  BY <1>1, ReturnType DEF FinishUnlock, Signal
<1>2. CASE c # "USR2"
  BY <1>2, GotoType DEF FinishUnlock, Pc
<1>3. QED BY <1>1, <1>2

LEMMA TypeInit == Init => TypeOK
<1> SUFFICES ASSUME Init PROVE TypeOK
  OBVIOUS
<1>1. at \in [Thread -> [Context -> Pc]]
  BY DEF Init, Pc
<1>2. top \in [Thread -> Context] /\ under \in [Thread -> [Signal \cup {"done"} -> Context]]
  BY DEF Init, Context
<1>3. locked \in [Proc -> Nat] /\ pending \in [Proc -> SUBSET Signal]
  BY DEF Init
<1>4. QED BY <1>1, <1>2, <1>3 DEF Init, TypeOK

\* The conclusions that every action needs, apart from those on frames.
LEMMA TypeStep == TypeOK /\ [Next]_vars => TypeOK'
<1> SUFFICES ASSUME TypeOK, [Next]_vars PROVE TypeOK'
  OBVIOUS
<1>f. FramesOK
  BY DEF TypeOK, FramesOK
<1>g. ASSUME FramesOK', UNCHANGED <<daemonVars, sceneVars, timeVars, historyVars>>,
             pending' \in [Proc -> SUBSET Signal]
      PROVE  TypeOK'
  BY <1>g DEF TypeOK, FramesOK, daemonVars, sceneVars, timeVars, historyVars
<1>p. \A t : ProcOf(t) \in Proc /\ Peer(ProcOf(t)) \in Proc
  BY DEF ProcOf, Peer, Proc
<1>k. ASSUME NEW p \in Proc, NEW sig \in Signal, Kill(p, sig)
      PROVE  pending' \in [Proc -> SUBSET Signal]
  BY <1>k DEF Kill, TypeOK
<1>1. ASSUME NEW t \in Thread, NEW sig \in Signal, Deliver(t, sig) PROVE TypeOK'
  <2>1. FramesOK'
    <3>1. Enter(t, sig, IF sig = "URG" THEN "lock_test" ELSE "unlock_test")
      BY <1>1 DEF Deliver
    <3>2. (IF sig = "URG" THEN "lock_test" ELSE "unlock_test") \in Pc
      BY DEF Pc
    <3>3. QED BY <1>f, <3>1, <3>2, EnterType
  <2>2. pending' \in [Proc -> SUBSET Signal]
    BY <1>1 DEF Deliver, TypeOK
  <2>3. nested' \in BOOLEAN
    BY <1>1, Zenon DEF Deliver, TypeOK
  <2>4. QED
    BY <1>1, <2>1, <2>2, <2>3
    DEF Deliver, TypeOK, FramesOK, daemonVars, sceneVars, timeVars
<1>2. ASSUME NEW t \in Thread, LockTest(t) PROVE TypeOK'
  <2>1. FramesOK'
    BY <1>2, <1>f, GotoType, ReturnType DEF LockTest, Context, Signal, Pc
  <2>2. QED BY <1>2, <1>g, <2>1 DEF LockTest, TypeOK
<1>3. ASSUME NEW t \in Thread, EndSession(t) PROVE TypeOK'
  <2>1. FramesOK'
    BY <1>3, <1>f, EnterType, ReturnType DEF EndSession, Signal, Pc
  <2>2. QED
    BY <1>3, <2>1
    DEF EndSession, TypeOK, FramesOK, daemonVars, timeVars, historyVars
<1>4. ASSUME NEW t \in Thread, OutputEnds(t) PROVE TypeOK'
  <2>1. FramesOK'
    BY <1>4, <1>f, EnterType DEF OutputEnds, Pc
  <2>2. QED
    BY <1>4, <2>1
    DEF OutputEnds, TypeOK, FramesOK, daemonVars, timeVars, historyVars
<1>5. ASSUME NEW t \in Thread, ChildExit(t) PROVE TypeOK'
  BY <1>5 DEF ChildExit, TypeOK, daemonVars, frameVars, timeVars, historyVars
<1>6. ASSUME NEW t \in Thread, NEW c \in Context, LockSet(t, c) PROVE TypeOK'
  <2>1. FramesOK'
    BY <1>6, <1>f, GotoType DEF LockSet, Pc
  <2>2. locked' \in [Proc -> Nat]
    BY <1>6, <1>p DEF LockSet, TypeOK
  <2>3. QED
    BY <1>6, <2>1, <2>2 DEF LockSet, TypeOK, FramesOK, sceneVars, timeVars, historyVars
<1>7. ASSUME NEW t \in Thread, NEW c \in Context, LockSend(t, c) PROVE TypeOK'
  <2>1. FramesOK'
    BY <1>7, <1>f, GotoType, FinishLockType DEF LockSend, Pc
  <2>2. pending' \in [Proc -> SUBSET Signal]
    BY <1>7, <1>p, <1>k DEF LockSend, Signal
  <2>3. QED BY <1>7, <1>g, <2>1, <2>2 DEF LockSend
<1>8. ASSUME NEW t \in Thread, NEW c \in Context, DrawLock(t, c) PROVE TypeOK'
  <2>1. FramesOK'
    BY <1>8, <1>f, FinishLockType DEF DrawLock
  <2>2. QED
    BY <1>8, <2>1 DEF DrawLock, TypeOK, FramesOK, daemonVars, timeVars, historyVars
<1>9. ASSUME NEW t \in Thread, NEW c \in Context, UnlockTest(t, c) PROVE TypeOK'
  <2>1. FramesOK'
    BY <1>9, <1>f, GotoType, FinishUnlockType DEF UnlockTest, Pc
  <2>2. activity' \in Nat /\ warned' \subseteq {"lock", "kill"}
    BY <1>9 DEF UnlockTest, TypeOK
  <2>3. QED
    BY <1>9, <2>1, <2>2 DEF UnlockTest, TypeOK, FramesOK, sceneVars, timeVars, historyVars
<1>10. ASSUME NEW t \in Thread, NEW c \in Context, UnlockSet(t, c) PROVE TypeOK'
  <2>1. FramesOK'
    BY <1>10, <1>f, GotoType DEF UnlockSet, Pc
  <2>2. locked' \in [Proc -> Nat] /\ granted' \in Nat
    BY <1>10, <1>p DEF UnlockSet, TypeOK
  <2>3. QED
    BY <1>10, <2>1, <2>2 DEF UnlockSet, TypeOK, FramesOK, sceneVars, timeVars
<1>11. ASSUME NEW t \in Thread, NEW c \in Context, UnlockSend(t, c) PROVE TypeOK'
  <2>1. FramesOK'
    BY <1>11, <1>f, GotoType DEF UnlockSend, Pc
  <2>2. pending' \in [Proc -> SUBSET Signal]
    BY <1>11, <1>p, <1>k DEF UnlockSend, Signal
  <2>3. QED BY <1>11, <1>g, <2>1, <2>2 DEF UnlockSend
<1>12. ASSUME NEW t \in Thread, NEW c \in Context, Redraw(t, c) PROVE TypeOK'
  <2>1. FramesOK'
    BY <1>12, <1>f, FinishUnlockType DEF Redraw
  <2>2. QED BY <1>12, <1>g, <2>1 DEF Redraw, TypeOK
<1>13. ASSUME NEW t \in Thread, NEW c \in Context, RestoreScreen(t, c) PROVE TypeOK'
  <2>1. FramesOK'
    BY <1>13, <1>f, FinishUnlockType DEF RestoreScreen
  <2>2. QED
    BY <1>13, <2>1 DEF RestoreScreen, TypeOK, FramesOK, daemonVars, timeVars, historyVars
<1>14. ASSUME NEW t \in Thread, Forward(t) PROVE TypeOK'
  <2>1. FramesOK'
    BY <1>14, <1>f, GotoType DEF Forward, TypeOK, Context, Pc
  <2>2. QED
    BY <1>14, <2>1 DEF Forward, TypeOK, FramesOK, timeVars
<1>15. ASSUME NEW t \in Thread, SendKill(t) PROVE TypeOK'
  <2>1. FramesOK'
    BY <1>15, <1>f, GotoType DEF SendKill, Context, Pc
  <2>2. pending' \in [Proc -> SUBSET Signal]
    BY <1>15, <1>k DEF SendKill, Signal, Proc
  <2>3. QED BY <1>15, <1>g, <2>1, <2>2 DEF SendKill
<1>16. ASSUME NEW t \in Thread, WatcherWakes(t) PROVE TypeOK'
  <2>1. FramesOK'
    BY <1>16, <1>f, GotoType DEF WatcherWakes, Context, Pc
  <2>2. QED
    BY <1>16, <2>1 DEF WatcherWakes, TypeOK, FramesOK, daemonVars, sceneVars, historyVars
<1>17. ASSUME NEW t \in Thread, CheckLock(t) PROVE TypeOK'
  <2>1. FramesOK'
    BY <1>17, <1>f, GotoType DEF CheckLock, Context, Pc
  <2>2. warned' \subseteq {"lock", "kill"}
    BY <1>17 DEF CheckLock, TypeOK
  <2>3. QED
    BY <1>17, <2>1, <2>2 DEF CheckLock, TypeOK, FramesOK, sceneVars, timeVars, historyVars
<1>18. ASSUME NEW t \in Thread, CheckKill(t) PROVE TypeOK'
  <2>1. FramesOK'
    BY <1>18, <1>f, GotoType DEF CheckKill, Context, Pc
  <2>2. warned' \subseteq {"lock", "kill"} /\ announced' \in Nat
    BY <1>18 DEF CheckKill, TypeOK
  <2>3. QED
    BY <1>18, <2>1, <2>2 DEF CheckKill, TypeOK, FramesOK, sceneVars, timeVars
<1>19. ASSUME NEW t \in Thread, NEW kind \in InputKinds \ {"eof"}, ReadInput(t, kind)
       PROVE  TypeOK'
  <2>1. FramesOK'
    BY <1>19, <1>f, GotoType DEF ReadInput, Context, Pc
  <2>2. kind \in {"plain", "lock", "kill"}
    BY OptionsAssumption
  <2>3. wanted' \in {"none", "lock", "unlock"}
    BY <1>19 DEF ReadInput, TypeOK
  <2>4. typed' = kind /\ commands' \in Nat
    BY <1>19 DEF ReadInput, TypeOK
  <2>5. UNCHANGED <<daemonVars, pending, screen, shell, entered, exited, now, woken,
                    granted, announced, nested>>
    BY <1>19 DEF ReadInput
  <2>6. QED
    BY <2>1, <2>2, <2>3, <2>4, <2>5 DEF TypeOK, FramesOK, daemonVars
<1>20. ASSUME NEW t \in Thread, CloseInput(t) PROVE TypeOK'
  <2>1. FramesOK'
    BY <1>20, <1>f, GotoType DEF CloseInput, Context, Pc
  <2>2. QED BY <1>20, <1>g, <2>1 DEF CloseInput, TypeOK
<1>21. ASSUME NEW targets \in OperatorTargets, NEW sig \in OperatorSignals,
              OperatorSends(targets, sig)
       PROVE  TypeOK'
  <2>1. sig \in Signal
    BY OptionsAssumption DEF Signal
  <2>2. pending' \in [Proc -> SUBSET Signal]
    BY <1>21, <2>1 DEF OperatorSends, TypeOK
  <2>3. wanted' \in {"none", "lock", "unlock"}
    BY <1>21 DEF OperatorSends, TypeOK
  <2>4. commands' \in Nat
    BY <1>21 DEF OperatorSends, TypeOK
  <2>5. UNCHANGED <<daemonVars, at, top, under, sceneVars, now, woken, granted,
                    announced, nested>>
    BY <1>21 DEF OperatorSends
  <2>6. QED
    BY <2>2, <2>3, <2>4, <2>5 DEF TypeOK, daemonVars, sceneVars
<1>22. ASSUME ProgramEnds PROVE TypeOK'
  BY <1>22 DEF ProgramEnds, TypeOK, daemonVars, frameVars, timeVars, historyVars
<1>23. ASSUME Tick PROVE TypeOK'
  <2>1. now' \in Nat
    BY <1>23 DEF Tick, TypeOK
  <2>2. UNCHANGED <<daemonVars, frameVars, sceneVars, woken, commands, historyVars>>
    BY <1>23 DEF Tick
  <2>3. QED
    BY <2>1, <2>2 DEF TypeOK, daemonVars, frameVars, sceneVars, historyVars
<1>24. ASSUME UNCHANGED vars PROVE TypeOK'
  BY <1>24 DEF vars, TypeOK, daemonVars, frameVars, sceneVars, timeVars, historyVars
<1>25. QED
  BY <1>1, <1>2, <1>3, <1>4, <1>5, <1>6, <1>7, <1>8, <1>9, <1>10, <1>11, <1>12, <1>13,
     <1>14, <1>15, <1>16, <1>17, <1>18, <1>19, <1>20, <1>21, <1>22, <1>23, <1>24
  DEF Next, ThreadStep, Surroundings

\* Type correctness: every variable keeps its type, for all parameters of the program.
THEOREM TypeCorrect == Spec => []TypeOK
<1>1. QED BY TypeInit, TypeStep, PTL DEF Spec
----------------------------------------------------------------------------
(* Agreement.  The copies of locked_since may differ only while a correction *)
(* is under way; each action either leaves the corrections alone, turns one  *)
(* into its next stage, or makes the copies equal.                           *)

\* The stages of a correction inside a thread.
CorrectionPcs == {"lock_test", "lock_set", "lock_send",
                  "unlock_test", "unlock_set", "unlock_send"}

\* done() has no frame before it is entered.
DoneIdle == ~entered => \A t \in Thread : at[t]["done"] = "idle"

IInv == TypeOK /\ DoneIdle /\ now >= 1 /\ Reconciling

\* The step changes the program counter of context d of thread u, and no other.
Moves(u, d, pc) ==
    /\ at'[u][d] = pc
    /\ \A t \in Thread, c \in Context : t # u \/ c # d => at'[t][c] = at[t][c]

LEMMA GotoMoves ==
    ASSUME FramesOK, NEW t \in Thread, NEW c \in Context, NEW pc, Goto(t, c, pc)
    PROVE  Moves(t, c, pc)
  BY DEF FramesOK, Goto, Moves

LEMMA ReturnMoves ==
    ASSUME FramesOK, NEW t \in Thread, NEW c \in Context, Return(t, c)
    PROVE  Moves(t, c, "idle")
  BY DEF FramesOK, Return, Moves

LEMMA EnterMoves ==
    ASSUME FramesOK, NEW t \in Thread, NEW d \in Context, NEW pc, Enter(t, d, pc)
    PROVE  Moves(t, d, pc)
  BY DEF FramesOK, Enter, Moves

LEMMA FinishLockMoves ==
    ASSUME FramesOK, NEW t \in Thread, NEW c \in Context, FinishLock(t, c)
    PROVE  \E pc \in {"idle", "read", "kill_check"} : Moves(t, c, pc)
<1>1. CASE c = "URG"
  BY <1>1, ReturnMoves DEF FinishLock
<1>2. CASE c # "URG" /\ t = "main"
  BY <1>2, GotoMoves DEF FinishLock
<1>3. CASE c # "URG" /\ t # "main"
  BY <1>3, GotoMoves DEF FinishLock
<1>4. QED BY <1>1, <1>2, <1>3

LEMMA FinishUnlockMoves ==
    ASSUME FramesOK, NEW t \in Thread, NEW c \in Context, FinishUnlock(t, c)
    PROVE  \E pc \in {"idle", "kill_shell", "exit"} : Moves(t, c, pc)
<1>1. CASE c = "USR2"
  BY <1>1, ReturnMoves DEF FinishUnlock
<1>2. CASE c = "TERM"
  BY <1>2, GotoMoves DEF FinishUnlock
<1>3. CASE c \notin {"USR2", "TERM"}
  BY <1>3, GotoMoves DEF FinishUnlock
<1>4. QED BY <1>1, <1>2, <1>3

\* A pending lock of process p survives a step of a thread that carries no stage of it.
LEMMA KeepLock ==
    ASSUME NEW u \in Thread, NEW d \in Context, NEW pc, Moves(u, d, pc), NEW p,
           "URG" \in pending[p] => "URG" \in pending'[p],
           at[u][d] = "lock_send" => ProcOf(u) = p,
           at[u][d] \in {"lock_test", "lock_set"} => ProcOf(u) # p,
           LockComing(p)
    PROVE  LockComing(p)'
<1>1. CASE "URG" \in pending[p]
  BY <1>1 DEF LockComing
<1>2. CASE \E t \in Thread, c \in Context :
             \/ ProcOf(t) # p /\ at[t][c] = "lock_send"
             \/ ProcOf(t) = p /\ at[t][c] \in {"lock_test", "lock_set"}
  <2>1. PICK t \in Thread, c \in Context :
             \/ ProcOf(t) # p /\ at[t][c] = "lock_send"
             \/ ProcOf(t) = p /\ at[t][c] \in {"lock_test", "lock_set"}
    BY <1>2
  <2>2. t # u \/ c # d
    BY <2>1
  <2>3. at'[t][c] = at[t][c]
    BY <2>2 DEF Moves
  <2>4. QED BY <2>1, <2>3 DEF LockComing
<1>3. QED BY <1>1, <1>2 DEF LockComing

LEMMA KeepUnlock ==
    ASSUME NEW u \in Thread, NEW d \in Context, NEW pc, Moves(u, d, pc), NEW p,
           "USR2" \in pending[p] => "USR2" \in pending'[p],
           at[u][d] = "unlock_send" => ProcOf(u) = p,
           at[u][d] \in {"unlock_test", "unlock_set"} => ProcOf(u) # p,
           UnlockComing(p)
    PROVE  UnlockComing(p)'
<1>1. CASE "USR2" \in pending[p]
  BY <1>1 DEF UnlockComing
<1>2. CASE \E t \in Thread, c \in Context :
             \/ ProcOf(t) # p /\ at[t][c] = "unlock_send"
             \/ ProcOf(t) = p /\ at[t][c] \in {"unlock_test", "unlock_set"}
  <2>1. PICK t \in Thread, c \in Context :
             \/ ProcOf(t) # p /\ at[t][c] = "unlock_send"
             \/ ProcOf(t) = p /\ at[t][c] \in {"unlock_test", "unlock_set"}
    BY <1>2
  <2>2. t # u \/ c # d
    BY <2>1
  <2>3. at'[t][c] = at[t][c]
    BY <2>2 DEF Moves
  <2>4. QED BY <2>1, <2>3 DEF UnlockComing
<1>3. QED BY <1>1, <1>2 DEF UnlockComing

\* A thread that was at no stage of a correction disturbs none.
LEMMA Neutral ==
    ASSUME Reconciling, NEW u \in Thread, NEW d \in Context, NEW pc, Moves(u, d, pc),
           at[u][d] \notin CorrectionPcs, locked' = locked, exited' = FALSE => ~exited,
           \A p \in Proc : pending[p] \subseteq pending'[p]
    PROVE  Reconciling'
<1> SUFFICES ASSUME ~exited', NEW p \in Proc, locked'[p] # 0, locked'[Peer(p)] = 0
             PROVE  LockComing(Peer(p))' \/ UnlockComing(p)'
  BY DEF Reconciling
<1>1. Peer(p) \in Proc
  BY DEF Peer, Proc
<1>2. LockComing(Peer(p)) \/ UnlockComing(p)
  BY DEF Reconciling
<1>3. CASE LockComing(Peer(p))
  BY <1>1, <1>3, KeepLock DEF CorrectionPcs
<1>4. CASE UnlockComing(p)
  BY <1>4, KeepUnlock DEF CorrectionPcs
<1>5. QED BY <1>2, <1>3, <1>4

LEMMA DoneIdleKept ==
    ASSUME DoneIdle, NEW u \in Thread, NEW d \in Context, NEW pc, Moves(u, d, pc),
           entered => entered', d = "done" /\ ~entered' => at[u][d] # "idle"
    PROVE  DoneIdle'
  BY DEF DoneIdle, Moves, Context

\* Steps of a thread that is at no stage of a correction.
LEMMA NeutralStep ==
    ASSUME IInv, NEW t \in Thread,
           \/ EndSession(t) \/ OutputEnds(t) \/ Forward(t) \/ SendKill(t)
           \/ WatcherWakes(t) \/ CheckLock(t) \/ CheckKill(t) \/ CloseInput(t)
           \/ \E kind \in InputKinds \ {"eof"} : ReadInput(t, kind)
           \/ \E c \in Context : DrawLock(t, c) \/ Redraw(t, c) \/ RestoreScreen(t, c)
    PROVE  DoneIdle' /\ Reconciling'
<1>f. FramesOK
  BY DEF IInv, TypeOK, FramesOK
<1>d. {"base", "done", "TERM"} \subseteq Context
  BY DEF Context, Signal
<1>0. ASSUME NEW d \in Context, NEW pc, Moves(t, d, pc),
             at[t][d] \notin CorrectionPcs, locked' = locked,
             exited' = FALSE => ~exited,
             \A p \in Proc : pending[p] \subseteq pending'[p],
             entered => entered', d = "done" /\ ~entered' => at[t][d] # "idle"
      PROVE  DoneIdle' /\ Reconciling'
  BY <1>0, Neutral, DoneIdleKept DEF IInv
<1>1. CASE EndSession(t)
  <2>1. CASE entered
    <3>1. Moves(t, "TERM", "idle")
      BY <1>1, <2>1, <1>f, <1>d, ReturnMoves DEF EndSession
    <3>2. QED
      BY <1>1, <2>1, <1>0, <1>d, <3>1
      DEF EndSession, At, CorrectionPcs, daemonVars
  <2>2. CASE ~entered
    <3>1. Moves(t, "done", "unlock_test")
      BY <1>1, <2>2, <1>f, <1>d, EnterMoves DEF EndSession
    <3>2. at[t]["done"] = "idle"
      BY <2>2 DEF IInv, DoneIdle
    <3>3. QED
      BY <1>1, <2>2, <1>0, <1>d, <3>1, <3>2
      DEF EndSession, CorrectionPcs, daemonVars
  <2>3. QED BY <2>1, <2>2
<1>2. CASE OutputEnds(t)
  <2>1. Moves(t, "done", "unlock_test")
    BY <1>2, <1>f, <1>d, EnterMoves DEF OutputEnds
  <2>2. at[t]["done"] = "idle"
    BY <1>2 DEF OutputEnds, IInv, DoneIdle
  <2>3. QED
    BY <1>2, <2>1, <2>2, <1>0, <1>d DEF OutputEnds, CorrectionPcs, daemonVars
<1>3. CASE Forward(t)
  <2>1. PICK pc : Moves(t, "base", pc)
    BY <1>3, <1>f, <1>d, GotoMoves DEF Forward
  <2>2. QED
    BY <1>3, <2>1, <1>0, <1>d DEF Forward, At, CorrectionPcs
<1>4. CASE SendKill(t)
  <2>1. PICK pc : Moves(t, "base", pc)
    BY <1>4, <1>f, <1>d, GotoMoves DEF SendKill
  <2>2. \A p \in Proc : pending[p] \subseteq pending'[p]
    BY <1>4 DEF SendKill, Kill, IInv, TypeOK
  <2>3. QED
    BY <1>4, <2>1, <2>2, <1>0, <1>d
    DEF SendKill, At, CorrectionPcs, daemonVars, sceneVars
<1>5. CASE WatcherWakes(t)
  <2>1. PICK pc : Moves(t, "base", pc)
    BY <1>5, <1>f, <1>d, GotoMoves DEF WatcherWakes
  <2>2. QED
    BY <1>5, <2>1, <1>0, <1>d DEF WatcherWakes, At, CorrectionPcs, daemonVars, sceneVars
<1>6. CASE CheckLock(t)
  <2>1. PICK pc : Moves(t, "base", pc)
    BY <1>6, <1>f, <1>d, GotoMoves DEF CheckLock
  <2>2. QED
    BY <1>6, <2>1, <1>0, <1>d DEF CheckLock, At, CorrectionPcs, sceneVars
<1>7. CASE CheckKill(t)
  <2>1. PICK pc : Moves(t, "base", pc)
    BY <1>7, <1>f, <1>d, GotoMoves DEF CheckKill
  <2>2. QED
    BY <1>7, <2>1, <1>0, <1>d DEF CheckKill, At, CorrectionPcs, sceneVars
<1>8. CASE CloseInput(t)
  <2>1. PICK pc : Moves(t, "base", pc)
    BY <1>8, <1>f, <1>d, GotoMoves DEF CloseInput
  <2>2. QED
    BY <1>8, <2>1, <1>0, <1>d DEF CloseInput, At, CorrectionPcs, daemonVars, sceneVars
<1>9. ASSUME NEW kind \in InputKinds \ {"eof"}, ReadInput(t, kind)
      PROVE  DoneIdle' /\ Reconciling'
  <2>1. PICK pc : Moves(t, "base", pc)
    BY <1>9, <1>f, <1>d, GotoMoves DEF ReadInput
  <2>2. QED
    BY <1>9, <2>1, <1>0, <1>d DEF ReadInput, At, CorrectionPcs, daemonVars
<1>10. ASSUME NEW c \in Context, DrawLock(t, c) PROVE DoneIdle' /\ Reconciling'
  <2>1. PICK pc : Moves(t, c, pc)
    BY <1>10, <1>f, FinishLockMoves DEF DrawLock
  <2>2. QED
    BY <1>10, <2>1, <1>0 DEF DrawLock, At, CorrectionPcs, daemonVars, sceneVars
<1>11. ASSUME NEW c \in Context, Redraw(t, c) PROVE DoneIdle' /\ Reconciling'
  <2>1. PICK pc : Moves(t, c, pc)
    BY <1>11, <1>f, FinishUnlockMoves DEF Redraw
  <2>2. QED
    BY <1>11, <2>1, <1>0 DEF Redraw, At, CorrectionPcs, daemonVars, sceneVars
<1>12. ASSUME NEW c \in Context, RestoreScreen(t, c) PROVE DoneIdle' /\ Reconciling'
  <2>1. PICK pc : Moves(t, c, pc)
    BY <1>12, <1>f, FinishUnlockMoves DEF RestoreScreen
  <2>2. QED
    BY <1>12, <2>1, <1>0 DEF RestoreScreen, At, CorrectionPcs, daemonVars, sceneVars
<1>13. QED
  BY <1>1, <1>2, <1>3, <1>4, <1>5, <1>6, <1>7, <1>8, <1>9, <1>10, <1>11, <1>12

LEMMA ProcFacts ==
    /\ \A p \in Proc : Peer(p) \in Proc /\ Peer(p) # p /\ Peer(Peer(p)) = p
    /\ \A p, q \in Proc : p # q => q = Peer(p)
    /\ \A t : ProcOf(t) \in Proc
  BY DEF Proc, Peer, ProcOf

\* A delivered signal is still a correction, now inside its handler.
LEMMA DeliverStep ==
    ASSUME IInv, NEW t \in Thread, NEW sig \in Signal, Deliver(t, sig)
    PROVE  DoneIdle' /\ Reconciling'
<1>f. FramesOK
  BY DEF IInv, TypeOK, FramesOK
<1>d. sig \in Context /\ sig # "done"
  BY DEF Context, Signal
<1> DEFINE first == IF sig = "URG" THEN "lock_test" ELSE "unlock_test"
<1>1. Moves(t, sig, first)
  BY <1>f, <1>d, EnterMoves DEF Deliver
<1>2. at[t][sig] = "idle" /\ UNCHANGED <<locked, entered, exited>>
  BY DEF Deliver, daemonVars, sceneVars
<1>3. DoneIdle'
  BY <1>1, <1>2, <1>d, DoneIdleKept DEF IInv
<1>4. ASSUME NEW p \in Proc, LockComing(p) PROVE LockComing(p)'
  <2>1. CASE sig = "URG" /\ p = ProcOf(t)
    BY <2>1, <1>1, <1>d DEF LockComing, Moves
  <2>2. CASE ~(sig = "URG" /\ p = ProcOf(t))
    <3>1. "URG" \in pending[p] => "URG" \in pending'[p]
      BY <2>2 DEF Deliver, IInv, TypeOK
    <3>2. QED BY <1>1, <1>2, <1>4, <1>d, <3>1, KeepLock
  <2>3. QED BY <2>1, <2>2
<1>5. ASSUME NEW p \in Proc, UnlockComing(p) PROVE UnlockComing(p)'
  <2>1. CASE sig = "USR2" /\ p = ProcOf(t)
    BY <2>1, <1>1, <1>d DEF UnlockComing, Moves
  <2>2. CASE ~(sig = "USR2" /\ p = ProcOf(t))
    <3>1. "USR2" \in pending[p] => "USR2" \in pending'[p]
      BY <2>2 DEF Deliver, IInv, TypeOK
    <3>2. QED BY <1>1, <1>2, <1>5, <1>d, <3>1, KeepUnlock
  <2>3. QED BY <2>1, <2>2
<1>6. Reconciling'
  <2> SUFFICES ASSUME ~exited', NEW p \in Proc, locked'[p] # 0, locked'[Peer(p)] = 0
               PROVE  LockComing(Peer(p))' \/ UnlockComing(p)'
    BY DEF Reconciling
  <2>1. LockComing(Peer(p)) \/ UnlockComing(p)
    BY <1>2 DEF IInv, Reconciling
  <2>2. QED BY <2>1, <1>4, <1>5, ProcFacts
<1>7. QED BY <1>3, <1>6

\* The test of lock_session: a lock is given up only where it is already done.
LEMMA LockTestStep ==
    ASSUME IInv, NEW t \in Thread, LockTest(t)
    PROVE  DoneIdle' /\ Reconciling'
<1>f. FramesOK
  BY DEF IInv, TypeOK, FramesOK
<1>d. "URG" \in Context
  BY DEF Context, Signal
<1>1. at[t]["URG"] = "lock_test" /\ UNCHANGED <<locked, pending, entered, exited>>
  BY DEF LockTest, At, daemonVars, sceneVars
<1>2. PICK pc : Moves(t, "URG", pc) /\ (locked[ProcOf(t)] = 0 => pc = "lock_set")
  <2>1. CASE locked[ProcOf(t)] # 0
    BY <2>1, <1>f, <1>d, ReturnMoves DEF LockTest
  <2>2. CASE locked[ProcOf(t)] = 0
    BY <2>2, <1>f, <1>d, GotoMoves DEF LockTest
  <2>3. QED BY <2>1, <2>2
<1>3. DoneIdle'
  BY <1>1, <1>2, <1>d, DoneIdleKept DEF IInv
<1>4. Reconciling'
  <2> SUFFICES ASSUME ~exited', NEW p \in Proc, locked'[p] # 0, locked'[Peer(p)] = 0
               PROVE  LockComing(Peer(p))' \/ UnlockComing(p)'
    BY DEF Reconciling
  <2>1. LockComing(Peer(p)) \/ UnlockComing(p)
    BY <1>1 DEF IInv, Reconciling
  <2>2. CASE UnlockComing(p)
    BY <2>2, <1>1, <1>2, <1>d, KeepUnlock
  <2>3. CASE LockComing(Peer(p)) /\ ProcOf(t) = Peer(p)
    BY <2>3, <1>1, <1>2, <1>d DEF LockComing, Moves
  <2>4. CASE LockComing(Peer(p)) /\ ProcOf(t) # Peer(p)
    BY <2>4, <1>1, <1>2, <1>d, KeepLock
  <2>5. QED BY <2>1, <2>2, <2>3, <2>4
<1>5. QED BY <1>3, <1>4

\* Setting the flag: the echo to the peer comes next.
LEMMA LockSetStep ==
    ASSUME IInv, NEW t \in Thread, NEW c \in Context, LockSet(t, c)
    PROVE  DoneIdle' /\ Reconciling'
<1>f. FramesOK
  BY DEF IInv, TypeOK, FramesOK
<1>1. at[t][c] = "lock_set" /\ UNCHANGED <<pending, entered, exited>>
  BY DEF LockSet, At, sceneVars
<1>2. Moves(t, c, "lock_send")
  BY <1>f, GotoMoves DEF LockSet
<1>3. DoneIdle'
  BY <1>1, <1>2, DoneIdleKept DEF IInv
<1>4. locked'[ProcOf(t)] # 0
  BY ProcFacts DEF LockSet, IInv, TypeOK
<1>5. Reconciling'
  <2> SUFFICES ASSUME ~exited', NEW p \in Proc, locked'[p] # 0, locked'[Peer(p)] = 0
               PROVE  LockComing(Peer(p))' \/ UnlockComing(p)'
    BY DEF Reconciling
  <2>1. ProcOf(t) # Peer(p)
    BY <1>4
  <2>2. QED BY <2>1, <1>2 DEF LockComing, Moves
<1>6. QED BY <1>3, <1>5

\* The echo: the correction moves from the sender to the signals of its peer.
LEMMA LockSendStep ==
    ASSUME IInv, NEW t \in Thread, NEW c \in Context, LockSend(t, c)
    PROVE  DoneIdle' /\ Reconciling'
<1>f. FramesOK
  BY DEF IInv, TypeOK, FramesOK
<1>1. at[t][c] = "lock_send" /\ UNCHANGED <<locked, entered, exited>>
  BY DEF LockSend, At, daemonVars, sceneVars
<1>2. PICK pc : Moves(t, c, pc)
  <2>1. CASE t = "child"
    BY <2>1, <1>f, GotoMoves DEF LockSend
  <2>2. CASE t # "child"
    BY <2>2, <1>f, FinishLockMoves DEF LockSend
  <2>3. QED BY <2>1, <2>2
<1>3. DoneIdle'
  BY <1>1, <1>2, DoneIdleKept DEF IInv
<1>4. /\ \A p \in Proc : pending[p] \subseteq pending'[p]
      /\ "URG" \in pending'[Peer(ProcOf(t))]
  BY ProcFacts DEF LockSend, Kill, IInv, TypeOK
<1>5. Reconciling'
  <2> SUFFICES ASSUME ~exited', NEW p \in Proc, locked'[p] # 0, locked'[Peer(p)] = 0
               PROVE  LockComing(Peer(p))' \/ UnlockComing(p)'
    BY DEF Reconciling
  <2>1. LockComing(Peer(p)) \/ UnlockComing(p)
    BY <1>1 DEF IInv, Reconciling
  <2>2. CASE UnlockComing(p)
    BY <2>2, <1>1, <1>2, <1>4, KeepUnlock
  <2>3. CASE ProcOf(t) = p
    BY <2>3, <1>4 DEF LockComing
  <2>4. CASE LockComing(Peer(p)) /\ ProcOf(t) # p
    <3>1. ProcOf(t) = Peer(p)
      BY <2>4, ProcFacts
    <3>2. QED BY <2>4, <3>1, <1>1, <1>2, <1>4, ProcFacts, KeepLock
  <2>5. QED BY <2>1, <2>2, <2>3, <2>4
<1>6. QED BY <1>3, <1>5

\* The test of unlock_session: an unlock is given up only where it is already done.
LEMMA UnlockTestStep ==
    ASSUME IInv, NEW t \in Thread, NEW c \in Context, UnlockTest(t, c)
    PROVE  DoneIdle' /\ Reconciling'
<1>f. FramesOK
  BY DEF IInv, TypeOK, FramesOK
<1>1. at[t][c] = "unlock_test" /\ UNCHANGED <<locked, pending, entered, exited>>
  BY DEF UnlockTest, At, sceneVars
<1>2. PICK pc : Moves(t, c, pc) /\ (locked[ProcOf(t)] # 0 => pc = "unlock_set")
  <2>1. CASE locked[ProcOf(t)] = 0
    BY <2>1, <1>f, FinishUnlockMoves DEF UnlockTest
  <2>2. CASE locked[ProcOf(t)] # 0
    BY <2>2, <1>f, GotoMoves DEF UnlockTest
  <2>3. QED BY <2>1, <2>2
<1>3. DoneIdle'
  BY <1>1, <1>2, DoneIdleKept DEF IInv
<1>4. Reconciling'
  <2> SUFFICES ASSUME ~exited', NEW p \in Proc, locked'[p] # 0, locked'[Peer(p)] = 0
               PROVE  LockComing(Peer(p))' \/ UnlockComing(p)'
    BY DEF Reconciling
  <2>1. LockComing(Peer(p)) \/ UnlockComing(p)
    BY <1>1 DEF IInv, Reconciling
  <2>2. CASE LockComing(Peer(p))
    BY <2>2, <1>1, <1>2, KeepLock
  <2>3. CASE UnlockComing(p) /\ ProcOf(t) = p
    BY <2>3, <1>1, <1>2 DEF UnlockComing, Moves
  <2>4. CASE UnlockComing(p) /\ ProcOf(t) # p
    BY <2>4, <1>1, <1>2, KeepUnlock
  <2>5. QED BY <2>1, <2>2, <2>3, <2>4
<1>5. QED BY <1>3, <1>4

\* Clearing the flag: the echo to the peer comes next.
LEMMA UnlockSetStep ==
    ASSUME IInv, NEW t \in Thread, NEW c \in Context, UnlockSet(t, c)
    PROVE  DoneIdle' /\ Reconciling'
<1>f. FramesOK
  BY DEF IInv, TypeOK, FramesOK
<1>1. at[t][c] = "unlock_set" /\ UNCHANGED <<pending, entered, exited>>
  BY DEF UnlockSet, At, sceneVars
<1>2. Moves(t, c, "unlock_send")
  BY <1>f, GotoMoves DEF UnlockSet
<1>3. DoneIdle'
  BY <1>1, <1>2, DoneIdleKept DEF IInv
<1>4. locked'[ProcOf(t)] = 0
  BY ProcFacts DEF UnlockSet, IInv, TypeOK
<1>5. Reconciling'
  <2> SUFFICES ASSUME ~exited', NEW p \in Proc, locked'[p] # 0, locked'[Peer(p)] = 0
               PROVE  LockComing(Peer(p))' \/ UnlockComing(p)'
    BY DEF Reconciling
  <2>1. ProcOf(t) # p
    BY <1>4
  <2>2. QED BY <2>1, <1>2 DEF UnlockComing, Moves
<1>6. QED BY <1>3, <1>5

\* The echo: the correction moves from the sender to the signals of its peer.
LEMMA UnlockSendStep ==
    ASSUME IInv, NEW t \in Thread, NEW c \in Context, UnlockSend(t, c)
    PROVE  DoneIdle' /\ Reconciling'
<1>f. FramesOK
  BY DEF IInv, TypeOK, FramesOK
<1>1. at[t][c] = "unlock_send" /\ UNCHANGED <<locked, entered, exited>>
  BY DEF UnlockSend, At, daemonVars, sceneVars
<1>2. PICK pc : Moves(t, c, pc)
  BY <1>f, GotoMoves DEF UnlockSend
<1>3. DoneIdle'
  BY <1>1, <1>2, DoneIdleKept DEF IInv
<1>4. /\ \A p \in Proc : pending[p] \subseteq pending'[p]
      /\ "USR2" \in pending'[Peer(ProcOf(t))]
  BY ProcFacts DEF UnlockSend, Kill, IInv, TypeOK
<1>5. Reconciling'
  <2> SUFFICES ASSUME ~exited', NEW p \in Proc, locked'[p] # 0, locked'[Peer(p)] = 0
               PROVE  LockComing(Peer(p))' \/ UnlockComing(p)'
    BY DEF Reconciling
  <2>1. LockComing(Peer(p)) \/ UnlockComing(p)
    BY <1>1 DEF IInv, Reconciling
  <2>2. CASE LockComing(Peer(p))
    BY <2>2, <1>1, <1>2, <1>4, ProcFacts, KeepLock
  <2>3. CASE ProcOf(t) # p
    <3>1. Peer(ProcOf(t)) = p
      BY <2>3, ProcFacts
    <3>2. QED BY <3>1, <1>4 DEF UnlockComing
  <2>4. CASE UnlockComing(p) /\ ProcOf(t) = p
    BY <2>4, <1>1, <1>2, <1>4, KeepUnlock
  <2>5. QED BY <2>1, <2>2, <2>3, <2>4
<1>6. QED BY <1>3, <1>5

\* Steps outside the threads leave the frames alone and only add signals.
LEMMA SurroundingsStep ==
    ASSUME IInv, UNCHANGED <<at, locked, entered, exited>>,
           \A p \in Proc : pending[p] \subseteq pending'[p]
    PROVE  DoneIdle' /\ Reconciling'
<1>1. DoneIdle'
  BY DEF IInv, DoneIdle
<1>2. ASSUME NEW p \in Proc, LockComing(p) PROVE LockComing(p)'
  BY <1>2 DEF LockComing
<1>3. ASSUME NEW p \in Proc, UnlockComing(p) PROVE UnlockComing(p)'
  BY <1>3 DEF UnlockComing
<1>4. Reconciling'
  BY <1>2, <1>3, ProcFacts DEF IInv, Reconciling
<1>5. QED BY <1>1, <1>4

LEMMA NowStep == IInv /\ [Next]_vars => now' >= 1
<1> SUFFICES ASSUME IInv, [Next]_vars PROVE now' >= 1
  OBVIOUS
<1>1. now' \in {now, now + 1}
  BY DEF Next, ThreadStep, Surroundings, Deliver, LockTest, EndSession, OutputEnds,
         ChildExit, LockSet, LockSend, DrawLock, UnlockTest, UnlockSet, UnlockSend, Redraw,
         RestoreScreen, Forward, SendKill, WatcherWakes, CheckLock, CheckKill, ReadInput,
         CloseInput, OperatorSends, ProgramEnds, Tick, vars, timeVars
<1>2. now \in Nat /\ now >= 1
  BY DEF IInv, TypeOK
<1>3. QED BY <1>1, <1>2

LEMMA InductiveInit == Init => IInv
<1> SUFFICES ASSUME Init PROVE IInv
  OBVIOUS
<1>1. Reconciling
  BY DEF Init, Reconciling
<1>2. DoneIdle
  BY DEF Init, DoneIdle, Context
<1>3. QED BY <1>1, <1>2, TypeInit DEF IInv, Init

LEMMA InductiveStep == IInv /\ [Next]_vars => IInv'
<1> SUFFICES ASSUME IInv, [Next]_vars PROVE DoneIdle' /\ Reconciling'
  BY TypeStep, NowStep DEF IInv
<1>1. CASE \E t \in Thread : ThreadStep(t)
  <2>1. PICK t \in Thread : ThreadStep(t)
    BY <1>1
  <2>2. CASE \E sig \in Signal : Deliver(t, sig)
    BY <2>2, DeliverStep
  <2>3. CASE LockTest(t)
    BY <2>3, LockTestStep
  <2>4. CASE \E c \in Context : LockSet(t, c) \/ LockSend(t, c) \/ UnlockTest(t, c)
                                \/ UnlockSet(t, c) \/ UnlockSend(t, c)
    BY <2>4, LockSetStep, LockSendStep, UnlockTestStep, UnlockSetStep, UnlockSendStep
  <2>5. CASE ChildExit(t)
    <3>1. exited' /\ UNCHANGED <<at, entered>>
      BY <2>5 DEF ChildExit, frameVars
    <3>2. QED BY <3>1 DEF Reconciling, DoneIdle, IInv
  <2>6. CASE \/ EndSession(t) \/ OutputEnds(t) \/ Forward(t) \/ SendKill(t)
             \/ WatcherWakes(t) \/ CheckLock(t) \/ CheckKill(t)
             \/ \E c \in Context : DrawLock(t, c) \/ Redraw(t, c) \/ RestoreScreen(t, c)
    BY <2>6, NeutralStep
  <2>7. QED BY <2>1, <2>2, <2>3, <2>4, <2>5, <2>6 DEF ThreadStep
<1>2. CASE \E t \in Thread : CloseInput(t)
                            \/ \E kind \in InputKinds \ {"eof"} : ReadInput(t, kind)
  BY <1>2, NeutralStep
<1>3. CASE \E targets \in OperatorTargets, sig \in OperatorSignals :
              OperatorSends(targets, sig)
  <2>1. /\ UNCHANGED <<at, locked, entered, exited>>
        /\ \A p \in Proc : pending[p] \subseteq pending'[p]
    BY <1>3 DEF OperatorSends, daemonVars, sceneVars
  <2>2. QED BY <2>1, SurroundingsStep
<1>4. CASE ProgramEnds \/ Tick \/ UNCHANGED vars
  <2>1. UNCHANGED <<at, locked, entered, exited, pending>>
    BY <1>4 DEF ProgramEnds, Tick, vars, daemonVars, frameVars, sceneVars
  <2>2. QED BY <2>1, SurroundingsStep
<1>5. QED BY <1>1, <1>2, <1>3, <1>4 DEF Next, Surroundings

THEOREM Inductive == Spec => []IInv
<1>1. QED BY InductiveInit, InductiveStep, PTL DEF Spec

\* When the two copies of locked_since disagree, a correction is under way.
THEOREM AlwaysReconciling == Spec => []Reconciling
<1>1. IInv => Reconciling
  BY DEF IInv
<1>2. QED BY <1>1, Inductive, PTL

\* Once every signal has been handled, the two processes agree on the lock.
THEOREM AlwaysAgreement == Spec => []Agreement
<1>1. IInv => Agreement
  <2> SUFFICES ASSUME IInv, ~exited, Settled
               PROVE  locked["parent"] = 0 <=> locked["child"] = 0
    BY DEF Agreement
  <2>1. \A t \in Thread, c \in Context : at[t][c] \notin CorrectionPcs
    BY DEF Settled, Resting, CorrectionPcs
  <2>2. \A p \in Proc : ~LockComing(p) /\ ~UnlockComing(p)
    BY <2>1 DEF Settled, LockComing, UnlockComing, CorrectionPcs
  <2>3. \A p \in Proc : ~(locked[p] # 0 /\ locked[Peer(p)] = 0)
    BY <2>2, ProcFacts DEF IInv, Reconciling
  <2>4. QED BY <2>3 DEF Proc, Peer
<1>2. QED BY <1>1, Inductive, PTL
----------------------------------------------------------------------------
(* The watcher and the active user.  What the watcher compares with its own  *)
(* clock, last_activity or locked_since, is never older than the activity it *)
(* must respect: unlock_session stamps before it clears, and a lock is       *)
(* always set after the input that preceded it.                              *)

TimeInv ==
    /\ granted =< activity /\ activity =< now /\ woken =< now
    /\ locked["parent"] # 0 => granted =< locked["parent"]
    /\ \A t \in Thread \ {"child"}, c \in Context :
          at[t][c] = "unlock_set" => activity = now

\* The action of WatcherSparesActiveUser.
Spares ==
    \A t \in Thread :
       /\ at[t]["base"] = "lock_check" /\ at'[t]["base"] = "lock_set" =>
             woken - granted > TimeoutLock
       /\ at[t]["base"] = "kill_check" /\ at'[t]["base"] = "kill_send" =>
             woken - granted > TimeoutKill - TimeoutLock

\* A step that decides nothing and grants nothing.
LEMMA Ordinary ==
    ASSUME TypeOK, TimeInv, NEW u \in Thread, NEW d \in Context, NEW pc, Moves(u, d, pc),
           pc # "unlock_set", d = "base" => at[u][d] \notin {"lock_check", "kill_check"},
           now' = now, granted' = granted, activity' \in {activity, now},
           woken' \in {woken, now}, locked'["parent"] \in {locked["parent"], now, 0}
    PROVE  TimeInv' /\ Spares
<1>1. ASSUME NEW t \in Thread, at[t]["base"] \in {"lock_check", "kill_check"}
      PROVE  at'[t]["base"] = at[t]["base"]
  BY <1>1 DEF Moves, Context
<1>2. Spares
  BY <1>1 DEF Spares
<1>3. ASSUME NEW t \in Thread \ {"child"}, NEW c \in Context, at'[t][c] = "unlock_set"
      PROVE  activity' = now'
  <2>1. at[t][c] = "unlock_set"
    BY <1>3 DEF Moves
  <2>2. QED BY <2>1 DEF TimeInv
<1>4. /\ granted' =< activity' /\ activity' =< now' /\ woken' =< now'
      /\ locked'["parent"] # 0 => granted' =< locked'["parent"]
  BY DEF TimeInv, TypeOK, Proc
<1>5. QED BY <1>2, <1>3, <1>4 DEF TimeInv

\* A step that changes no program counter and no time.
LEMMA Elsewhere ==
    ASSUME TimeInv, UNCHANGED <<at, granted, activity, locked>>, woken' = woken, now' = now
    PROVE  TimeInv' /\ Spares
  BY DEF TimeInv, Spares

LEMMA TimeThreadStep ==
    ASSUME TypeOK, TimeInv, NEW t \in Thread,
           ThreadStep(t) \/ CloseInput(t)
              \/ \E kind \in InputKinds \ {"eof"} : ReadInput(t, kind)
    PROVE  TimeInv' /\ Spares
<1>f. FramesOK
  BY DEF TypeOK, FramesOK
<1>d. {"base", "done", "TERM", "URG"} \subseteq Context
  BY DEF Context, Signal
<1>1. ASSUME NEW sig \in Signal, Deliver(t, sig) PROVE TimeInv' /\ Spares
  <2>1. sig \in Context /\ sig # "base"
    BY DEF Context, Signal
  <2>2. PICK pc : pc # "unlock_set" /\ Moves(t, sig, pc)
    <3>1. CASE sig = "URG"
      BY <3>1, <1>1, <1>f, <2>1, EnterMoves DEF Deliver
    <3>2. CASE sig # "URG"
      BY <3>2, <1>1, <1>f, <2>1, EnterMoves DEF Deliver
    <3>3. QED BY <3>1, <3>2
  <2>3. QED BY <1>1, <2>1, <2>2, Ordinary DEF Deliver, daemonVars, timeVars
<1>2. CASE LockTest(t)
  <2>1. PICK pc : pc # "unlock_set" /\ Moves(t, "URG", pc)
    BY <1>2, <1>f, <1>d, GotoMoves, ReturnMoves DEF LockTest
  <2>2. QED BY <1>2, <1>d, <2>1, Ordinary DEF LockTest, daemonVars, timeVars, historyVars
<1>3. CASE EndSession(t)
  <2>1. PICK d \in {"TERM", "done"}, pc \in Pc : pc # "unlock_set" /\ Moves(t, d, pc)
    BY <1>3, <1>f, <1>d, EnterMoves, ReturnMoves DEF EndSession, Pc
  <2>2. d \in Context /\ d # "base"
    BY <1>d
  <2>3. QED BY <1>3, <2>1, <2>2, Ordinary DEF EndSession, daemonVars, timeVars, historyVars
<1>4. CASE OutputEnds(t)
  <2>1. Moves(t, "done", "unlock_test")
    BY <1>4, <1>f, <1>d, EnterMoves DEF OutputEnds
  <2>2. QED BY <1>4, <1>d, <2>1, Ordinary DEF OutputEnds, daemonVars, timeVars, historyVars
<1>5. CASE ChildExit(t)
  BY <1>5, Elsewhere DEF ChildExit, daemonVars, frameVars, timeVars, historyVars
<1>6. ASSUME NEW c \in Context, LockSet(t, c) PROVE TimeInv' /\ Spares
  <2>1. Moves(t, c, "lock_send")
    BY <1>6, <1>f, GotoMoves DEF LockSet
  <2>2. locked'["parent"] \in {locked["parent"], now}
    BY <1>6 DEF LockSet, TypeOK, ProcOf, Proc
  <2>3. QED BY <1>6, <2>1, <2>2, Ordinary DEF LockSet, At, timeVars, historyVars
<1>7. ASSUME NEW c \in Context, LockSend(t, c) PROVE TimeInv' /\ Spares
  <2>1. PICK pc : pc # "unlock_set" /\ Moves(t, c, pc)
    BY <1>7, <1>f, GotoMoves, FinishLockMoves DEF LockSend
  <2>2. QED BY <1>7, <2>1, Ordinary DEF LockSend, At, daemonVars, timeVars, historyVars
<1>8. ASSUME NEW c \in Context, DrawLock(t, c) PROVE TimeInv' /\ Spares
  <2>1. PICK pc : pc # "unlock_set" /\ Moves(t, c, pc)
    BY <1>8, <1>f, FinishLockMoves DEF DrawLock
  <2>2. QED
    BY <1>8, <2>1, Ordinary DEF DrawLock, At, daemonVars, sceneVars, timeVars, historyVars
<1>9. ASSUME NEW c \in Context, UnlockTest(t, c) PROVE TimeInv' /\ Spares
  <2>1. PICK pc : Moves(t, c, pc)
    BY <1>9, <1>f, GotoMoves, FinishUnlockMoves DEF UnlockTest
  <2>2. at[t][c] = "unlock_test" /\ UNCHANGED <<locked, now, woken, granted>>
    BY <1>9 DEF UnlockTest, At, timeVars, historyVars
  <2>3. IF t = "child" THEN activity' = activity ELSE activity' = now
    BY <1>9 DEF UnlockTest
  <2>4. Spares
    BY <2>1, <2>2 DEF Spares, Moves, Context
  <2>5. ASSUME NEW u \in Thread \ {"child"}, NEW b \in Context, at'[u][b] = "unlock_set"
        PROVE  activity' = now'
    <3>1. CASE t = "child"
      <4>1. at[u][b] = "unlock_set"
        BY <3>1, <2>1, <2>5 DEF Moves
      <4>2. QED BY <4>1, <3>1, <2>2, <2>3 DEF TimeInv
    <3>2. CASE t # "child"
      BY <3>2, <2>2, <2>3
    <3>3. QED BY <3>1, <3>2
  <2>6. /\ granted' =< activity' /\ activity' =< now' /\ woken' =< now'
        /\ locked'["parent"] # 0 => granted' =< locked'["parent"]
    BY <2>2, <2>3 DEF TimeInv, TypeOK
  <2>7. QED BY <2>4, <2>5, <2>6 DEF TimeInv
<1>10. ASSUME NEW c \in Context, UnlockSet(t, c) PROVE TimeInv' /\ Spares
  <2>1. Moves(t, c, "unlock_send")
    BY <1>10, <1>f, GotoMoves DEF UnlockSet
  <2>2. at[t][c] = "unlock_set" /\ UNCHANGED <<activity, now, woken>>
    BY <1>10 DEF UnlockSet, At, timeVars
  <2>3. CASE t = "child"
    BY <1>10, <2>1, <2>2, <2>3, Ordinary DEF UnlockSet, ProcOf, TypeOK, Proc
  <2>4. CASE t # "child"
    <3>1. activity = now /\ granted' = now /\ locked'["parent"] = 0
      BY <1>10, <2>2, <2>4 DEF UnlockSet, TimeInv, ProcOf, TypeOK, Proc
    <3>2. Spares
      BY <2>1, <2>2 DEF Spares, Moves, Context
    <3>3. ASSUME NEW u \in Thread \ {"child"}, NEW b \in Context
          PROVE  activity' = now'
      BY <3>1, <2>2
    <3>4. QED BY <2>2, <3>1, <3>2, <3>3 DEF TimeInv, TypeOK
  <2>5. QED BY <2>3, <2>4
<1>11. ASSUME NEW c \in Context, UnlockSend(t, c) PROVE TimeInv' /\ Spares
  <2>1. PICK pc : pc # "unlock_set" /\ Moves(t, c, pc)
    BY <1>11, <1>f, GotoMoves DEF UnlockSend
  <2>2. QED
    BY <1>11, <2>1, Ordinary DEF UnlockSend, At, daemonVars, sceneVars, timeVars, historyVars
<1>12. ASSUME NEW c \in Context, Redraw(t, c) PROVE TimeInv' /\ Spares
  <2>1. PICK pc : pc # "unlock_set" /\ Moves(t, c, pc)
    BY <1>12, <1>f, FinishUnlockMoves DEF Redraw
  <2>2. QED
    BY <1>12, <2>1, Ordinary DEF Redraw, At, daemonVars, sceneVars, timeVars, historyVars
<1>13. ASSUME NEW c \in Context, RestoreScreen(t, c) PROVE TimeInv' /\ Spares
  <2>1. PICK pc : pc # "unlock_set" /\ Moves(t, c, pc)
    BY <1>13, <1>f, FinishUnlockMoves DEF RestoreScreen
  <2>2. QED
    BY <1>13, <2>1, Ordinary DEF RestoreScreen, At, daemonVars, sceneVars, timeVars, historyVars
<1>14. CASE Forward(t)
  <2>1. PICK pc : pc # "unlock_set" /\ Moves(t, "base", pc)
    BY <1>14, <1>f, <1>d, GotoMoves DEF Forward, TypeOK
  <2>2. /\ at[t]["base"] = "forward" /\ UNCHANGED <<locked, now, woken>> /\ activity' = now
        /\ granted' = IF locked["parent"] = 0 THEN now ELSE granted
    BY <1>14 DEF Forward, At, timeVars
  <2>3. Spares
    BY <2>1, <2>2 DEF Spares, Moves, Context
  <2>4. QED BY <2>2, <2>3 DEF TimeInv, TypeOK
<1>15. CASE SendKill(t)
  <2>1. PICK pc : pc # "unlock_set" /\ Moves(t, "base", pc)
    BY <1>15, <1>f, <1>d, GotoMoves DEF SendKill
  <2>2. QED
    BY <1>15, <1>d, <2>1, Ordinary
    DEF SendKill, At, daemonVars, sceneVars, timeVars, historyVars
<1>16. CASE WatcherWakes(t)
  <2>1. PICK pc : pc # "unlock_set" /\ Moves(t, "base", pc)
    BY <1>16, <1>f, <1>d, GotoMoves DEF WatcherWakes
  <2>2. QED
    BY <1>16, <1>d, <2>1, Ordinary
    DEF WatcherWakes, At, daemonVars, sceneVars, timeVars, historyVars
<1>17. CASE CheckLock(t)
  <2>1. PICK pc : /\ pc # "unlock_set" /\ Moves(t, "base", pc)
                  /\ pc = "lock_set" => LockDue
    BY <1>17, <1>f, <1>d, GotoMoves DEF CheckLock
  <2>2. /\ at[t]["base"] = "lock_check"
        /\ UNCHANGED <<locked, activity, now, woken, granted>>
    BY <1>17 DEF CheckLock, At, timeVars, historyVars
  <2>3. LockDue => woken - granted > TimeoutLock
    BY OptionsAssumption DEF LockDue, Idle, TimeInv, TypeOK
  <2>4. Spares
    BY <2>1, <2>2, <2>3, <1>d DEF Spares, Moves
  <2>5. ASSUME NEW u \in Thread \ {"child"}, NEW b \in Context, at'[u][b] = "unlock_set"
        PROVE  activity' = now'
    BY <2>1, <2>2, <2>5 DEF Moves, TimeInv
  <2>6. QED BY <2>2, <2>4, <2>5 DEF TimeInv
<1>18. CASE CheckKill(t)
  <2>1. PICK pc : /\ pc # "unlock_set" /\ Moves(t, "base", pc)
                  /\ pc = "kill_send" => TimeoutKill > 0 /\ KillDue
    BY <1>18, <1>f, <1>d, GotoMoves DEF CheckKill
  <2>2. /\ at[t]["base"] = "kill_check"
        /\ UNCHANGED <<locked, activity, now, woken, granted>>
    BY <1>18 DEF CheckKill, At, timeVars
  <2>3. Held > KillLimit => woken - granted > TimeoutKill - TimeoutLock
    BY OptionsAssumption DEF Held, KillLimit, Idle, TimeInv, TypeOK, Proc
  <2>4. Spares
    BY <2>1, <2>2, <2>3, <1>d DEF Spares, Moves, KillDue
  <2>5. ASSUME NEW u \in Thread \ {"child"}, NEW b \in Context, at'[u][b] = "unlock_set"
        PROVE  activity' = now'
    BY <2>1, <2>2, <2>5 DEF Moves, TimeInv
  <2>6. QED BY <2>2, <2>4, <2>5 DEF TimeInv
<1>19. CASE CloseInput(t)
  <2>1. PICK pc : pc # "unlock_set" /\ Moves(t, "base", pc)
    BY <1>19, <1>f, <1>d, GotoMoves DEF CloseInput
  <2>2. QED
    BY <1>19, <1>d, <2>1, Ordinary
    DEF CloseInput, At, daemonVars, sceneVars, timeVars, historyVars
<1>20. ASSUME NEW kind \in InputKinds \ {"eof"}, ReadInput(t, kind)
       PROVE  TimeInv' /\ Spares
  <2>1. Moves(t, "base", "forward")
    BY <1>20, <1>f, <1>d, GotoMoves DEF ReadInput
  <2>2. QED BY <1>20, <1>d, <2>1, Ordinary DEF ReadInput, At, daemonVars
<1>21. QED
  BY <1>1, <1>2, <1>3, <1>4, <1>5, <1>6, <1>7, <1>8, <1>9, <1>10, <1>11, <1>12, <1>13,
     <1>14, <1>15, <1>16, <1>17, <1>18, <1>19, <1>20
  DEF ThreadStep

LEMMA TimeStep == TypeOK /\ TimeInv /\ [Next]_vars => TimeInv' /\ [Spares]_vars
<1> SUFFICES ASSUME TypeOK, TimeInv, [Next]_vars PROVE TimeInv' /\ Spares
  OBVIOUS
<1>1. CASE \E t \in Thread : ThreadStep(t)
  BY <1>1, TimeThreadStep
<1>2. CASE \E t \in Thread : CloseInput(t)
                            \/ \E kind \in InputKinds \ {"eof"} : ReadInput(t, kind)
  BY <1>2, TimeThreadStep
<1>3. CASE ProgramEnds \/ UNCHANGED vars \/
           \E targets \in OperatorTargets, sig \in OperatorSignals :
              OperatorSends(targets, sig)
  BY <1>3, Elsewhere
  DEF ProgramEnds, OperatorSends, vars, daemonVars, frameVars, timeVars, historyVars
<1>4. CASE Tick
  <2>1. /\ now' = now + 1
        /\ UNCHANGED <<at, locked, activity, woken, granted>>
    BY <1>4 DEF Tick, daemonVars, frameVars, historyVars
  <2>2. \A t \in Thread, c \in Context : at[t][c] # "unlock_set"
    BY <1>4 DEF Tick, Settled, Resting
  <2>3. QED BY <2>1, <2>2 DEF TimeInv, TypeOK, Spares
<1>5. QED BY <1>1, <1>2, <1>3, <1>4 DEF Next, Surroundings

\* The watcher never decides to lock or to kill a session whose user was active less
\* than the timeout ago, for every timeout and every interleaving.
THEOREM WatcherSpares == Spec => WatcherSparesActiveUser
<1>1. Init => TimeInv
  <2> SUFFICES ASSUME Init PROVE TimeInv
    OBVIOUS
  <2>1. /\ granted = 1 /\ activity = 1 /\ now = 1 /\ woken = 1
        /\ locked["parent"] = 0
    BY DEF Init, Proc
  <2>2. ASSUME NEW t \in Thread, NEW c \in Context PROVE at[t][c] # "unlock_set"
    BY DEF Init
  <2>3. QED BY <2>1, <2>2 DEF TimeInv
<1>2. Spec => [][Spares]_vars
  BY <1>1, TypeInit, TypeStep, TimeStep, PTL DEF Spec
<1>3. QED BY <1>2 DEF WatcherSparesActiveUser, Spares
----------------------------------------------------------------------------
(* Where the threads are.  Each context of a thread has its own places, and  *)
(* only the child is ever sent SIGTERM.                                      *)

UnlockPcs == {"idle", "unlock_test", "unlock_set", "unlock_send"}
LockPcs == {"idle", "lock_test", "lock_set", "lock_send"}
MainPcs == {"read", "wait", "forward", "lock_set", "lock_send", "kill_send"}
WatcherPcs == {"sleep", "lock_check", "lock_set", "lock_send", "kill_check", "kill_send"}

PlaceOK(t, c, pc) ==
    /\ c = "base" =>
          pc \in IF t = "child" THEN {"read"} ELSE IF t = "main" THEN MainPcs ELSE WatcherPcs
    /\ c = "URG" => pc \in LockPcs \/ (t = "child" /\ pc = "draw")
    /\ c = "USR2" => pc \in UnlockPcs \cup IF t = "child" THEN {"restore"} ELSE {"redraw"}
    /\ c = "TERM" => pc = "idle" \/ (t = "child" /\ pc \in UnlockPcs \cup {"restore", "kill_shell"})
    /\ c = "done" => pc = "idle" \/ (t = "child" /\ pc \in UnlockPcs \cup {"restore", "exit"})

PlacesOK ==
    /\ \A t \in Thread, c \in Context : PlaceOK(t, c, at[t][c])
    /\ "TERM" \notin pending["parent"]
LEMMA OnePlace ==
    ASSUME PlacesOK, NEW u \in Thread, NEW d \in Context, NEW pc, Moves(u, d, pc),
           PlaceOK(u, d, pc), "TERM" \notin pending'["parent"]
    PROVE  PlacesOK'
<1>1. ASSUME NEW t \in Thread, NEW c \in Context
      PROVE  PlaceOK(t, c, at'[t][c])
  <2>1. CASE t = u /\ c = d
    BY <2>1 DEF Moves
  <2>2. CASE ~(t = u /\ c = d)
    <3>1. at'[t][c] = at[t][c]
      BY <2>2 DEF Moves
    <3>2. QED BY <3>1 DEF PlacesOK
  <2>3. QED BY <2>1, <2>2
<1>2. QED BY <1>1 DEF PlacesOK

LEMMA FinishLockPlace ==
    ASSUME FramesOK, NEW t \in Thread, NEW c \in Context, FinishLock(t, c),
           PlaceOK(t, c, at[t][c]), at[t][c] \in {"lock_send", "draw"}
    PROVE  \E pc : /\ Moves(t, c, pc) /\ PlaceOK(t, c, pc)
                   /\ pc = IF c = "URG" THEN "idle" ELSE IF t = "main" THEN "read" ELSE "kill_check"
<1>1. CASE c = "URG"
  <2>1. Moves(t, c, "idle")
    BY <1>1, ReturnMoves DEF FinishLock
  <2>2. PlaceOK(t, c, "idle")
    BY <1>1 DEF PlaceOK, LockPcs
  <2>3. QED BY <1>1, <2>1, <2>2
<1>2. CASE c # "URG"
  <2>1. c = "base" /\ t # "child"
    BY <1>2 DEF PlaceOK, UnlockPcs, Context, Signal
  <2>2. PICK pc : pc = IF t = "main" THEN "read" ELSE "kill_check"
    OBVIOUS
  <2>3. Moves(t, c, pc)
    BY <1>2, <2>2, GotoMoves DEF FinishLock
  <2>4. PlaceOK(t, c, pc)
    BY <2>1, <2>2 DEF PlaceOK, MainPcs, WatcherPcs
  <2>5. QED BY <1>2, <2>2, <2>3, <2>4
<1>3. QED BY <1>1, <1>2

LEMMA FinishUnlockPlace ==
    ASSUME FramesOK, NEW t \in Thread, NEW c \in Context, FinishUnlock(t, c),
           PlaceOK(t, c, at[t][c]), at[t][c] \in {"unlock_test", "redraw", "restore"}
    PROVE  \E pc : /\ Moves(t, c, pc) /\ PlaceOK(t, c, pc)
                   /\ pc = IF c = "USR2" THEN "idle" ELSE IF c = "TERM" THEN "kill_shell" ELSE "exit"
<1>1. CASE c = "USR2"
  <2>1. Moves(t, c, "idle")
    BY <1>1, ReturnMoves DEF FinishUnlock
  <2>2. PlaceOK(t, c, "idle")
    BY <1>1 DEF PlaceOK, UnlockPcs
  <2>3. QED BY <1>1, <2>1, <2>2
<1>2. CASE c # "USR2"
  <2>1. c \in {"TERM", "done"} /\ t = "child"
    BY <1>2 DEF PlaceOK, LockPcs, MainPcs, WatcherPcs, Context, Signal
  <2>2. PICK pc : pc = IF c = "TERM" THEN "kill_shell" ELSE "exit"
    OBVIOUS
  <2>3. Moves(t, c, pc)
    BY <1>2, <2>2, GotoMoves DEF FinishUnlock
  <2>4. PlaceOK(t, c, pc)
    BY <2>1, <2>2 DEF PlaceOK
  <2>5. QED BY <1>2, <2>2, <2>3, <2>4
<1>3. QED BY <1>1, <1>2

LEMMA PlaceThreadStep ==
    ASSUME FramesOK, PlacesOK, pending \in [Proc -> SUBSET Signal],
           typed \in {"plain", "lock", "kill"}, NEW t \in Thread,
           ThreadStep(t) \/ CloseInput(t)
              \/ \E kind \in InputKinds \ {"eof"} : ReadInput(t, kind)
    PROVE  PlacesOK'
<1>d. {"base", "done", "TERM", "URG"} \subseteq Context
  BY DEF Context, Signal
<1>t. Thread \subseteq {"main", "child", "watcher"}
  BY DEF Thread
<1>p. \A c \in Context : PlaceOK(t, c, at[t][c])
  BY DEF PlacesOK
<1>s. "TERM" \notin pending["parent"]
  BY DEF PlacesOK
<1>1. ASSUME NEW sig \in Signal, Deliver(t, sig) PROVE PlacesOK'
  <2>1. sig \in Context
    BY DEF Context
  <2>2. PICK pc : pc = IF sig = "URG" THEN "lock_test" ELSE "unlock_test"
    OBVIOUS
  <2>3. Moves(t, sig, pc)
    BY <1>1, <2>1, <2>2, EnterMoves DEF Deliver
  <2>4. sig = "TERM" => t = "child"
    BY <1>1, <1>s DEF Deliver, ProcOf
  <2>5. PlaceOK(t, sig, pc)
    BY <2>2, <2>4 DEF PlaceOK, LockPcs, UnlockPcs, Signal
  <2>6. "TERM" \notin pending'["parent"]
    BY <1>1, <1>s DEF Deliver, Proc
  <2>7. QED BY <2>1, <2>3, <2>5, <2>6, OnePlace
<1>2. CASE LockTest(t)
  <2>1. PICK pc \in {"idle", "lock_set"} : Moves(t, "URG", pc)
    BY <1>2, <1>d, GotoMoves, ReturnMoves DEF LockTest
  <2>2. PlaceOK(t, "URG", pc)
    BY DEF PlaceOK, LockPcs
  <2>3. QED BY <1>2, <1>d, <1>s, <2>1, <2>2, OnePlace DEF LockTest
<1>3. CASE EndSession(t)
  <2>1. t = "child"
    BY <1>3, <1>d, <1>p DEF EndSession, At, PlaceOK
  <2>2. PICK d \in {"TERM", "done"}, pc \in {"idle", "unlock_test"} : Moves(t, d, pc)
    BY <1>3, <1>d, EnterMoves, ReturnMoves DEF EndSession
  <2>3. PlaceOK(t, d, pc)
    BY <2>1 DEF PlaceOK, UnlockPcs
  <2>4. QED BY <1>3, <1>d, <1>s, <2>2, <2>3, OnePlace DEF EndSession
<1>4. CASE OutputEnds(t)
  <2>1. Moves(t, "done", "unlock_test") /\ t = "child"
    BY <1>4, <1>d, EnterMoves DEF OutputEnds
  <2>2. PlaceOK(t, "done", "unlock_test")
    BY <2>1 DEF PlaceOK, UnlockPcs
  <2>3. QED BY <1>4, <1>d, <1>s, <2>1, <2>2, OnePlace DEF OutputEnds
<1>5. CASE ChildExit(t)
  BY <1>5 DEF ChildExit, frameVars, PlacesOK
<1>6. ASSUME NEW c \in Context, LockSet(t, c) PROVE PlacesOK'
  <2>1. Moves(t, c, "lock_send") /\ at[t][c] = "lock_set"
    BY <1>6, GotoMoves DEF LockSet, At
  <2>2. PlaceOK(t, c, "lock_send")
    BY <1>p, <2>1 DEF PlaceOK, LockPcs, UnlockPcs, MainPcs, WatcherPcs
  <2>3. QED BY <1>6, <1>s, <2>1, <2>2, OnePlace DEF LockSet
<1>7. ASSUME NEW c \in Context, LockSend(t, c) PROVE PlacesOK'
  <2>1. at[t][c] = "lock_send" /\ PlaceOK(t, c, at[t][c])
    BY <1>7, <1>p DEF LockSend, At
  <2>2. PICK pc : Moves(t, c, pc) /\ PlaceOK(t, c, pc)
    <3>1. CASE t = "child"
      <4>1. c = "URG"
        BY <2>1, <3>1 DEF PlaceOK, UnlockPcs, Context, Signal
      <4>2. Moves(t, c, "draw")
        BY <1>7, <3>1, GotoMoves DEF LockSend
      <4>3. PlaceOK(t, c, "draw")
        BY <3>1, <4>1 DEF PlaceOK
      <4>4. QED BY <4>2, <4>3
    <3>2. CASE t # "child"
      BY <1>7, <2>1, <3>2, FinishLockPlace DEF LockSend
    <3>3. QED BY <3>1, <3>2
  <2>3. "TERM" \notin pending'["parent"]
    BY <1>7, <1>s DEF LockSend, Kill, Proc
  <2>4. QED BY <2>2, <2>3, OnePlace
<1>8. ASSUME NEW c \in Context, DrawLock(t, c) PROVE PlacesOK'
  <2>1. at[t][c] = "draw" /\ PlaceOK(t, c, at[t][c]) /\ FinishLock(t, c)
    BY <1>8, <1>p DEF DrawLock, At
  <2>2. PICK pc : Moves(t, c, pc) /\ PlaceOK(t, c, pc)
    BY <2>1, FinishLockPlace
  <2>3. QED BY <1>8, <1>s, <2>2, OnePlace DEF DrawLock
<1>9. ASSUME NEW c \in Context, UnlockTest(t, c) PROVE PlacesOK'
  <2>1. at[t][c] = "unlock_test" /\ PlaceOK(t, c, at[t][c])
    BY <1>9, <1>p DEF UnlockTest, At
  <2>2. PICK pc : Moves(t, c, pc) /\ PlaceOK(t, c, pc)
    <3>1. CASE FinishUnlock(t, c)
      BY <2>1, <3>1, FinishUnlockPlace
    <3>2. CASE Goto(t, c, "unlock_set")
      <4>1. PlaceOK(t, c, "unlock_set")
        BY <2>1 DEF PlaceOK, UnlockPcs, LockPcs, MainPcs, WatcherPcs
      <4>2. QED BY <3>2, <4>1, GotoMoves
    <3>3. QED BY <1>9, <3>1, <3>2 DEF UnlockTest
  <2>3. QED BY <1>9, <1>s, <2>2, OnePlace DEF UnlockTest
<1>10. ASSUME NEW c \in Context, UnlockSet(t, c) PROVE PlacesOK'
  <2>1. Moves(t, c, "unlock_send") /\ at[t][c] = "unlock_set"
    BY <1>10, GotoMoves DEF UnlockSet, At
  <2>2. PlaceOK(t, c, "unlock_send")
    BY <1>p, <2>1 DEF PlaceOK, UnlockPcs, LockPcs, MainPcs, WatcherPcs
  <2>3. QED BY <1>10, <1>s, <2>1, <2>2, OnePlace DEF UnlockSet
<1>11. ASSUME NEW c \in Context, UnlockSend(t, c) PROVE PlacesOK'
  <2>1. at[t][c] = "unlock_send" /\ PlaceOK(t, c, at[t][c])
    BY <1>11, <1>p DEF UnlockSend, At
  <2>2. PICK pc : pc = IF t = "child" THEN "restore" ELSE "redraw"
    OBVIOUS
  <2>3. Moves(t, c, pc)
    BY <1>11, <2>2, GotoMoves DEF UnlockSend
  <2>4. PlaceOK(t, c, pc)
    BY <2>1, <2>2 DEF PlaceOK, LockPcs, MainPcs, WatcherPcs
  <2>5. "TERM" \notin pending'["parent"]
    BY <1>11, <1>s DEF UnlockSend, Kill, Proc
  <2>6. QED BY <2>3, <2>4, <2>5, OnePlace
<1>12. ASSUME NEW c \in Context, Redraw(t, c) \/ RestoreScreen(t, c) PROVE PlacesOK'
  <2>1. /\ at[t][c] \in {"redraw", "restore"} /\ PlaceOK(t, c, at[t][c])
        /\ FinishUnlock(t, c) /\ UNCHANGED pending
    BY <1>12, <1>p DEF Redraw, RestoreScreen, At
  <2>2. PICK pc : Moves(t, c, pc) /\ PlaceOK(t, c, pc)
    BY <2>1, FinishUnlockPlace
  <2>3. QED BY <1>s, <2>1, <2>2, OnePlace
<1>13. CASE Forward(t)
  <2>1. t = "main"
    BY <1>13, <1>d, <1>p DEF Forward, At, PlaceOK, WatcherPcs
  <2>2. PICK pc : pc = [plain |-> "read", lock |-> "lock_set", kill |-> "kill_send"][typed]
    OBVIOUS
  <2>3. Moves(t, "base", pc)
    BY <1>13, <1>d, <2>2, GotoMoves DEF Forward
  <2>4. PlaceOK(t, "base", pc)
    BY <2>1, <2>2 DEF PlaceOK, MainPcs
  <2>5. QED BY <1>13, <1>d, <1>s, <2>3, <2>4, OnePlace DEF Forward
<1>14. CASE SendKill(t)
  <2>1. at[t]["base"] = "kill_send" /\ PlaceOK(t, "base", at[t]["base"])
    BY <1>14, <1>d, <1>p DEF SendKill, At
  <2>2. PICK pc : pc = IF t = "main" THEN "read" ELSE "sleep"
    OBVIOUS
  <2>3. Moves(t, "base", pc)
    BY <1>14, <1>d, <2>2, GotoMoves DEF SendKill
  <2>4. PlaceOK(t, "base", pc)
    BY <2>1, <2>2 DEF PlaceOK, MainPcs, WatcherPcs
  <2>5. "TERM" \notin pending'["parent"]
    BY <1>14, <1>s DEF SendKill, Kill, Proc
  <2>6. QED BY <1>d, <2>3, <2>4, <2>5, OnePlace
<1>15. CASE WatcherWakes(t) \/ CheckLock(t) \/ CheckKill(t)
  <2>1. at[t]["base"] \in {"sleep", "lock_check", "kill_check"} /\ UNCHANGED pending
    BY <1>15 DEF WatcherWakes, CheckLock, CheckKill, At
  <2>2. t # "main" /\ t # "child"
    BY <1>d, <1>p, <2>1 DEF PlaceOK, MainPcs
  <2>3. PICK pc \in WatcherPcs : Moves(t, "base", pc)
    <3>1. {"lock_check", "lock_set", "kill_check", "kill_send", "sleep"} \subseteq WatcherPcs
      BY DEF WatcherPcs
    <3>2. QED BY <1>15, <1>d, <3>1, GotoMoves DEF WatcherWakes, CheckLock, CheckKill
  <2>4. PlaceOK(t, "base", pc)
    BY <2>2 DEF PlaceOK
  <2>5. QED BY <1>d, <1>s, <2>1, <2>3, <2>4, OnePlace
<1>16. CASE CloseInput(t) \/ \E kind \in InputKinds \ {"eof"} : ReadInput(t, kind)
  <2>1. PICK pc \in {"wait", "forward"} : Moves(t, "base", pc)
    BY <1>16, <1>d, GotoMoves DEF CloseInput, ReadInput
  <2>2. t = "main" /\ UNCHANGED pending
    BY <1>16 DEF CloseInput, ReadInput
  <2>3. PlaceOK(t, "base", pc)
    BY <2>2 DEF PlaceOK, MainPcs
  <2>4. QED BY <1>d, <1>s, <2>1, <2>2, <2>3, OnePlace
<1>17. QED
  BY <1>1, <1>2, <1>3, <1>4, <1>5, <1>6, <1>7, <1>8, <1>9, <1>10, <1>11, <1>12, <1>13,
     <1>14, <1>15, <1>16
  DEF ThreadStep

LEMMA PlaceStep == TypeOK /\ PlacesOK /\ [Next]_vars => PlacesOK'
<1> SUFFICES ASSUME TypeOK, PlacesOK, [Next]_vars PROVE PlacesOK'
  OBVIOUS
<1>f. FramesOK /\ pending \in [Proc -> SUBSET Signal] /\ typed \in {"plain", "lock", "kill"}
  BY DEF TypeOK, FramesOK
<1>1. CASE \E t \in Thread :
              ThreadStep(t) \/ CloseInput(t)
                 \/ \E kind \in InputKinds \ {"eof"} : ReadInput(t, kind)
  BY <1>1, <1>f, PlaceThreadStep
<1>2. CASE \E targets \in OperatorTargets, sig \in OperatorSignals : OperatorSends(targets, sig)
  <2>1. PICK targets \in OperatorTargets, sig \in OperatorSignals : OperatorSends(targets, sig)
    BY <1>2
  <2>2. sig # "TERM"
    BY OptionsAssumption
  <2>3. "TERM" \notin pending'["parent"] /\ UNCHANGED at
    BY <2>1, <2>2 DEF OperatorSends, PlacesOK, Proc
  <2>4. QED BY <2>3 DEF PlacesOK
<1>3. CASE ProgramEnds \/ Tick \/ UNCHANGED vars
  BY <1>3 DEF ProgramEnds, Tick, vars, frameVars, PlacesOK
<1>4. QED BY <1>1, <1>2, <1>3 DEF Next, Surroundings

LEMMA PlaceInit == Init => PlacesOK
<1> SUFFICES ASSUME Init PROVE PlacesOK
  OBVIOUS
<1>1. ASSUME NEW t \in Thread, NEW c \in Context
      PROVE  PlaceOK(t, c, at[t][c])
  <2>1. CASE c = "base"
    BY <2>1 DEF Init, PlaceOK, Thread, MainPcs, WatcherPcs
  <2>2. CASE c # "base"
    BY <2>2 DEF Init, PlaceOK, LockPcs, UnlockPcs
  <2>3. QED BY <2>1, <2>2
<1>2. "TERM" \notin pending["parent"]
  BY DEF Init, Proc
<1>3. QED BY <1>1, <1>2 DEF PlacesOK
----------------------------------------------------------------------------
(* The lock screen.  A handler of the child that is not interrupted goes    *)
(* through the stages of a lock or an unlock one by one.                     *)

Agree == screen = "lock" <=> locked["child"] # 0

StageOK(pc) ==
    /\ pc \in {"read", "lock_test", "unlock_test"} => Agree
    /\ pc = "lock_set" => locked["child"] = 0 /\ screen = "session"
    /\ pc \in {"lock_send", "draw"} => locked["child"] # 0 /\ screen = "session"
    /\ pc = "unlock_set" => locked["child"] # 0 /\ screen = "lock"
    /\ pc \in {"unlock_send", "restore"} => locked["child"] = 0 /\ screen = "lock"
    /\ pc \in {"kill_shell", "exit"} => locked["child"] = 0 /\ screen = "session"

ScreenInv ==
    ~nested =>
        /\ top["child"] \in Signal => under["child"][top["child"]] = "base"
        /\ StageOK(at["child"][top["child"]])
        /\ exited => screen = "session"

\* The child is at pc, in a handler that interrupted its own loop or in none.
ChildAt(pc) ==
    /\ at["child"][top["child"]] = pc
    /\ top["child"] \in Signal => under["child"][top["child"]] = "base"

LEMMA OthersFrames ==
    ASSUME FramesOK, NEW t \in Thread \ {"child"},
           \/ \E c \in Context, pc \in Pc : Goto(t, c, pc) \/ Enter(t, c, pc)
           \/ \E c \in Context : Return(t, c)
    PROVE  /\ top'["child"] = top["child"] /\ at'["child"] = at["child"]
           /\ under'["child"] = under["child"]
  BY DEF FramesOK, Goto, Enter, Return, Thread

LEMMA ChildGoes ==
    ASSUME FramesOK, NEW c \in Context, top["child"] = c, NEW pc, Goto("child", c, pc),
           NEW from, ChildAt(from)
    PROVE  ChildAt(pc)'
  BY DEF FramesOK, Goto, ChildAt, Thread

LEMMA ChildReturns ==
    ASSUME FramesOK, PlacesOK, NEW c \in Signal, top["child"] = c, Return("child", c),
           NEW from, ChildAt(from)
    PROVE  ChildAt("read")'
<1>1. "child" \in Thread /\ c \in Context /\ "base" \in Context /\ c # "base" /\ "base" \notin Signal
  BY DEF Thread, Context, Signal
<1>2. at["child"]["base"] = "read"
  BY <1>1 DEF PlacesOK, PlaceOK
<1>3. top'["child"] = "base"
  BY <1>1 DEF FramesOK, Return, ChildAt
<1>4. at'["child"]["base"] = "read"
  BY <1>1, <1>2 DEF FramesOK, Return
<1>5. QED BY <1>1, <1>3, <1>4 DEF ChildAt

\* The other threads touch nothing of this.
LEMMA Apart ==
    ASSUME TypeOK, PlacesOK, ScreenInv, NEW t \in Thread \ {"child"},
           ThreadStep(t) \/ CloseInput(t)
              \/ \E kind \in InputKinds \ {"eof"} : ReadInput(t, kind)
    PROVE  ScreenInv'
<1>f. FramesOK
  BY DEF TypeOK, FramesOK
<1>p. \A c \in Context : PlaceOK(t, c, at[t][c])
  BY DEF PlacesOK
<1>d. {"base", "done", "TERM", "URG"} \subseteq Context
  BY DEF Context, Signal
<1>0. ASSUME top'["child"] = top["child"], at'["child"] = at["child"],
             under'["child"] = under["child"], locked'["child"] = locked["child"],
             screen' = screen, exited' = exited, ~nested' => ~nested
      PROVE  ScreenInv'
  BY <1>0 DEF ScreenInv, StageOK, Agree
<1>1. ASSUME NEW sig \in Signal, Deliver(t, sig) PROVE ScreenInv'
  <2>1. PICK pc \in Pc : Enter(t, sig, pc)
    <3>1. (IF sig = "URG" THEN "lock_test" ELSE "unlock_test") \in Pc
      BY DEF Pc
    <3>2. QED BY <1>1, <3>1 DEF Deliver
  <2>2. sig \in Context
    BY DEF Context
  <2>3. ~nested' => ~nested
    BY <1>1 DEF Deliver
  <2>4. QED BY <1>0, <1>1, <1>f, <2>1, <2>2, <2>3, OthersFrames DEF Deliver, daemonVars, sceneVars
<1>2. CASE LockTest(t)
  <2>1. \E pc \in Pc : Goto(t, "URG", pc) \/ Return(t, "URG")
    BY <1>2 DEF LockTest, Pc
  <2>2. QED
    BY <1>0, <1>2, <1>d, <1>f, <2>1, OthersFrames
    DEF LockTest, daemonVars, sceneVars, historyVars
<1>3. ASSUME NEW c \in Context, LockSet(t, c) PROVE ScreenInv'
  <2>1. \E pc \in Pc : Goto(t, c, pc)
    BY <1>3 DEF LockSet, Pc
  <2>2. locked'["child"] = locked["child"]
    BY <1>3 DEF LockSet, ProcOf, TypeOK, Proc
  <2>3. QED BY <1>0, <1>3, <1>f, <2>1, <2>2, OthersFrames DEF LockSet, sceneVars, historyVars
<1>4. ASSUME NEW c \in Context, LockSend(t, c) PROVE ScreenInv'
  <2>1. \E pc \in Pc : Goto(t, c, pc) \/ Return(t, c)
    BY <1>4 DEF LockSend, FinishLock, Pc
  <2>2. QED
    BY <1>0, <1>4, <1>f, <2>1, OthersFrames DEF LockSend, daemonVars, sceneVars, historyVars
<1>5. ASSUME NEW c \in Context,
             DrawLock(t, c) \/ RestoreScreen(t, c) \/ EndSession(t) \/ OutputEnds(t) \/ ChildExit(t)
      PROVE  FALSE
  <2>1. /\ at[t][c] \notin {"draw", "restore"} /\ at[t]["TERM"] = "idle"
        /\ at[t]["done"] = "idle"
    BY <1>d, <1>p
    DEF PlaceOK, LockPcs, UnlockPcs, MainPcs, WatcherPcs, Context, Signal
  <2>2. QED BY <1>5, <2>1 DEF DrawLock, RestoreScreen, EndSession, OutputEnds, ChildExit, At
<1>6. ASSUME NEW c \in Context, UnlockTest(t, c) PROVE ScreenInv'
  <2>1. \E pc \in Pc : Goto(t, c, pc) \/ Return(t, c)
    BY <1>6 DEF UnlockTest, FinishUnlock, Pc
  <2>2. QED
    BY <1>0, <1>6, <1>f, <2>1, OthersFrames DEF UnlockTest, sceneVars, historyVars
<1>7. ASSUME NEW c \in Context, UnlockSet(t, c) PROVE ScreenInv'
  <2>1. \E pc \in Pc : Goto(t, c, pc)
    BY <1>7 DEF UnlockSet, Pc
  <2>2. locked'["child"] = locked["child"]
    BY <1>7 DEF UnlockSet, ProcOf, TypeOK, Proc
  <2>3. QED BY <1>0, <1>7, <1>f, <2>1, <2>2, OthersFrames DEF UnlockSet, sceneVars
<1>8. ASSUME NEW c \in Context, UnlockSend(t, c) \/ Redraw(t, c) PROVE ScreenInv'
  <2>1. \E pc \in Pc : Goto(t, c, pc) \/ Return(t, c)
    BY <1>8 DEF UnlockSend, Redraw, FinishUnlock, Pc
  <2>2. QED
    BY <1>0, <1>8, <1>f, <2>1, OthersFrames
    DEF UnlockSend, Redraw, daemonVars, sceneVars, historyVars
<1>9. CASE Forward(t)
  <2>1. \E pc \in Pc : Goto(t, "base", pc)
    BY <1>9 DEF Forward, TypeOK, Pc
  <2>2. QED BY <1>0, <1>9, <1>d, <1>f, <2>1, OthersFrames DEF Forward
<1>10. CASE SendKill(t) \/ WatcherWakes(t) \/ CheckLock(t) \/ CheckKill(t)
            \/ CloseInput(t) \/ \E kind \in InputKinds \ {"eof"} : ReadInput(t, kind)
  <2>1. \E pc \in Pc : Goto(t, "base", pc)
    <3>1. {"read", "sleep", "lock_check", "lock_set", "kill_check", "kill_send", "wait",
           "forward"} \subseteq Pc
      BY DEF Pc
    <3>2. QED
      BY <1>10, <3>1 DEF SendKill, WatcherWakes, CheckLock, CheckKill, CloseInput, ReadInput
  <2>2. UNCHANGED <<locked, screen, exited, nested>>
    BY <1>10
    DEF SendKill, WatcherWakes, CheckLock, CheckKill, CloseInput, ReadInput,
        daemonVars, sceneVars, historyVars
  <2>3. QED BY <1>0, <1>d, <1>f, <2>1, <2>2, OthersFrames
<1>11. QED
  BY <1>1, <1>2, <1>3, <1>4, <1>5, <1>6, <1>7, <1>8, <1>9, <1>10, <1>d DEF ThreadStep

\* The child goes from stage to stage.
LEMMA ChildStep ==
    ASSUME TypeOK, PlacesOK, ScreenInv, ThreadStep("child")
    PROVE  ScreenInv'
<1>f. FramesOK
  BY DEF TypeOK, FramesOK
<1>d. {"base", "done", "TERM", "URG", "USR2"} \subseteq Context /\ "base" \notin Signal
      /\ "done" \notin Signal /\ "child" \in Thread /\ ProcOf("child") = "child" /\ "child" \in Proc
  BY DEF Context, Signal, Thread, ProcOf, Proc
<1>p. \A c \in Context : PlaceOK("child", c, at["child"][c])
  BY <1>d DEF PlacesOK
<1>s. SUFFICES ASSUME ~nested'
               PROVE  /\ \E pc : ChildAt(pc)' /\ StageOK(pc)'
                      /\ exited' => screen' = "session"
  BY DEF ScreenInv, ChildAt
<1>n. ~nested
  BY <1>s
  DEF ThreadStep, Deliver, LockTest, EndSession, OutputEnds, ChildExit, LockSet, LockSend,
      DrawLock, UnlockTest, UnlockSet, UnlockSend, Redraw, RestoreScreen, Forward, SendKill,
      WatcherWakes, CheckLock, CheckKill, historyVars
<1>0. ASSUME NEW c \in Context, NEW pc, At("child", c, pc)
      PROVE  ChildAt(pc) /\ StageOK(pc) /\ ~exited /\ top["child"] = c /\ PlaceOK("child", c, pc)
  BY <1>0, <1>n, <1>p DEF At, ScreenInv, ChildAt
<1>1. ASSUME NEW sig \in Signal, Deliver("child", sig)
      PROVE  (\E pc : ChildAt(pc)' /\ StageOK(pc)') /\ exited' = FALSE
  <2>1. sig \in Context /\ top["child"] = "base"
    BY <1>1, <1>s DEF Deliver, Context
  <2>2. PICK pc : pc = IF sig = "URG" THEN "lock_test" ELSE "unlock_test"
    OBVIOUS
  <2>3. Enter("child", sig, pc)
    BY <1>1, <2>2 DEF Deliver
  <2>4. ChildAt(pc)'
    BY <1>d, <1>f, <2>1, <2>3 DEF ChildAt, Enter, FramesOK
  <2>5. StageOK("read")
    BY <1>d, <1>n, <1>p, <2>1 DEF ScreenInv, PlaceOK
  <2>6. StageOK(pc)'
    BY <1>1, <2>2, <2>5 DEF Deliver, daemonVars, sceneVars, StageOK, Agree
  <2>7. exited' = FALSE
    BY <1>1 DEF Deliver, sceneVars, TypeOK
  <2>8. QED BY <2>4, <2>6, <2>7
<1>2. CASE LockTest("child")
  <2>1. ChildAt("lock_test") /\ Agree /\ ~exited /\ top["child"] = "URG"
    BY <1>0, <1>2, <1>d DEF LockTest, StageOK
  <2>2. UNCHANGED <<locked, screen, exited>>
    BY <1>2 DEF LockTest, daemonVars, sceneVars
  <2>3. CASE locked["child"] # 0
    <3>1. ChildAt("read")'
      BY <1>2, <1>d, <1>f, <2>1, <2>3, ChildReturns DEF LockTest, Signal
    <3>2. StageOK("read")'
      BY <2>1, <2>2 DEF StageOK, Agree
    <3>3. QED BY <2>1, <2>2, <3>1, <3>2
  <2>4. CASE locked["child"] = 0
    <3>1. ChildAt("lock_set")'
      BY <1>2, <1>d, <1>f, <2>1, <2>4, ChildGoes DEF LockTest
    <3>2. StageOK("lock_set")'
      BY <2>1, <2>2, <2>4 DEF StageOK, Agree, TypeOK
    <3>3. QED BY <2>1, <2>2, <3>1, <3>2
  <2>5. QED BY <2>3, <2>4
<1>3. CASE EndSession("child")
  <2>1. /\ ChildAt("kill_shell") /\ StageOK("kill_shell") /\ ~exited /\ top["child"] = "TERM"
    BY <1>0, <1>3, <1>d DEF EndSession
  <2>2. UNCHANGED <<locked, screen, exited>>
    BY <1>3 DEF EndSession, daemonVars
  <2>3. StageOK("read")' /\ StageOK("unlock_test")'
    BY <2>1, <2>2 DEF StageOK, Agree
  <2>4. CASE entered
    <3>1. ChildAt("read")'
      BY <1>3, <1>f, <2>1, <2>4, ChildReturns DEF EndSession, Signal
    <3>2. QED BY <2>1, <2>2, <2>3, <3>1
  <2>5. CASE ~entered
    <3>1. ChildAt("unlock_test")'
      BY <1>3, <1>d, <1>f, <2>5 DEF EndSession, Enter, ChildAt, FramesOK
    <3>2. QED BY <2>1, <2>2, <2>3, <3>1
  <2>6. QED BY <2>4, <2>5
<1>4. CASE OutputEnds("child")
  <2>1. StageOK("read") /\ ~exited
    BY <1>0, <1>4, <1>d DEF OutputEnds
  <2>2. UNCHANGED <<locked, screen, exited>>
    BY <1>4 DEF OutputEnds, daemonVars
  <2>3. StageOK("unlock_test")'
    BY <2>1, <2>2 DEF StageOK, Agree
  <2>4. ChildAt("unlock_test")'
    BY <1>4, <1>d, <1>f DEF OutputEnds, Enter, ChildAt, FramesOK
  <2>5. QED BY <2>1, <2>2, <2>3, <2>4
<1>5. CASE ChildExit("child")
  <2>1. ChildAt("exit") /\ StageOK("exit")
    BY <1>0, <1>5, <1>d DEF ChildExit
  <2>2. UNCHANGED <<locked, screen, at, top, under>>
    BY <1>5 DEF ChildExit, daemonVars, frameVars
  <2>3. ChildAt("exit")' /\ StageOK("exit")' /\ screen' = "session"
    BY <2>1, <2>2 DEF ChildAt, StageOK, Agree
  <2>4. QED BY <2>3
<1>6. ASSUME NEW c \in Context, LockSet("child", c)
      PROVE  (\E pc : ChildAt(pc)' /\ StageOK(pc)') /\ ~exited'
  <2>1. ChildAt("lock_set") /\ StageOK("lock_set") /\ ~exited /\ top["child"] = c
    BY <1>0, <1>6 DEF LockSet
  <2>2. locked'["child"] = 1 /\ UNCHANGED <<screen, exited>>
    BY <1>6, <1>d DEF LockSet, sceneVars, TypeOK
  <2>3. ChildAt("lock_send")'
    BY <1>6, <1>f, <2>1, ChildGoes DEF LockSet
  <2>4. StageOK("lock_send")'
    BY <2>1, <2>2 DEF StageOK
  <2>5. QED BY <2>1, <2>2, <2>3, <2>4
<1>7. ASSUME NEW c \in Context, LockSend("child", c)
      PROVE  (\E pc : ChildAt(pc)' /\ StageOK(pc)') /\ ~exited'
  <2>1. ChildAt("lock_send") /\ StageOK("lock_send") /\ ~exited /\ top["child"] = c
    BY <1>0, <1>7 DEF LockSend
  <2>2. UNCHANGED <<locked, screen, exited>>
    BY <1>7 DEF LockSend, daemonVars, sceneVars
  <2>3. ChildAt("draw")'
    BY <1>7, <1>f, <2>1, ChildGoes DEF LockSend
  <2>4. StageOK("draw")'
    BY <2>1, <2>2 DEF StageOK
  <2>5. QED BY <2>1, <2>2, <2>3, <2>4
<1>8. ASSUME NEW c \in Context, DrawLock("child", c)
      PROVE  (\E pc : ChildAt(pc)' /\ StageOK(pc)') /\ ~exited'
  <2>1. /\ ChildAt("draw") /\ StageOK("draw") /\ ~exited /\ top["child"] = c
        /\ PlaceOK("child", c, "draw")
    BY <1>0, <1>8 DEF DrawLock
  <2>2. c = "URG"
    BY <2>1 DEF PlaceOK, UnlockPcs, Context, Signal
  <2>3. UNCHANGED <<locked, exited>> /\ screen' = "lock"
    BY <1>8 DEF DrawLock, daemonVars
  <2>4. ChildAt("read")'
    BY <1>8, <1>f, <2>1, <2>2, ChildReturns DEF DrawLock, FinishLock, Signal
  <2>5. StageOK("read")'
    BY <2>1, <2>3 DEF StageOK, Agree
  <2>6. QED BY <2>1, <2>3, <2>4, <2>5
<1>u. ASSUME NEW c \in Context, NEW from \in {"unlock_test", "restore"}, At("child", c, from),
             FinishUnlock("child", c), UNCHANGED <<locked, exited>>, locked["child"] = 0,
             screen' = "session"
      PROVE  (\E pc : ChildAt(pc)' /\ StageOK(pc)') /\ ~exited'
  <2>1. ChildAt(from) /\ ~exited /\ top["child"] = c /\ PlaceOK("child", c, from)
    BY <1>0, <1>u
  <2>2. c \in {"USR2", "TERM", "done"}
    BY <2>1 DEF PlaceOK, LockPcs, Context, Signal
  <2>3. \A pc \in {"read", "kill_shell", "exit"} : StageOK(pc)'
    BY <1>u DEF StageOK, Agree
  <2>4. \E pc \in {"read", "kill_shell", "exit"} : ChildAt(pc)'
    <3>1. CASE c = "USR2"
      <4>1. Return("child", c)
        BY <1>u, <3>1 DEF FinishUnlock
      <4>2. c \in Signal
        BY <3>1 DEF Signal
      <4>3. QED BY <1>f, <2>1, <4>1, <4>2, ChildReturns
    <3>2. CASE c = "TERM"
      <4>1. Goto("child", c, "kill_shell")
        BY <1>u, <3>2 DEF FinishUnlock
      <4>2. QED BY <1>f, <2>1, <4>1, ChildGoes
    <3>3. CASE c = "done"
      <4>1. Goto("child", c, "exit")
        BY <1>u, <3>3 DEF FinishUnlock
      <4>2. QED BY <1>f, <2>1, <4>1, ChildGoes
    <3>4. QED BY <2>2, <3>1, <3>2, <3>3
  <2>5. QED BY <1>u, <2>1, <2>3, <2>4
<1>9. ASSUME NEW c \in Context, UnlockTest("child", c)
      PROVE  (\E pc : ChildAt(pc)' /\ StageOK(pc)') /\ ~exited'
  <2>1. /\ ChildAt("unlock_test") /\ Agree /\ ~exited /\ top["child"] = c
        /\ At("child", c, "unlock_test")
    BY <1>0, <1>9 DEF UnlockTest, StageOK
  <2>2. UNCHANGED <<locked, screen, exited>>
    BY <1>9 DEF UnlockTest, sceneVars
  <2>3. CASE locked["child"] = 0
    <3>1. FinishUnlock("child", c) /\ screen = "session"
      BY <1>9, <1>d, <2>1, <2>3 DEF UnlockTest, Agree, TypeOK
    <3>2. QED BY <1>u, <2>1, <2>2, <2>3, <3>1
  <2>4. CASE locked["child"] # 0
    <3>1. ChildAt("unlock_set")'
      BY <1>9, <1>d, <1>f, <2>1, <2>4, ChildGoes DEF UnlockTest
    <3>2. StageOK("unlock_set")'
      BY <2>1, <2>2, <2>4 DEF StageOK, Agree
    <3>3. QED BY <2>1, <2>2, <3>1, <3>2
  <2>5. QED BY <2>3, <2>4
<1>10. ASSUME NEW c \in Context, UnlockSet("child", c)
       PROVE  (\E pc : ChildAt(pc)' /\ StageOK(pc)') /\ ~exited'
  <2>1. ChildAt("unlock_set") /\ StageOK("unlock_set") /\ ~exited /\ top["child"] = c
    BY <1>0, <1>10 DEF UnlockSet
  <2>2. locked'["child"] = 0 /\ UNCHANGED <<screen, exited>>
    BY <1>10, <1>d DEF UnlockSet, sceneVars, TypeOK
  <2>3. ChildAt("unlock_send")'
    BY <1>10, <1>f, <2>1, ChildGoes DEF UnlockSet
  <2>4. StageOK("unlock_send")'
    BY <2>1, <2>2 DEF StageOK
  <2>5. QED BY <2>1, <2>2, <2>3, <2>4
<1>11. ASSUME NEW c \in Context, UnlockSend("child", c)
       PROVE  (\E pc : ChildAt(pc)' /\ StageOK(pc)') /\ ~exited'
  <2>1. ChildAt("unlock_send") /\ StageOK("unlock_send") /\ ~exited /\ top["child"] = c
    BY <1>0, <1>11 DEF UnlockSend
  <2>2. UNCHANGED <<locked, screen, exited>>
    BY <1>11 DEF UnlockSend, daemonVars, sceneVars
  <2>3. ChildAt("restore")'
    BY <1>11, <1>f, <2>1, ChildGoes DEF UnlockSend
  <2>4. StageOK("restore")'
    BY <2>1, <2>2 DEF StageOK
  <2>5. QED BY <2>1, <2>2, <2>3, <2>4
<1>12. ASSUME NEW c \in Context, RestoreScreen("child", c)
       PROVE  (\E pc : ChildAt(pc)' /\ StageOK(pc)') /\ ~exited'
  <2>1. StageOK("restore") /\ At("child", c, "restore")
    BY <1>0, <1>12 DEF RestoreScreen
  <2>2. FinishUnlock("child", c) /\ UNCHANGED <<locked, exited>> /\ screen' = "session"
    BY <1>12 DEF RestoreScreen, daemonVars
  <2>3. locked["child"] = 0
    BY <2>1 DEF StageOK
  <2>4. QED BY <1>u, <2>1, <2>2, <2>3
<1>13. ASSUME NEW c \in Context
       PROVE  /\ ~Redraw("child", c) /\ ~Forward("child") /\ ~SendKill("child")
              /\ ~WatcherWakes("child") /\ ~CheckLock("child") /\ ~CheckKill("child")
  <2>1. at["child"]["base"] = "read" /\ at["child"][c] # "redraw"
    BY <1>d, <1>p DEF PlaceOK, LockPcs, UnlockPcs, Context, Signal
  <2>2. QED
    BY <2>1 DEF Redraw, Forward, SendKill, WatcherWakes, CheckLock, CheckKill, At
<1>14. QED
  BY <1>1, <1>2, <1>3, <1>4, <1>5, <1>6, <1>7, <1>8, <1>9, <1>10, <1>11, <1>12, <1>13, <1>d
  DEF ThreadStep

LEMMA ScreenStep == TypeOK /\ PlacesOK /\ ScreenInv /\ [Next]_vars => ScreenInv'
<1> SUFFICES ASSUME TypeOK, PlacesOK, ScreenInv, [Next]_vars PROVE ScreenInv'
  OBVIOUS
<1>1. CASE \E t \in Thread :
              ThreadStep(t) \/ CloseInput(t)
                 \/ \E kind \in InputKinds \ {"eof"} : ReadInput(t, kind)
  <2>1. PICK t \in Thread : ThreadStep(t) \/ CloseInput(t)
                               \/ \E kind \in InputKinds \ {"eof"} : ReadInput(t, kind)
    BY <1>1
  <2>2. CASE t = "child"
    <3>1. ThreadStep(t)
      BY <2>1, <2>2 DEF CloseInput, ReadInput
    <3>2. QED BY <2>2, <3>1, ChildStep
  <2>3. CASE t # "child"
    BY <2>1, <2>3, Apart
  <2>4. QED BY <2>2, <2>3
<1>2. CASE ProgramEnds \/ Tick \/ UNCHANGED vars
              \/ \E targets \in OperatorTargets, sig \in OperatorSignals :
                    OperatorSends(targets, sig)
  <2>1. UNCHANGED <<at, top, under, locked, screen, exited, nested>>
    BY <1>2
    DEF ProgramEnds, Tick, OperatorSends, vars, daemonVars, frameVars, sceneVars, historyVars
  <2>2. QED BY <2>1 DEF ScreenInv, StageOK, Agree
<1>3. QED BY <1>1, <1>2 DEF Next, Surroundings

\* Without a handler inside another one, the terminal shows the lock screen exactly
\* while the child is locked, and the child exits from the session's screen.
THEOREM AlwaysScreenFollowsLock == Spec => []ScreenFollowsLock
<1>1. Init => ScreenInv
  <2> SUFFICES ASSUME Init PROVE ScreenInv
    OBVIOUS
  <2>1. /\ "child" \in Thread /\ "base" \in Context /\ "base" \notin Signal
    BY DEF Thread, Context, Signal
  <2>2. /\ top["child"] = "base" /\ at["child"]["base"] = "read"
        /\ screen = "session" /\ locked["child"] = 0 /\ exited = FALSE
    BY <2>1 DEF Init, Proc
  <2>3. QED BY <2>1, <2>2 DEF ScreenInv, StageOK, Agree
<1>2. TypeOK /\ PlacesOK /\ ScreenInv => ScreenFollowsLock
  <2> SUFFICES ASSUME PlacesOK, ScreenInv PROVE ScreenFollowsLock
    OBVIOUS
  <2>1. at["child"]["base"] = "read"
    BY DEF PlacesOK, PlaceOK, Thread, Context
  <2>2. QED BY <2>1 DEF ScreenInv, ScreenFollowsLock, StageOK, Agree
<1>3. QED
  BY <1>1, <1>2, TypeInit, TypeStep, PlaceInit, PlaceStep, ScreenStep, PTL DEF Spec
----------------------------------------------------------------------------
(* The watcher's iterations.  One of them takes no time, and the next starts *)
(* within two seconds; at its end, an unlocked session is one whose user was *)
(* active within the timeout, since an unlock stamps the activity first.     *)

Iteration == {"lock_check", "lock_set", "lock_send", "kill_check"}

WatchInv ==
    /\ announced =< woken
    /\ \A t \in Thread : t = "watcher" =>
          /\ at[t]["base"] \in Iteration => announced < woken
          /\ at[t]["base"] # "sleep" => woken = now
          /\ now =< woken + 2
          /\ UseTty /\ TimeoutLock > 0 /\ locked["parent"] = 0
                /\ at[t]["base"] \notin {"lock_check", "lock_set"} =>
                   woken - activity =< TimeoutLock
    /\ "kill" \in warned =>
          /\ granted =< announced
          /\ \A t \in Thread \ {"child"}, c \in Context :
                at[t][c] = "unlock_set" => announced = now

\* The action of KillIsAnnounced.
Announces ==
    \A t \in Thread :
       at[t]["base"] = "kill_check" /\ at'[t]["base"] = "kill_send" =>
          WarnBeforeKill = 0 \/ (granted =< announced /\ announced < woken)

LEMMA LessIdle ==
    \A a, b, w, limit \in Nat : b >= a /\ w - a =< limit => w - b =< limit
OBVIOUS

\* A step that neither starts an iteration nor decides in one, and grants nothing.
LEMMA WatchOrdinary ==
    ASSUME TypeOK, TimeInv, WatchInv, NEW u \in Thread, NEW d \in Context, NEW pc,
           Moves(u, d, pc), pc = "unlock_set" /\ u # "child" => "kill" \notin warned',
           UNCHANGED <<now, announced, granted, woken>>, activity' \in {activity, now},
           "kill" \in warned' => "kill" \in warned,
           locked'["parent"] = 0 => locked["parent"] = 0,
           d = "base" =>
              /\ at[u][d] \notin {"sleep", "lock_check", "kill_check"}
              /\ at[u][d] = "lock_set" => locked'["parent"] # 0
              /\ pc \in Iteration => at[u][d] \in Iteration
    PROVE  WatchInv' /\ Announces
<1>b. "base" \in Context
  BY DEF Context
<1>1. Announces
  BY <1>b DEF Moves, Announces
<1>2. ASSUME NEW t \in Thread, t = "watcher"
      PROVE  /\ at'[t]["base"] \in Iteration => announced < woken
             /\ at'[t]["base"] # "sleep" => woken = now
             /\ now =< woken + 2
             /\ UseTty /\ TimeoutLock > 0 /\ locked'["parent"] = 0
                   /\ at'[t]["base"] \notin {"lock_check", "lock_set"} =>
                      woken - activity =< TimeoutLock
  <2>1. CASE t = u /\ d = "base"
    BY <1>2, <2>1 DEF WatchInv, Moves
  <2>2. CASE ~(t = u /\ d = "base")
    <3>1. at'[t]["base"] = at[t]["base"]
      BY <1>b, <2>2 DEF Moves
    <3>2. QED BY <1>2, <3>1 DEF WatchInv
  <2>3. QED BY <2>1, <2>2
<1>3. \A t \in Thread : t = "watcher" =>
         /\ at'[t]["base"] \in Iteration => announced' < woken'
         /\ at'[t]["base"] # "sleep" => woken' = now'
         /\ now' =< woken' + 2
         /\ UseTty /\ TimeoutLock > 0 /\ locked'["parent"] = 0
               /\ at'[t]["base"] \notin {"lock_check", "lock_set"} =>
                  woken' - activity' =< TimeoutLock
  <2>1. \A limit \in Nat : woken - activity =< limit => woken' - activity' =< limit
    <3>1. PICK a \in Nat, w \in Nat, n \in Nat : a = activity /\ w = woken /\ n = now
      BY DEF TypeOK
    <3>2. a =< n
      BY <3>1 DEF TimeInv
    <3>3. woken' = w /\ activity' \in {a, n}
      BY <3>1
    <3>4. PICK b \in Nat : b = activity' /\ b >= a
      BY <3>1, <3>2, <3>3
    <3>5. \A limit \in Nat : w - a =< limit => w - b =< limit
      BY <3>4, LessIdle
    <3>6. QED BY <3>1, <3>3, <3>4, <3>5
  <2>2. TimeoutLock \in Nat
    BY OptionsAssumption
  <2>3. QED BY <1>2, <2>1, <2>2
<1>4. ASSUME "kill" \in warned'
      PROVE  /\ granted' =< announced'
             /\ \A t \in Thread \ {"child"}, c \in Context :
                   at'[t][c] = "unlock_set" => announced' = now'
  <2>1. ASSUME NEW t \in Thread \ {"child"}, NEW c \in Context, at'[t][c] = "unlock_set"
        PROVE  at[t][c] = "unlock_set"
    BY <1>4, <2>1 DEF Moves
  <2>2. QED BY <1>4, <2>1 DEF WatchInv
<1>5. announced' =< woken'
  BY DEF WatchInv
<1>6. QED BY <1>1, <1>3, <1>4, <1>5 DEF WatchInv

LEMMA WatchThreadStep ==
    ASSUME TypeOK, PlacesOK, now >= 1, TimeInv, WatchInv, NEW t \in Thread,
           ThreadStep(t) \/ CloseInput(t)
              \/ \E kind \in InputKinds \ {"eof"} : ReadInput(t, kind)
    PROVE  WatchInv' /\ Announces
<1>f. FramesOK
  BY DEF TypeOK, FramesOK
<1>d. {"base", "done", "TERM", "URG", "USR2"} \subseteq Context
  BY DEF Context, Signal
<1>p. \A c \in Context : PlaceOK(t, c, at[t][c])
  BY DEF PlacesOK
<1>1. ASSUME NEW sig \in Signal, Deliver(t, sig) PROVE WatchInv' /\ Announces
  <2>1. sig \in Context /\ sig # "base"
    BY DEF Context, Signal
  <2>2. PICK pc : pc # "unlock_set" /\ Moves(t, sig, pc)
    BY <1>1, <1>f, <2>1, EnterMoves DEF Deliver
  <2>3. QED BY <1>1, <2>1, <2>2, WatchOrdinary DEF Deliver, daemonVars, timeVars
<1>2. CASE LockTest(t)
  <2>1. PICK pc : pc # "unlock_set" /\ Moves(t, "URG", pc)
    BY <1>2, <1>f, <1>d, GotoMoves, ReturnMoves DEF LockTest
  <2>2. QED BY <1>2, <1>d, <2>1, WatchOrdinary DEF LockTest, daemonVars, timeVars, historyVars
<1>3. CASE EndSession(t) \/ OutputEnds(t)
  <2>1. PICK d \in {"TERM", "done"}, pc \in {"idle", "unlock_test"} : Moves(t, d, pc)
    BY <1>3, <1>f, <1>d, EnterMoves, ReturnMoves DEF EndSession, OutputEnds
  <2>2. d \in Context /\ d # "base"
    BY <1>d
  <2>3. QED
    BY <1>3, <2>1, <2>2, WatchOrdinary
    DEF EndSession, OutputEnds, daemonVars, timeVars, historyVars
<1>4. CASE ChildExit(t)
  BY <1>4 DEF ChildExit, daemonVars, frameVars, timeVars, historyVars, WatchInv, Announces
<1>5. ASSUME NEW c \in Context, LockSet(t, c) PROVE WatchInv' /\ Announces
  <2>1. Moves(t, c, "lock_send") /\ at[t][c] = "lock_set"
    BY <1>5, <1>f, GotoMoves DEF LockSet, At
  <2>2. IF t = "child" THEN locked'["parent"] = locked["parent"] ELSE locked'["parent"] = now
    BY <1>5 DEF LockSet, TypeOK, ProcOf, Proc
  <2>3. now # 0
    BY DEF TypeOK
  <2>4. c = "base" => t # "child"
    BY <1>p, <2>1 DEF PlaceOK
  <2>5. "lock_set" \in Iteration
    BY DEF Iteration
  <2>6. QED
    BY <1>5, <2>1, <2>2, <2>3, <2>4, <2>5, WatchOrdinary DEF LockSet, timeVars, historyVars
<1>6. ASSUME NEW c \in Context, LockSend(t, c) \/ DrawLock(t, c) PROVE WatchInv' /\ Announces
  <2>1. PICK pc \in {"idle", "read", "draw", "kill_check"} : Moves(t, c, pc)
    BY <1>6, <1>f, GotoMoves, FinishLockMoves DEF LockSend, DrawLock
  <2>2. at[t][c] \in {"lock_send", "draw"}
    BY <1>6 DEF LockSend, DrawLock, At
  <2>3. c = "base" => at[t][c] \in Iteration
    BY <1>p, <2>2 DEF PlaceOK, MainPcs, WatcherPcs, Iteration
  <2>4. QED
    BY <1>6, <2>1, <2>2, <2>3, WatchOrdinary
    DEF LockSend, DrawLock, daemonVars, sceneVars, timeVars, historyVars
<1>7. ASSUME NEW c \in Context, UnlockTest(t, c) PROVE WatchInv' /\ Announces
  <2>1. PICK pc \in {"unlock_set", "idle", "kill_shell", "exit"} : Moves(t, c, pc)
    BY <1>7, <1>f, GotoMoves, FinishUnlockMoves DEF UnlockTest
  <2>2. at[t][c] = "unlock_test" /\ UNCHANGED <<locked, now, woken, granted, announced>>
    BY <1>7 DEF UnlockTest, At, timeVars, historyVars
  <2>3. /\ t = "child" => UNCHANGED <<activity, warned>>
        /\ t # "child" => activity' = now /\ warned' = {}
    BY <1>7 DEF UnlockTest
  <2>4. pc \notin Iteration
    BY <2>1 DEF Iteration
  <2>5. QED BY <2>1, <2>2, <2>3, <2>4, WatchOrdinary
<1>8. ASSUME NEW c \in Context, UnlockSet(t, c) PROVE WatchInv' /\ Announces
  <2>1. Moves(t, c, "unlock_send") /\ at[t][c] = "unlock_set"
    BY <1>8, <1>f, GotoMoves DEF UnlockSet, At
  <2>2. UNCHANGED <<activity, now, woken, announced, warned>>
    BY <1>8 DEF UnlockSet, timeVars
  <2>3. c # "base"
    BY <1>p, <2>1 DEF PlaceOK, MainPcs, WatcherPcs
  <2>4. "unlock_send" \notin Iteration
    BY DEF Iteration
  <2>5. CASE t = "child"
    <3>1. locked'["parent"] = locked["parent"] /\ granted' = granted
      BY <1>8, <2>5 DEF UnlockSet, ProcOf, TypeOK, Proc
    <3>2. QED BY <2>1, <2>2, <2>3, <3>1, WatchOrdinary
  <2>6. CASE t # "child"
    <3>1. activity = now /\ granted' = now
      BY <1>8, <2>1, <2>6 DEF UnlockSet, TimeInv
    <3>2. \A u \in Thread : at'[u]["base"] = at[u]["base"]
      BY <1>d, <2>1, <2>3 DEF Moves
    <3>3. "kill" \in warned => announced = now
      BY <2>1, <2>6 DEF WatchInv
    <3>4. ASSUME "kill" \in warned'
          PROVE  /\ granted' =< announced'
                 /\ \A u \in Thread \ {"child"}, b \in Context :
                       at'[u][b] = "unlock_set" => announced' = now'
      BY <2>2, <3>1, <3>3, <3>4 DEF TypeOK
    <3>5. woken - activity =< 0 /\ TimeoutLock \in Nat
      BY <3>1, OptionsAssumption DEF TimeInv, TypeOK
    <3>6. woken - activity =< TimeoutLock
      BY <3>5 DEF TypeOK
    <3>7. \A u \in Thread : u = "watcher" =>
             /\ at'[u]["base"] \in Iteration => announced' < woken'
             /\ at'[u]["base"] # "sleep" => woken' = now'
             /\ now' =< woken' + 2
             /\ woken' - activity' =< TimeoutLock
      BY <2>2, <3>2, <3>6 DEF WatchInv
    <3>8. Announces
      BY <3>2 DEF Announces
    <3>9. announced' =< woken'
      BY <2>2 DEF WatchInv
    <3>10. QED BY <3>4, <3>7, <3>8, <3>9 DEF WatchInv
  <2>7. QED BY <2>5, <2>6
<1>9. ASSUME NEW c \in Context, UnlockSend(t, c) \/ Redraw(t, c) \/ RestoreScreen(t, c)
      PROVE  WatchInv' /\ Announces
  <2>1. PICK pc \in {"redraw", "restore", "idle", "kill_shell", "exit"} : Moves(t, c, pc)
    BY <1>9, <1>f, GotoMoves, FinishUnlockMoves DEF UnlockSend, Redraw, RestoreScreen
  <2>2. at[t][c] \in {"unlock_send", "redraw", "restore"}
    BY <1>9 DEF UnlockSend, Redraw, RestoreScreen, At
  <2>3. pc \notin Iteration
    BY <2>1 DEF Iteration
  <2>4. QED
    BY <1>9, <2>1, <2>2, <2>3, WatchOrdinary
    DEF UnlockSend, Redraw, RestoreScreen, daemonVars, sceneVars, timeVars, historyVars
<1>10. CASE Forward(t)
  <2>1. PICK pc : pc # "unlock_set" /\ Moves(t, "base", pc)
    BY <1>10, <1>f, <1>d, GotoMoves DEF Forward, TypeOK
  <2>2. at[t]["base"] = "forward"
    BY <1>10 DEF Forward, At
  <2>3. t = "main"
    BY <1>d, <1>p, <2>2 DEF PlaceOK, WatcherPcs
  <2>4. /\ UNCHANGED <<locked, now, woken, announced>> /\ activity' = now /\ warned' = {}
    BY <1>10 DEF Forward, timeVars
  <2>5. \A u \in Thread : u = "watcher" => at'[u]["base"] = at[u]["base"]
    BY <1>d, <2>1, <2>3 DEF Moves
  <2>6. Announces
    BY <1>d, <2>1, <2>2 DEF Announces, Moves
  <2>7. woken' - activity' =< TimeoutLock
    BY <2>4, OptionsAssumption DEF TimeInv, TypeOK
  <2>8. QED BY <2>4, <2>5, <2>6, <2>7 DEF WatchInv
<1>11. CASE SendKill(t)
  <2>1. PICK pc \in {"read", "sleep"} : Moves(t, "base", pc)
    BY <1>11, <1>f, <1>d, GotoMoves DEF SendKill
  <2>2. at[t]["base"] = "kill_send" /\ pc \notin Iteration
    BY <1>11, <2>1 DEF SendKill, At, Iteration
  <2>3. QED
    BY <1>11, <1>d, <2>1, <2>2, WatchOrdinary
    DEF SendKill, daemonVars, sceneVars, timeVars, historyVars
<1>12. CASE WatcherWakes(t)
  <2>1. Moves(t, "base", "lock_check") /\ at[t]["base"] = "sleep"
    BY <1>12, <1>f, <1>d, GotoMoves DEF WatcherWakes, At
  <2>2. t = "watcher"
    BY <1>d, <1>p, <2>1 DEF PlaceOK, MainPcs, Thread
  <2>3. /\ now > woken /\ woken' = now
        /\ UNCHANGED <<locked, activity, warned, now, granted, announced>>
    BY <1>12 DEF WatcherWakes, daemonVars, timeVars, historyVars
  <2>4. announced < woken' /\ now =< now + 2
    BY <2>3 DEF WatchInv, TypeOK
  <2>5. at'[t]["base"] = "lock_check"
    BY <2>1 DEF Moves
  <2>6. Announces
    BY <1>d, <2>1 DEF Announces, Moves
  <2>7. ASSUME NEW u \in Thread \ {"child"}, NEW c \in Context, at'[u][c] = "unlock_set"
        PROVE  at[u][c] = "unlock_set"
    BY <2>1, <2>7 DEF Moves
  <2>8. announced' =< woken'
    BY <2>3, <2>4 DEF TypeOK
  <2>9. QED BY <2>2, <2>3, <2>4, <2>5, <2>6, <2>7, <2>8 DEF WatchInv
<1>13. CASE CheckLock(t)
  <2>1. PICK pc \in {"lock_set", "kill_check"} :
           /\ Moves(t, "base", pc)
           /\ UseTty /\ locked["parent"] = 0 => pc = IF LockDue THEN "lock_set" ELSE "kill_check"
    BY <1>13, <1>f, <1>d, GotoMoves DEF CheckLock
  <2>2. /\ at[t]["base"] = "lock_check" /\ at'[t]["base"] = pc
        /\ UNCHANGED <<locked, activity, now, woken, granted, announced>>
        /\ "kill" \in warned' => "kill" \in warned
    BY <1>13, <2>1 DEF CheckLock, At, Moves, timeVars, historyVars
  <2>3. t = "watcher"
    BY <1>d, <1>p, <2>2 DEF PlaceOK, MainPcs, Thread
  <2>4. UseTty /\ TimeoutLock > 0 /\ locked["parent"] = 0 /\ pc # "lock_set" =>
           woken - activity =< TimeoutLock
    BY <2>1, OptionsAssumption DEF LockDue, Idle, TypeOK
  <2>5. {"lock_check", "lock_set", "kill_check"} \subseteq Iteration
    BY DEF Iteration
  <2>6. announced < woken /\ woken = now /\ now =< woken + 2
    BY <2>2, <2>3, <2>5 DEF WatchInv
  <2>7. Announces
    BY <1>d, <2>1, <2>2 DEF Announces, Moves
  <2>8. ASSUME NEW u \in Thread \ {"child"}, NEW c \in Context, at'[u][c] = "unlock_set"
        PROVE  at[u][c] = "unlock_set"
    BY <2>1, <2>8 DEF Moves
  <2>9. QED BY <2>2, <2>3, <2>4, <2>6, <2>7, <2>8 DEF WatchInv
<1>14. CASE CheckKill(t)
  <2>1. PICK pc \in {"kill_send", "sleep"} :
           /\ Moves(t, "base", pc)
           /\ pc = "kill_send" => TimeoutKill > 0 /\ KillDue
    BY <1>14, <1>f, <1>d, GotoMoves DEF CheckKill
  <2>2. /\ at[t]["base"] = "kill_check" /\ at'[t]["base"] = pc
        /\ UNCHANGED <<locked, activity, now, woken, granted>>
    BY <1>14, <2>1 DEF CheckKill, At, Moves, timeVars
  <2>3. t = "watcher"
    BY <1>d, <1>p, <2>2 DEF PlaceOK, MainPcs, Thread
  <2>4. "kill_check" \in Iteration /\ pc \notin Iteration
        /\ pc \notin {"lock_check", "lock_set"}
    BY <2>1 DEF Iteration
  <2>5. announced < woken /\ woken = now /\ now =< woken + 2
    BY <2>2, <2>3, <2>4 DEF WatchInv
  <2>6. UseTty /\ TimeoutLock > 0 /\ locked["parent"] = 0 => woken - activity =< TimeoutLock
    BY <2>2, <2>3 DEF WatchInv
  <2>7. Announces
    <3>1. SUFFICES ASSUME pc = "kill_send", WarnBeforeKill # 0
                   PROVE  granted =< announced
      BY <1>d, <2>1, <2>2, <2>5 DEF Announces, Moves
    <3>2. "kill" \in warned
      <4>1. ~KillWarningDue /\ Held > KillLimit
        BY <2>1, <3>1 DEF KillDue
      <4>2. Held \in Int /\ KillLimit \in Int /\ WarnBeforeKill \in Nat
        BY OptionsAssumption DEF Held, Idle, KillLimit, TypeOK, Proc
      <4>3. WarnBeforeKill > 0 /\ Held > KillLimit - WarnBeforeKill
        BY <3>1, <4>1, <4>2
      <4>4. QED BY <4>1, <4>3 DEF KillWarningDue
    <3>3. QED BY <3>2 DEF WatchInv
  <2>8. ASSUME NEW u \in Thread \ {"child"}, NEW c \in Context, at'[u][c] = "unlock_set"
        PROVE  at[u][c] = "unlock_set"
    BY <2>1, <2>8 DEF Moves
  <2>9. CASE announced' = woken
    <3>1. /\ announced' =< woken' /\ granted' =< announced' /\ announced' = now'
      BY <2>2, <2>5, <2>9 DEF TypeOK, TimeInv
    <3>2. QED BY <2>2, <2>3, <2>4, <2>5, <2>6, <2>7, <3>1 DEF WatchInv
  <2>10. CASE UNCHANGED <<warned, announced>>
    <3>1. announced' =< woken'
      BY <2>2, <2>10 DEF WatchInv
    <3>2. QED BY <2>2, <2>3, <2>4, <2>5, <2>6, <2>7, <2>8, <2>10, <3>1 DEF WatchInv
  <2>11. QED BY <1>14, <2>9, <2>10 DEF CheckKill
<1>15. CASE CloseInput(t) \/ \E kind \in InputKinds \ {"eof"} : ReadInput(t, kind)
  <2>1. PICK pc \in {"wait", "forward"} : Moves(t, "base", pc)
    BY <1>15, <1>f, <1>d, GotoMoves DEF CloseInput, ReadInput
  <2>2. at[t]["base"] = "read" /\ pc \notin Iteration
    BY <1>15, <2>1 DEF CloseInput, ReadInput, At, Iteration
  <2>3. UNCHANGED <<daemonVars, now, woken, granted, announced>>
    BY <1>15 DEF CloseInput, ReadInput, timeVars, historyVars
  <2>4. QED BY <1>d, <2>1, <2>2, <2>3, WatchOrdinary DEF daemonVars
<1>16. QED
  BY <1>1, <1>2, <1>3, <1>4, <1>5, <1>6, <1>7, <1>8, <1>9, <1>10, <1>11, <1>12, <1>13,
     <1>14, <1>15
  DEF ThreadStep

LEMMA WatchStep ==
    IInv /\ PlacesOK /\ TimeInv /\ WatchInv /\ [Next]_vars =>
        WatchInv' /\ [Announces]_vars
<1> SUFFICES ASSUME TypeOK, PlacesOK, now >= 1, TimeInv, WatchInv, [Next]_vars
             PROVE  WatchInv' /\ Announces
  BY DEF IInv
<1>1. CASE \E t \in Thread :
              ThreadStep(t) \/ CloseInput(t)
                 \/ \E kind \in InputKinds \ {"eof"} : ReadInput(t, kind)
  BY <1>1, WatchThreadStep
<1>2. CASE ProgramEnds \/ UNCHANGED vars
              \/ \E targets \in OperatorTargets, sig \in OperatorSignals :
                    OperatorSends(targets, sig)
  <2>1. UNCHANGED <<at, locked, activity, warned, now, woken, granted, announced>>
    BY <1>2
    DEF ProgramEnds, OperatorSends, vars, daemonVars, frameVars, timeVars, historyVars
  <2>2. QED BY <2>1 DEF WatchInv, Announces
<1>3. CASE Tick
  <2>1. /\ now' = now + 1 /\ Settled /\ (HasWatcher => now - woken =< 1)
        /\ UNCHANGED <<at, locked, activity, warned, woken, granted, announced>>
    BY <1>3 DEF Tick, daemonVars, frameVars, historyVars
  <2>2. /\ \A t \in Thread, c \in Context : at[t][c] # "unlock_set"
        /\ \A t \in Thread : t = "watcher" => at[t]["base"] = "sleep"
    <3>1. \A t \in Thread : /\ at[t]["base"] \in {"read", "wait", "sleep"}
                            /\ \A c \in Context \ {"base"} : at[t][c] = "idle"
      BY <2>1 DEF Settled, Resting
    <3>2. \A t \in Thread : t = "watcher" => at[t]["base"] \in WatcherPcs
      BY DEF PlacesOK, PlaceOK, Context
    <3>3. QED BY <3>1, <3>2 DEF WatcherPcs
  <2>3. \A t \in Thread : t = "watcher" => now' =< woken + 2
    <3>1. "watcher" \in Thread => HasWatcher
      BY DEF Thread
    <3>2. QED BY <2>1, <3>1 DEF TypeOK
  <2>4. Announces
    BY <2>1 DEF Announces
  <2>5. QED BY <2>1, <2>2, <2>3, <2>4 DEF WatchInv, Iteration
<1>4. QED BY <1>1, <1>2, <1>3 DEF Next, Surroundings

LEMMA TimeInit == Init => TimeInv /\ WatchInv
<1> SUFFICES ASSUME Init PROVE TimeInv /\ WatchInv
  OBVIOUS
<1>1. /\ granted = 1 /\ activity = 1 /\ now = 1 /\ woken = 1 /\ announced = 0
      /\ locked["parent"] = 0 /\ warned = {}
  BY DEF Init, Proc
<1>2. \A t \in Thread, c \in Context : at[t][c] # "unlock_set"
  BY DEF Init
<1>3. \A t \in Thread : t = "watcher" => at[t]["base"] = "sleep"
  BY DEF Init, Context
<1>4. TimeoutLock \in Nat
  BY OptionsAssumption
<1>5. QED BY <1>1, <1>2, <1>3, <1>4 DEF TimeInv, WatchInv, Iteration

LEMMA WatchInductive == Spec => [](IInv /\ PlacesOK /\ TimeInv /\ WatchInv)
<1>1. IInv => TypeOK
  BY DEF IInv
<1>2. QED
  BY <1>1, Inductive, PlaceInit, PlaceStep, TimeInit, TimeStep, WatchStep, PTL DEF Spec

\* The watcher kills a session only if it has printed the warning in an earlier iteration,
\* and the user has not been active since.
THEOREM AlwaysKillIsAnnounced == Spec => KillIsAnnounced
<1>1. Spec => [][Announces]_vars
  BY WatchInductive, WatchStep, PTL DEF Spec
<1>2. QED BY <1>1 DEF KillIsAnnounced, Announces

\* An idle session with a terminal is locked on both sides two seconds after the timeout
\* at the latest, unless a lock or an unlock is under way.
THEOREM AlwaysLockedInTime == Spec => []LockedInTime
<1>1. IInv /\ PlacesOK /\ TimeInv /\ WatchInv /\ Agreement => LockedInTime
  <2>1. SUFFICES ASSUME TypeOK, PlacesOK, WatchInv, Agreement, UseTty, TimeoutLock > 0,
                        ~exited, Settled, now - activity > TimeoutLock + WatcherLag
                 PROVE  \A p \in Proc : locked[p] # 0
    BY DEF LockedInTime, IInv
  <2>2. "watcher" \in Thread
    BY <2>1 DEF Thread, HasWatcher
  <2>3. at["watcher"]["base"] = "sleep"
    BY <2>1, <2>2 DEF PlacesOK, PlaceOK, Context, WatcherPcs, Settled, Resting
  <2>4. woken - activity > TimeoutLock
    BY <2>1, <2>2, OptionsAssumption DEF WatchInv, WatcherLag, TypeOK
  <2>5. locked["parent"] # 0
    <3>1. ~(woken - activity =< TimeoutLock)
      BY <2>1, <2>4, OptionsAssumption DEF TypeOK
    <3>2. QED BY <2>1, <2>2, <2>3, <3>1 DEF WatchInv
  <2>6. QED BY <2>1, <2>5 DEF Agreement, Proc
<1>2. QED BY <1>1, WatchInductive, AlwaysAgreement, PTL
----------------------------------------------------------------------------
(* The kill timeout.  SIGTERM ends the child before the clock goes on.  Until *)
(* then, the last iteration has left the session alone: its user was active   *)
(* within the lock timeout, or it has not been locked for longer than what is *)
(* left of the kill timeout, give or take the iteration that only warned.     *)

Timeouts == UseTty /\ TimeoutLock > 0 /\ TimeoutKill > 0

Doomed == "TERM" \in pending["child"] \/ at["child"]["TERM"] # "idle" \/ entered

\* How long the user has been idle, and the session locked, in the last iteration.
LockedFor == woken - locked["parent"]
ToWarn == WarnBeforeKill > 0 /\ "kill" \notin warned

\* SIGTERM is on its way to the child, or has been handled, since the last iteration.
Ending == Doomed /\ woken = now

DoneHeld == entered => \E t \in Thread : at[t]["done"] # "idle"

\* A lock is set at once, and soon enough after the last activity.
LockSoon ==
    /\ \A t \in Thread \ {"child"}, c \in Context :
          at[t][c] \in {"lock_set", "forward"} => locked["parent"] \in {0, now}
    /\ locked["parent"] = 0 => now - activity =< TimeoutLock + 2
    /\ locked["parent"] # 0 => locked["parent"] - activity =< TimeoutLock + 2

\* What the watcher knows in an iteration, and after it.
During ==
    ToWarn => \/ Idle =< TimeoutLock + 2
              \/ LockedFor =< TimeoutKill - TimeoutLock - WarnBeforeKill + 2
After ==
    /\ Idle =< TimeoutKill + 3
    /\ ToWarn => \/ Idle =< TimeoutLock
                 \/ LockedFor =< TimeoutKill - TimeoutLock - WarnBeforeKill

KillInv ==
    /\ DoneHeld
    /\ Timeouts =>
        /\ LockSoon
        /\ \A t \in Thread : t = "watcher" /\ locked["parent"] # 0 =>
              /\ at[t]["base"] \in Iteration => During
              /\ at[t]["base"] = "sleep" /\ ~Ending => After
        /\ now - activity =< TimeoutKill + 5

LEMMA LimitTypes ==
    ASSUME TypeOK
    PROVE  /\ {TimeoutLock, TimeoutKill, WarnBeforeKill} \subseteq Nat
           /\ Timeouts => TimeoutLock =< TimeoutKill
           /\ {activity, now, woken, locked["parent"]} \subseteq Nat
BY OptionsAssumption DEF TypeOK, Timeouts, Proc

\* A SIGTERM is handled, and the handler calls done() unless it has been called.
EndKept(u, d, pc) ==
    /\ d = "TERM" => pc # "idle" \/ entered'
    /\ d = "done" => pc # "idle"
    /\ entered => entered'
    /\ entered' => entered \/ d = "done"
    /\ "TERM" \in pending["child"] =>
          "TERM" \in pending'["child"] \/ (u = "child" /\ d = "TERM")

LEMMA DoomedStays ==
    ASSUME NEW u \in Thread, NEW d \in Context, NEW pc, Moves(u, d, pc),
           EndKept(u, d, pc), Doomed
    PROVE  Doomed'
<1>1. "child" \in Thread /\ "TERM" \in Context
  BY DEF Thread, Context, Signal
<1>2. CASE at["child"]["TERM"] # "idle"
  BY <1>1, <1>2 DEF Moves, Doomed, EndKept
<1>3. CASE "TERM" \in pending["child"] \/ entered
  BY <1>3 DEF Moves, Doomed, EndKept
<1>4. QED BY <1>2, <1>3 DEF Doomed

LEMMA DoneStays ==
    ASSUME DoneHeld, NEW u \in Thread, NEW d \in Context, NEW pc, Moves(u, d, pc),
           EndKept(u, d, pc)
    PROVE  DoneHeld'
<1>1. SUFFICES ASSUME entered' PROVE \E t \in Thread : at'[t]["done"] # "idle"
  BY DEF DoneHeld
<1>2. CASE d = "done"
  BY <1>2 DEF Moves, EndKept
<1>3. CASE d # "done"
  <2>1. PICK t \in Thread : at[t]["done"] # "idle"
    BY <1>1, <1>3 DEF DoneHeld, EndKept
  <2>2. at'[t]["done"] = at[t]["done"]
    BY <1>3 DEF Moves, Context
  <2>3. QED BY <2>1, <2>2
<1>4. QED BY <1>2, <1>3

\* The arithmetic of a step in which no time goes by: the activity a becomes b, which
\* is a or the time n, and the lock l becomes m, which is l, unless the session is
\* locked (then m is n), or unlocked (then a is n).
Shift(low, high, a, b, n, w, l, m) ==
    /\ low =< high /\ a =< n /\ w =< n
    /\ b = a \/ b = n
    /\ m = l \/ (l = 0 /\ m = n) \/ (m = 0 /\ a = n)
    /\ l = 0 => n - a =< low + 2
    /\ l # 0 => l - a =< low + 2
    /\ n - a =< high + 5

Shifted(low, high, a, b, n, w, l, m) ==
    /\ n - b =< high + 5
    /\ m = 0 => n - b =< low + 2
    /\ m # 0 => m - b =< low + 2
    /\ l = 0 \/ b = n \/ w - a =< low + 2 => w - b =< low + 2
    /\ b = n \/ w - a =< low => w - b =< low /\ w - b =< high + 3
    /\ w - a =< high + 3 => w - b =< high + 3

LEMMA NoTimeGoesBy ==
    \A low, high, a, b, n, w, l, m \in Nat :
        Shift(low, high, a, b, n, w, l, m) => Shifted(low, high, a, b, n, w, l, m)
<1>1. SUFFICES ASSUME NEW low \in Nat, NEW high \in Nat, NEW a \in Nat, NEW b \in Nat,
                      NEW n \in Nat, NEW w \in Nat, NEW l \in Nat, NEW m \in Nat,
                      Shift(low, high, a, b, n, w, l, m)
               PROVE  Shifted(low, high, a, b, n, w, l, m)
  OBVIOUS
<1>2. CASE b = a
  BY <1>1, <1>2 DEF Shift, Shifted
<1>3. CASE b = n
  BY <1>1, <1>3 DEF Shift, Shifted
<1>4. QED BY <1>1, <1>2, <1>3 DEF Shift

\* What a step may do to the parent's lock.
LockMoves(u, pc) ==
    /\ locked'["parent"] \in {locked["parent"], 0, now}
    /\ locked'["parent"] = 0 /\ locked["parent"] # 0 => activity = now
    /\ locked'["parent"] # 0 /\ locked["parent"] # 0 => locked'["parent"] = locked["parent"]
    /\ u # "child" /\ pc \in {"lock_set", "forward"} => locked'["parent"] \in {0, now}

\* A step in which no time goes by, and the watcher neither starts nor ends an iteration.
LEMMA KillOrdinary ==
    ASSUME TypeOK, TimeInv, WatchInv, KillInv, NEW u \in Thread, NEW d \in Context, NEW pc,
           Moves(u, d, pc), UNCHANGED <<now, woken>>, activity' \in {activity, now},
           "kill" \in warned => "kill" \in warned' \/ activity' = now,
           Timeouts => LockMoves(u, pc), EndKept(u, d, pc),
           u = "watcher" /\ d = "base" => {at[u][d], pc} \subseteq Iteration
    PROVE  KillInv'
<1>0. DoneHeld' /\ (Doomed => Doomed')
  BY DoneStays, DoomedStays DEF KillInv
<1>1. SUFFICES ASSUME Timeouts
               PROVE  (LockSoon /\ now - activity =< TimeoutKill + 5 /\
                          \A t \in Thread : t = "watcher" /\ locked["parent"] # 0 =>
                              /\ at[t]["base"] \in Iteration => During
                              /\ at[t]["base"] = "sleep" /\ ~Ending => After)'
  BY <1>0 DEF KillInv, Timeouts
<1>2. PICK low \in Nat, high \in Nat, warn \in Nat :
         low = TimeoutLock /\ high = TimeoutKill /\ warn = WarnBeforeKill /\ low =< high
  BY <1>1, LimitTypes
<1>3. PICK a \in Nat, n \in Nat, w \in Nat, l \in Nat :
         a = activity /\ n = now /\ w = woken /\ l = locked["parent"] /\ a =< n /\ w =< n
  BY LimitTypes DEF TimeInv
<1>4. PICK b \in Nat, m \in Nat :
         b = activity' /\ m = locked'["parent"] /\ b \in {a, n} /\ m \in {l, 0, n}
  BY <1>1, <1>3 DEF LockMoves
<1>5. n = now' /\ w = woken'
  BY <1>3
<1>6. /\ m = 0 /\ l # 0 => a = n
      /\ m # 0 /\ l # 0 => m = l
  BY <1>1, <1>3, <1>4 DEF LockMoves
<1>7. /\ l = 0 => n - a =< low + 2
      /\ l # 0 => l - a =< low + 2
      /\ n - a =< high + 5
  BY <1>1, <1>2, <1>3 DEF KillInv, LockSoon
<1>8. Shift(low, high, a, b, n, w, l, m)
  BY <1>2, <1>3, <1>4, <1>6, <1>7 DEF Shift
<1>9. Shifted(low, high, a, b, n, w, l, m)
  BY <1>8, NoTimeGoesBy
<1>10. /\ n - b =< high + 5
       /\ m = 0 => n - b =< low + 2
       /\ m # 0 => m - b =< low + 2
       /\ l = 0 \/ b = n \/ w - a =< low + 2 => w - b =< low + 2
       /\ b = n \/ w - a =< low => w - b =< low /\ w - b =< high + 3
       /\ w - a =< high + 3 => w - b =< high + 3
  BY <1>9 DEF Shifted
<1>11. ASSUME NEW t \in Thread \ {"child"}, NEW c \in Context, at'[t][c] \in {"lock_set", "forward"}
       PROVE  m \in {0, n}
  <2>1. CASE t = u /\ c = d
    BY <1>1, <1>3, <1>4, <1>11, <2>1 DEF Moves, LockMoves
  <2>2. CASE ~(t = u /\ c = d)
    <3>1. at[t][c] \in {"lock_set", "forward"}
      BY <1>11, <2>2 DEF Moves
    <3>2. l \in {0, n}
      BY <1>1, <1>3, <3>1 DEF KillInv, LockSoon
    <3>3. QED BY <1>4, <3>2
  <2>3. QED BY <2>1, <2>2
<1>12. LockSoon'
  BY <1>2, <1>4, <1>5, <1>10, <1>11 DEF LockSoon
<1>13. ToWarn' => ToWarn \/ b = n
  BY <1>3, <1>4 DEF ToWarn
<1>14. ASSUME NEW t \in Thread, t = "watcher", m # 0
       PROVE  /\ at'[t]["base"] \in Iteration => During'
              /\ at'[t]["base"] = "sleep" /\ ~Ending' => After'
  <2>1. \/ at'[t]["base"] = at[t]["base"]
        \/ {at[t]["base"], at'[t]["base"]} \subseteq Iteration
    BY <1>14 DEF Moves, Context
  <2>2. "sleep" \notin Iteration
    BY DEF Iteration
  <2>3. ASSUME at'[t]["base"] \in Iteration
        PROVE  During'
    <3>1. CASE l = 0
      <4>1. w - b =< low + 2
        BY <1>10, <3>1
      <4>2. QED BY <1>2, <1>4, <1>5, <4>1 DEF During, Idle
    <3>2. CASE l # 0
      <4>1. m = l
        BY <1>6, <1>14, <3>2
      <4>2. at[t]["base"] \in Iteration
        BY <2>1, <2>3
      <4>3. ToWarn => w - a =< low + 2 \/ w - l =< high - low - warn + 2
        BY <1>1, <1>2, <1>3, <1>14, <3>2, <4>2 DEF KillInv, During, Idle, LockedFor
      <4>4. ToWarn' => w - b =< low + 2 \/ w - m =< high - low - warn + 2
        BY <1>10, <1>13, <4>1, <4>3
      <4>5. QED BY <1>2, <1>4, <1>5, <4>4 DEF During, Idle, LockedFor
    <3>3. QED BY <3>1, <3>2
  <2>4. ASSUME at'[t]["base"] = "sleep", ~Ending'
        PROVE  After'
    <3>1. at[t]["base"] = "sleep" /\ ~Ending
      BY <1>0, <2>1, <2>2, <2>4 DEF Ending
    <3>2. CASE l = 0
      <4>1. w - a =< low
        BY <1>1, <1>2, <1>3, <1>14, <3>1, <3>2 DEF WatchInv, Timeouts
      <4>2. w - b =< low /\ w - b =< high + 3
        BY <1>10, <4>1
      <4>3. QED BY <1>2, <1>4, <1>5, <4>2 DEF After, Idle
    <3>3. CASE l # 0
      <4>1. m = l
        BY <1>6, <1>14, <3>3
      <4>2. /\ w - a =< high + 3
            /\ ToWarn => w - a =< low \/ w - l =< high - low - warn
        BY <1>1, <1>2, <1>3, <1>14, <3>1, <3>3 DEF KillInv, After, Idle, LockedFor
      <4>3. w - b =< high + 3
        BY <1>10, <4>2
      <4>4. ToWarn' => w - b =< low \/ w - m =< high - low - warn
        BY <1>10, <1>13, <4>1, <4>2
      <4>5. QED BY <1>2, <1>4, <1>5, <4>3, <4>4 DEF After, Idle, LockedFor
    <3>4. QED BY <3>2, <3>3
  <2>5. QED BY <2>3, <2>4
<1>15. now' - activity' =< TimeoutKill + 5
  BY <1>2, <1>4, <1>5, <1>10
<1>16. QED BY <1>4, <1>12, <1>14, <1>15

LEMMA KillThreadStep ==
    ASSUME TypeOK, PlacesOK, TimeInv, WatchInv, KillInv, NEW t \in Thread,
           ThreadStep(t) \/ CloseInput(t)
              \/ \E kind \in InputKinds \ {"eof"} : ReadInput(t, kind)
    PROVE  KillInv'
<1>f. FramesOK
  BY DEF TypeOK, FramesOK
<1>d. {"base", "done", "TERM", "URG", "USR2"} \subseteq Context
  BY DEF Context, Signal
<1>p. \A c \in Context : PlaceOK(t, c, at[t][c])
  BY DEF PlacesOK
<1>k. \A c \in Context : Timeouts /\ t # "child" /\ at[t][c] \in {"lock_set", "forward"} =>
                            locked["parent"] \in {0, now}
  BY DEF KillInv, LockSoon
<1>s. \* A step that leaves clock, activity, warnings and locks alone.
  ASSUME NEW d \in Context, NEW pc, Moves(t, d, pc),
         UNCHANGED <<now, woken, activity, warned, locked>>, EndKept(t, d, pc),
         Timeouts /\ t # "child" /\ pc \in {"lock_set", "forward"} =>
            locked["parent"] \in {0, now},
         t = "watcher" /\ d = "base" => {at[t][d], pc} \subseteq Iteration
  PROVE  KillInv'
  <2>1. Timeouts => LockMoves(t, pc)
    BY <1>s DEF LockMoves
  <2>2. QED BY <1>s, <2>1, KillOrdinary
<1>1. ASSUME NEW sig \in Signal, Deliver(t, sig) PROVE KillInv'
  <2>1. sig \in Context /\ sig \notin {"base", "done"}
    BY DEF Context, Signal
  <2>2. PICK pc \in {"lock_test", "unlock_test"} : Moves(t, sig, pc)
    BY <1>1, <1>f, <2>1, EnterMoves DEF Deliver
  <2>3. /\ UNCHANGED <<now, woken, activity, warned, locked, entered>>
        /\ pending' = [pending EXCEPT ![ProcOf(t)] = @ \ {sig}]
    BY <1>1 DEF Deliver, daemonVars, sceneVars, timeVars
  <2>4. EndKept(t, sig, pc)
    <3>1. "TERM" \in pending["child"] => "TERM" \in pending'["child"] \/ (t = "child" /\ sig = "TERM")
      BY <2>3 DEF TypeOK, ProcOf, Proc
    <3>2. QED BY <2>1, <2>2, <2>3, <3>1 DEF EndKept
  <2>5. QED BY <2>1, <2>2, <2>3, <2>4, <1>s
<1>2. CASE LockTest(t)
  <2>1. PICK pc : /\ Moves(t, "URG", pc)
                  /\ pc = "lock_set" => locked[ProcOf(t)] = 0
                  /\ pc # "forward"
    BY <1>2, <1>f, <1>d, GotoMoves, ReturnMoves DEF LockTest
  <2>2. UNCHANGED <<now, woken, activity, warned, locked, entered, pending>>
    BY <1>2 DEF LockTest, daemonVars, sceneVars, timeVars
  <2>3. EndKept(t, "URG", pc)
    BY <2>2 DEF EndKept
  <2>4. QED BY <1>d, <2>1, <2>2, <2>3, <1>s DEF ProcOf
<1>3. CASE EndSession(t) \/ OutputEnds(t)
  <2>1. PICK d \in {"TERM", "done"}, pc \in {"idle", "unlock_test"} :
           /\ Moves(t, d, pc)
           /\ d = "done" => pc # "idle" /\ entered' = TRUE
           /\ d = "TERM" => entered /\ entered' = entered
    BY <1>3, <1>f, <1>d, EnterMoves, ReturnMoves DEF EndSession, OutputEnds
  <2>2. UNCHANGED <<now, woken, activity, warned, locked, pending>>
    BY <1>3 DEF EndSession, OutputEnds, daemonVars, timeVars
  <2>3. EndKept(t, d, pc)
    BY <2>1, <2>2 DEF EndKept
  <2>4. QED BY <1>d, <2>1, <2>2, <2>3, <1>s
<1>4. CASE ChildExit(t)
  BY <1>4
  DEF ChildExit, daemonVars, frameVars, timeVars, KillInv, DoneHeld, LockSoon, During, After,
      Ending, Doomed, ToWarn, Idle, LockedFor
<1>5. ASSUME NEW c \in Context, LockSet(t, c) PROVE KillInv'
  <2>1. Moves(t, c, "lock_send") /\ at[t][c] = "lock_set"
    BY <1>5, <1>f, GotoMoves DEF LockSet, At
  <2>2. IF t = "child" THEN locked'["parent"] = locked["parent"] ELSE locked'["parent"] = now
    BY <1>5 DEF LockSet, TypeOK, ProcOf, Proc
  <2>3. UNCHANGED <<now, woken, activity, warned, pending, entered>>
    BY <1>5 DEF LockSet, sceneVars, timeVars
  <2>4. Timeouts => LockMoves(t, "lock_send")
    BY <1>k, <2>1, <2>2 DEF LockMoves
  <2>5. EndKept(t, c, "lock_send") /\ {"lock_set", "lock_send"} \subseteq Iteration
    BY <2>3 DEF EndKept, Iteration
  <2>6. QED BY <2>1, <2>3, <2>4, <2>5, KillOrdinary
<1>6. ASSUME NEW c \in Context, LockSend(t, c) \/ DrawLock(t, c) PROVE KillInv'
  <2>1. PICK pc \in {"idle", "read", "draw", "kill_check"} : Moves(t, c, pc)
    BY <1>6, <1>f, GotoMoves, FinishLockMoves DEF LockSend, DrawLock
  <2>2. at[t][c] \in {"lock_send", "draw"}
    BY <1>6 DEF LockSend, DrawLock, At
  <2>3. /\ c \notin {"TERM", "done"}
        /\ t = "watcher" /\ c = "base" => {at[t][c], pc} \subseteq Iteration
    <3>1. c \notin {"TERM", "done"} /\ (t = "watcher" /\ c = "base" => at[t][c] = "lock_send")
      BY <1>p, <2>2 DEF PlaceOK, WatcherPcs, UnlockPcs
    <3>2. t = "watcher" /\ c = "base" => Moves(t, c, "kill_check")
      BY <1>6, <1>f, <3>1, GotoMoves DEF LockSend, DrawLock, FinishLock, At
    <3>3. t = "watcher" /\ c = "base" => pc = "kill_check"
      BY <2>1, <3>2 DEF Moves
    <3>4. QED BY <3>1, <3>3 DEF Iteration
  <2>4. /\ UNCHANGED <<now, woken, activity, warned, locked, entered>>
        /\ "TERM" \in pending["child"] => "TERM" \in pending'["child"]
    BY <1>6 DEF LockSend, DrawLock, Kill, daemonVars, sceneVars, timeVars, TypeOK, Peer, ProcOf, Proc
  <2>5. EndKept(t, c, pc)
    BY <2>3, <2>4 DEF EndKept
  <2>6. QED BY <2>1, <2>3, <2>4, <2>5, <1>s
<1>7. ASSUME NEW c \in Context, UnlockTest(t, c) PROVE KillInv'
  <2>1. PICK pc \in {"unlock_set", "idle", "kill_shell", "exit"} :
           Moves(t, c, pc) /\ (c \in {"TERM", "done"} => pc # "idle")
    <3>1. CASE Goto(t, c, "unlock_set")
      BY <1>f, <3>1, GotoMoves
    <3>2. CASE FinishUnlock(t, c)
      BY <1>f, <3>2, FinishUnlockMoves, GotoMoves DEF FinishUnlock
    <3>3. QED BY <1>7, <3>1, <3>2 DEF UnlockTest
  <2>2. at[t][c] = "unlock_test" /\ UNCHANGED <<locked, now, woken, pending, entered>>
    BY <1>7 DEF UnlockTest, At, sceneVars, timeVars
  <2>3. UNCHANGED <<activity, warned>> \/ activity' = now
    BY <1>7 DEF UnlockTest
  <2>4. Timeouts => LockMoves(t, pc)
    BY <2>1, <2>2 DEF LockMoves
  <2>5. EndKept(t, c, pc)
    BY <2>1, <2>2 DEF EndKept
  <2>6. ~(t = "watcher" /\ c = "base")
    BY <1>p, <2>2 DEF PlaceOK, WatcherPcs
  <2>7. QED BY <2>1, <2>2, <2>3, <2>4, <2>5, <2>6, KillOrdinary
<1>8. ASSUME NEW c \in Context, UnlockSet(t, c) PROVE KillInv'
  <2>1. Moves(t, c, "unlock_send") /\ at[t][c] = "unlock_set"
    BY <1>8, <1>f, GotoMoves DEF UnlockSet, At
  <2>2. UNCHANGED <<activity, now, woken, warned, pending, entered>>
    BY <1>8 DEF UnlockSet, sceneVars, timeVars
  <2>3. /\ t = "child" => locked'["parent"] = locked["parent"]
        /\ t # "child" => locked'["parent"] = 0 /\ activity = now
    BY <1>8, <2>1 DEF UnlockSet, ProcOf, TypeOK, Proc, TimeInv
  <2>4. Timeouts => LockMoves(t, "unlock_send")
    BY <2>3 DEF LockMoves
  <2>5. EndKept(t, c, "unlock_send")
    BY <2>2 DEF EndKept
  <2>6. ~(t = "watcher" /\ c = "base")
    BY <1>p, <2>1 DEF PlaceOK, WatcherPcs
  <2>7. QED BY <2>1, <2>2, <2>4, <2>5, <2>6, KillOrdinary
<1>9. ASSUME NEW c \in Context, UnlockSend(t, c) \/ Redraw(t, c) \/ RestoreScreen(t, c)
      PROVE  KillInv'
  <2>1. PICK pc \in {"redraw", "restore", "idle", "kill_shell", "exit"} :
           Moves(t, c, pc) /\ (c \in {"TERM", "done"} => pc # "idle")
    <3>1. CASE UnlockSend(t, c)
      BY <1>f, <3>1, GotoMoves DEF UnlockSend
    <3>2. CASE FinishUnlock(t, c)
      BY <1>f, <3>2, FinishUnlockMoves, GotoMoves DEF FinishUnlock
    <3>3. QED BY <1>9, <3>1, <3>2 DEF Redraw, RestoreScreen
  <2>2. at[t][c] \in {"unlock_send", "redraw", "restore"}
    BY <1>9 DEF UnlockSend, Redraw, RestoreScreen, At
  <2>3. /\ UNCHANGED <<now, woken, activity, warned, locked, entered>>
        /\ "TERM" \in pending["child"] => "TERM" \in pending'["child"]
    BY <1>9
    DEF UnlockSend, Redraw, RestoreScreen, Kill, daemonVars, sceneVars, timeVars, TypeOK, Peer,
        ProcOf, Proc
  <2>4. EndKept(t, c, pc)
    BY <2>1, <2>3 DEF EndKept
  <2>5. ~(t = "watcher" /\ c = "base")
    BY <1>p, <2>2 DEF PlaceOK, WatcherPcs
  <2>6. QED BY <2>1, <2>3, <2>4, <2>5, <1>s
<1>10. CASE Forward(t)
  <2>1. PICK pc : Moves(t, "base", pc)
    BY <1>10, <1>f, <1>d, GotoMoves DEF Forward, TypeOK
  <2>2. /\ at[t]["base"] = "forward" /\ activity' = now
        /\ UNCHANGED <<locked, now, woken, pending, entered>>
    BY <1>10 DEF Forward, At, timeVars
  <2>3. t = "main"
    BY <1>d, <1>p, <2>2 DEF PlaceOK, WatcherPcs
  <2>4. Timeouts => LockMoves(t, pc)
    BY <1>d, <1>k, <2>2, <2>3 DEF LockMoves
  <2>5. EndKept(t, "base", pc)
    BY <2>2 DEF EndKept
  <2>6. QED BY <1>d, <2>1, <2>2, <2>3, <2>4, <2>5, KillOrdinary
<1>11. CASE SendKill(t)
  <2>1. PICK pc \in {"read", "sleep"} : Moves(t, "base", pc) /\ (t = "main" => pc = "read")
    BY <1>11, <1>f, <1>d, GotoMoves DEF SendKill
  <2>2. /\ at[t]["base"] = "kill_send" /\ "TERM" \in pending'["child"]
        /\ UNCHANGED <<now, woken, activity, warned, locked, entered>>
    BY <1>11 DEF SendKill, At, Kill, TypeOK, Proc, daemonVars, sceneVars, timeVars
  <2>3. EndKept(t, "base", pc)
    BY <2>2 DEF EndKept
  <2>4. CASE t # "watcher"
    BY <1>d, <2>1, <2>2, <2>3, <2>4, <1>s
  <2>5. CASE t = "watcher"
    <3>1. Doomed' /\ Ending'
      BY <1>d, <2>2, <2>5 DEF Doomed, Ending, WatchInv
    <3>2. DoneHeld'
      BY <1>d, <2>1, <2>3, DoneStays DEF KillInv
    <3>3. at'[t]["base"] = pc /\ pc \notin Iteration
      BY <2>1 DEF Moves, Iteration
    <3>4. LockSoon' <=> LockSoon
      <4>1. \A u \in Thread, c \in Context :
               at'[u][c] \in {"lock_set", "forward"} <=> at[u][c] \in {"lock_set", "forward"}
        BY <2>1, <2>2 DEF Moves
      <4>2. QED BY <2>2, <4>1 DEF LockSoon
    <3>5. QED BY <2>2, <2>5, <3>1, <3>2, <3>3, <3>4 DEF KillInv, Timeouts
  <2>6. QED BY <2>4, <2>5
<1>12. CASE WatcherWakes(t)
  <2>1. Moves(t, "base", "lock_check") /\ at[t]["base"] = "sleep"
    BY <1>12, <1>f, <1>d, GotoMoves DEF WatcherWakes, At
  <2>2. t = "watcher" /\ now =< woken + 2
    BY <1>d, <1>p, <2>1 DEF PlaceOK, MainPcs, Thread, WatchInv
  <2>3. /\ now > woken /\ woken' = now
        /\ UNCHANGED <<locked, activity, warned, now, entered, pending>>
    BY <1>12 DEF WatcherWakes, daemonVars, sceneVars
  <2>4. DoneHeld'
    <3>1. EndKept(t, "base", "lock_check")
      BY <2>3 DEF EndKept
    <3>2. QED BY <1>d, <2>1, <3>1, DoneStays DEF KillInv
  <2>5. at'[t]["base"] = "lock_check" /\ LockSoon' = LockSoon
    <3>1. \A u \in Thread, c \in Context :
             at'[u][c] \in {"lock_set", "forward"} <=> at[u][c] \in {"lock_set", "forward"}
      BY <2>1 DEF Moves
    <3>2. QED BY <2>1, <2>3, <3>1 DEF LockSoon, Moves
  <2>6. ASSUME Timeouts, locked["parent"] # 0
        PROVE  During'
    <3>1. After
      BY <2>1, <2>2, <2>3, <2>6 DEF KillInv, Ending, TypeOK
    <3>2. PICK low \in Nat, high \in Nat, warn \in Nat, a \in Nat, n \in Nat, w \in Nat, l \in Nat :
             /\ low = TimeoutLock /\ high = TimeoutKill /\ warn = WarnBeforeKill
             /\ a = activity /\ n = now /\ w = woken /\ l = locked["parent"]
      BY LimitTypes
    <3>3. ToWarn => w - a =< low \/ w - l =< high - low - warn
      BY <3>1, <3>2 DEF After, Idle, LockedFor
    <3>4. n =< w + 2
      BY <2>2, <3>2
    <3>5. ToWarn => n - a =< low + 2 \/ n - l =< high - low - warn + 2
      BY <3>3, <3>4
    <3>6. QED BY <2>3, <3>2, <3>5 DEF During, ToWarn, Idle, LockedFor
  <2>7. QED BY <2>2, <2>3, <2>4, <2>5, <2>6 DEF KillInv, Timeouts
<1>13. CASE CheckLock(t)
  <2>1. PICK pc \in {"lock_set", "kill_check"} :
           Moves(t, "base", pc) /\ (pc = "lock_set" => locked["parent"] = 0)
    BY <1>13, <1>f, <1>d, GotoMoves DEF CheckLock
  <2>2. /\ at[t]["base"] = "lock_check"
        /\ "kill" \in warned => "kill" \in warned'
        /\ UNCHANGED <<locked, activity, now, woken, pending, entered>>
    BY <1>13 DEF CheckLock, At, sceneVars, timeVars
  <2>3. Timeouts => LockMoves(t, pc)
    BY <2>1, <2>2 DEF LockMoves
  <2>4. EndKept(t, "base", pc) /\ {at[t]["base"], pc} \subseteq Iteration
    BY <2>1, <2>2 DEF EndKept, Iteration
  <2>5. QED BY <1>d, <2>1, <2>2, <2>3, <2>4, KillOrdinary
<1>14. CASE CheckKill(t)
  <2>1. PICK pc \in {"kill_send", "sleep"} :
           /\ Moves(t, "base", pc)
           /\ pc = "sleep" => ~(TimeoutKill > 0 /\ KillDue)
    BY <1>14, <1>f, <1>d, GotoMoves DEF CheckKill
  <2>2. /\ at[t]["base"] = "kill_check" /\ at'[t]["base"] = pc
        /\ UNCHANGED <<locked, activity, now, woken, pending, entered>>
    BY <1>14, <2>1 DEF CheckKill, At, Moves, sceneVars, timeVars
  <2>3. TimeoutKill > 0 /\ KillWarningDue => "kill" \in warned'
    BY <1>14 DEF CheckKill
  <2>4. "kill" \notin warned' => "kill" \notin warned
    BY <1>14 DEF CheckKill
  <2>5. t = "watcher" /\ at[t]["base"] \in Iteration /\ pc \notin Iteration
    BY <1>d, <1>p, <2>1, <2>2 DEF PlaceOK, MainPcs, Thread, Iteration
  <2>6. DoneHeld'
    <3>1. EndKept(t, "base", pc)
      BY <2>2 DEF EndKept
    <3>2. QED BY <1>d, <2>1, <3>1, DoneStays DEF KillInv
  <2>7. LockSoon' = LockSoon
    <3>1. \A u \in Thread, c \in Context :
             at'[u][c] \in {"lock_set", "forward"} <=> at[u][c] \in {"lock_set", "forward"}
      BY <2>1, <2>2 DEF Moves
    <3>2. QED BY <2>2, <3>1 DEF LockSoon
  <2>8. ASSUME Timeouts, locked["parent"] # 0, pc = "sleep"
        PROVE  After'
    <3>1. PICK low \in Nat, high \in Nat, warn \in Nat, a \in Nat, w \in Nat, l \in Nat :
             /\ low = TimeoutLock /\ high = TimeoutKill /\ warn = WarnBeforeKill /\ low =< high
             /\ a = activity /\ w = woken /\ l = locked["parent"]
      BY <2>8, LimitTypes
    <3>2. /\ l - a =< low + 2
          /\ ToWarn => w - a =< low + 2 \/ w - l =< high - low - warn + 2
          /\ Held = w - l /\ KillLimit = high - low /\ high > 0
      BY <2>2, <2>5, <2>8, <3>1
      DEF KillInv, LockSoon, During, Idle, LockedFor, Held, KillLimit, Timeouts
    <3>3. CASE KillWarningDue
      <4>1. ToWarn /\ warn > 0
        BY <3>1, <3>3 DEF KillWarningDue, ToWarn
      <4>2. w - a =< high + 3
        BY <3>1, <3>2, <4>1
      <4>3. ~ToWarn'
        BY <2>3, <2>8, <3>3 DEF ToWarn, Timeouts
      <4>4. QED BY <2>2, <3>1, <4>2, <4>3 DEF After, Idle
    <3>4. CASE ~KillWarningDue
      <4>1. w - l =< high - low
        BY <2>1, <2>8, <3>1, <3>2, <3>4 DEF KillDue
      <4>2. w - a =< high + 3
        BY <3>1, <3>2, <4>1
      <4>3. ToWarn' => warn > 0 /\ "kill" \notin warned
        BY <2>4, <3>1 DEF ToWarn
      <4>4. ToWarn' => w - l =< high - low - warn
        BY <3>1, <3>2, <3>4, <4>3 DEF KillWarningDue
      <4>5. QED BY <2>2, <3>1, <4>2, <4>4 DEF After, Idle, LockedFor
    <3>5. QED BY <3>3, <3>4
  <2>9. QED BY <2>1, <2>2, <2>5, <2>6, <2>7, <2>8 DEF KillInv, Timeouts
<1>15. CASE CloseInput(t) \/ \E kind \in InputKinds \ {"eof"} : ReadInput(t, kind)
  <2>1. PICK pc \in {"wait", "forward"} :
           Moves(t, "base", pc) /\ (pc = "forward" => locked["parent"] = 0)
    BY <1>15, <1>f, <1>d, GotoMoves DEF CloseInput, ReadInput
  <2>2. t = "main" /\ UNCHANGED <<locked, activity, warned, now, woken, pending, entered>>
    BY <1>15 DEF CloseInput, ReadInput, daemonVars, sceneVars, timeVars
  <2>3. EndKept(t, "base", pc)
    BY <2>2 DEF EndKept
  <2>4. QED BY <1>d, <2>1, <2>2, <2>3, <1>s
<1>16. QED
  BY <1>1, <1>2, <1>3, <1>4, <1>5, <1>6, <1>7, <1>8, <1>9, <1>10, <1>11, <1>12, <1>13,
     <1>14, <1>15
  DEF ThreadStep

LEMMA KillStep ==
    IInv /\ PlacesOK /\ TimeInv /\ WatchInv /\ KillInv /\ [Next]_vars => KillInv'
<1> SUFFICES ASSUME TypeOK, PlacesOK, TimeInv, WatchInv, KillInv, [Next]_vars
             PROVE  KillInv'
  BY DEF IInv
<1>1. CASE \E t \in Thread :
              ThreadStep(t) \/ CloseInput(t)
                 \/ \E kind \in InputKinds \ {"eof"} : ReadInput(t, kind)
  BY <1>1, KillThreadStep
<1>2. CASE ProgramEnds \/ UNCHANGED vars
              \/ \E targets \in OperatorTargets, sig \in OperatorSignals :
                    OperatorSends(targets, sig)
  <2>1. /\ UNCHANGED <<at, locked, activity, warned, now, woken, entered>>
        /\ "TERM" \in pending["child"] => "TERM" \in pending'["child"]
    BY <1>2
    DEF ProgramEnds, OperatorSends, vars, daemonVars, frameVars, sceneVars, timeVars, Proc
  <2>2. Doomed => Doomed'
    BY <2>1 DEF Doomed
  <2>3. QED
    BY <2>1, <2>2
    DEF KillInv, DoneHeld, LockSoon, During, After, Ending, ToWarn, Idle, LockedFor
<1>3. CASE Tick
  <2>1. /\ now' = now + 1 /\ Settled /\ (HasWatcher => now - woken =< 1)
        /\ UNCHANGED <<at, locked, activity, warned, woken, entered, pending>>
    BY <1>3 DEF Tick, daemonVars, frameVars, sceneVars
  <2>2. \A t \in Thread : /\ at[t]["base"] \in {"read", "wait", "sleep"}
                          /\ \A c \in Context \ {"base"} : at[t][c] = "idle"
    BY <2>1 DEF Settled, Resting
  <2>3. /\ \A t \in Thread, c \in Context : at[t][c] \notin {"lock_set", "forward"}
        /\ \A t \in Thread : t = "watcher" => at[t]["base"] = "sleep"
    BY <2>2 DEF PlacesOK, PlaceOK, Context, WatcherPcs
  <2>4. ~Doomed
    <3>1. {"TERM", "done"} \subseteq Context \ {"base"} /\ "child" \in Thread
      BY DEF Context, Signal, Thread
    <3>2. ~entered /\ at["child"]["TERM"] = "idle"
      BY <2>2, <3>1 DEF KillInv, DoneHeld
    <3>3. pending["child"] = {}
      BY <2>1 DEF Settled, Proc
    <3>4. QED BY <3>2, <3>3 DEF Doomed
  <2>5. SUFFICES ASSUME Timeouts
                 PROVE  /\ LockSoon'
                        /\ now' - activity =< TimeoutKill + 5
    BY <2>1, <2>3, <2>4
    DEF KillInv, DoneHeld, During, After, Ending, Doomed, ToWarn, Idle, LockedFor, Timeouts,
        Iteration
  <2>6. "watcher" \in Thread
    BY <2>5 DEF Timeouts, HasWatcher, Thread
  <2>7. PICK low \in Nat, high \in Nat, a \in Nat, n \in Nat, w \in Nat :
           /\ low = TimeoutLock /\ high = TimeoutKill /\ low =< high
           /\ a = activity /\ n = now /\ w = woken
    BY <2>5, LimitTypes
  <2>8. n + 1 =< w + 2
    BY <2>1, <2>5, <2>7 DEF HasWatcher, Timeouts
  <2>9. locked["parent"] = 0 => w - a =< low
    BY <2>3, <2>5, <2>6, <2>7 DEF WatchInv, Timeouts
  <2>10. locked["parent"] # 0 => w - a =< high + 3
    BY <2>3, <2>4, <2>5, <2>6, <2>7 DEF KillInv, Ending, After, Idle
  <2>11. /\ locked["parent"] = 0 => (n + 1) - a =< low + 2
         /\ (n + 1) - a =< high + 5
    BY <2>7, <2>8, <2>9, <2>10
  <2>12. LockSoon
    BY <2>5 DEF KillInv
  <2>13. QED BY <2>1, <2>3, <2>7, <2>11, <2>12 DEF LockSoon
<1>4. QED BY <1>1, <1>2, <1>3 DEF Next, Surroundings

LEMMA KillInductive == Spec => [](IInv /\ PlacesOK /\ KillInv)
<1>1. Init => KillInv
  <2> SUFFICES ASSUME Init PROVE KillInv
    OBVIOUS
  <2>1. /\ activity = 1 /\ now = 1 /\ locked["parent"] = 0 /\ entered = FALSE
        /\ \A t \in Thread, c \in Context : at[t][c] \notin {"lock_set", "forward"}
    BY DEF Init, Proc
  <2>2. PICK low \in Nat, high \in Nat : low = TimeoutLock /\ high = TimeoutKill
    BY OptionsAssumption
  <2>3. QED BY <2>1, <2>2 DEF KillInv, DoneHeld, LockSoon
<1>2. QED BY <1>1, KillStep, WatchInductive, PTL DEF Spec

\* A session whose user is idle is killed within the kill timeout and five seconds: the
\* lag of the lock, that of the kill, and one iteration spent on the warning.
THEOREM AlwaysKilledInTime == Spec => []KilledInTime
<1>1. KillInv => KilledInTime
  <2>1. TimeoutKill + 5 = TimeoutKill + 2 * 2 + 1
    BY OptionsAssumption
  <2>2. QED BY <2>1 DEF KillInv, KilledInTime, Timeouts, WatcherLag
<1>2. QED BY <1>1, KillInductive, PTL
----------------------------------------------------------------------------
(* The last command.  When everything rests before a command is given, what  *)
(* it sets off goes one way: a lock makes no process unlock, nor an unlock   *)
(* one lock, unless the session ends; and one of the processes has done what *)
(* was asked for, or is going to.                                            *)

LockStages == {"lock_test", "lock_set", "lock_send"}
UnlockStages == {"unlock_test", "unlock_set", "unlock_send"}

\* The byte that completes the lock sequence has been read, and not yet acted on.
LockTyped == typed = "lock" /\ \E t \in Thread : at[t]["base"] = "forward"

NoLock ==
    /\ \A t \in Thread, c \in Context : at[t][c] \notin LockStages
    /\ \A p \in Proc : "URG" \notin pending[p]
    /\ ~LockTyped
NoUnlock ==
    /\ \A t \in Thread, c \in Context : at[t][c] \notin UnlockStages
    /\ \A p \in Proc : "USR2" \notin pending[p]

SomeLock == LockTyped \/ \E p \in Proc : locked[p] # 0 \/ LockComing(p)
SomeUnlock == \E p \in Proc : locked[p] = 0 \/ UnlockComing(p)

Obeying ==
    /\ wanted = "lock" => Doomed \/ (NoUnlock /\ SomeLock)
    /\ wanted = "unlock" => NoLock /\ SomeUnlock

\* Whoever waits, and only commands and keys lock.
Patient == OperatorWaits /\ TimeoutLock = 0

CommandInv == Patient /\ ~exited => Obeying

\* Program counters, signals and locks of a step that adds no lock (no unlock).
LEMMA KeepNoLock ==
    ASSUME NoLock, NEW u \in Thread, NEW d \in Context, NEW pc, Moves(u, d, pc),
           pc \notin LockStages, LockTyped' => LockTyped,
           \A p \in Proc : "URG" \in pending'[p] => "URG" \in pending[p]
    PROVE  NoLock'
<1>1. ASSUME NEW t \in Thread, NEW c \in Context PROVE at'[t][c] \notin LockStages
  BY DEF Moves, NoLock
<1>2. QED BY <1>1 DEF NoLock

LEMMA KeepNoUnlock ==
    ASSUME NoUnlock, NEW u \in Thread, NEW d \in Context, NEW pc, Moves(u, d, pc),
           pc \notin UnlockStages,
           \A p \in Proc : "USR2" \in pending'[p] => "USR2" \in pending[p]
    PROVE  NoUnlock'
<1>1. ASSUME NEW t \in Thread, NEW c \in Context PROVE at'[t][c] \notin UnlockStages
  BY DEF Moves, NoUnlock
<1>2. QED BY <1>1 DEF NoUnlock

\* A step of a lock happens only after a lock, and leaves something of it behind.
LEMMA LockGoesOn ==
    ASSUME Obeying, ~NoLock, NEW u \in Thread, NEW d \in Context, NEW pc, Moves(u, d, pc),
           pc \notin UnlockStages, wanted' = wanted, Doomed => Doomed', SomeLock',
           \A p \in Proc : "USR2" \in pending'[p] => "USR2" \in pending[p]
    PROVE  Obeying'
<1>1. wanted # "unlock"
  BY DEF Obeying
<1>2. NoUnlock => NoUnlock'
  BY KeepNoUnlock
<1>3. QED BY <1>1, <1>2 DEF Obeying

\* A step of an unlock happens only after an unlock, or when the session ends.
LEMMA UnlockGoesOn ==
    ASSUME Obeying, ~NoUnlock, NEW u \in Thread, NEW d \in Context, NEW pc, Moves(u, d, pc),
           pc \notin LockStages, wanted' = wanted, Doomed => Doomed', SomeUnlock',
           LockTyped' => LockTyped,
           \A p \in Proc : "URG" \in pending'[p] => "URG" \in pending[p]
    PROVE  Obeying'
<1>1. wanted = "lock" => Doomed'
  BY DEF Obeying
<1>2. NoLock => NoLock'
  BY KeepNoLock
<1>3. QED BY <1>1, <1>2 DEF Obeying

\* Any other step leaves both alone, except that the end of a session unlocks.
LEMMA NeitherGoesOn ==
    ASSUME Obeying, NEW u \in Thread, NEW d \in Context, NEW pc, Moves(u, d, pc),
           {at[u][d], pc} \cap LockStages = {}, at[u][d] \notin UnlockStages,
           pc \in UnlockStages => Doomed', wanted' = wanted, Doomed => Doomed',
           LockTyped' <=> LockTyped, locked' = locked,
           \A p \in Proc, sig \in {"URG", "USR2"} : sig \in pending'[p] <=> sig \in pending[p]
    PROVE  Obeying'
<1>1. NoLock => NoLock'
  BY KeepNoLock
<1>2. NoUnlock => NoUnlock' \/ Doomed'
  BY KeepNoUnlock
<1>3. SomeLock => SomeLock'
  <2>1. ASSUME NEW p \in Proc, LockComing(p) PROVE LockComing(p)'
    BY <2>1, KeepLock DEF LockStages
  <2>2. QED BY <2>1 DEF SomeLock
<1>4. SomeUnlock => SomeUnlock'
  <2>1. ASSUME NEW p \in Proc, UnlockComing(p) PROVE UnlockComing(p)'
    BY <2>1, KeepUnlock DEF UnlockStages
  <2>2. QED BY <2>1 DEF SomeUnlock
<1>5. QED BY <1>1, <1>2, <1>3, <1>4 DEF Obeying

\* When everything rests, nothing is on its way.
LEMMA Quiet ==
    ASSUME Settled, DoneHeld
    PROVE  /\ NoLock /\ NoUnlock /\ ~Doomed
           /\ \A p \in Proc : ~LockComing(p) /\ ~UnlockComing(p)
<1>1. /\ \A t \in Thread, c \in Context :
            at[t][c] \notin LockStages \cup UnlockStages \cup {"forward"}
      /\ \A p \in Proc : pending[p] = {}
  BY DEF Settled, Resting, LockStages, UnlockStages
<1>2. "base" \in Context
  BY DEF Context
<1>3. NoLock /\ NoUnlock
  BY <1>1, <1>2 DEF NoLock, NoUnlock, LockTyped
<1>4. \A p \in Proc : ~LockComing(p) /\ ~UnlockComing(p)
  BY <1>1 DEF LockComing, UnlockComing, LockStages, UnlockStages
<1>5. ~Doomed
  <2>1. {"TERM", "done"} \subseteq Context \ {"base"} /\ "child" \in Thread
    BY DEF Context, Signal, Thread
  <2>2. ~entered /\ at["child"]["TERM"] = "idle"
    BY <2>1 DEF Settled, Resting, DoneHeld
  <2>3. QED BY <1>1, <2>2 DEF Doomed, Proc
<1>6. QED BY <1>3, <1>4, <1>5

LEMMA ObeyThreadStep ==
    ASSUME TypeOK, DoneIdle, PlacesOK, Patient, Obeying, ~exited', NEW t \in Thread, ThreadStep(t)
    PROVE  Obeying'
<1>f. FramesOK
  BY DEF TypeOK, FramesOK
<1>d. {"base", "done", "TERM", "URG", "USR2"} \subseteq Context
  BY DEF Context, Signal
<1>p. \A c \in Context : PlaceOK(t, c, at[t][c])
  BY DEF PlacesOK
<1>q. ProcOf(t) \in Proc /\ Peer(ProcOf(t)) \in Proc /\ ProcOf(t) # Peer(ProcOf(t))
  BY ProcFacts
<1>c. locked \in [Proc -> Nat] /\ pending \in [Proc -> SUBSET Signal] /\ now \in Nat
  BY DEF TypeOK
<1>t. \* What a step that is not the keyboard's leaves of a typed lock.
  ASSUME NEW d \in Context, NEW pc, Moves(t, d, pc), typed' = typed,
         "forward" \notin {at[t][d], pc}
  PROVE  LockTyped' <=> LockTyped
  <2>1. \A u \in Thread : at'[u]["base"] = "forward" <=> at[u]["base"] = "forward"
    BY <1>t, <1>d DEF Moves
  <2>2. QED BY <1>t, <2>1 DEF LockTyped
<1>n. \* A step at no stage of a lock or unlock.
  ASSUME NEW d \in Context, NEW pc, Moves(t, d, pc), EndKept(t, d, pc),
         {at[t][d], pc} \cap LockStages = {}, at[t][d] \notin UnlockStages,
         pc \in UnlockStages => Doomed', UNCHANGED <<wanted, typed, locked>>,
         "forward" \notin {at[t][d], pc},
         \A p \in Proc, sig \in {"URG", "USR2"} : sig \in pending'[p] <=> sig \in pending[p]
  PROVE  Obeying'
  <2>1. (LockTyped' <=> LockTyped) /\ (Doomed => Doomed')
    BY <1>n, <1>t, DoomedStays
  <2>2. QED BY <1>n, <2>1, NeitherGoesOn
<1>1. ASSUME NEW sig \in Signal, Deliver(t, sig) PROVE Obeying'
  <2>1. sig \in Context /\ sig \notin {"base", "done"}
    BY DEF Context, Signal
  <2>2. PICK pc : /\ Moves(t, sig, pc) /\ at[t][sig] = "idle"
                  /\ pc = IF sig = "URG" THEN "lock_test" ELSE "unlock_test"
    BY <1>1, <1>f, <2>1, EnterMoves DEF Deliver
  <2>3. /\ UNCHANGED <<locked, typed, entered, wanted>> /\ sig \in pending[ProcOf(t)]
        /\ pending' = [pending EXCEPT ![ProcOf(t)] = @ \ {sig}]
    BY <1>1 DEF Deliver, daemonVars, sceneVars
  <2>4. EndKept(t, sig, pc)
    <3>1. "TERM" \in pending["child"] => "TERM" \in pending'["child"] \/ (t = "child" /\ sig = "TERM")
      BY <1>c, <2>3 DEF ProcOf, Proc
    <3>2. QED BY <2>1, <2>2, <2>3, <3>1 DEF EndKept
  <2>5. (Doomed => Doomed') /\ (LockTyped' <=> LockTyped)
    BY <1>t, <2>1, <2>2, <2>3, <2>4, DoomedStays
  <2>6. \A p \in Proc : pending'[p] \subseteq pending[p]
    BY <1>c, <2>3
  <2>7. CASE sig = "URG"
    <3>1. ~NoLock
      BY <1>q, <2>3, <2>7 DEF NoLock
    <3>2. LockComing(ProcOf(t))'
      BY <2>1, <2>2, <2>7 DEF Moves, LockComing
    <3>3. SomeLock' /\ pc \notin UnlockStages
      BY <1>q, <2>2, <2>7, <3>2 DEF SomeLock, UnlockStages
    <3>4. QED BY <2>1, <2>2, <2>3, <2>5, <2>6, <3>1, <3>3, LockGoesOn
  <2>8. CASE sig = "USR2"
    <3>1. ~NoUnlock
      BY <1>q, <2>3, <2>8 DEF NoUnlock
    <3>2. UnlockComing(ProcOf(t))'
      BY <2>1, <2>2, <2>8 DEF Moves, UnlockComing
    <3>3. SomeUnlock' /\ pc \notin LockStages
      BY <1>q, <2>2, <2>8, <3>2 DEF SomeUnlock, LockStages
    <3>4. QED BY <2>1, <2>2, <2>3, <2>5, <2>6, <3>1, <3>3, UnlockGoesOn
  <2>9. CASE sig = "TERM"
    <3>1. ProcOf(t) = "child" /\ t = "child"
      BY <2>3, <2>9 DEF PlacesOK, ProcOf
    <3>2. Doomed'
      BY <2>1, <2>2, <2>9, <3>1 DEF Moves, Doomed
    <3>3. \A p \in Proc, s \in {"URG", "USR2"} : s \in pending'[p] <=> s \in pending[p]
      BY <1>c, <2>3, <2>9
    <3>4. {at[t][sig], pc} \cap LockStages = {} /\ at[t][sig] \notin UnlockStages
      BY <2>2, <2>9 DEF LockStages, UnlockStages
    <3>5. QED BY <2>1, <2>2, <2>3, <2>5, <3>2, <3>3, <3>4, NeitherGoesOn
  <2>10. QED BY <2>7, <2>8, <2>9 DEF Signal
<1>2. CASE LockTest(t)
  <2>1. PICK pc \in {"idle", "lock_set"} : /\ Moves(t, "URG", pc)
                                           /\ locked[ProcOf(t)] = 0 => pc = "lock_set"
    BY <1>2, <1>f, <1>d, GotoMoves, ReturnMoves DEF LockTest
  <2>2. UNCHANGED <<locked, entered, pending, wanted>> /\ at[t]["URG"] = "lock_test"
    BY <1>2 DEF LockTest, At, daemonVars, sceneVars, historyVars
  <2>3. EndKept(t, "URG", pc)
    BY <2>2 DEF EndKept
  <2>4. Doomed => Doomed'
    BY <1>d, <2>1, <2>3, DoomedStays
  <2>5. ~NoLock
    BY <1>d, <2>2 DEF NoLock, LockStages
  <2>6. SomeLock'
    <3>1. CASE locked[ProcOf(t)] # 0
      BY <1>q, <2>2, <3>1 DEF SomeLock
    <3>2. CASE locked[ProcOf(t)] = 0
      <4>1. LockComing(ProcOf(t))'
        BY <1>d, <2>1, <3>2 DEF Moves, LockComing
      <4>2. QED BY <1>q, <4>1 DEF SomeLock
    <3>3. QED BY <3>1, <3>2
  <2>7. QED BY <1>d, <2>1, <2>2, <2>4, <2>5, <2>6, LockGoesOn DEF UnlockStages
<1>3. CASE EndSession(t) \/ OutputEnds(t)
  <2>1. PICK d \in {"TERM", "done"}, pc \in {"idle", "unlock_test"} :
           /\ Moves(t, d, pc)
           /\ d = "done" => pc # "idle" /\ ~entered /\ entered' = TRUE
           /\ d = "TERM" => pc = "idle" /\ entered /\ entered' = entered /\ at[t][d] = "kill_shell"
    BY <1>3, <1>f, <1>d, EnterMoves, ReturnMoves DEF EndSession, OutputEnds, At
  <2>2. UNCHANGED <<locked, pending, wanted, typed>>
    BY <1>3 DEF EndSession, OutputEnds, daemonVars, historyVars
  <2>3. EndKept(t, d, pc)
    BY <2>1, <2>2 DEF EndKept
  <2>4. pc \in UnlockStages => Doomed'
    BY <2>1 DEF Doomed, UnlockStages
  <2>5. at[t][d] \notin UnlockStages \cup LockStages \cup {"forward"}
    <3>1. d = "done" => at[t][d] = "idle"
      BY <2>1 DEF DoneIdle
    <3>2. QED BY <2>1, <3>1 DEF LockStages, UnlockStages
  <2>6. QED BY <1>d, <1>n, <2>1, <2>2, <2>3, <2>4, <2>5 DEF LockStages
<1>4. CASE ChildExit(t)
  BY <1>4 DEF ChildExit
<1>5. ASSUME NEW c \in Context, LockSet(t, c) PROVE Obeying'
  <2>1. Moves(t, c, "lock_send") /\ at[t][c] = "lock_set"
    BY <1>5, <1>f, GotoMoves DEF LockSet, At
  <2>2. UNCHANGED <<pending, entered, wanted>>
    BY <1>5 DEF LockSet, sceneVars, historyVars
  <2>3. LockComing(Peer(ProcOf(t)))'
    BY <1>q, <2>1 DEF Moves, LockComing
  <2>4. SomeLock' /\ ~NoLock
    BY <1>q, <2>1, <2>3 DEF SomeLock, NoLock, LockStages
  <2>5. c \notin {"TERM", "done"}
    BY <1>p, <2>1 DEF PlaceOK, UnlockPcs
  <2>6. EndKept(t, c, "lock_send")
    BY <2>2, <2>5 DEF EndKept
  <2>7. Doomed => Doomed'
    BY <2>1, <2>6, DoomedStays
  <2>8. QED BY <2>1, <2>2, <2>4, <2>7, LockGoesOn DEF UnlockStages
<1>6. ASSUME NEW c \in Context, LockSend(t, c) PROVE Obeying'
  <2>1. PICK pc \in {"idle", "read", "draw", "kill_check"} : Moves(t, c, pc)
    BY <1>6, <1>f, GotoMoves, FinishLockMoves DEF LockSend
  <2>2. UNCHANGED <<locked, entered, wanted>> /\ at[t][c] = "lock_send"
    BY <1>6 DEF LockSend, At, daemonVars, sceneVars, historyVars
  <2>3. /\ pending' = [pending EXCEPT ![Peer(ProcOf(t))] = @ \cup {"URG"}]
        /\ "URG" \in pending'[Peer(ProcOf(t))]
    BY <1>6, <1>c, <1>q DEF LockSend, Kill
  <2>4. SomeLock' /\ ~NoLock
    BY <1>q, <2>2, <2>3 DEF SomeLock, LockComing, NoLock, LockStages
  <2>5. c \notin {"TERM", "done"}
    BY <1>p, <2>2 DEF PlaceOK, UnlockPcs
  <2>6. EndKept(t, c, pc)
    BY <1>c, <2>2, <2>3, <2>5 DEF EndKept, Proc
  <2>7. Doomed => Doomed'
    BY <2>1, <2>6, DoomedStays
  <2>8. \A p \in Proc : "USR2" \in pending'[p] => "USR2" \in pending[p]
    BY <1>c, <2>3
  <2>9. QED BY <2>1, <2>2, <2>4, <2>7, <2>8, LockGoesOn DEF UnlockStages
<1>7. ASSUME NEW c \in Context, UnlockTest(t, c) PROVE Obeying'
  <2>1. /\ at[t][c] = "unlock_test" /\ UNCHANGED <<locked, pending, entered, wanted, typed>>
        /\ c \in {"USR2", "TERM", "done"}
    BY <1>7, <1>p
    DEF UnlockTest, At, sceneVars, historyVars, PlaceOK, MainPcs, WatcherPcs, LockPcs, Context,
        Signal
  <2>2. PICK pc : /\ Moves(t, c, pc)
                  /\ pc \in {"idle", "kill_shell", "exit", "unlock_set"}
                  /\ pc = "idle" => c = "USR2"
                  /\ locked[ProcOf(t)] # 0 => pc = "unlock_set"
    <3>1. CASE locked[ProcOf(t)] = 0
      BY <1>7, <1>f, <1>p, <2>1, <3>1, FinishUnlockPlace DEF UnlockTest
    <3>2. CASE locked[ProcOf(t)] # 0
      BY <1>7, <1>f, <3>2, GotoMoves DEF UnlockTest
    <3>3. QED BY <3>1, <3>2
  <2>3. EndKept(t, c, pc)
    BY <2>1, <2>2 DEF EndKept
  <2>4. (Doomed => Doomed') /\ (LockTyped' <=> LockTyped)
    BY <1>t, <2>1, <2>2, <2>3, DoomedStays
  <2>5. ~NoUnlock
    BY <2>1 DEF NoUnlock, UnlockStages
  <2>6. SomeUnlock'
    <3>1. CASE locked[ProcOf(t)] = 0
      BY <1>q, <2>1, <3>1 DEF SomeUnlock
    <3>2. CASE locked[ProcOf(t)] # 0
      <4>1. UnlockComing(ProcOf(t))'
        BY <2>2, <3>2 DEF Moves, UnlockComing
      <4>2. QED BY <1>q, <4>1 DEF SomeUnlock
    <3>3. QED BY <3>1, <3>2
  <2>7. QED BY <2>1, <2>2, <2>4, <2>5, <2>6, UnlockGoesOn DEF LockStages
<1>8. ASSUME NEW c \in Context, UnlockSet(t, c) PROVE Obeying'
  <2>1. Moves(t, c, "unlock_send") /\ at[t][c] = "unlock_set"
    BY <1>8, <1>f, GotoMoves DEF UnlockSet, At
  <2>2. UNCHANGED <<pending, entered, wanted, typed>>
    BY <1>8 DEF UnlockSet, sceneVars
  <2>3. UnlockComing(Peer(ProcOf(t)))'
    BY <1>q, <2>1 DEF Moves, UnlockComing
  <2>4. SomeUnlock' /\ ~NoUnlock
    BY <1>q, <2>1, <2>3 DEF SomeUnlock, NoUnlock, UnlockStages
  <2>5. EndKept(t, c, "unlock_send")
    BY <2>2 DEF EndKept
  <2>6. (Doomed => Doomed') /\ (LockTyped' <=> LockTyped)
    BY <1>t, <2>1, <2>2, <2>5, DoomedStays
  <2>7. QED BY <2>1, <2>2, <2>4, <2>6, UnlockGoesOn DEF LockStages
<1>9. ASSUME NEW c \in Context, UnlockSend(t, c) PROVE Obeying'
  <2>1. PICK pc \in {"restore", "redraw"} : Moves(t, c, pc)
    BY <1>9, <1>f, GotoMoves DEF UnlockSend
  <2>2. UNCHANGED <<locked, entered, wanted, typed>> /\ at[t][c] = "unlock_send"
    BY <1>9 DEF UnlockSend, At, daemonVars, sceneVars, historyVars
  <2>3. /\ pending' = [pending EXCEPT ![Peer(ProcOf(t))] = @ \cup {"USR2"}]
        /\ "USR2" \in pending'[Peer(ProcOf(t))]
    BY <1>9, <1>c, <1>q DEF UnlockSend, Kill
  <2>4. SomeUnlock' /\ ~NoUnlock
    BY <1>q, <2>2, <2>3 DEF SomeUnlock, UnlockComing, NoUnlock, UnlockStages
  <2>5. EndKept(t, c, pc)
    BY <1>c, <2>1, <2>2, <2>3 DEF EndKept, Proc
  <2>6. (Doomed => Doomed') /\ (LockTyped' <=> LockTyped)
    BY <1>t, <2>1, <2>2, <2>5, DoomedStays
  <2>7. \A p \in Proc : "URG" \in pending'[p] => "URG" \in pending[p]
    BY <1>c, <2>3
  <2>8. QED BY <2>1, <2>2, <2>4, <2>6, <2>7, UnlockGoesOn DEF LockStages
<1>10. ASSUME NEW c \in Context, DrawLock(t, c) \/ Redraw(t, c) \/ RestoreScreen(t, c)
       PROVE  Obeying'
  <2>1. /\ at[t][c] \in {"draw", "redraw", "restore"}
        /\ UNCHANGED <<locked, pending, entered, wanted, typed>>
        /\ FinishLock(t, c) \/ FinishUnlock(t, c)
    BY <1>10 DEF DrawLock, Redraw, RestoreScreen, At, daemonVars, sceneVars, historyVars
  <2>2. PICK pc : /\ Moves(t, c, pc)
                  /\ pc \in {"idle", "read", "kill_check", "kill_shell", "exit"}
                  /\ pc = "idle" => c \notin {"TERM", "done"}
    <3>1. CASE at[t][c] = "draw"
      <4>1. c = "URG" /\ FinishLock(t, c)
        BY <1>10, <1>p, <3>1
        DEF DrawLock, Redraw, RestoreScreen, At, PlaceOK, MainPcs, WatcherPcs, UnlockPcs, Context,
            Signal
      <4>2. QED BY <1>f, <4>1, FinishLockMoves
    <3>2. CASE at[t][c] \in {"redraw", "restore"}
      <4>1. FinishUnlock(t, c)
        BY <1>10, <3>2 DEF DrawLock, Redraw, RestoreScreen, At
      <4>2. QED BY <1>f, <1>p, <3>2, <4>1, FinishUnlockPlace
    <3>3. QED BY <2>1, <3>1, <3>2
  <2>3. EndKept(t, c, pc)
    BY <2>1, <2>2 DEF EndKept
  <2>4. QED BY <1>n, <2>1, <2>2, <2>3 DEF LockStages, UnlockStages
<1>11. CASE Forward(t)
  <2>1. PICK pc : /\ Moves(t, "base", pc)
                  /\ pc = [plain |-> "read", lock |-> "lock_set", kill |-> "kill_send"][typed]
    BY <1>11, <1>f, <1>d, GotoMoves DEF Forward
  <2>2. /\ UNCHANGED <<locked, pending, entered, wanted>> /\ typed' = "plain"
        /\ at[t]["base"] = "forward"
    BY <1>11 DEF Forward, At
  <2>3. EndKept(t, "base", pc)
    BY <2>2 DEF EndKept
  <2>4. (Doomed => Doomed') /\ ~LockTyped'
    BY <1>d, <2>1, <2>2, <2>3, DoomedStays DEF LockTyped
  <2>5. CASE typed = "lock"
    <3>1. pc = "lock_set" /\ LockTyped
      BY <2>1, <2>2, <2>5 DEF LockTyped
    <3>2. LockComing(ProcOf(t))'
      BY <1>d, <2>1, <3>1 DEF Moves, LockComing
    <3>3. SomeLock' /\ ~NoLock
      BY <1>q, <3>1, <3>2 DEF SomeLock, NoLock
    <3>4. QED BY <1>d, <2>1, <2>2, <2>4, <3>1, <3>3, LockGoesOn DEF UnlockStages
  <2>6. CASE typed # "lock"
    <3>1. pc \in {"read", "kill_send"} /\ ~LockTyped
      BY <2>1, <2>6 DEF TypeOK, LockTyped
    <3>2. QED BY <1>d, <2>1, <2>2, <2>4, <3>1, NeitherGoesOn DEF LockStages, UnlockStages
  <2>7. QED BY <2>5, <2>6
<1>12. CASE SendKill(t)
  <2>1. PICK pc \in {"read", "sleep"} : Moves(t, "base", pc)
    BY <1>12, <1>f, <1>d, GotoMoves DEF SendKill
  <2>2. /\ UNCHANGED <<locked, entered, wanted, typed>> /\ at[t]["base"] = "kill_send"
        /\ pending' = [pending EXCEPT !["child"] = @ \cup {"TERM"}]
    BY <1>12 DEF SendKill, At, Kill, daemonVars, sceneVars, historyVars
  <2>3. \A p \in Proc, sig \in {"URG", "USR2"} : sig \in pending'[p] <=> sig \in pending[p]
    BY <1>c, <2>2
  <2>4. EndKept(t, "base", pc)
    BY <1>c, <2>2 DEF EndKept, Proc
  <2>5. QED BY <1>d, <1>n, <2>1, <2>2, <2>3, <2>4 DEF LockStages, UnlockStages
<1>13. CASE WatcherWakes(t) \/ CheckLock(t) \/ CheckKill(t)
  <2>1. ~LockDue
    BY DEF Patient, LockDue
  <2>2. PICK pc \in {"lock_check", "kill_check", "kill_send", "sleep"} : Moves(t, "base", pc)
    BY <1>13, <1>f, <1>d, <2>1, GotoMoves DEF WatcherWakes, CheckLock, CheckKill
  <2>3. /\ at[t]["base"] \in {"sleep", "lock_check", "kill_check"}
        /\ UNCHANGED <<locked, pending, entered, wanted, typed>>
    BY <1>13 DEF WatcherWakes, CheckLock, CheckKill, At, daemonVars, sceneVars, historyVars
  <2>4. EndKept(t, "base", pc)
    BY <2>3 DEF EndKept
  <2>5. QED BY <1>d, <1>n, <2>2, <2>3, <2>4 DEF LockStages, UnlockStages
<1>14. QED
  BY <1>1, <1>2, <1>3, <1>4, <1>5, <1>6, <1>7, <1>8, <1>9, <1>10, <1>11, <1>12, <1>13
  DEF ThreadStep

\* What a command, or the byte that completes the lock sequence, starts.
LEMMA ObeyKeyboard ==
    ASSUME TypeOK, DoneHeld, Patient, Obeying, NEW t \in Thread,
           CloseInput(t) \/ \E kind \in InputKinds \ {"eof"} : ReadInput(t, kind)
    PROVE  Obeying'
<1>f. FramesOK /\ "base" \in Context
  BY DEF TypeOK, FramesOK, Context
<1>1. CASE CloseInput(t)
  <2>1. Moves(t, "base", "wait") /\ at[t]["base"] = "read"
    BY <1>1, <1>f, GotoMoves DEF CloseInput, At
  <2>2. UNCHANGED <<locked, pending, entered, wanted, typed>>
    BY <1>1 DEF CloseInput, daemonVars, sceneVars, historyVars
  <2>3. Doomed => Doomed'
    <3>1. EndKept(t, "base", "wait")
      BY <2>2 DEF EndKept
    <3>2. QED BY <1>f, <2>1, <3>1, DoomedStays
  <2>4. LockTyped' <=> LockTyped
    <3>1. \A u \in Thread : at'[u]["base"] = "forward" <=> at[u]["base"] = "forward"
      BY <1>f, <2>1 DEF Moves
    <3>2. QED BY <2>2, <3>1 DEF LockTyped
  <2>5. QED BY <1>f, <2>1, <2>2, <2>3, <2>4, NeitherGoesOn DEF LockStages, UnlockStages
<1>2. CASE \E kind \in InputKinds \ {"eof"} : ReadInput(t, kind)
  <2>1. PICK kind \in InputKinds \ {"eof"} : ReadInput(t, kind)
    BY <1>2
  <2>2. Moves(t, "base", "forward") /\ at[t]["base"] = "read"
    BY <1>f, <2>1, GotoMoves DEF ReadInput, At
  <2>3. /\ Settled /\ UNCHANGED <<locked, pending, entered>> /\ typed' = kind
        /\ wanted' = IF kind = "lock" THEN "lock" ELSE wanted
    BY <2>1 DEF ReadInput, Patient, daemonVars
  <2>4. NoLock /\ NoUnlock /\ ~Doomed /\ ~LockTyped
    BY <2>3, Quiet DEF NoLock
  <2>5. CASE kind = "lock"
    <3>1. at'[t]["base"] = "forward"
      BY <2>2 DEF Moves
    <3>2. SomeLock'
      BY <2>3, <2>5, <3>1 DEF SomeLock, LockTyped
    <3>3. NoUnlock'
      BY <1>f, <2>2, <2>3, <2>4, KeepNoUnlock DEF UnlockStages
    <3>4. QED BY <2>3, <2>5, <3>2, <3>3 DEF Obeying
  <2>6. CASE kind # "lock"
    <3>1. ~LockTyped'
      BY <2>3, <2>6 DEF LockTyped
    <3>2. QED
      BY <1>f, <2>2, <2>3, <2>4, <2>6, <3>1, NeitherGoesOn DEF LockStages, UnlockStages
  <2>7. QED BY <2>5, <2>6
<1>3. QED BY <1>1, <1>2

LEMMA ObeyOperator ==
    ASSUME TypeOK, DoneHeld, Patient, NEW targets \in OperatorTargets,
           NEW sig \in OperatorSignals, OperatorSends(targets, sig)
    PROVE  Obeying'
<1>1. /\ Settled /\ UNCHANGED <<at, locked, typed>>
      /\ pending' = [p \in Proc |-> IF p \in targets THEN pending[p] \cup {sig} ELSE pending[p]]
      /\ wanted' = IF sig = "URG" THEN "lock" ELSE "unlock"
  BY DEF OperatorSends, Patient, daemonVars, sceneVars
<1>2. NoLock /\ NoUnlock
  BY <1>1, Quiet
<1>3. sig \in {"URG", "USR2"} /\ targets # {} /\ targets \subseteq Proc
  BY OptionsAssumption DEF Proc
<1>4. PICK p \in Proc : sig \in pending'[p]
  BY <1>1, <1>3
<1>5. CASE sig = "URG"
  <2>1. SomeLock'
    BY <1>4, <1>5 DEF SomeLock, LockComing
  <2>2. NoUnlock'
    <3>1. \A q \in Proc : "USR2" \notin pending'[q]
      BY <1>1, <1>2, <1>5 DEF NoUnlock
    <3>2. QED BY <1>1, <1>2, <3>1 DEF NoUnlock
  <2>3. QED BY <1>1, <1>5, <2>1, <2>2 DEF Obeying
<1>6. CASE sig = "USR2"
  <2>1. SomeUnlock'
    BY <1>4, <1>6 DEF SomeUnlock, UnlockComing
  <2>2. NoLock'
    <3>1. \A q \in Proc : "URG" \notin pending'[q]
      BY <1>1, <1>2, <1>6 DEF NoLock
    <3>2. QED BY <1>1, <1>2, <3>1 DEF NoLock, LockTyped
  <2>3. QED BY <1>1, <1>6, <2>1, <2>2 DEF Obeying
<1>7. QED BY <1>3, <1>5, <1>6

LEMMA CommandStep ==
    IInv /\ PlacesOK /\ DoneHeld /\ CommandInv /\ [Next]_vars => CommandInv'
<1> SUFFICES ASSUME TypeOK, DoneIdle, PlacesOK, DoneHeld, CommandInv, [Next]_vars, Patient,
                    ~exited'
             PROVE  Obeying'
  BY DEF IInv, CommandInv, Patient
<1>1. ~exited
  BY DEF Next, ThreadStep, Surroundings, Deliver, LockTest, EndSession, OutputEnds,
         ChildExit, LockSet, LockSend, DrawLock, UnlockTest, UnlockSet, UnlockSend, Redraw,
         RestoreScreen, Forward, SendKill, WatcherWakes, CheckLock, CheckKill, ReadInput,
         CloseInput, OperatorSends, ProgramEnds, Tick, vars, sceneVars, At
<1>2. Obeying
  BY <1>1 DEF CommandInv
<1>3. CASE \E t \in Thread : ThreadStep(t)
  BY <1>2, <1>3, ObeyThreadStep
<1>4. CASE \E t \in Thread : CloseInput(t) \/ \E kind \in InputKinds \ {"eof"} : ReadInput(t, kind)
  BY <1>2, <1>4, ObeyKeyboard
<1>5. CASE \E targets \in OperatorTargets, sig \in OperatorSignals : OperatorSends(targets, sig)
  BY <1>5, ObeyOperator
<1>6. CASE ProgramEnds \/ Tick \/ UNCHANGED vars
  <2>1. UNCHANGED <<at, locked, pending, typed, entered, wanted>>
    BY <1>6
    DEF ProgramEnds, Tick, vars, daemonVars, frameVars, sceneVars, historyVars
  <2>2. QED
    BY <1>2, <2>1
    DEF Obeying, Doomed, NoLock, NoUnlock, SomeLock, SomeUnlock, LockTyped, LockComing,
        UnlockComing
<1>7. QED BY <1>3, <1>4, <1>5, <1>6 DEF Next, Surroundings

\* Whoever lets the session settle before a command finds the last command obeyed by both
\* processes, to whichever it was given, and however often the echoes cross.
THEOREM AlwaysLastCommandWins == Spec => []LastCommandWins
<1>1. Init => CommandInv
  BY DEF Init, CommandInv, Obeying
<1>2. KillInv => DoneHeld
  BY DEF KillInv
<1>3. TypeOK /\ Reconciling /\ DoneHeld /\ CommandInv => LastCommandWins
  <2> SUFFICES ASSUME TypeOK, Reconciling, DoneHeld, Obeying, ~exited, Settled,
                      wanted # "none"
               PROVE  \A p \in Proc : locked[p] # 0 <=> wanted = "lock"
    BY DEF LastCommandWins, CommandInv, Patient
  <2>1. /\ NoLock /\ NoUnlock /\ ~Doomed
        /\ \A p \in Proc : ~LockComing(p) /\ ~UnlockComing(p)
    BY Quiet
  <2>2. \A p, q \in Proc : locked[p] = 0 <=> locked[q] = 0
    <3>1. \A p \in Proc : ~(locked[p] # 0 /\ locked[Peer(p)] = 0)
      BY <2>1, ProcFacts DEF Reconciling
    <3>2. QED BY <3>1 DEF Proc, Peer
  <2>3. CASE wanted = "lock"
    <3>1. \E p \in Proc : locked[p] # 0
      BY <2>1, <2>3 DEF Obeying, SomeLock, NoLock
    <3>2. QED BY <2>2, <2>3, <3>1
  <2>4. CASE wanted = "unlock"
    <3>1. \E p \in Proc : locked[p] = 0
      BY <2>1, <2>4 DEF Obeying, SomeUnlock
    <3>2. QED BY <2>2, <2>4, <3>1
  <2>5. QED BY <2>3, <2>4 DEF TypeOK
<1>4. Spec => []CommandInv
  BY <1>1, <1>2, CommandStep, KillInductive, PTL DEF Spec
<1>5. QED BY <1>2, <1>3, <1>4, KillInductive, PTL DEF IInv
=============================================================================
