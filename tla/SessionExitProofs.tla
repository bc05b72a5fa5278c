------------------------- MODULE SessionExitProofs -------------------------
(***************************************************************************)
(* Proofs about module SessionExit, for every value of its constants: type *)
(* correctness, and the three safety properties of the end of a session.   *)
(***************************************************************************)
EXTENDS SessionExit, SequenceTheorems, TLAPS

\* A thread whose process has no other that runs: the child's, and the parent's
\* when there is no watcher.
Single(t) == t = "child" \/ (t = "main" /\ ~setup.watcher)

\* The status that the process of thread t waits for is that of Awaited(t).
Awaited(t) == ChildOf(ProcOf(t))

\* What a context says of the session.
FrameOK(t, pc) ==
    /\ pc \in {"term", "warn", "term_die", "hup", "hup_die", "abort"} => told # {}
    /\ pc \in {"store", "wait_store", "leave", "return", "report"} =>
          process[Awaited(t)] = "reaped"
    /\ pc \in {"leave", "return", "report"} /\ Single(t) =>
          childexit[ProcOf(t)] = ended[Awaited(t)]
    /\ pc = "return" => ~Single(t)
    /\ pc \in DonePc => ProcOf(t) \in entered
    /\ pc = "clean" => cleaned[ProcOf(t)] = 0
    /\ pc = "exit" /\ ProcOf(t) = "parent" => ~raw
    /\ t = "watcher" /\ ~setup.watcher => pc = "sleep"

FramesOK == \A t \in Thread : \A i \in 1..Len(stack[t]) : FrameOK(t, stack[t][i])

\* A thread that lives is in its loop, and in handlers and done() on top of it.
ShapeOK ==
    /\ stack \in [Thread -> Seq(Pc)]
    /\ \A t \in Thread : stack[t] = <<>> <=> ~Alive(ProcOf(t))
    /\ \A t \in Thread : \A i \in 1..Len(stack[t]) : stack[t][i] \in LoopPc <=> i = 1

\* A process is in the body of done() in one place at most.
Unique ==
    \A t, u \in Thread : \A i \in 1..Len(stack[t]), j \in 1..Len(stack[u]) :
        ProcOf(t) = ProcOf(u) /\ stack[t][i] = "clean" /\ stack[u][j] = "clean" =>
            t = u /\ i = j

\* The only thread of a process that holds entered_done is in done().
InDone(t) == \E i \in 1..Len(stack[t]) : stack[t][i] \in DonePc
DoneHeld ==
    \A t \in Thread :
        Single(t) /\ Alive(ProcOf(t)) /\ ProcOf(t) \in entered => InDone(t)

\* childexit holds its first value, or the status of who was waited for; it holds the
\* latter as soon as the system call that stores it has returned.
StatusStored ==
    /\ \A p \in Proc : \/ childexit[p] = 254
                       \/ process[ChildOf(p)] = "reaped" /\ childexit[p] = ended[ChildOf(p)]
    /\ \A t \in Thread :
        Single(t) /\ Alive(ProcOf(t)) /\ process[Awaited(t)] = "reaped" =>
            \/ childexit[ProcOf(t)] = ended[Awaited(t)]
            \/ Last(stack[t]) \in {"store", "wait_store"}
    /\ canExit => process["program"] = "reaped"

\* What is passed on while nobody was told to end.
StatusPassed ==
    told = {} =>
        /\ \A p \in Proc : pending[p] \subseteq {"CHLD"}
        /\ \A p \in entered :
            /\ process[ChildOf(p)] = "reaped"
            /\ \/ status[p] = ended[ChildOf(p)]
               \/ p = "parent" /\ setup.watcher /\ status[p] = 254
        /\ process["child"] # "running" =>
            /\ process["program"] = "reaped"
            /\ ended["child"] = Exited(ExitCode(ended["program"]))

CleanedOK == \A p \in Proc : cleaned[p] \in {0, 1} /\ (p \notin entered => cleaned[p] = 0)

ExitInv ==
    /\ TypeOK /\ ShapeOK /\ FramesOK /\ Unique /\ DoneHeld
    /\ StatusStored /\ StatusPassed /\ CleanedOK
    /\ TerminalGivenBack /\ StatusReported
----------------------------------------------------------------------------
(* Stacks *)

\* The context on top of the stack of t is pc after the step, or no context is new.
Only(t, pc) ==
    \A u \in Thread : \A i \in 1..Len(stack'[u]) :
        \/ i \in 1..Len(stack[u]) /\ stack'[u][i] = stack[u][i]
        \/ u = t /\ i = Len(stack'[t]) /\ stack'[u][i] = pc

\* The three ways in which a stack changes.
Replaced(t, pc) ==
    /\ Len(stack'[t]) = Len(stack[t]) /\ stack'[t][Len(stack[t])] = pc
    /\ \A i \in 1..(Len(stack[t]) - 1) : stack'[t][i] = stack[t][i]
Pushed(t, pc) ==
    /\ Len(stack'[t]) = Len(stack[t]) + 1 /\ stack'[t][Len(stack[t]) + 1] = pc
    /\ \A i \in 1..Len(stack[t]) : stack'[t][i] = stack[t][i]
Popped(t) ==
    /\ Len(stack'[t]) = Len(stack[t]) - 1
    /\ \A i \in 1..(Len(stack[t]) - 1) : stack'[t][i] = stack[t][i]

OthersKept(t) ==
    stack' \in [Thread -> Seq(Pc)] /\ \A u \in Thread : u # t => stack'[u] = stack[u]

LEMMA TopAndRest ==
    ASSUME NEW S, NEW s \in Seq(S), s # <<>>
    PROVE  /\ Len(s) \in Nat \ {0} /\ Last(s) \in S /\ Last(s) = s[Len(s)]
           /\ Front(s) \in Seq(S) /\ Len(Front(s)) = Len(s) - 1
           /\ \A i \in 1..(Len(s) - 1) : Front(s)[i] = s[i]
<1>1. PICK n \in Nat \ {0} : n = Len(s)
  BY EmptySeq
<1>2. Last(s) \in S /\ Last(s) = s[n]
  BY <1>1 DEF Last
<1>3. 1 \in Int /\ n - 1 \in Int /\ \A i \in 1..(n - 1) : s[i] \in S
  BY <1>1
<1>4. /\ SubSeq(s, 1, n - 1) \in Seq(S)
      /\ Len(SubSeq(s, 1, n - 1)) = IF 1 =< n - 1 THEN n - 1 - 1 + 1 ELSE 0
      /\ \A i \in 1..(n - 1 - 1 + 1) : SubSeq(s, 1, n - 1)[i] = s[1 + i - 1]
  BY <1>3, SubSeqProperties
<1>5. /\ n - 1 = IF 1 =< n - 1 THEN n - 1 - 1 + 1 ELSE 0
      /\ \A i \in 1..(n - 1) : i \in 1..(n - 1 - 1 + 1) /\ 1 + i - 1 = i
  OBVIOUS
<1>6. QED BY <1>1, <1>2, <1>4, <1>5 DEF Front

LEMMA GotoReplaces ==
    ASSUME stack \in [Thread -> Seq(Pc)], NEW t \in Thread, stack[t] # <<>>, NEW pc \in Pc,
           Goto(t, pc)
    PROVE  OthersKept(t) /\ Replaced(t, pc)
<1>1. PICK s : s = stack[t]
  OBVIOUS
<1>2. s \in Seq(Pc) /\ s # <<>>
  BY <1>1
<1>3. PICK n \in Nat \ {0} : n = Len(s)
  BY <1>2, TopAndRest
<1>4. PICK f : f = Front(s)
  OBVIOUS
<1>5. f \in Seq(Pc) /\ Len(f) = n - 1 /\ \A i \in 1..(n - 1) : f[i] = s[i]
  BY <1>2, <1>3, <1>4, TopAndRest
<1>6. PICK u : u = Append(f, pc)
  OBVIOUS
<1>7. u \in Seq(Pc) /\ Len(u) = n /\ u[n] = pc /\ \A i \in 1..(n - 1) : u[i] = s[i]
  BY <1>3, <1>5, <1>6, AppendProperties
<1>8. stack' = [stack EXCEPT ![t] = u]
  BY <1>1, <1>4, <1>6 DEF Goto
<1>9. stack'[t] = u /\ OthersKept(t)
  BY <1>7, <1>8 DEF OthersKept
<1>10. QED BY <1>1, <1>3, <1>7, <1>9 DEF Replaced

LEMMA CallPushes ==
    ASSUME stack \in [Thread -> Seq(Pc)], NEW t \in Thread, NEW pc \in Pc, Call(t, pc)
    PROVE  OthersKept(t) /\ Pushed(t, pc)
<1>1. PICK s : s = stack[t]
  OBVIOUS
<1>2. s \in Seq(Pc)
  BY <1>1
<1>3. PICK u : u = Append(s, pc)
  OBVIOUS
<1>4. /\ u \in Seq(Pc) /\ Len(u) = Len(s) + 1 /\ u[Len(s) + 1] = pc
      /\ \A i \in 1..Len(s) : u[i] = s[i]
  BY <1>2, <1>3, AppendProperties
<1>5. stack' = [stack EXCEPT ![t] = u]
  BY <1>1, <1>3 DEF Call
<1>6. stack'[t] = u /\ OthersKept(t)
  BY <1>4, <1>5 DEF OthersKept
<1>7. QED BY <1>1, <1>4, <1>6 DEF Pushed

LEMMA ReturnPops ==
    ASSUME stack \in [Thread -> Seq(Pc)], NEW t \in Thread, stack[t] # <<>>, Return(t)
    PROVE  OthersKept(t) /\ Popped(t)
<1>1. PICK s : s = stack[t]
  OBVIOUS
<1>2. s \in Seq(Pc) /\ s # <<>>
  BY <1>1
<1>3. PICK u : u = Front(s)
  OBVIOUS
<1>4. /\ u \in Seq(Pc) /\ Len(u) = Len(s) - 1
      /\ \A i \in 1..(Len(s) - 1) : u[i] = s[i]
  BY <1>2, <1>3, TopAndRest
<1>5. stack' = [stack EXCEPT ![t] = u]
  BY <1>1, <1>3 DEF Return
<1>6. stack'[t] = u /\ OthersKept(t)
  BY <1>4, <1>5 DEF OthersKept
<1>7. QED BY <1>1, <1>4, <1>6 DEF Popped

\* Where a thread is.
LEMMA AtTop ==
    ASSUME ShapeOK, NEW t \in Thread, NEW pc, At(t, pc)
    PROVE  /\ Alive(ProcOf(t)) /\ stack[t] # <<>> /\ Len(stack[t]) \in Nat \ {0}
           /\ stack[t][Len(stack[t])] = pc /\ Len(stack[t]) \in 1..Len(stack[t])
           /\ pc \in LoopPc <=> Len(stack[t]) = 1
<1>1. PICK s : s = stack[t]
  OBVIOUS
<1>2. Alive(ProcOf(t)) /\ s # <<>> /\ s \in Seq(Pc) /\ Last(s) = pc
  BY <1>1 DEF ShapeOK, At
<1>3. Len(s) \in Nat \ {0} /\ s[Len(s)] = pc
  BY <1>2, TopAndRest
<1>4. PICK n \in Nat \ {0} : n = Len(s)
  BY <1>3
<1>5. n \in 1..n /\ s[n] = pc
  BY <1>2, <1>3, <1>4
<1>6. \A i \in 1..n : s[i] \in LoopPc <=> i = 1
  BY <1>1, <1>4 DEF ShapeOK
<1>7. QED BY <1>1, <1>2, <1>4, <1>5, <1>6

\* The parts of the invariant that only speak of the stacks.
AliveSame == \A p \in Proc : Alive(p)' <=> Alive(p)

InDoneKept == \A u \in Thread : InDone(u) => InDone(u)'

LEMMA GotoMoves ==
    ASSUME ShapeOK, NEW t \in Thread, NEW from, NEW to \in Pc, At(t, from), Goto(t, to),
           from \in LoopPc <=> to \in LoopPc, from \in DonePc => to \in DonePc, AliveSame
    PROVE  ShapeOK' /\ Only(t, to) /\ InDoneKept /\ Replaced(t, to) /\ OthersKept(t)
<1>1. /\ Alive(ProcOf(t)) /\ stack[t] # <<>> /\ stack[t][Len(stack[t])] = from
      /\ from \in LoopPc <=> Len(stack[t]) = 1
  BY AtTop
<1>2. PICK n \in Nat \ {0} : n = Len(stack[t])
  BY AtTop
<1>3. OthersKept(t) /\ Replaced(t, to)
  BY <1>1, GotoReplaces DEF ShapeOK
<1>4. /\ Len(stack'[t]) = n /\ stack'[t][n] = to
      /\ \A i \in 1..(n - 1) : stack'[t][i] = stack[t][i]
  BY <1>2, <1>3 DEF Replaced
<1>5. /\ \A i \in 1..n : i \in 1..(n - 1) \/ i = n
      /\ n \in 1..n
  OBVIOUS
<1>6. Only(t, to)
  BY <1>2, <1>3, <1>4, <1>5 DEF Only, OthersKept
<1>7. InDoneKept
  <2>1. ASSUME NEW i \in 1..n, stack[t][i] \in DonePc
        PROVE  stack'[t][i] \in DonePc
    BY <1>1, <1>2, <1>4, <1>5, <2>1
  <2>2. InDone(t) => InDone(t)'
    BY <1>2, <1>4, <2>1 DEF InDone
  <2>3. QED BY <1>3, <2>2 DEF InDoneKept, InDone, OthersKept
<1>8. ShapeOK'
  <2>1. stack'[t] # <<>> /\ Alive(ProcOf(t))'
    <3>1. stack'[t] \in Seq(Pc)
      BY <1>3 DEF OthersKept
    <3>2. ProcOf(t) \in Proc
      BY DEF ProcOf, Proc
    <3>3. QED BY <1>1, <1>4, <3>1, <3>2, EmptySeq DEF AliveSame
  <2>2. \A u \in Thread : ProcOf(u) \in Proc
    BY DEF ProcOf, Proc
  <2>3. \A u \in Thread : stack'[u] = <<>> <=> ~Alive(ProcOf(u))'
    BY <1>3, <2>1, <2>2 DEF ShapeOK, AliveSame, OthersKept
  <2>4. \A i \in 1..n : stack'[t][i] \in LoopPc <=> i = 1
    BY <1>1, <1>2, <1>4, <1>5 DEF ShapeOK
  <2>5. \A u \in Thread : \A i \in 1..Len(stack'[u]) : stack'[u][i] \in LoopPc <=> i = 1
    BY <1>3, <1>4, <2>4 DEF ShapeOK, OthersKept
  <2>6. QED BY <1>3, <2>3, <2>5 DEF ShapeOK, OthersKept
<1>9. QED BY <1>3, <1>6, <1>7, <1>8

LEMMA CallMoves ==
    ASSUME ShapeOK, NEW t \in Thread, stack[t] # <<>>, NEW to \in Pc, Call(t, to),
           to \notin LoopPc, AliveSame
    PROVE  /\ ShapeOK' /\ Only(t, to) /\ InDoneKept /\ Pushed(t, to) /\ OthersKept(t)
           /\ to \in DonePc => InDone(t)'
<1>1. Alive(ProcOf(t)) /\ stack[t] \in Seq(Pc)
  BY DEF ShapeOK
<1>2. PICK n \in Nat \ {0} : n = Len(stack[t])
  BY <1>1, EmptySeq
<1>3. OthersKept(t) /\ Pushed(t, to)
  BY CallPushes DEF ShapeOK
<1>4. /\ Len(stack'[t]) = n + 1 /\ stack'[t][n + 1] = to
      /\ \A i \in 1..n : stack'[t][i] = stack[t][i]
  BY <1>2, <1>3 DEF Pushed
<1>5. /\ \A i \in 1..(n + 1) : i \in 1..n \/ i = n + 1
      /\ \A i \in 1..n : i \in 1..(n + 1)
      /\ n + 1 \in 1..(n + 1) /\ n + 1 # 1
  OBVIOUS
<1>6. Only(t, to)
  BY <1>2, <1>3, <1>4, <1>5 DEF Only, OthersKept
<1>7. InDoneKept
  <2>1. InDone(t) => InDone(t)'
    BY <1>2, <1>4, <1>5 DEF InDone
  <2>2. QED BY <1>3, <2>1 DEF InDoneKept, InDone, OthersKept
<1>8. to \in DonePc => InDone(t)'
  BY <1>4, <1>5 DEF InDone
<1>9. ShapeOK'
  <2>1. stack'[t] # <<>> /\ Alive(ProcOf(t))'
    <3>1. stack'[t] \in Seq(Pc)
      BY <1>3 DEF OthersKept
    <3>2. ProcOf(t) \in Proc
      BY DEF ProcOf, Proc
    <3>3. QED BY <1>1, <1>4, <3>1, <3>2, EmptySeq DEF AliveSame
  <2>2. \A u \in Thread : ProcOf(u) \in Proc
    BY DEF ProcOf, Proc
  <2>3. \A u \in Thread : stack'[u] = <<>> <=> ~Alive(ProcOf(u))'
    BY <1>3, <2>1, <2>2 DEF ShapeOK, AliveSame, OthersKept
  <2>4. \A i \in 1..(n + 1) : stack'[t][i] \in LoopPc <=> i = 1
    BY <1>1, <1>2, <1>4, <1>5 DEF ShapeOK
  <2>5. \A u \in Thread : \A i \in 1..Len(stack'[u]) : stack'[u][i] \in LoopPc <=> i = 1
    BY <1>3, <1>4, <2>4 DEF ShapeOK, OthersKept
  <2>6. QED BY <1>3, <2>3, <2>5 DEF ShapeOK, OthersKept
<1>10. QED BY <1>3, <1>6, <1>7, <1>8, <1>9

LEMMA ReturnMoves ==
    ASSUME ShapeOK, NEW t \in Thread, NEW from, At(t, from), Return(t),
           from \notin LoopPc, from \notin DonePc, AliveSame
    PROVE  ShapeOK' /\ (\A pc : Only(t, pc)) /\ InDoneKept /\ Popped(t) /\ OthersKept(t)
<1>1. /\ Alive(ProcOf(t)) /\ stack[t] # <<>> /\ stack[t][Len(stack[t])] = from
      /\ Len(stack[t]) # 1
  BY AtTop
<1>2. PICK n \in Nat \ {0} : n = Len(stack[t])
  BY AtTop
<1>3. OthersKept(t) /\ Popped(t)
  BY <1>1, ReturnPops DEF ShapeOK
<1>4. /\ Len(stack'[t]) = n - 1 /\ n - 1 # 0
      /\ \A i \in 1..(n - 1) : stack'[t][i] = stack[t][i]
  BY <1>1, <1>2, <1>3 DEF Popped
<1>5. /\ \A i \in 1..n : i \in 1..(n - 1) \/ i = n
      /\ \A i \in 1..(n - 1) : i \in 1..n
  OBVIOUS
<1>6. \A pc : Only(t, pc)
  BY <1>2, <1>3, <1>4, <1>5 DEF Only, OthersKept
<1>7. InDoneKept
  <2>1. ASSUME NEW i \in 1..n, stack[t][i] \in DonePc
        PROVE  i \in 1..(n - 1) /\ stack'[t][i] \in DonePc
    BY <1>1, <1>2, <1>4, <1>5, <2>1
  <2>2. InDone(t) => InDone(t)'
    BY <1>2, <1>4, <2>1 DEF InDone
  <2>3. QED BY <1>3, <2>2 DEF InDoneKept, InDone, OthersKept
<1>8. ShapeOK'
  <2>1. stack'[t] # <<>> /\ Alive(ProcOf(t))'
    <3>1. stack'[t] \in Seq(Pc)
      BY <1>3 DEF OthersKept
    <3>2. ProcOf(t) \in Proc
      BY DEF ProcOf, Proc
    <3>3. QED BY <1>1, <1>4, <3>1, <3>2, EmptySeq DEF AliveSame
  <2>2. \A u \in Thread : ProcOf(u) \in Proc
    BY DEF ProcOf, Proc
  <2>3. \A u \in Thread : stack'[u] = <<>> <=> ~Alive(ProcOf(u))'
    BY <1>3, <2>1, <2>2 DEF ShapeOK, AliveSame, OthersKept
  <2>4. \A i \in 1..(n - 1) : stack'[t][i] \in LoopPc <=> i = 1
    BY <1>1, <1>2, <1>4, <1>5 DEF ShapeOK
  <2>5. \A u \in Thread : \A i \in 1..Len(stack'[u]) : stack'[u][i] \in LoopPc <=> i = 1
    BY <1>3, <1>4, <2>4 DEF ShapeOK, OthersKept
  <2>6. QED BY <1>3, <2>3, <2>5 DEF ShapeOK, OthersKept
<1>9. QED BY <1>3, <1>6, <1>7, <1>8
----------------------------------------------------------------------------
(* What every step does to the parts of the invariant that speak of contexts *)

Structure == ShapeOK /\ FramesOK /\ Unique /\ DoneHeld

Handlers == {"reap", "store", "report", "term", "warn", "term_die", "hup", "hup_die"}

LEMMA PcTypes ==
    /\ Pc = LoopPc \cup Handlers \cup DonePc
    /\ \A pc \in Handlers : pc \notin LoopPc /\ pc \notin DonePc
    /\ \A pc \in DonePc : pc \notin LoopPc
    /\ DonePc = {"clean", "exit"}
<1>1. HandlerPc["CHLD"] \cup HandlerPc["TERM"] \cup HandlerPc["HUP"] = Handlers
  BY DEF HandlerPc, Handlers
<1>2. UNION {HandlerPc[s] : s \in Signal} = Handlers
  BY <1>1 DEF Signal
<1>3. Pc = LoopPc \cup Handlers \cup DonePc
  BY <1>2 DEF Pc
<1>4. QED BY <1>3 DEF Handlers, LoopPc, DonePc

\* What every step leaves as it is, once it is so.
Forward ==
    /\ setup' = setup /\ told \subseteq told' /\ entered \subseteq entered' /\ (raw' => raw)
    /\ \A p \in Proc : process[ChildOf(p)] = "reaped" =>
          /\ process'[ChildOf(p)] = "reaped" /\ ended'[ChildOf(p)] = ended[ChildOf(p)]
          /\ childexit'[p] = childexit[p] \/ childexit'[p] = ended[ChildOf(p)]

LEMMA ProcOfType == \A t : ProcOf(t) \in Proc
  BY DEF ProcOf, Proc

LEMMA FrameKept ==
    ASSUME Forward, cleaned' = cleaned, NEW t \in Thread, NEW pc, FrameOK(t, pc)
    PROVE  FrameOK(t, pc)'
  BY ProcOfType DEF Forward, FrameOK, Single, Awaited

LEMMA FramesMove ==
    ASSUME FramesOK, Forward, cleaned' = cleaned, NEW t \in Thread, NEW pc, Only(t, pc),
           FrameOK(t, pc)'
    PROVE  FramesOK'
<1>1. ASSUME NEW u \in Thread, NEW i \in 1..Len(stack'[u])
      PROVE  FrameOK(u, stack[u][i])'
  <2>1. CASE i \in 1..Len(stack[u]) /\ stack'[u][i] = stack[u][i]
    <3>1. PICK q : q = stack[u][i]
      OBVIOUS
    <3>2. FrameOK(u, q)
      BY <2>1, <3>1 DEF FramesOK
    <3>3. FrameOK(u, q)'
      BY <3>2, FrameKept
    <3>4. QED BY <2>1, <3>1, <3>3 DEF FrameOK, Single, Awaited
  <2>2. CASE u = t /\ stack'[u][i] = pc
    BY <2>2 DEF FrameOK, Single, Awaited
  <2>3. QED BY <2>1, <2>2 DEF Only
<1>2. QED BY <1>1 DEF FramesOK

LEMMA UniqueMove ==
    ASSUME Unique, NEW t \in Thread, NEW pc, Only(t, pc), pc # "clean"
    PROVE  Unique'
<1>1. ASSUME NEW u \in Thread, NEW i \in 1..Len(stack'[u]), stack'[u][i] = "clean"
      PROVE  i \in 1..Len(stack[u]) /\ stack[u][i] = "clean"
  BY <1>1 DEF Only
<1>2. QED BY <1>1 DEF Unique

LEMMA HeldMove ==
    ASSUME DoneHeld, InDoneKept, entered' = entered, setup' = setup, AliveSame
    PROVE  DoneHeld'
  BY ProcOfType DEF DoneHeld, InDoneKept, AliveSame, Single

\* A thread that acts exists.
LEMMA Acts ==
    ASSUME ShapeOK, FramesOK, NEW t \in Thread, NEW pc, At(t, pc), pc # "sleep"
    PROVE  t = "watcher" => setup.watcher
<1>1. FrameOK(t, pc)
  BY AtTop DEF FramesOK
<1>2. QED BY <1>1 DEF FrameOK

LEMMA GotoStep ==
    ASSUME ExitInv, NEW t \in Thread, NEW from, NEW to \in Pc, At(t, from), Goto(t, to),
           from \in LoopPc <=> to \in LoopPc, from \in DonePc => to \in DonePc, AliveSame,
           to # "clean", Forward, entered' = entered, cleaned' = cleaned, FrameOK(t, to)'
    PROVE  Structure' /\ OthersKept(t) /\ Replaced(t, to)
<1>1. ShapeOK /\ FramesOK /\ Unique /\ DoneHeld
  BY DEF ExitInv
<1>2. ShapeOK' /\ Only(t, to) /\ InDoneKept /\ Replaced(t, to) /\ OthersKept(t)
  BY <1>1, GotoMoves
<1>3. FramesOK' /\ Unique'
  BY <1>1, <1>2, FramesMove, UniqueMove
<1>4. DoneHeld'
  BY <1>1, <1>2, HeldMove DEF Forward
<1>5. QED BY <1>2, <1>3, <1>4 DEF Structure

LEMMA CallStep ==
    ASSUME ExitInv, NEW t \in Thread, stack[t] # <<>>, NEW to \in Pc, Call(t, to),
           to \notin LoopPc, AliveSame,
           to # "clean", Forward, entered' = entered, cleaned' = cleaned, FrameOK(t, to)'
    PROVE  Structure' /\ OthersKept(t) /\ Pushed(t, to)
<1>1. ShapeOK /\ FramesOK /\ Unique /\ DoneHeld
  BY DEF ExitInv
<1>2. ShapeOK' /\ Only(t, to) /\ InDoneKept /\ Pushed(t, to) /\ OthersKept(t)
  BY <1>1, CallMoves
<1>3. FramesOK' /\ Unique'
  BY <1>1, <1>2, FramesMove, UniqueMove
<1>4. DoneHeld'
  BY <1>1, <1>2, HeldMove DEF Forward
<1>5. QED BY <1>2, <1>3, <1>4 DEF Structure

LEMMA NoFrame ==
    ASSUME NEW t \in Thread
    PROVE  FrameOK(t, "sleep")'
  BY DEF FrameOK, DonePc

LEMMA ReturnStep ==
    ASSUME ExitInv, NEW t \in Thread, NEW from, At(t, from), Return(t),
           from \notin LoopPc, from \notin DonePc, AliveSame,
           Forward, entered' = entered, cleaned' = cleaned
    PROVE  Structure' /\ OthersKept(t) /\ Popped(t)
<1>1. ShapeOK /\ FramesOK /\ Unique /\ DoneHeld
  BY DEF ExitInv
<1>2. ShapeOK' /\ Only(t, "sleep") /\ InDoneKept /\ Popped(t) /\ OthersKept(t)
  BY <1>1, ReturnMoves
<1>3. FramesOK' /\ Unique'
  BY <1>1, <1>2, FramesMove, UniqueMove, NoFrame
<1>4. DoneHeld'
  BY <1>1, <1>2, HeldMove DEF Forward
<1>5. QED BY <1>2, <1>3, <1>4 DEF Structure

LEMMA RestStep ==
    ASSUME ExitInv, stack' = stack, AliveSame, Forward, entered' = entered, cleaned' = cleaned
    PROVE  Structure'
<1>1. ShapeOK /\ FramesOK /\ Unique /\ DoneHeld
  BY DEF ExitInv
<1>2. "main" \in Thread /\ Only("main", "sleep") /\ InDoneKept
  BY DEF Only, InDoneKept, InDone, Thread
<1>3. FramesOK' /\ Unique'
  BY <1>1, <1>2, FramesMove, UniqueMove, NoFrame
<1>4. DoneHeld'
  BY <1>1, <1>2, HeldMove DEF Forward
<1>5. ShapeOK'
  BY <1>1, ProcOfType DEF ShapeOK, AliveSame
<1>6. QED BY <1>3, <1>4, <1>5 DEF Structure

\* done() gets through.
LEMMA EnterStep ==
    ASSUME ExitInv, NEW t \in Thread, NEW from, At(t, from), from # "sleep", Call(t, "clean"),
           ProcOf(t) \notin entered, entered' = entered \cup {ProcOf(t)}, AliveSame,
           Forward, cleaned' = cleaned
    PROVE  Structure' /\ OthersKept(t) /\ Pushed(t, "clean")
<1>1. ShapeOK /\ FramesOK /\ Unique /\ DoneHeld /\ CleanedOK
  BY DEF ExitInv
<1>2. stack[t] # <<>> /\ "clean" \in Pc /\ "clean" \notin LoopPc /\ "clean" \in DonePc
  BY <1>1, AtTop, PcTypes
<1>3. /\ ShapeOK' /\ Only(t, "clean") /\ InDoneKept /\ Pushed(t, "clean") /\ OthersKept(t)
      /\ InDone(t)'
  BY <1>1, <1>2, CallMoves
<1>4. t = "watcher" => setup.watcher
  BY <1>1, Acts
<1>5. FrameOK(t, "clean")'
  BY <1>1, <1>4, ProcOfType DEF FrameOK, CleanedOK, DonePc, Forward
<1>6. FramesOK'
  BY <1>1, <1>3, <1>5, FramesMove
<1>7. Unique'
  <2>1. ASSUME NEW u \in Thread, NEW i \in 1..Len(stack'[u]), stack'[u][i] = "clean",
               ProcOf(u) = ProcOf(t)
        PROVE  u = t /\ i = Len(stack'[t])
    <3>1. CASE i \in 1..Len(stack[u]) /\ stack[u][i] = "clean"
      <4>1. FrameOK(u, "clean")
        BY <1>1, <3>1 DEF FramesOK
      <4>2. QED BY <1>2, <2>1, <4>1 DEF FrameOK
    <3>2. QED BY <1>3, <2>1, <3>1 DEF Only
  <2>2. ASSUME NEW u \in Thread, NEW i \in 1..Len(stack'[u]), stack'[u][i] = "clean",
               ProcOf(u) # ProcOf(t)
        PROVE  i \in 1..Len(stack[u]) /\ stack[u][i] = "clean"
    BY <1>3, <2>2 DEF Only
  <2>3. QED BY <1>1, <2>1, <2>2 DEF Unique
<1>8. DoneHeld'
  <2>1. ASSUME NEW u \in Thread, Single(u)', Alive(ProcOf(u))', ProcOf(u) \in entered'
        PROVE  InDone(u)'
    <3>1. Single(u) /\ Alive(ProcOf(u))
      BY <2>1, ProcOfType DEF Forward, Single, AliveSame
    <3>2. CASE ProcOf(u) \in entered
      BY <1>1, <1>3, <3>1, <3>2 DEF DoneHeld, InDoneKept
    <3>3. CASE ProcOf(u) = ProcOf(t)
      <4>1. u = t
        BY <1>4, <3>1, <3>3 DEF Single, ProcOf, Thread
      <4>2. QED BY <1>3, <4>1
    <3>4. QED BY <2>1, <3>2, <3>3
  <2>2. QED BY <2>1 DEF DoneHeld
<1>9. QED BY <1>3, <1>6, <1>7, <1>8 DEF Structure

\* The process of t is gone.
LEMMA LeaveStep ==
    ASSUME ExitInv, NEW t \in Thread, Forward, entered' = entered, cleaned' = cleaned,
           stack' = [u \in Thread |-> IF ProcOf(u) = ProcOf(t) THEN <<>> ELSE stack[u]],
           ~Alive(ProcOf(t))', \A p \in Proc : p # ProcOf(t) => (Alive(p)' <=> Alive(p))
    PROVE  Structure'
<1>1. ShapeOK /\ FramesOK /\ Unique /\ DoneHeld
  BY DEF ExitInv
<1>2. /\ \A u \in Thread : stack'[u] = IF ProcOf(u) = ProcOf(t) THEN <<>> ELSE stack[u]
      /\ Len(<<>>) = 0
  BY EmptySeq
<1>3. Only(t, "sleep")
  BY <1>2 DEF Only
<1>4. FramesOK' /\ Unique'
  BY <1>1, <1>3, FramesMove, UniqueMove, NoFrame
<1>5. ShapeOK'
  <2>1. stack' \in [Thread -> Seq(Pc)]
    BY <1>1, EmptySeq DEF ShapeOK
  <2>2. \A u \in Thread : stack'[u] = <<>> <=> ~Alive(ProcOf(u))'
    BY <1>1, <1>2, ProcOfType DEF ShapeOK
  <2>3. \A u \in Thread : \A i \in 1..Len(stack'[u]) : stack'[u][i] \in LoopPc <=> i = 1
    BY <1>1, <1>2 DEF ShapeOK
  <2>4. QED BY <2>1, <2>2, <2>3 DEF ShapeOK
<1>6. DoneHeld'
  BY <1>1, <1>2, ProcOfType DEF DoneHeld, InDone, Single, Forward
<1>7. QED BY <1>4, <1>5, <1>6 DEF Structure
----------------------------------------------------------------------------
(* The parts of the invariant that speak of the statuses *)

Rest == StatusStored /\ StatusPassed /\ CleanedOK /\ TerminalGivenBack /\ StatusReported

\* A thread that stores a status is not disturbed.
Undisturbed ==
    \A u \in Thread : Last(stack[u]) \in {"store", "wait_store"} => stack'[u] = stack[u]

LEMMA InvTypes ==
    ASSUME ExitInv
    PROVE  /\ ShapeOK /\ FramesOK /\ Rest
           /\ setup \in Setup
           /\ pending \in [Proc -> SUBSET Signal]
           /\ told \subseteq Proc \cup {"program"} /\ known \subseteq Proc /\ entered \subseteq Proc
           /\ childexit \in [Proc -> Nat] /\ status \in [Proc -> Nat]
           /\ canExit \in BOOLEAN /\ raw \in BOOLEAN /\ jammed \in BOOLEAN /\ output \in BOOLEAN
           /\ process \in [{"child", "program"} -> {"running", "zombie", "reaped"}]
           /\ ended \in [{"child", "program"} -> Nat]
           /\ exitCode \in -1..255 /\ commands \in Nat
           /\ cleaned \in [Proc -> Nat]
  BY DEF ExitInv, TypeOK, Rest

LEMMA AwaitedType == \A p : ChildOf(p) \in {"child", "program"}
  BY DEF ChildOf

\* Nobody is waited for; can_exit may be set once the program has been.
NoneWaited ==
    UNCHANGED <<childexit, process, ended>> /\ (canExit' => process["program"] = "reaped")

LEMMA WaitVarsKept ==
    ASSUME ExitInv, UNCHANGED waitVars
    PROVE  NoneWaited
  BY InvTypes DEF NoneWaited, waitVars, Rest, StatusStored

\* A thread goes somewhere else, or a signal is sent.
LEMMA QuietStep ==
    ASSUME ExitInv, NoneWaited, UNCHANGED <<doneVars, setup>>, told \subseteq told', Undisturbed,
           told' = {} => \A p \in Proc : pending'[p] \subseteq {"CHLD"}
    PROVE  Rest'
<1>1. /\ UNCHANGED <<childexit, process, ended, entered, status, exitCode, raw>>
      /\ UNCHANGED <<cleaned, setup>> /\ (told' = {} => told = {})
      /\ canExit' => process["program"] = "reaped"
  BY DEF NoneWaited, doneVars
<1>2. Rest
  BY InvTypes
<1>3. StatusStored'
  <2>1. \A t \in Thread : Last(stack[t]) \in {"store", "wait_store"} =>
                            Last(stack'[t]) \in {"store", "wait_store"}
    BY DEF Undisturbed
  <2>2. \A p \in Proc : Alive(p)' <=> Alive(p)
    BY <1>1 DEF Alive
  <2>3. QED BY <1>1, <1>2, <2>1, <2>2, ProcOfType DEF Rest, StatusStored, Single, Awaited
<1>4. StatusPassed'
  BY <1>1, <1>2 DEF Rest, StatusPassed
<1>5. CleanedOK' /\ TerminalGivenBack' /\ StatusReported'
  BY <1>1, <1>2 DEF Rest, CleanedOK, TerminalGivenBack, StatusReported
<1>6. QED BY <1>3, <1>4, <1>5 DEF Rest

\* done() gets through, with a status.
LEMMA EnterRest ==
    ASSUME ExitInv, NEW t \in Thread, NEW wait_status,
           UNCHANGED <<waitVars, setup, exitCode, raw, cleaned, pending>>, told \subseteq told',
           Undisturbed,
           entered' = entered \cup {ProcOf(t)},
           status' = [status EXCEPT ![ProcOf(t)] = wait_status],
           told' = {} => /\ process[Awaited(t)] = "reaped"
                         /\ \/ wait_status = ended[Awaited(t)]
                            \/ ProcOf(t) = "parent" /\ setup.watcher /\ wait_status = 254
    PROVE  Rest'
<1>1. /\ UNCHANGED <<childexit, canExit, process, ended, exitCode, raw>>
      /\ UNCHANGED <<cleaned, setup, pending>> /\ (told' = {} => told = {})
  BY DEF waitVars
<1>2. Rest /\ status \in [Proc -> Nat] /\ ProcOf(t) \in Proc
  BY InvTypes, ProcOfType
<1>3. StatusStored'
  <2>1. \A u \in Thread : Last(stack[u]) \in {"store", "wait_store"} =>
                            Last(stack'[u]) \in {"store", "wait_store"}
    BY DEF Undisturbed
  <2>2. \A p \in Proc : Alive(p)' <=> Alive(p)
    BY <1>1 DEF Alive
  <2>3. QED BY <1>1, <1>2, <2>1, <2>2, ProcOfType DEF Rest, StatusStored, Single, Awaited
<1>4. StatusPassed'
  <2>1. \A p \in Proc : status'[p] = IF p = ProcOf(t) THEN wait_status ELSE status[p]
    BY <1>2
  <2>2. entered \subseteq Proc
    BY InvTypes
  <2>3. QED BY <1>1, <1>2, <2>1, <2>2 DEF Rest, StatusPassed, Awaited
<1>5. CleanedOK' /\ TerminalGivenBack' /\ StatusReported'
  BY <1>1, <1>2 DEF Rest, CleanedOK, TerminalGivenBack, StatusReported
<1>6. QED BY <1>3, <1>4, <1>5 DEF Rest

LEMMA TopIs ==
    ASSUME NEW t \in Thread, NEW pc, ShapeOK, stack[t] # <<>>, Replaced(t, pc) \/ Pushed(t, pc)
    PROVE  Last(stack'[t]) = pc
<1>1. Len(stack[t]) \in Nat
  BY DEF ShapeOK
<1>2. QED BY <1>1 DEF Replaced, Pushed, Last

LEMMA Disturbs ==
    ASSUME NEW t \in Thread, NEW pc, OthersKept(t), At(t, pc), pc \notin {"store", "wait_store"}
    PROVE  Undisturbed
  BY DEF Undisturbed, OthersKept, At

\* A call of done() that gets through.
Enters(t, wait_status) ==
    /\ ProcOf(t) \notin entered
    /\ entered' = entered \cup {ProcOf(t)}
    /\ status' = [status EXCEPT ![ProcOf(t)] = wait_status]
    /\ Call(t, "clean")
    /\ UNCHANGED <<exitCode, raw, cleaned>>

LEMMA DoneStep ==
    ASSUME ExitInv, NEW t \in Thread, NEW from, At(t, from),
           from \notin {"store", "wait_store", "sleep"},
           NEW wait_status, Enters(t, wait_status),
           UNCHANGED <<waitVars, setup, pending>>, told \subseteq told',
           told' = {} => /\ process[Awaited(t)] = "reaped"
                         /\ \/ wait_status = ended[Awaited(t)]
                            \/ ProcOf(t) = "parent" /\ setup.watcher /\ wait_status = 254
    PROVE  Structure' /\ Rest'
<1>1. /\ UNCHANGED <<childexit, canExit, process, ended, setup>>
      /\ pending' = pending /\ (told' = {} => told = {}) /\ ShapeOK /\ Rest
  BY InvTypes DEF waitVars
<1>2. /\ entered' = entered \cup {ProcOf(t)} /\ Call(t, "clean") /\ ProcOf(t) \notin entered
      /\ status' = [status EXCEPT ![ProcOf(t)] = wait_status]
      /\ UNCHANGED <<exitCode, raw, cleaned>>
  BY DEF Enters
<1>3. AliveSame
  BY <1>1, <1>2 DEF AliveSame, Alive
<1>4. Forward
  BY <1>1, <1>2 DEF Forward
<1>5. Structure' /\ OthersKept(t)
  BY <1>2, <1>3, <1>4, EnterStep
<1>6. Undisturbed
  BY <1>5, Disturbs
<1>7. QED BY <1>2, <1>5, <1>6, EnterRest

\* Nothing is moved but the contexts.
LEMMA StillForward ==
    ASSUME NoneWaited, UNCHANGED <<entered, raw, exitCode, setup>>, told \subseteq told'
    PROVE  Forward /\ AliveSame
  BY DEF Forward, AliveSame, Alive, NoneWaited

LEMMA DeliverStep ==
    ASSUME ExitInv, NEW t \in Thread, NEW signal \in Signal, Deliver(t, signal)
    PROVE  Structure' /\ Rest'
<1>1. /\ Alive(ProcOf(t)) /\ (t = "watcher" => setup.watcher)
      /\ signal \in pending[ProcOf(t)] /\ Last(stack[t]) \notin {"store", "wait_store"}
      /\ pending' = [pending EXCEPT ![ProcOf(t)] = @ \ {signal}]
      /\ UNCHANGED <<told, waitVars, doneVars, sceneVars>>
  BY DEF Deliver
<1>2. PICK to : to = (CASE signal = "CHLD" -> "reap" [] signal = "TERM" -> "term"
                        [] signal = "HUP" -> "hup")
  OBVIOUS
<1>3. /\ Call(t, to) /\ to \in {"reap", "term", "hup"} /\ (to # "reap" => signal # "CHLD")
  BY <1>2 DEF Deliver, Signal
<1>4. ShapeOK /\ Rest /\ pending \in [Proc -> SUBSET Signal] /\ stack[t] # <<>>
  BY <1>1, InvTypes DEF ShapeOK
<1>5. told' = told /\ setup' = setup /\ UNCHANGED <<entered, raw, exitCode, cleaned>>
  BY <1>1 DEF sceneVars, doneVars
<1>6. Forward /\ AliveSame /\ NoneWaited
  BY <1>1, <1>5, StillForward, WaitVarsKept
<1>7. told = {} => to = "reap"
  BY <1>1, <1>3, <1>4, ProcOfType DEF Rest, StatusPassed
<1>8. FrameOK(t, to)'
  BY <1>1, <1>3, <1>5, <1>7 DEF FrameOK, DonePc
<1>9. to \in Pc /\ to \notin LoopPc /\ to # "clean"
  BY <1>3, PcTypes DEF Handlers
<1>10. Structure' /\ OthersKept(t)
  BY <1>3, <1>4, <1>5, <1>6, <1>8, <1>9, CallStep
<1>11. Undisturbed
  BY <1>1, <1>10 DEF Undisturbed, OthersKept
<1>12. told' = {} => \A p \in Proc : pending'[p] \subseteq {"CHLD"}
  BY <1>1, <1>4, <1>5, ProcOfType DEF Rest, StatusPassed
<1>13. QED BY <1>1, <1>5, <1>6, <1>10, <1>11, <1>12, QuietStep

\* A thread goes from one place of its loop, or of a handler, to another.
LEMMA PassStep ==
    ASSUME ExitInv, NEW t \in Thread, NEW from, NEW to, At(t, from), Goto(t, to),
           from \notin DonePc, from \notin {"store", "wait_store"},
           \/ from \in LoopPc /\ to \in LoopPc
           \/ from \in Handlers /\ to \in Handlers,
           NoneWaited, UNCHANGED <<doneVars, setup>>, told \subseteq told', FrameOK(t, to)',
           told' = {} => \A p \in Proc : pending'[p] \subseteq {"CHLD"}
    PROVE  Structure' /\ Rest'
<1>1. /\ to \in Pc /\ (from \in LoopPc <=> to \in LoopPc) /\ to # "clean"
  BY PcTypes
<1>2. UNCHANGED <<entered, raw, exitCode, cleaned>>
  BY DEF doneVars
<1>3. Forward /\ AliveSame
  BY <1>2, StillForward
<1>4. Structure' /\ OthersKept(t)
  BY <1>1, <1>2, <1>3, GotoStep
<1>5. Undisturbed
  BY <1>4, Disturbs
<1>6. QED BY <1>4, <1>5, QuietStep

\* A handler returns and has done nothing.
LEMMA BackStep ==
    ASSUME ExitInv, NEW t \in Thread, NEW from, At(t, from), Return(t),
           from \in Handlers, from # "store",
           UNCHANGED <<waitVars, doneVars, setup, told, pending>>
    PROVE  Structure' /\ OthersKept(t) /\ Rest'
<1>1. from \notin LoopPc /\ from \notin DonePc /\ from \notin {"store", "wait_store"}
  BY PcTypes DEF Handlers
<1>2. UNCHANGED <<entered, raw, exitCode, cleaned>>
  BY DEF doneVars
<1>3. Forward /\ AliveSame /\ NoneWaited
  BY <1>2, StillForward, WaitVarsKept
<1>4. Structure' /\ OthersKept(t)
  BY <1>1, <1>2, <1>3, ReturnStep
<1>5. Undisturbed
  BY <1>1, <1>4, Disturbs
<1>6. told' = {} => \A p \in Proc : pending'[p] \subseteq {"CHLD"}
  BY InvTypes DEF Rest, StatusPassed
<1>7. QED BY <1>3, <1>4, <1>5, <1>6, QuietStep
----------------------------------------------------------------------------
(* The actions *)

LEMMA TopFrame ==
    ASSUME ExitInv, NEW t \in Thread, NEW pc, At(t, pc)
    PROVE  FrameOK(t, pc)
<1>1. ShapeOK /\ FramesOK
  BY InvTypes
<1>2. QED BY <1>1, AtTop DEF FramesOK

\* A thread goes on, and nothing else is touched but what the statuses do not depend on.
LEMMA MoveStep ==
    ASSUME ExitInv, NEW t \in Thread, NEW from, NEW to, At(t, from), Goto(t, to),
           from \notin DonePc, from \notin {"store", "wait_store"},
           \/ from \in LoopPc /\ to \in LoopPc
           \/ from \in Handlers /\ to \in Handlers,
           UNCHANGED <<signalVars, waitVars, doneVars, setup>>, FrameOK(t, to)'
    PROVE  Structure' /\ Rest'
<1>1. told' = told /\ pending' = pending
  BY DEF signalVars
<1>2. told' = {} => \A p \in Proc : pending'[p] \subseteq {"CHLD"}
  BY <1>1, InvTypes DEF Rest, StatusPassed
<1>3. QED BY <1>1, <1>2, WaitVarsKept, PassStep

LEMMA ForkStep ==
    ASSUME ExitInv, NEW t \in Thread, ForkReturns(t)
    PROVE  Structure' /\ Rest'
<1>1. PICK to : to = (IF t = "child" THEN "output" ELSE IF setup.tty THEN "input" ELSE "wait")
  OBVIOUS
<1>2. /\ to \in {"output", "input", "wait"} /\ Goto(t, to) /\ At(t, "fork")
      /\ UNCHANGED <<signalVars, waitVars, doneVars, setup>>
  BY <1>1 DEF ForkReturns
<1>3. FrameOK(t, to)'
  BY <1>2, InvTypes, Acts DEF FrameOK, DonePc
<1>4. QED BY <1>2, <1>3, MoveStep, PcTypes DEF LoopPc, DonePc

LEMMA KeyboardStep ==
    ASSUME ExitInv, KeyboardEnds
    PROVE  Structure' /\ Rest'
<1>1. "main" \in Thread /\ FrameOK("main", "wait")'
  BY DEF Thread, FrameOK, DonePc
<1>2. At("main", "input") /\ Goto("main", "wait") /\ setup' = setup
  BY DEF KeyboardEnds, sceneVars
<1>3. QED BY <1>1, <1>2, MoveStep DEF KeyboardEnds, LoopPc, DonePc

LEMMA OutputLoopStep ==
    ASSUME ExitInv, OutputLoopEnds
    PROVE  Structure' /\ Rest'
<1>1. "child" \in Thread /\ FrameOK("child", "wait")'
  BY DEF Thread, FrameOK, DonePc
<1>2. At("child", "output") /\ Goto("child", "wait") /\ setup' = setup
  BY DEF OutputLoopEnds, sceneVars
<1>3. QED BY <1>1, <1>2, MoveStep DEF OutputLoopEnds, LoopPc, DonePc

LEMMA WarnStep ==
    ASSUME ExitInv, NEW t \in Thread, Warn(t)
    PROVE  Structure' /\ Rest'
<1>1. At(t, "warn") /\ Goto(t, "term_die") /\ setup' = setup /\ told' = told
  BY DEF Warn, sceneVars, signalVars
<1>2. told # {} /\ (t = "watcher" => setup.watcher)
  BY <1>1, TopFrame, InvTypes, Acts DEF FrameOK
<1>3. FrameOK(t, "term_die")'
  BY <1>1, <1>2 DEF FrameOK, DonePc
<1>4. QED BY <1>1, <1>3, MoveStep DEF Warn, Handlers, DonePc

LEMMA InputFailsStep ==
    ASSUME ExitInv, InputFails
    PROVE  Structure' /\ Rest'
<1>1. "main" \in Thread /\ At("main", "input") /\ Goto("main", "abort") /\ setup' = setup
  BY DEF Thread, InputFails
<1>2. told \subseteq told' /\ told' # {}
  BY DEF InputFails, KillGroup, Proc
<1>3. FrameOK("main", "abort")'
  BY <1>2 DEF FrameOK, DonePc
<1>4. UNCHANGED <<waitVars, doneVars, setup>> /\ NoneWaited
  BY WaitVarsKept DEF InputFails
<1>5. QED BY <1>1, <1>2, <1>3, <1>4, PassStep DEF LoopPc, DonePc

LEMMA AbortStep ==
    ASSUME ExitInv, Abort
    PROVE  Structure' /\ Rest'
<1>1. /\ "main" \in Thread /\ At("main", "abort")
      /\ UNCHANGED <<signalVars, waitVars, setup>> /\ told' = told /\ pending' = pending
  BY DEF Thread, Abort, sceneVars, signalVars
<1>2. told # {}
  BY <1>1, TopFrame DEF FrameOK
<1>3. CASE ProcOf("main") \in entered
  <2>1. Goto("main", "input") /\ UNCHANGED doneVars
    BY <1>3 DEF Abort, Done
  <2>2. FrameOK("main", "input")'
    BY DEF FrameOK, DonePc
  <2>3. QED BY <1>1, <2>1, <2>2, MoveStep DEF LoopPc, DonePc
<1>4. CASE ProcOf("main") \notin entered
  <2>1. Enters("main", EXIT_FAILURE)
    BY <1>4 DEF Abort, Done, Enters
  <2>2. QED BY <1>1, <1>2, <2>1, DoneStep
<1>5. QED BY <1>3, <1>4

\* What done() is given by those who have waited.
LEMMA Passed ==
    ASSUME ExitInv, NEW t \in Thread, NEW pc \in {"leave", "report"}, At(t, pc)
    PROVE  /\ process[Awaited(t)] = "reaped"
           /\ \/ childexit[ProcOf(t)] = ended[Awaited(t)]
              \/ ProcOf(t) = "parent" /\ setup.watcher /\ childexit[ProcOf(t)] = 254
<1>1. FrameOK(t, pc) /\ (t = "watcher" => setup.watcher)
  BY TopFrame, InvTypes, Acts
<1>2. process[Awaited(t)] = "reaped"
  BY <1>1 DEF FrameOK
<1>3. CASE Single(t)
  BY <1>1, <1>2, <1>3 DEF FrameOK
<1>4. CASE ~Single(t)
  <2>1. ProcOf(t) = "parent" /\ setup.watcher
    BY <1>1, <1>4 DEF Single, ProcOf, Thread
  <2>2. QED BY <1>2, <2>1, InvTypes, ProcOfType DEF Rest, StatusStored, Awaited
<1>5. QED BY <1>3, <1>4

LEMMA LoopEndsStep ==
    ASSUME ExitInv, NEW t \in Thread, LoopEnds(t)
    PROVE  Structure' /\ Rest'
<1>1. PICK wait_status : wait_status = childexit[ProcOf(t)]
  OBVIOUS
<1>2. /\ At(t, "leave") /\ UNCHANGED <<signalVars, waitVars, setup>>
      /\ told' = told /\ pending' = pending /\ process' = process
  BY DEF LoopEnds, sceneVars, signalVars, waitVars
<1>3. /\ process[Awaited(t)] = "reaped"
      /\ \/ wait_status = ended[Awaited(t)]
         \/ ProcOf(t) = "parent" /\ setup.watcher /\ wait_status = 254
  BY <1>1, <1>2, Passed
<1>4. CASE ProcOf(t) \in entered
  <2>1. Goto(t, "return") /\ UNCHANGED doneVars
    BY <1>4 DEF LoopEnds, Done
  <2>2. ~Single(t)
    <3>1. Alive(ProcOf(t)) /\ Len(stack[t]) = 1 /\ stack[t][1] = "leave" /\ DoneHeld
      BY <1>2, InvTypes, AtTop DEF LoopPc, ExitInv
    <3>2. ~InDone(t)
      BY <3>1 DEF InDone, DonePc
    <3>3. QED BY <1>4, <3>1, <3>2 DEF DoneHeld
  <2>3. t = "watcher" => setup.watcher
    BY <1>2, InvTypes, Acts
  <2>4. FrameOK(t, "return")'
    BY <1>2, <1>3, <2>2, <2>3 DEF FrameOK, DonePc, Awaited, Single
  <2>5. QED BY <1>2, <2>1, <2>4, MoveStep DEF LoopPc, DonePc
<1>5. CASE ProcOf(t) \notin entered
  <2>1. Enters(t, wait_status)
    BY <1>1, <1>5 DEF LoopEnds, Done, Enters
  <2>2. QED BY <1>2, <1>3, <2>1, DoneStep
<1>6. QED BY <1>4, <1>5

LEMMA ReportStep ==
    ASSUME ExitInv, NEW t \in Thread, Report(t)
    PROVE  Structure' /\ Rest'
<1>1. PICK wait_status : wait_status = childexit[ProcOf(t)]
  OBVIOUS
<1>2. /\ At(t, "report") /\ UNCHANGED <<waitVars, setup>>
      /\ told' = told /\ pending' = pending
  BY DEF Report, sceneVars, signalVars
<1>3. /\ process[Awaited(t)] = "reaped"
      /\ \/ wait_status = ended[Awaited(t)]
         \/ ProcOf(t) = "parent" /\ setup.watcher /\ wait_status = 254
  BY <1>1, <1>2, Passed
<1>4. CASE ProcOf(t) \in entered
  <2>1. Return(t) /\ UNCHANGED doneVars
    BY <1>4 DEF Report, Done
  <2>2. QED BY <1>2, <2>1, BackStep DEF Handlers
<1>5. CASE ProcOf(t) \notin entered
  <2>1. Enters(t, wait_status)
    BY <1>1, <1>5 DEF Report, Done, Enters
  <2>2. QED BY <1>2, <1>3, <2>1, DoneStep
<1>6. QED BY <1>4, <1>5

\* done(EXIT_SUCCESS) in a handler of a signal that somebody sent.
LEMMA DieStep ==
    ASSUME ExitInv, NEW t \in Thread, NEW pc \in {"term", "term_die", "hup", "hup_die"},
           At(t, pc), Done(t, EXIT_SUCCESS, Return(t)), UNCHANGED <<told, pending>>,
           UNCHANGED <<waitVars, sceneVars>>
    PROVE  Structure' /\ Rest'
<1>1. told # {} /\ told' = told /\ pending' = pending /\ setup' = setup
  BY TopFrame DEF FrameOK, sceneVars
<1>2. CASE ProcOf(t) \in entered
  <2>1. Return(t) /\ UNCHANGED doneVars
    BY <1>2 DEF Done
  <2>2. QED BY <1>1, <2>1, BackStep DEF Handlers
<1>3. CASE ProcOf(t) \notin entered
  <2>1. Enters(t, EXIT_SUCCESS)
    BY <1>3 DEF Done, Enters
  <2>2. QED BY <1>1, <2>1, DoneStep
<1>4. QED BY <1>2, <1>3

\* The child's handler tells the program first.
LEMMA TellStep ==
    ASSUME ExitInv, NEW t \in Thread, NEW from, NEW to, At(t, from), Goto(t, to),
           from \in {"term", "hup"}, to \in {"warn", "hup_die"}, TellProgram, pending' = pending,
           UNCHANGED <<waitVars, doneVars, setup>>
    PROVE  Structure' /\ Rest'
<1>1. told \subseteq told' /\ told' # {} /\ (t = "watcher" => setup.watcher)
  BY InvTypes, Acts DEF TellProgram
<1>2. FrameOK(t, to)'
  BY <1>1 DEF FrameOK, DonePc
<1>3. QED BY <1>1, <1>2, WaitVarsKept, PassStep DEF Handlers, DonePc

LEMMA TerminatedStep ==
    ASSUME ExitInv, NEW t \in Thread, Terminated(t)
    PROVE  Structure' /\ Rest'
<1>1. At(t, "term") /\ pending' = pending /\ UNCHANGED <<waitVars, sceneVars>> /\ setup' = setup
  BY DEF Terminated, sceneVars
<1>2. CASE t = "child" /\ "child" \in known
  <2>1. TellProgram /\ Goto(t, "warn") /\ UNCHANGED doneVars
    BY <1>2 DEF Terminated
  <2>2. QED BY <1>1, <2>1, TellStep
<1>3. CASE ~(t = "child" /\ "child" \in known)
  <2>1. Done(t, EXIT_SUCCESS, Return(t)) /\ told' = told
    BY <1>3 DEF Terminated
  <2>2. QED BY <1>1, <2>1, DieStep
<1>4. QED BY <1>2, <1>3

LEMMA HungUpStep ==
    ASSUME ExitInv, NEW t \in Thread, HungUp(t)
    PROVE  Structure' /\ Rest'
<1>1. At(t, "hup") /\ pending' = pending /\ UNCHANGED <<waitVars, sceneVars>> /\ setup' = setup
  BY DEF HungUp, sceneVars
<1>2. CASE t = "child" /\ "child" \in known
  <2>1. TellProgram /\ Goto(t, "hup_die") /\ UNCHANGED doneVars
    BY <1>2 DEF HungUp
  <2>2. QED BY <1>1, <2>1, TellStep
<1>3. CASE ~(t = "child" /\ "child" \in known)
  <2>1. Done(t, EXIT_SUCCESS, Return(t)) /\ told' = told
    BY <1>3 DEF HungUp
  <2>2. QED BY <1>1, <2>1, DieStep
<1>4. QED BY <1>2, <1>3

LEMMA HandlerDiesStep ==
    ASSUME ExitInv, NEW t \in Thread, HandlerDies(t)
    PROVE  Structure' /\ Rest'
<1>1. PICK pc \in {"term_die", "hup_die"} : At(t, pc)
  BY DEF HandlerDies
<1>2. /\ Done(t, EXIT_SUCCESS, Return(t)) /\ UNCHANGED <<told, pending>>
      /\ UNCHANGED <<waitVars, sceneVars>>
  BY DEF HandlerDies, signalVars
<1>3. QED BY <1>1, <1>2, DieStep

\* The thread is in the loop, and is not told to wait any longer.
LEMMA LeaveFrame ==
    ASSUME ExitInv, NEW t \in Thread, At(t, "wait"), process[Awaited(t)] = "reaped",
           UNCHANGED <<childexit, process, ended, setup>>
    PROVE  FrameOK(t, "leave")'
<1>1. ShapeOK /\ StatusStored /\ (t = "watcher" => setup.watcher)
  BY InvTypes, Acts DEF Rest
<1>2. Single(t) => childexit[ProcOf(t)] = ended[Awaited(t)]
  BY <1>1 DEF At, StatusStored
<1>3. QED BY <1>1, <1>2 DEF FrameOK, DonePc, Awaited, Single

\* The process waited for is reaped; its status is not stored yet.
LEMMA ReapStep ==
    ASSUME ExitInv, NEW t \in Thread, NEW from, NEW to, At(t, from), Goto(t, to),
           \/ from = "wait" /\ to = "wait_store"
           \/ from = "reap" /\ to = "store",
           process[Awaited(t)] = "zombie",
           process' = [process EXCEPT ![Awaited(t)] = "reaped"],
           UNCHANGED <<signalVars, childexit, canExit, ended, doneVars, sceneVars>>
    PROVE  Structure' /\ Rest'
<1>1. /\ told' = told /\ pending' = pending /\ setup' = setup
      /\ UNCHANGED <<childexit, canExit, ended, entered, status, exitCode, raw, cleaned>>
  BY DEF signalVars, doneVars, sceneVars
<1>2. /\ ShapeOK /\ Rest /\ process \in [{"child", "program"} -> {"running", "zombie", "reaped"}]
      /\ (t = "watcher" => setup.watcher)
  BY InvTypes, Acts
<1>3. \A p \in {"child", "program"} :
          process'[p] = IF p = Awaited(t) THEN "reaped" ELSE process[p]
  BY <1>2
<1>4. process'[Awaited(t)] = "reaped"
  BY <1>3, AwaitedType DEF Awaited
<1>5. AliveSame
  BY <1>1, <1>3 DEF AliveSame, Alive, Awaited, ChildOf
<1>6. Forward
  BY <1>1, <1>3, AwaitedType DEF Forward
<1>7. /\ to \in Pc /\ from \notin DonePc /\ to # "clean"
      /\ from \in LoopPc <=> to \in LoopPc
  BY PcTypes DEF Handlers, LoopPc
<1>8. FrameOK(t, to)'
  BY <1>1, <1>2, <1>4 DEF FrameOK, DonePc, Awaited
<1>9. Structure' /\ OthersKept(t) /\ Replaced(t, to)
  BY <1>1, <1>5, <1>6, <1>7, <1>8, GotoStep
<1>10. Last(stack'[t]) = to
  BY <1>2, <1>9, AtTop, TopIs
<1>11. StatusStored'
  <2>1. \A p \in Proc : \/ childexit'[p] = 254
                        \/ /\ process'[ChildOf(p)] = "reaped"
                           /\ childexit'[p] = ended'[ChildOf(p)]
    BY <1>1, <1>2, <1>3, AwaitedType DEF Rest, StatusStored
  <2>2. ASSUME NEW u \in Thread, Single(u)', Alive(ProcOf(u))', process'[Awaited(u)] = "reaped"
        PROVE  \/ childexit'[ProcOf(u)] = ended'[Awaited(u)]
               \/ Last(stack'[u]) \in {"store", "wait_store"}
    <3>1. CASE u = t
      BY <1>10, <3>1
    <3>2. CASE u # t
      <4>1. Single(u) /\ Single(u) /\ Alive(ProcOf(u))
        BY <1>1, <1>5, <2>2, ProcOfType DEF Single, AliveSame
      <4>2. Awaited(u) # Awaited(t)
        BY <1>2, <3>2, <4>1 DEF Awaited, ChildOf, ProcOf, Single, Thread
      <4>3. process[Awaited(u)] = "reaped"
        BY <1>3, <2>2, <4>2, AwaitedType DEF Awaited
      <4>4. stack'[u] = stack[u]
        BY <1>9, <3>2 DEF OthersKept
      <4>5. QED BY <1>1, <1>2, <4>1, <4>3, <4>4 DEF Rest, StatusStored, Awaited
    <3>3. QED BY <3>1, <3>2
  <2>3. canExit' => process'["program"] = "reaped"
    BY <1>1, <1>2, <1>3 DEF Rest, StatusStored
  <2>4. QED BY <2>1, <2>2, <2>3 DEF StatusStored, Awaited
<1>12. StatusPassed'
  <2>1. SUFFICES ASSUME told = {}
                 PROVE  StatusPassed'
    BY <1>1 DEF StatusPassed
  <2>2. \A p \in entered' :
            /\ process'[ChildOf(p)] = "reaped"
            /\ \/ status'[p] = ended'[ChildOf(p)]
               \/ p = "parent" /\ setup'.watcher /\ status'[p] = 254
    BY <1>1, <1>2, <1>3, <2>1, AwaitedType DEF Rest, StatusPassed
  <2>3. process'["child"] # "running" =>
            /\ process'["program"] = "reaped"
            /\ ended'["child"] = Exited(ExitCode(ended'["program"]))
    <3>1. process'["child"] # "running" => process["child"] # "running"
      BY <1>5 DEF AliveSame, Alive, Proc
    <3>2. QED BY <1>1, <1>2, <1>3, <2>1, <3>1 DEF Rest, StatusPassed
  <2>4. \A p \in Proc : pending'[p] \subseteq {"CHLD"}
    BY <1>1, <1>2, <2>1 DEF Rest, StatusPassed
  <2>5. QED BY <2>2, <2>3, <2>4 DEF StatusPassed
<1>13. StatusReported'
  <2>1. exitCode # -1 /\ told = {} => process[Awaited(t)] = "reaped"
    BY <1>2, AwaitedType DEF Rest, StatusReported, Awaited
  <2>2. QED BY <1>1, <2>1 DEF StatusReported
<1>14. CleanedOK' /\ TerminalGivenBack'
  BY <1>1, <1>2 DEF Rest, CleanedOK, TerminalGivenBack
<1>15. QED BY <1>9, <1>11, <1>12, <1>13, <1>14 DEF Rest

LEMMA WaitStep ==
    ASSUME ExitInv, NEW t \in Thread, Wait(t)
    PROVE  Structure' /\ Rest'
<1>1. /\ At(t, "wait") /\ setup' = setup
      /\ UNCHANGED <<signalVars, childexit, ended, doneVars, sceneVars>>
      /\ told' = told /\ pending' = pending
      /\ UNCHANGED <<childexit, ended>>
  BY DEF Wait, sceneVars, signalVars
<1>2. CASE t = "child" /\ canExit /\ Goto(t, "leave") /\ UNCHANGED <<canExit, process>>
  <2>1. process[Awaited(t)] = "reaped"
    BY <1>2, InvTypes DEF Rest, StatusStored, Awaited, ChildOf, ProcOf
  <2>2. FrameOK(t, "leave")'
    BY <1>1, <1>2, <2>1, LeaveFrame
  <2>3. UNCHANGED waitVars
    BY <1>1, <1>2 DEF waitVars
  <2>4. QED BY <1>1, <1>2, <2>2, <2>3, MoveStep DEF LoopPc, DonePc
<1>3. CASE /\ process[Awaited(t)] = "zombie" /\ Goto(t, "wait_store")
           /\ process' = [process EXCEPT ![Awaited(t)] = "reaped"] /\ UNCHANGED canExit
  BY <1>1, <1>3, ReapStep
<1>4. CASE /\ process[Awaited(t)] = "reaped" /\ Goto(t, "leave")
           /\ canExit' = (canExit \/ t = "child") /\ UNCHANGED process
  <2>1. FrameOK(t, "leave")'
    BY <1>1, <1>4, LeaveFrame
  <2>2. canExit' => process["program"] = "reaped"
    BY <1>4, InvTypes DEF Rest, StatusStored, Awaited, ChildOf, ProcOf
  <2>3. NoneWaited
    BY <1>1, <1>4, <2>2 DEF NoneWaited
  <2>4. told' = {} => \A p \in Proc : pending'[p] \subseteq {"CHLD"}
    BY <1>1, InvTypes DEF Rest, StatusPassed
  <2>5. QED BY <1>1, <1>4, <2>1, <2>3, <2>4, PassStep DEF LoopPc, DonePc
<1>5. QED BY <1>2, <1>3, <1>4 DEF Wait, Awaited

LEMMA FinishStep ==
    ASSUME ExitInv, NEW t \in Thread, Reap(t)
    PROVE  Structure' /\ Rest'
<1>1. /\ At(t, "reap") /\ setup' = setup
      /\ UNCHANGED <<signalVars, childexit, canExit, ended, doneVars, sceneVars>>
      /\ told' = told /\ pending' = pending
  BY DEF Reap, sceneVars, signalVars
<1>2. CASE process[Awaited(t)] = "zombie"
  <2>1. process' = [process EXCEPT ![Awaited(t)] = "reaped"] /\ Goto(t, "store")
    BY <1>2 DEF Reap, Awaited
  <2>2. QED BY <1>1, <1>2, <2>1, ReapStep
<1>3. CASE process[Awaited(t)] # "zombie"
  <2>1. Return(t) /\ UNCHANGED waitVars
    BY <1>1, <1>3 DEF Reap, Awaited, waitVars
  <2>2. QED BY <1>1, <2>1, BackStep DEF Handlers
<1>4. QED BY <1>2, <1>3

\* The status is stored by who has reaped the process.
LEMMA StoreRest ==
    ASSUME ExitInv, NEW t \in Thread, Structure', OthersKept(t),
           process[Awaited(t)] = "reaped", canExit' => process["program"] = "reaped",
           childexit' = [childexit EXCEPT ![ProcOf(t)] = ended[Awaited(t)]],
           UNCHANGED <<signalVars, process, ended, doneVars, setup>>
    PROVE  Rest'
<1>1. /\ told' = told /\ pending' = pending
      /\ UNCHANGED <<process, ended, entered, status, exitCode, raw, cleaned>>
  BY DEF signalVars, doneVars
<1>2. Rest /\ childexit \in [Proc -> Nat]
  BY InvTypes
<1>3. \A p \in Proc :
          childexit'[p] = IF p = ProcOf(t) THEN ended[ChildOf(p)] ELSE childexit[p]
  BY <1>2 DEF Awaited
<1>4. StatusStored'
  <2>1. \A p \in Proc : \/ childexit'[p] = 254
                        \/ /\ process'[ChildOf(p)] = "reaped"
                           /\ childexit'[p] = ended'[ChildOf(p)]
    BY <1>1, <1>2, <1>3 DEF Rest, StatusStored, Awaited
  <2>2. ASSUME NEW u \in Thread, Single(u)', Alive(ProcOf(u))', process'[Awaited(u)] = "reaped"
        PROVE  \/ childexit'[ProcOf(u)] = ended'[Awaited(u)]
               \/ Last(stack'[u]) \in {"store", "wait_store"}
    <3>1. CASE ProcOf(u) = ProcOf(t)
      BY <1>1, <1>3, <3>1, ProcOfType DEF Awaited
    <3>2. CASE ProcOf(u) # ProcOf(t)
      <4>1. Single(u) /\ Alive(ProcOf(u)) /\ stack'[u] = stack[u]
        BY <1>1, <2>2, <3>2 DEF Single, Alive, OthersKept
      <4>2. childexit'[ProcOf(u)] = childexit[ProcOf(u)]
        BY <1>3, <3>2, ProcOfType
      <4>3. QED BY <1>1, <1>2, <2>2, <4>1, <4>2 DEF Rest, StatusStored, Awaited
    <3>3. QED BY <3>1, <3>2
  <2>3. QED BY <1>1, <2>1, <2>2 DEF StatusStored, Awaited
<1>5. StatusPassed' /\ CleanedOK' /\ TerminalGivenBack' /\ StatusReported'
  BY <1>1, <1>2 DEF Rest, StatusPassed, CleanedOK, TerminalGivenBack, StatusReported
<1>6. QED BY <1>4, <1>5 DEF Rest

LEMMA StoreForward ==
    ASSUME ExitInv, NEW t \in Thread,
           childexit' = [childexit EXCEPT ![ProcOf(t)] = ended[Awaited(t)]],
           UNCHANGED <<signalVars, process, ended, doneVars, sceneVars>>
    PROVE  /\ Forward /\ AliveSame /\ entered' = entered /\ cleaned' = cleaned
           /\ childexit'[ProcOf(t)] = ended'[Awaited(t)] /\ process' = process
<1>1. /\ setup' = setup /\ told' = told
      /\ UNCHANGED <<process, ended, entered, exitCode, raw, cleaned>>
  BY DEF signalVars, doneVars, sceneVars
<1>2. childexit \in [Proc -> Nat]
  BY InvTypes
<1>3. QED BY <1>1, <1>2, ProcOfType DEF Forward, AliveSame, Alive, Awaited

LEMMA WaitStoreStep ==
    ASSUME ExitInv, NEW t \in Thread, WaitStore(t)
    PROVE  Structure' /\ Rest'
<1>1. PICK to : to = (IF t = "child" THEN "wait" ELSE "leave")
  OBVIOUS
<1>2. /\ At(t, "wait_store") /\ Goto(t, to) /\ to \in {"wait", "leave"}
      /\ childexit' = [childexit EXCEPT ![ProcOf(t)] = ended[Awaited(t)]]
      /\ UNCHANGED <<signalVars, process, ended, doneVars, sceneVars>> /\ canExit' = canExit
  BY <1>1 DEF WaitStore, Awaited
<1>3. /\ Forward /\ AliveSame /\ entered' = entered /\ cleaned' = cleaned /\ setup' = setup
      /\ childexit'[ProcOf(t)] = ended'[Awaited(t)] /\ process' = process
  BY <1>2, StoreForward DEF sceneVars
<1>4. process[Awaited(t)] = "reaped" /\ (t = "watcher" => setup.watcher)
  BY <1>2, TopFrame, InvTypes, Acts DEF FrameOK
<1>5. FrameOK(t, to)'
  BY <1>2, <1>3, <1>4 DEF FrameOK, DonePc, Awaited
<1>6. Structure' /\ OthersKept(t)
  BY <1>2, <1>3, <1>5, GotoStep, PcTypes DEF LoopPc, DonePc
<1>7. canExit' => process["program"] = "reaped"
  BY <1>2, InvTypes DEF Rest, StatusStored
<1>8. QED BY <1>2, <1>3, <1>4, <1>6, <1>7, StoreRest

LEMMA StoreStep ==
    ASSUME ExitInv, NEW t \in Thread, Store(t)
    PROVE  Structure' /\ Rest'
<1>1. /\ At(t, "store")
      /\ childexit' = [childexit EXCEPT ![ProcOf(t)] = ended[Awaited(t)]]
      /\ UNCHANGED <<signalVars, process, ended, doneVars, sceneVars>>
      /\ canExit' = (canExit \/ (t = "child" /\ "child" \in known))
      /\ Goto(t, "report") \/ Return(t)
  BY DEF Store, Awaited
<1>2. /\ Forward /\ AliveSame /\ entered' = entered /\ cleaned' = cleaned /\ setup' = setup
      /\ childexit'[ProcOf(t)] = ended'[Awaited(t)] /\ process' = process
  BY <1>1, StoreForward DEF sceneVars
<1>3. process[Awaited(t)] = "reaped" /\ (t = "watcher" => setup.watcher)
  BY <1>1, TopFrame, InvTypes, Acts DEF FrameOK
<1>4. canExit' => process["program"] = "reaped"
  BY <1>1, <1>3, InvTypes DEF Rest, StatusStored, Awaited, ChildOf, ProcOf
<1>5. /\ "report" \in Pc /\ "report" \notin LoopPc /\ "store" \notin LoopPc
      /\ "store" \notin DonePc
  BY PcTypes DEF Handlers
<1>6. Structure' /\ OthersKept(t)
  <2>1. CASE Goto(t, "report")
    <3>1. FrameOK(t, "report")'
      BY <1>2, <1>3 DEF FrameOK, DonePc, Awaited
    <3>2. QED BY <1>1, <1>2, <1>5, <2>1, <3>1, GotoStep
  <2>2. CASE Return(t)
    BY <1>1, <1>2, <1>5, <2>2, ReturnStep
  <2>3. QED BY <1>1, <2>1, <2>2
<1>7. QED BY <1>1, <1>2, <1>3, <1>4, <1>6, StoreRest

LEMMA CleanStep ==
    ASSUME ExitInv, NEW t \in Thread, Clean(t)
    PROVE  Structure' /\ Rest'
<1>1. /\ At(t, "clean") /\ Goto(t, "exit")
      /\ raw' = (raw /\ ProcOf(t) = "child" /\ "child" \in known)
      /\ cleaned' = [cleaned EXCEPT ![ProcOf(t)] = @ + 1]
      /\ UNCHANGED <<signalVars, waitVars, entered, status, exitCode, sceneVars>>
  BY DEF Clean
<1>2. /\ told' = told /\ pending' = pending /\ setup' = setup
      /\ UNCHANGED <<childexit, canExit, process, ended, entered, status, exitCode>>
  BY <1>1 DEF signalVars, waitVars, sceneVars
<1>3. /\ ShapeOK /\ FramesOK /\ Rest /\ cleaned \in [Proc -> Nat] /\ raw \in BOOLEAN
      /\ (t = "watcher" => setup.watcher)
  BY <1>1, InvTypes, Acts
<1>4. Unique /\ DoneHeld
  BY DEF ExitInv
<1>5. FrameOK(t, "clean")
  BY <1>1, TopFrame
<1>6. ProcOf(t) \in entered /\ cleaned[ProcOf(t)] = 0
  BY <1>5 DEF FrameOK, DonePc
<1>7. \A p \in Proc : cleaned'[p] = IF p = ProcOf(t) THEN 1 ELSE cleaned[p]
  BY <1>1, <1>3, <1>6
<1>8. AliveSame
  BY <1>2 DEF AliveSame, Alive
<1>9. "exit" \in Pc /\ "exit" \notin LoopPc /\ "clean" \notin LoopPc /\ "exit" \in DonePc
  BY PcTypes
<1>10. ShapeOK' /\ Only(t, "exit") /\ InDoneKept /\ Replaced(t, "exit") /\ OthersKept(t)
  BY <1>1, <1>3, <1>8, <1>9, GotoMoves
<1>11. Unique' /\ DoneHeld'
  BY <1>2, <1>4, <1>8, <1>10, UniqueMove, HeldMove
<1>12. FramesOK'
  <2>1. ASSUME NEW u \in Thread, NEW i \in 1..Len(stack'[u]),
               i \in 1..Len(stack[u]), stack'[u][i] = stack[u][i],
               ~(u = t /\ i = Len(stack'[t]))
        PROVE  FrameOK(u, stack[u][i])'
    <3>1. PICK pc : pc = stack[u][i]
      OBVIOUS
    <3>2. FrameOK(u, pc)
      BY <1>3, <2>1, <3>1 DEF FramesOK
    <3>3. pc = "clean" => ProcOf(u) # ProcOf(t)
      <4>1. Len(stack[t]) \in 1..Len(stack[t]) /\ stack[t][Len(stack[t])] = "clean"
        BY <1>1, <1>3, AtTop
      <4>2. pc = "clean" /\ ProcOf(u) = ProcOf(t) => u = t /\ i = Len(stack[t])
        BY <1>4, <2>1, <3>1, <4>1 DEF Unique
      <4>3. QED BY <1>10, <2>1, <4>2 DEF Replaced
    <3>4. FrameOK(u, pc)'
      BY <1>1, <1>2, <1>7, <3>2, <3>3, ProcOfType DEF FrameOK, Single, Awaited
    <3>5. QED BY <2>1, <3>1, <3>4 DEF FrameOK, Single, Awaited
  <2>2. FrameOK(t, "exit")'
    BY <1>1, <1>2, <1>3, <1>6 DEF FrameOK, DonePc, ProcOf
  <2>3. stack'[t][Len(stack'[t])] = "exit"
    BY <1>10 DEF Replaced
  <2>4. ASSUME NEW u \in Thread, NEW i \in 1..Len(stack'[u])
        PROVE  FrameOK(u, stack[u][i])'
    <3>1. CASE u = t /\ i = Len(stack'[t])
      BY <2>2, <2>3, <3>1 DEF FrameOK, Single, Awaited
    <3>2. CASE ~(u = t /\ i = Len(stack'[t]))
      BY <1>10, <2>1, <3>2 DEF Only
    <3>3. QED BY <3>1, <3>2
  <2>5. QED BY <2>4 DEF FramesOK
<1>13. StatusStored'
  <2>1. "clean" \notin {"store", "wait_store"}
    OBVIOUS
  <2>2. Undisturbed
    BY <1>1, <1>10, <2>1, Disturbs
  <2>3. \A u \in Thread : Last(stack[u]) \in {"store", "wait_store"} =>
                            Last(stack'[u]) \in {"store", "wait_store"}
    BY <2>2 DEF Undisturbed
  <2>4. QED BY <1>2, <1>3, <1>8, <2>3, ProcOfType
            DEF Rest, StatusStored, Single, Awaited, AliveSame
<1>14. StatusPassed' /\ StatusReported'
  BY <1>2, <1>3 DEF Rest, StatusPassed, StatusReported
<1>15. CleanedOK' /\ TerminalGivenBack'
  BY <1>1, <1>2, <1>3, <1>6, <1>7 DEF Rest, CleanedOK, TerminalGivenBack
<1>16. QED BY <1>10, <1>11, <1>12, <1>13, <1>14, <1>15 DEF Structure, Rest

\* Exit codes, and the statuses of processes that have exited with one.
LEMMA Codes ==
    /\ \A x \in Nat : ExitCode(x) \in 0..255
    /\ \A c \in 0..255 : Exited(c) \in Nat /\ ExitCode(Exited(c)) = c
    /\ ExitCode(254) = 0
  BY DEF ExitCode, Exited

\* What the loss of a process does to the others.
LEMMA LeaveMoves ==
    ASSUME ExitInv, NEW t \in Thread, NEW pc, At(t, pc), NEW code \in 0..255, Leave(t, code),
           UNCHANGED <<told, entered, raw, cleaned, childexit, setup>>
    PROVE  /\ Structure'
           /\ \A u \in Thread : ProcOf(u) # ProcOf(t) => stack'[u] = stack[u]
           /\ ~Alive(ProcOf(t))' /\ \A p \in Proc : p # ProcOf(t) => (Alive(p)' <=> Alive(p))
<1>1. /\ ShapeOK /\ process \in [{"child", "program"} -> {"running", "zombie", "reaped"}]
      /\ ended \in [{"child", "program"} -> Nat]
  BY InvTypes
<1>2. Alive(ProcOf(t))
  BY DEF At
<1>3. /\ ~Alive(ProcOf(t))' /\ \A p \in Proc : p # ProcOf(t) => (Alive(p)' <=> Alive(p))
  BY <1>1 DEF Leave, Alive, ProcOf, Proc
<1>4. \A p \in Proc : process[ChildOf(p)] = "reaped" =>
          process'[ChildOf(p)] = "reaped" /\ ended'[ChildOf(p)] = ended[ChildOf(p)]
  BY <1>1, <1>2 DEF Leave, Alive, ChildOf, ProcOf, Proc
<1>5. Forward
  BY <1>4 DEF Forward
<1>6. stack' = [u \in Thread |-> IF ProcOf(u) = ProcOf(t) THEN <<>> ELSE stack[u]]
  BY DEF Leave
<1>7. QED BY <1>3, <1>5, <1>6, LeaveStep

\* The parent leaves: with the status it was given, or from main() beside its watcher.
LEMMA ParentLeaves ==
    ASSUME ExitInv, NEW t \in Thread, NEW pc, At(t, pc), NEW code \in 0..255, Leave(t, code),
           ProcOf(t) = "parent", ~raw \/ setup.watcher,
           UNCHANGED <<told, childexit, canExit, entered, status, raw, cleaned, sceneVars>>,
           told = {} => /\ process["child"] = "reaped"
                        /\ \/ code = ExitCode(ended["child"])
                           \/ setup.watcher /\ code = 0
    PROVE  Structure' /\ Rest'
<1>1. /\ exitCode' = code /\ pending' = [pending EXCEPT !["parent"] = {}]
      /\ UNCHANGED <<process, ended, told, childexit, canExit>>
      /\ UNCHANGED <<entered, status, raw, cleaned, setup>>
  BY DEF Leave, sceneVars
<1>2. /\ Structure'
      /\ \A u \in Thread : ProcOf(u) # ProcOf(t) => stack'[u] = stack[u]
      /\ ~Alive(ProcOf(t))' /\ \A p \in Proc : p # ProcOf(t) => (Alive(p)' <=> Alive(p))
  BY <1>1, LeaveMoves
<1>3. /\ Rest /\ pending \in [Proc -> SUBSET Signal]
      /\ process \in [{"child", "program"} -> {"running", "zombie", "reaped"}]
      /\ ended \in [{"child", "program"} -> Nat]
  BY InvTypes
<1>4. StatusStored'
  <2>1. ASSUME NEW u \in Thread, Single(u)', Alive(ProcOf(u))', process'[Awaited(u)] = "reaped"
        PROVE  \/ childexit'[ProcOf(u)] = ended'[Awaited(u)]
               \/ Last(stack'[u]) \in {"store", "wait_store"}
    <3>1. Single(u) /\ Alive(ProcOf(u)) /\ stack'[u] = stack[u]
      BY <1>1, <1>2, <2>1, ProcOfType DEF Single
    <3>2. QED BY <1>1, <1>3, <2>1, <3>1 DEF Rest, StatusStored, Awaited
  <2>2. QED BY <1>1, <1>3, <2>1 DEF Rest, StatusStored, Awaited
<1>5. StatusPassed'
  BY <1>1, <1>3 DEF Rest, StatusPassed, Proc
<1>6. CleanedOK' /\ TerminalGivenBack'
  BY <1>1, <1>3 DEF Rest, CleanedOK, TerminalGivenBack
<1>7. StatusReported'
  <2>1. SUFFICES ASSUME told = {}
                 PROVE  StatusReported'
    BY <1>1 DEF StatusReported
  <2>2. /\ process["child"] = "reaped" /\ process["program"] = "reaped"
        /\ ended["child"] = Exited(ExitCode(ended["program"]))
    BY <1>3, <2>1 DEF Rest, StatusPassed
  <2>3. ExitCode(ended["child"]) = ExitCode(ended["program"])
    BY <1>3, <2>2, Codes
  <2>4. code = ExitCode(ended["program"]) \/ (setup.watcher /\ code = 0)
    BY <2>1, <2>3
  <2>5. process = [p \in {"child", "program"} |-> "reaped"]
    BY <1>3, <2>2
  <2>6. QED BY <1>1, <2>4, <2>5 DEF StatusReported
<1>8. QED BY <1>2, <1>4, <1>5, <1>6, <1>7 DEF Rest

\* The child leaves, with the status it was given.
LEMMA ChildLeaves ==
    ASSUME ExitInv, NEW t \in Thread, NEW pc, At(t, pc), NEW code \in 0..255, Leave(t, code),
           ProcOf(t) = "child",
           UNCHANGED <<told, childexit, canExit, entered, status, raw, cleaned, sceneVars>>,
           told = {} => /\ process["program"] = "reaped"
                        /\ code = ExitCode(ended["program"])
    PROVE  Structure' /\ Rest'
<1>1. /\ process' = [process EXCEPT !["child"] = "zombie"]
      /\ ended' = [ended EXCEPT !["child"] = Exited(code)]
      /\ pending' = Sent({"parent"}, "CHLD", [pending EXCEPT !["child"] = {}])
      /\ UNCHANGED <<exitCode, told, childexit, canExit>>
      /\ UNCHANGED <<entered, status, raw, cleaned, setup>>
  BY DEF Leave, sceneVars
<1>2. /\ Structure'
      /\ \A u \in Thread : ProcOf(u) # ProcOf(t) => stack'[u] = stack[u]
      /\ ~Alive(ProcOf(t))' /\ \A p \in Proc : p # ProcOf(t) => (Alive(p)' <=> Alive(p))
  BY <1>1, LeaveMoves
<1>3. /\ Rest /\ pending \in [Proc -> SUBSET Signal] /\ entered \subseteq Proc
      /\ process \in [{"child", "program"} -> {"running", "zombie", "reaped"}]
      /\ ended \in [{"child", "program"} -> Nat]
  BY InvTypes
<1>4. process["child"] = "running"
  BY DEF At, Alive
<1>5. /\ process'["child"] = "zombie" /\ process'["program"] = process["program"]
      /\ ended'["child"] = Exited(code) /\ ended'["program"] = ended["program"]
  BY <1>1, <1>3
<1>6. StatusStored'
  <2>1. ASSUME NEW u \in Thread, Single(u)', Alive(ProcOf(u))', process'[Awaited(u)] = "reaped"
        PROVE  FALSE
    <3>1. ProcOf(u) = "parent"
      BY <1>2, <2>1 DEF ProcOf
    <3>2. QED BY <1>5, <2>1, <3>1 DEF Awaited, ChildOf
  <2>2. childexit["parent"] = 254
    BY <1>3, <1>4 DEF Rest, StatusStored, Proc, ChildOf
  <2>3. \A p \in Proc : \/ childexit'[p] = 254
                        \/ /\ process'[ChildOf(p)] = "reaped"
                           /\ childexit'[p] = ended'[ChildOf(p)]
    BY <1>1, <1>3, <1>5, <2>2 DEF Rest, StatusStored, Proc, ChildOf
  <2>4. canExit' => process'["program"] = "reaped"
    BY <1>1, <1>3, <1>5 DEF Rest, StatusStored
  <2>5. QED BY <2>1, <2>3, <2>4 DEF StatusStored, Awaited
<1>7. StatusPassed'
  <2>1. SUFFICES ASSUME told = {}
                 PROVE  StatusPassed'
    BY <1>1 DEF StatusPassed
  <2>2. \A p \in Proc : pending'[p] \subseteq {"CHLD"}
    BY <1>1, <1>3, <2>1 DEF Rest, StatusPassed, Sent, Proc
  <2>3. "parent" \notin entered
    BY <1>3, <1>4, <2>1 DEF Rest, StatusPassed, ChildOf
  <2>4. \A p \in entered' :
            /\ process'[ChildOf(p)] = "reaped"
            /\ \/ status'[p] = ended'[ChildOf(p)]
               \/ p = "parent" /\ setup'.watcher /\ status'[p] = 254
    BY <1>1, <1>3, <1>5, <2>1, <2>3 DEF Rest, StatusPassed, Proc, ChildOf
  <2>5. QED BY <1>5, <2>1, <2>2, <2>4 DEF StatusPassed
<1>8. CleanedOK' /\ TerminalGivenBack'
  BY <1>1, <1>3 DEF Rest, CleanedOK, TerminalGivenBack
<1>9. StatusReported'
  <2>1. ~(exitCode # -1 /\ told = {})
    BY <1>3, <1>4 DEF Rest, StatusReported
  <2>2. QED BY <1>1, <2>1 DEF StatusReported
<1>10. QED BY <1>2, <1>6, <1>7, <1>8, <1>9 DEF Rest

LEMMA ExitStep ==
    ASSUME ExitInv, NEW t \in Thread, Exit(t)
    PROVE  Structure' /\ Rest'
<1>1. PICK code : code = ExitCode(status[ProcOf(t)])
  OBVIOUS
<1>2. /\ At(t, "exit") /\ Leave(t, code)
      /\ UNCHANGED <<told, childexit, canExit, entered, status, raw, cleaned, sceneVars>>
  BY <1>1 DEF Exit
<1>3. FrameOK(t, "exit") /\ Rest /\ status \in [Proc -> Nat]
  BY <1>2, TopFrame, InvTypes
<1>4. code \in 0..255
  BY <1>1, <1>3, Codes, ProcOfType
<1>5. ProcOf(t) \in entered
  BY <1>3 DEF FrameOK, DonePc
<1>6. CASE ProcOf(t) = "parent"
  <2>1. ~raw
    BY <1>3, <1>6 DEF FrameOK
  <2>2. told = {} => /\ process["child"] = "reaped"
                     /\ \/ code = ExitCode(ended["child"])
                        \/ setup.watcher /\ code = 0
    BY <1>1, <1>3, <1>5, <1>6, Codes DEF Rest, StatusPassed, ChildOf
  <2>3. QED BY <1>2, <1>4, <1>6, <2>1, <2>2, ParentLeaves
<1>7. CASE ProcOf(t) = "child"
  <2>1. told = {} => /\ process["program"] = "reaped"
                     /\ code = ExitCode(ended["program"])
    BY <1>1, <1>3, <1>5, <1>7 DEF Rest, StatusPassed, ChildOf
  <2>2. QED BY <1>2, <1>4, <1>7, <2>1, ChildLeaves
<1>8. QED BY <1>6, <1>7 DEF ProcOf

LEMMA MainReturnsStep ==
    ASSUME ExitInv, NEW t \in Thread, ReturnFromMain(t)
    PROVE  Structure' /\ Rest'
<1>1. /\ At(t, "return") /\ Leave(t, 0) /\ 0 \in 0..255
      /\ UNCHANGED <<told, childexit, canExit, entered, status, raw, cleaned, sceneVars>>
  BY DEF ReturnFromMain, EXIT_SUCCESS
<1>2. FrameOK(t, "return") /\ (t = "watcher" => setup.watcher)
  BY <1>1, TopFrame, InvTypes, Acts
<1>3. ProcOf(t) = "parent" /\ setup.watcher /\ process["child"] = "reaped"
  BY <1>2 DEF FrameOK, Single, ProcOf, Thread, Awaited, ChildOf
<1>4. QED BY <1>1, <1>3, ParentLeaves

\* The program is gone, and nobody has waited for it yet.
LEMMA ProgramGone ==
    ASSUME ExitInv, NEW wait_status \in Nat, process["program"] = "running", Alive("child"),
           process' = [process EXCEPT !["program"] = "zombie"],
           ended' = [ended EXCEPT !["program"] = wait_status],
           UNCHANGED <<stack, childexit, canExit, doneVars, setup>>, told \subseteq told',
           told' = {} => \A p \in Proc : pending'[p] \subseteq {"CHLD"}
    PROVE  Structure' /\ Rest'
<1>1. /\ UNCHANGED <<stack, childexit, canExit, setup>> /\ (told' = {} => told = {})
      /\ UNCHANGED <<entered, status, exitCode, raw, cleaned>>
  BY DEF doneVars
<1>2. /\ Rest /\ ended \in [{"child", "program"} -> Nat]
      /\ process \in [{"child", "program"} -> {"running", "zombie", "reaped"}]
  BY InvTypes
<1>3. /\ process'["child"] = process["child"] /\ process'["program"] = "zombie"
      /\ ended'["child"] = ended["child"] /\ process["child"] = "running"
  BY <1>2 DEF Alive
<1>4. AliveSame
  BY <1>1, <1>3 DEF AliveSame, Alive, Proc
<1>5. Forward
  BY <1>1, <1>3 DEF Forward, ChildOf
<1>6. Structure'
  BY <1>1, <1>4, <1>5, RestStep
<1>7. StatusStored'
  <2>1. childexit["child"] = 254 /\ childexit["parent"] = 254
    BY <1>2, <1>3 DEF Rest, StatusStored, Proc, ChildOf
  <2>2. ~canExit'
    BY <1>1, <1>2 DEF Rest, StatusStored
  <2>3. \A u \in Thread : process'[Awaited(u)] # "reaped"
    BY <1>3 DEF Awaited, ChildOf
  <2>4. QED BY <1>1, <2>1, <2>2, <2>3 DEF StatusStored, Proc, Awaited
<1>8. StatusPassed'
  <2>1. told = {} => entered = {}
    BY <1>2, <1>3, InvTypes DEF Rest, StatusPassed, Proc, ChildOf
  <2>2. QED BY <1>1, <1>3, <2>1 DEF StatusPassed
<1>9. StatusReported'
  <2>1. ~(exitCode # -1 /\ told = {})
    BY <1>2, <1>3 DEF Rest, StatusReported
  <2>2. QED BY <1>1, <2>1 DEF StatusReported
<1>10. CleanedOK' /\ TerminalGivenBack'
  BY <1>1, <1>2 DEF Rest, CleanedOK, TerminalGivenBack
<1>11. QED BY <1>6, <1>7, <1>8, <1>9, <1>10 DEF Rest

LEMMA ProgramEndsStep ==
    ASSUME ExitInv, NEW wait_status \in Nat, ProgramEnds(wait_status)
    PROVE  Structure' /\ Rest'
<1>1. told' = {} => \A p \in Proc : pending'[p] \subseteq {"CHLD"}
  BY InvTypes DEF ProgramEnds, Sent, Rest, StatusPassed, Proc
<1>2. QED BY <1>1, ProgramGone DEF ProgramEnds

LEMMA ExecFailsStep ==
    ASSUME ExitInv, ExecFails
    PROVE  Structure' /\ Rest'
<1>1. told \subseteq told' /\ (told' = {} => setup.tty)
  BY DEF ExecFails, Proc
<1>2. told' = {} => \A p \in Proc : pending'[p] \subseteq {"CHLD"}
  BY <1>1, InvTypes DEF ExecFails, Sent, Rest, StatusPassed, Proc
<1>3. PICK wait_status : wait_status = Exited(ExitCode(EXIT_FAILURE))
  OBVIOUS
<1>4. wait_status \in Nat
  BY <1>3, Codes DEF EXIT_FAILURE
<1>5. setup' = setup
  BY DEF ExecFails, sceneVars
<1>6. QED BY <1>1, <1>2, <1>3, <1>4, <1>5, ProgramGone DEF ExecFails

\* Nothing happens to the processes but that signals are sent to them.
LEMMA SceneStep ==
    ASSUME ExitInv, UNCHANGED <<stack, waitVars, doneVars, setup>>, told \subseteq told',
           told' = {} => pending' = pending
    PROVE  Structure' /\ Rest'
<1>1. UNCHANGED <<stack, entered, raw, exitCode, cleaned>> /\ NoneWaited
  BY WaitVarsKept DEF doneVars
<1>2. Forward /\ AliveSame
  BY <1>1, StillForward
<1>3. Structure'
  BY <1>1, <1>2, RestStep
<1>4. Undisturbed
  BY <1>1 DEF Undisturbed
<1>5. told' = {} => \A p \in Proc : pending'[p] \subseteq {"CHLD"}
  BY InvTypes DEF Rest, StatusPassed
<1>6. QED BY <1>1, <1>3, <1>4, <1>5, QuietStep

LEMMA CommandStep ==
    ASSUME ExitInv, NEW targets \in SUBSET Proc, NEW signal, Command(targets, signal)
    PROVE  Structure' /\ Rest'
<1>1. targets # {}
  BY DEF Command
<1>2. told \subseteq told' /\ told' # {}
  BY <1>1 DEF Command
<1>3. QED BY <1>2, SceneStep DEF Command

LEMMA StillStep ==
    ASSUME ExitInv, OutputCloses \/ Jam \/ UNCHANGED vars
    PROVE  Structure' /\ Rest'
<1>1. UNCHANGED <<stack, waitVars, doneVars, setup>> /\ told' = told /\ pending' = pending
  BY DEF OutputCloses, Jam, vars, signalVars, sceneVars
<1>2. QED BY <1>1, SceneStep

LEMMA ThreadStepOK ==
    ASSUME ExitInv, NEW t \in Thread, ThreadStep(t)
    PROVE  Structure' /\ Rest'
<1>1. CASE \E signal \in Signal : Deliver(t, signal)
  BY <1>1, DeliverStep
<1>2. CASE Clean(t) \/ Exit(t) \/ ReturnFromMain(t)
  BY <1>2, CleanStep, ExitStep, MainReturnsStep
<1>3. CASE ForkReturns(t) \/ Wait(t) \/ WaitStore(t) \/ LoopEnds(t)
  BY <1>3, ForkStep, WaitStep, WaitStoreStep, LoopEndsStep
<1>4. CASE Reap(t) \/ Store(t) \/ Report(t)
  BY <1>4, FinishStep, StoreStep, ReportStep
<1>5. CASE Terminated(t) \/ Warn(t) \/ HungUp(t) \/ HandlerDies(t)
  BY <1>5, TerminatedStep, WarnStep, HungUpStep, HandlerDiesStep
<1>6. CASE Abort \/ OutputLoopEnds
  BY <1>6, AbortStep, OutputLoopStep
<1>7. QED BY <1>1, <1>2, <1>3, <1>4, <1>5, <1>6 DEF ThreadStep

LEMMA EveryStep ==
    ASSUME ExitInv, [Next]_vars
    PROVE  Structure' /\ Rest'
<1>1. CASE \E t \in Thread : ThreadStep(t)
  BY <1>1, ThreadStepOK
<1>2. CASE KeyboardEnds \/ InputFails
  BY <1>2, KeyboardStep, InputFailsStep
<1>3. CASE \E wait_status \in Statuses \cup {Killed(SIGTERM)} : ProgramEnds(wait_status)
  <2>1. Statuses \cup {Killed(SIGTERM)} \subseteq Nat
    BY ExitAssumption DEF Killed, SIGTERM
  <2>2. QED BY <1>3, <2>1, ProgramEndsStep
<1>4. CASE \E command \in Commands : Command(command[1], command[2])
  <2>1. PICK command \in Commands : Command(command[1], command[2])
    BY <1>4
  <2>2. command[1] \in SUBSET Proc
    BY ExitAssumption
  <2>3. QED BY <2>1, <2>2, CommandStep
<1>5. CASE ExecFails \/ OutputCloses \/ Jam \/ UNCHANGED vars
  BY <1>5, ExecFailsStep, StillStep
<1>6. QED BY <1>1, <1>2, <1>3, <1>4, <1>5 DEF Next
----------------------------------------------------------------------------
(* Types *)

\* TypeOK without the stacks.
Typed ==
    /\ setup \in Setup
    /\ pending \in [Proc -> SUBSET Signal]
    /\ told \subseteq Proc \cup {"program"} /\ known \subseteq Proc /\ entered \subseteq Proc
    /\ childexit \in [Proc -> Nat] /\ status \in [Proc -> Nat]
    /\ {canExit, raw, jammed, output} \subseteq BOOLEAN
    /\ process \in [{"child", "program"} -> {"running", "zombie", "reaped"}]
    /\ ended \in [{"child", "program"} -> Nat]
    /\ exitCode \in -1..255 /\ commands \in Nat
    /\ cleaned \in [Proc -> Nat]

LEMMA SentType ==
    ASSUME NEW signals \in [Proc -> SUBSET Signal], NEW targets, NEW signal \in Signal
    PROVE  Sent(targets, signal, signals) \in [Proc -> SUBSET Signal]
  BY DEF Sent

LEMMA LeaveTyped ==
    ASSUME Typed, NEW t \in Thread, NEW code \in 0..255, Leave(t, code),
           UNCHANGED <<told, childexit, canExit, entered, status, raw, cleaned, sceneVars>>
    PROVE  Typed'
<1>. USE DEF Typed, sceneVars
<1>1. PICK signals : signals = [pending EXCEPT !["child"] = {}]
  OBVIOUS
<1>2. signals \in [Proc -> SUBSET Signal] /\ code \in -1..255
  <2>1. signals \in [Proc -> SUBSET Signal]
    BY <1>1
  <2>2. code \in -1..255
    OBVIOUS
  <2>3. QED BY <2>1, <2>2
<1>3. CASE ProcOf(t) = "parent"
  <2>1. /\ exitCode' = code /\ pending' = [pending EXCEPT !["parent"] = {}]
        /\ process' = process /\ ended' = ended
    BY <1>3 DEF Leave
  <2>2. QED BY <1>2, <2>1
<1>4. CASE ProcOf(t) # "parent"
  <2>1. /\ exitCode' = exitCode /\ pending' = Sent({"parent"}, "CHLD", signals)
        /\ process' = [process EXCEPT !["child"] = "zombie"]
        /\ ended' = [ended EXCEPT !["child"] = Exited(code)]
    BY <1>1, <1>4 DEF Leave
  <2>2. pending' \in [Proc -> SUBSET Signal] /\ Exited(code) \in Nat
    BY <1>2, <2>1, SentType, Codes DEF Signal
  <2>3. QED BY <2>1, <2>2
<1>5. QED BY <1>3, <1>4

LEMMA LeaversTyped ==
    ASSUME Typed, NEW t \in Thread, Exit(t) \/ ReturnFromMain(t)
    PROVE  Typed'
<1>1. PICK code : code = ExitCode(status[ProcOf(t)])
  OBVIOUS
<1>2. status[ProcOf(t)] \in Nat
  BY ProcOfType DEF Typed
<1>3. code \in 0..255 /\ EXIT_SUCCESS = 0 /\ 0 \in 0..255
  BY <1>1, <1>2, Codes DEF EXIT_SUCCESS
<1>4. CASE Exit(t)
  <2>1. /\ Leave(t, code)
        /\ UNCHANGED <<told, childexit, canExit, entered, status, raw, cleaned, sceneVars>>
    BY <1>1, <1>4 DEF Exit
  <2>2. QED BY <1>3, <2>1, LeaveTyped
<1>5. CASE ReturnFromMain(t)
  <2>1. /\ Leave(t, 0)
        /\ UNCHANGED <<told, childexit, canExit, entered, status, raw, cleaned, sceneVars>>
    BY <1>3, <1>5 DEF ReturnFromMain
  <2>2. QED BY <1>3, <2>1, LeaveTyped
<1>6. QED BY <1>4, <1>5

LEMMA ThreadTyped ==
    ASSUME Typed, NEW t \in Thread, ThreadStep(t)
    PROVE  Typed'
<1>. USE ProcOfType, AwaitedType DEF Typed, signalVars, waitVars, doneVars, sceneVars
<1>1. CASE \E signal \in Signal : Deliver(t, signal)
  BY <1>1 DEF Deliver
<1>2. CASE Clean(t)
  BY <1>2 DEF Clean
<1>3. CASE Exit(t) \/ ReturnFromMain(t)
  BY <1>3, LeaversTyped
<1>4. CASE ForkReturns(t)
  BY <1>4 DEF ForkReturns
<1>5. CASE Wait(t) \/ Reap(t)
  BY <1>5 DEF Wait, Reap
<1>6. CASE WaitStore(t) \/ Store(t)
  BY <1>6 DEF WaitStore, Store
<1>7. CASE Warn(t) \/ (t = "child" /\ OutputLoopEnds)
  BY <1>7 DEF Warn, OutputLoopEnds
<1>8. childexit[ProcOf(t)] \in Nat /\ EXIT_SUCCESS \in Nat /\ EXIT_FAILURE \in Nat
  BY DEF EXIT_SUCCESS, EXIT_FAILURE
<1>9. CASE LoopEnds(t) \/ Report(t) \/ HandlerDies(t) \/ (t = "main" /\ Abort)
  BY <1>8, <1>9 DEF LoopEnds, Report, HandlerDies, Abort, Done
<1>10. CASE Terminated(t) \/ HungUp(t)
  BY <1>8, <1>10 DEF Terminated, HungUp, TellProgram, Done
<1>11. QED BY <1>1, <1>2, <1>3, <1>4, <1>5, <1>6, <1>7, <1>9, <1>10 DEF ThreadStep

LEMMA StepTyped ==
    ASSUME Typed, [Next]_vars
    PROVE  Typed'
<1>. USE DEF Typed, signalVars, waitVars, doneVars, sceneVars
<1>1. CASE \E t \in Thread : ThreadStep(t)
  BY <1>1, ThreadTyped
<1>2. CASE KeyboardEnds \/ OutputCloses \/ Jam
  BY <1>2 DEF KeyboardEnds, OutputCloses, Jam
<1>3. CASE InputFails
  BY <1>3, SentType DEF InputFails, KillGroup, Signal
<1>4. CASE \E wait_status \in Statuses \cup {Killed(SIGTERM)} : ProgramEnds(wait_status)
  <2>1. Statuses \cup {Killed(SIGTERM)} \subseteq Nat
    BY ExitAssumption DEF Killed, SIGTERM
  <2>2. PICK wait_status \in Nat : ProgramEnds(wait_status)
    BY <1>4, <2>1
  <2>3. pending' \in [Proc -> SUBSET Signal]
    BY <2>2, SentType DEF ProgramEnds, Signal
  <2>4. ended' \in [{"child", "program"} -> Nat]
    BY <2>2 DEF ProgramEnds
  <2>5. process' \in [{"child", "program"} -> {"running", "zombie", "reaped"}]
    BY <2>2 DEF ProgramEnds
  <2>6. /\ UNCHANGED <<told, childexit, canExit, doneVars, setup, known, output, commands>>
        /\ jammed' = FALSE
    BY <2>2 DEF ProgramEnds
  <2>7. QED BY <2>3, <2>4, <2>5, <2>6
<1>5. CASE ExecFails
  <2>1. Sent({"child"}, "CHLD", pending) \in [Proc -> SUBSET Signal]
    BY SentType DEF Signal
  <2>2. Sent(Proc, "TERM", Sent({"child"}, "CHLD", pending)) \in [Proc -> SUBSET Signal]
    BY <2>1, SentType DEF Signal
  <2>3. Exited(ExitCode(EXIT_FAILURE)) \in Nat
    BY Codes DEF EXIT_FAILURE
  <2>4. QED BY <1>5, <2>1, <2>2, <2>3 DEF ExecFails
<1>6. CASE \E command \in Commands : Command(command[1], command[2])
  <2>1. PICK command \in Commands : Command(command[1], command[2])
    BY <1>6
  <2>2. command[1] \in SUBSET Proc /\ command[2] \in Signal
    BY ExitAssumption DEF Signal
  <2>3. QED BY <2>1, <2>2, SentType DEF Command
<1>7. CASE UNCHANGED vars
  BY <1>7 DEF vars
<1>8. QED BY <1>1, <1>2, <1>3, <1>4, <1>5, <1>6, <1>7 DEF Next
----------------------------------------------------------------------------
(* The initial states *)

LEMMA StartStacks ==
    ASSUME Init, NEW t \in Thread
    PROVE  /\ stack[t] \in Seq(Pc) /\ Len(stack[t]) = 1 /\ stack[t] # <<>>
           /\ stack[t][1] = IF t = "watcher" THEN "sleep" ELSE "fork"
<1>1. "sleep" \in Pc /\ "fork" \in Pc
  BY PcTypes DEF LoopPc
<1>2. stack[t] = IF t = "watcher" THEN <<"sleep">> ELSE <<"fork">>
  BY DEF Init
<1>3. QED BY <1>1, <1>2

LEMMA StartOK ==
    ASSUME Init
    PROVE  ExitInv
<1>1. Typed
  <2>1. setup \in Setup /\ raw \in BOOLEAN
    BY ExitAssumption DEF Init, Setup
  <2>2. /\ pending \in [Proc -> SUBSET Signal] /\ childexit \in [Proc -> Nat]
        /\ status \in [Proc -> Nat] /\ cleaned \in [Proc -> Nat]
    BY DEF Init
  <2>3. /\ process \in [{"child", "program"} -> {"running", "zombie", "reaped"}]
        /\ ended \in [{"child", "program"} -> Nat]
    BY DEF Init
  <2>4. exitCode \in -1..255 /\ commands \in Nat
    BY DEF Init
  <2>5. QED BY <2>1, <2>2, <2>3, <2>4 DEF Init, Typed
<1>2. \A p \in Proc : Alive(p)
  BY DEF Init, Alive, Proc
<1>3. ShapeOK
  <2>1. stack \in [Thread -> Seq(Pc)]
    BY StartStacks DEF Init
  <2>2. \A t \in Thread : stack[t] = <<>> <=> ~Alive(ProcOf(t))
    BY <1>2, StartStacks, ProcOfType
  <2>3. \A t \in Thread : \A i \in 1..Len(stack[t]) : stack[t][i] \in LoopPc <=> i = 1
    BY StartStacks DEF LoopPc
  <2>4. QED BY <2>1, <2>2, <2>3 DEF ShapeOK
<1>4. FramesOK /\ Unique /\ DoneHeld
  <2>1. \A t \in Thread : FrameOK(t, "fork") \/ t = "watcher"
    BY DEF FrameOK, DonePc
  <2>2. FrameOK("watcher", "sleep")
    BY DEF FrameOK, DonePc
  <2>3. \A t \in Thread : \A i \in 1..Len(stack[t]) : FrameOK(t, stack[t][i])
    BY <2>1, <2>2, StartStacks
  <2>4. Unique
    BY StartStacks DEF Unique
  <2>5. QED BY <2>3, <2>4 DEF FramesOK, DoneHeld, Init
<1>5. Rest
  BY AwaitedType DEF Rest, Init, StatusStored, StatusPassed, CleanedOK, TerminalGivenBack,
                     StatusReported, Proc, Awaited
<1>6. TypeOK
  BY <1>1, <1>3 DEF Typed, ShapeOK, TypeOK
<1>7. QED BY <1>3, <1>4, <1>5, <1>6 DEF ExitInv, Rest
----------------------------------------------------------------------------
(* The theorems *)

\* The invariant behind the others: what each thread is doing, in its loop, in finish,
\* in the handlers of SIGTERM and SIGHUP and in done(), agrees with what its process has
\* reaped, stored and passed on (ttyrec.c:967 to 1016, 1537 to 1552, 1611 to 1683).
THEOREM Inductive == Spec => []ExitInv
<1>1. Init => ExitInv
  BY StartOK
<1>2. ExitInv /\ [Next]_vars => ExitInv'
  <2>1. SUFFICES ASSUME ExitInv, [Next]_vars
                 PROVE  ExitInv'
    OBVIOUS
  <2>2. Structure' /\ Rest'
    BY <2>1, EveryStep
  <2>3. Typed
    BY <2>1 DEF ExitInv, TypeOK, Typed
  <2>4. Typed'
    BY <2>1, <2>3, StepTyped
  <2>5. TypeOK'
    BY <2>2, <2>4 DEF Structure, ShapeOK, Typed, TypeOK
  <2>6. QED BY <2>2, <2>5 DEF ExitInv, Structure, Rest
<1>3. QED BY <1>1, <1>2, PTL DEF Spec

\* Every variable stays within its type: a thread is in a context of its own as long
\* as its process is alive, and no longer.
THEOREM TypeCorrect == Spec => []TypeOK
<1>1. ExitInv => TypeOK
  BY DEF ExitInv
<1>2. QED BY <1>1, Inductive, PTL

\* A session that nobody interrupts reports the program's exit code, and not before child
\* and program have been waited for, wherever the waits and finish meet; beside a watcher
\* main() may return 0 instead (ttyrec.c:967 to 1016, 1537 to 1552).
THEOREM AlwaysStatusReported == Spec => []StatusReported
<1>1. ExitInv => StatusReported
  BY DEF ExitInv
<1>2. QED BY <1>1, Inductive, PTL

\* However the parent of a session without a watcher ends, its terminal is no longer
\* raw: nobody passes done() before its body has been run (ttyrec.c:1651 to 1683).
THEOREM AlwaysTerminalGivenBack == Spec => []TerminalGivenBack
<1>1. ExitInv => TerminalGivenBack
  BY DEF ExitInv
<1>2. QED BY <1>1, Inductive, PTL

\* The body of done() runs at most once in a process, whatever interrupts it
\* (ttyrec.c:1651).
THEOREM AlwaysDoneOnce == Spec => []DoneOnce
<1>1. ExitInv => DoneOnce
  BY DEF ExitInv, CleanedOK, DoneOnce
<1>2. QED BY <1>1, Inductive, PTL
=============================================================================
