-------------------------- MODULE WindowSizeProofs --------------------------
(***************************************************************************)
(* Proofs about module WindowSize, for every value of its constants: type  *)
(* correctness, and that the program's terminal has the size of the user's *)
(* when all handlers are done.                                             *)
(***************************************************************************)
EXTENDS WindowSize, SequenceTheorems, TLAPS

\* Only the parent's main thread has work to return to, below all handlers; the first
\* copy of the size is over when the handler is installed.
BasePc == {"start", "install", "loop"}
BaseOK ==
    /\ \A t \in Thread : \A i \in 1..Len(stack[t]) :
           stack[t][i].pc \in BasePc => t = "main" /\ i = 1
    /\ installed => ~Runs("main", {"start"})

\* The size of the user's terminal will be read again; and it will be set again.
Coming == "WINCH" \in pending \/ \E t \in Thread : Runs(t, {"get", "start"})
Setting == \E t \in Thread : Runs(t, {"set"})

\* What was read is up to date, unless it will be read again.
ReadOK == ~missed /\ ~Coming => winsize = real

\* When it will not be set again either, a redraw may have added a row to the size, but
\* will set that size in the end.
RowsOK ==
    \A t \in Thread : \A i \in 1..Len(stack[t]) :
        stack[t][i].pc \in {"grow", "shrink"} => stack[t][i].rows = real
Settled == ~missed /\ ~overdrawn /\ ~Coming /\ ~Setting
SetOK ==
    Settled =>
        /\ RowsOK
        /\ pty = real \/ (pty = real + 1 /\ \E t \in Thread : Runs(t, {"shrink"}))

WindowInv == WindowTypeOK /\ BaseOK /\ ReadOK /\ SetOK
----------------------------------------------------------------------------
(* Stacks *)

PlacePc == SizePc \cup RedrawPc \cup BasePc

\* No place on a stack is new, but for that on top of the stack of t.
Only(t, place) ==
    \A u \in Thread : \A i \in 1..Len(stack'[u]) :
        \/ i \in 1..Len(stack[u]) /\ stack'[u][i] = stack[u][i]
        \/ u = t /\ i = Len(stack'[t]) /\ stack'[u][i] = place
NoneNew ==
    \A u \in Thread : \A i \in 1..Len(stack'[u]) :
        i \in 1..Len(stack[u]) /\ stack'[u][i] = stack[u][i]

\* A step of t from one place to another, as Runs sees it.
Moves(t, from, to) ==
    \A u \in Thread : \A pcs :
        /\ Runs(u, pcs)' => Runs(u, pcs) \/ (u = t /\ to \in pcs)
        /\ Runs(u, pcs) => Runs(u, pcs)' \/ (u = t /\ from \in pcs)

LEMMA TopAndRest ==
    ASSUME NEW S, NEW s \in Seq(S), s # <<>>
    PROVE  /\ Len(s) \in Nat \ {0} /\ Last(s) \in S /\ Last(s) = s[Len(s)]
           /\ Front(s) \in Seq(S) /\ Len(Front(s)) = Len(s) - 1
           /\ \A i \in 1..(Len(s) - 1) : Front(s)[i] = s[i]
<1>1. PICK n \in Nat \ {0} : n = Len(s)
  BY EmptySeq
<1>2. Last(s) \in S /\ Last(s) = s[n]
  BY <1>1 DEF Last
<1>3. 1 \in Int /\ n - 1 \in Int /\ \A i \in 1..(n - 1) : s[i] \in S
  BY <1>1
<1>4. /\ SubSeq(s, 1, n - 1) \in Seq(S)
      /\ Len(SubSeq(s, 1, n - 1)) = IF 1 =< n - 1 THEN n - 1 - 1 + 1 ELSE 0
      /\ \A i \in 1..(n - 1 - 1 + 1) : SubSeq(s, 1, n - 1)[i] = s[1 + i - 1]
  BY <1>3, SubSeqProperties
<1>5. /\ n - 1 = IF 1 =< n - 1 THEN n - 1 - 1 + 1 ELSE 0
      /\ \A i \in 1..(n - 1) : i \in 1..(n - 1 - 1 + 1) /\ 1 + i - 1 = i
  OBVIOUS
<1>6. QED BY <1>1, <1>2, <1>4, <1>5 DEF Front

\* Where a thread is.
LEMMA AtTop ==
    ASSUME stack \in [Thread -> Seq(Place)], NEW t \in Thread, NEW pc, In(t, pc)
    PROVE  /\ stack[t] # <<>> /\ Len(stack[t]) \in Nat \ {0} /\ Len(stack[t]) \in 1..Len(stack[t])
           /\ stack[t][Len(stack[t])] = Top(t) /\ Top(t).pc = pc /\ Top(t).rows \in Nat
<1>1. PICK s : s = stack[t]
  OBVIOUS
<1>2. s \in Seq(Place) /\ s # <<>> /\ Last(s) = Top(t) /\ Top(t).pc = pc
  BY <1>1 DEF In, Top
<1>3. PICK n \in Nat \ {0} : n = Len(s)
  BY <1>2, TopAndRest
<1>4. Last(s) \in Place /\ Last(s) = s[n]
  BY <1>2, <1>3, TopAndRest
<1>5. n \in 1..n
  OBVIOUS
<1>6. QED BY <1>1, <1>2, <1>3, <1>4, <1>5 DEF Place

LEMMA PlaceIs ==
    ASSUME NEW pc \in PlacePc, NEW rows \in Nat
    PROVE  At(pc, rows) \in Place /\ At(pc, rows).pc = pc /\ At(pc, rows).rows = rows
BY DEF At, Place, PlacePc, BasePc

LEMMA GotoMoves ==
    ASSUME stack \in [Thread -> Seq(Place)], NEW t \in Thread, NEW from,
           NEW to \in PlacePc, NEW rows \in Nat, In(t, from), Goto(t, to, rows)
    PROVE  /\ stack' \in [Thread -> Seq(Place)] /\ Len(stack'[t]) = Len(stack[t])
           /\ Only(t, At(to, rows)) /\ Moves(t, from, to) /\ \A pcs : to \in pcs => Runs(t, pcs)'
<1>1. PICK s : s = stack[t]
  OBVIOUS
<1>2. s \in Seq(Place) /\ s # <<>>
  BY <1>1, AtTop
<1>3. PICK n \in Nat \ {0} : n = Len(s)
  BY <1>2, TopAndRest
<1>4. PICK f : f = Front(s)
  OBVIOUS
<1>5. f \in Seq(Place) /\ Len(f) = n - 1 /\ \A i \in 1..(n - 1) : f[i] = s[i]
  BY <1>2, <1>3, <1>4, TopAndRest
<1>6. PICK place \in Place : place = At(to, rows) /\ place.pc = to
  BY PlaceIs
<1>7. PICK u : u = Append(f, place)
  OBVIOUS
<1>8. u \in Seq(Place) /\ Len(u) = n /\ u[n] = place /\ \A i \in 1..(n - 1) : u[i] = s[i]
  BY <1>3, <1>5, <1>6, <1>7, AppendProperties
<1>9. stack' = [stack EXCEPT ![t] = u]
  BY <1>1, <1>4, <1>6, <1>7 DEF Goto
<1>10. stack'[t] = u /\ \A v \in Thread : v # t => stack'[v] = stack[v]
  BY <1>9
<1>11. stack' \in [Thread -> Seq(Place)]
  BY <1>8, <1>9
<1>12. \A i \in 1..n : i = n \/ i \in 1..(n - 1)
  OBVIOUS
<1>13. s[n].pc = from /\ n \in 1..n
  BY <1>1, <1>3, AtTop
<1>14. Only(t, At(to, rows))
  BY <1>1, <1>3, <1>6, <1>8, <1>10, <1>12 DEF Only
<1>15. ASSUME NEW v \in Thread, NEW pcs
       PROVE  /\ Runs(v, pcs)' => Runs(v, pcs) \/ (v = t /\ to \in pcs)
              /\ Runs(v, pcs) => Runs(v, pcs)' \/ (v = t /\ from \in pcs)
  <2>1. CASE v = t
    BY <1>1, <1>3, <1>6, <1>8, <1>10, <1>12, <1>13, <2>1 DEF Runs
  <2>2. CASE v # t
    BY <1>10, <2>2 DEF Runs
  <2>3. QED BY <2>1, <2>2
<1>16. \A pcs : to \in pcs => Runs(t, pcs)'
  BY <1>6, <1>8, <1>10, <1>13 DEF Runs
<1>17. QED BY <1>1, <1>3, <1>8, <1>10, <1>11, <1>14, <1>15, <1>16 DEF Moves

LEMMA CallMoves ==
    ASSUME stack \in [Thread -> Seq(Place)], NEW t \in Thread, NEW pc \in PlacePc, Call(t, pc)
    PROVE  /\ stack' \in [Thread -> Seq(Place)] /\ Only(t, At(pc, 0))
           /\ Moves(t, "none", pc) /\ \A pcs : pc \in pcs => Runs(t, pcs)'
<1>1. PICK s : s = stack[t]
  OBVIOUS
<1>2. s \in Seq(Place)
  BY <1>1
<1>3. PICK n \in Nat : n = Len(s)
  BY <1>2
<1>4. PICK place \in Place : place = At(pc, 0) /\ place.pc = pc
  BY PlaceIs
<1>5. PICK u : u = Append(s, place)
  OBVIOUS
<1>6. u \in Seq(Place) /\ Len(u) = n + 1 /\ u[n + 1] = place /\ \A i \in 1..n : u[i] = s[i]
  BY <1>2, <1>3, <1>4, <1>5, AppendProperties
<1>7. stack' = [stack EXCEPT ![t] = u]
  BY <1>1, <1>4, <1>5 DEF Call
<1>8. stack'[t] = u /\ \A v \in Thread : v # t => stack'[v] = stack[v]
  BY <1>7
<1>9. stack' \in [Thread -> Seq(Place)]
  BY <1>6, <1>7
<1>10. /\ \A i \in 1..(n + 1) : i = n + 1 \/ i \in 1..n
       /\ \A i \in 1..n : i \in 1..(n + 1)
       /\ n + 1 \in 1..(n + 1)
  OBVIOUS
<1>11. Only(t, At(pc, 0))
  BY <1>1, <1>3, <1>4, <1>6, <1>8, <1>10 DEF Only
<1>12. ASSUME NEW v \in Thread, NEW pcs
       PROVE  /\ Runs(v, pcs)' => Runs(v, pcs) \/ (v = t /\ pc \in pcs)
              /\ Runs(v, pcs) => Runs(v, pcs)'
  <2>1. CASE v = t
    BY <1>1, <1>3, <1>4, <1>6, <1>8, <1>10, <2>1 DEF Runs
  <2>2. CASE v # t
    BY <1>8, <2>2 DEF Runs
  <2>3. QED BY <2>1, <2>2
<1>13. \A pcs : pc \in pcs => Runs(t, pcs)'
  BY <1>4, <1>6, <1>8, <1>10 DEF Runs
<1>14. QED BY <1>9, <1>11, <1>12, <1>13 DEF Moves

LEMMA ReturnMoves ==
    ASSUME stack \in [Thread -> Seq(Place)], NEW t \in Thread, NEW from, In(t, from), Return(t)
    PROVE  stack' \in [Thread -> Seq(Place)] /\ NoneNew /\ Moves(t, from, "none")
<1>1. PICK s : s = stack[t]
  OBVIOUS
<1>2. s \in Seq(Place) /\ s # <<>>
  BY <1>1, AtTop
<1>3. PICK n \in Nat \ {0} : n = Len(s)
  BY <1>2, TopAndRest
<1>4. PICK u : u = Front(s)
  OBVIOUS
<1>5. u \in Seq(Place) /\ Len(u) = n - 1 /\ \A i \in 1..(n - 1) : u[i] = s[i]
  BY <1>2, <1>3, <1>4, TopAndRest
<1>6. stack' = [stack EXCEPT ![t] = u]
  BY <1>1, <1>4 DEF Return
<1>7. stack'[t] = u /\ \A v \in Thread : v # t => stack'[v] = stack[v]
  BY <1>6
<1>8. stack' \in [Thread -> Seq(Place)]
  BY <1>5, <1>6
<1>9. /\ \A i \in 1..n : i = n \/ i \in 1..(n - 1)
      /\ \A i \in 1..(n - 1) : i \in 1..n
  OBVIOUS
<1>10. s[n].pc = from
  BY <1>1, <1>3, AtTop
<1>11. NoneNew
  BY <1>1, <1>3, <1>5, <1>7, <1>9 DEF NoneNew
<1>12. ASSUME NEW v \in Thread, NEW pcs
       PROVE  /\ Runs(v, pcs)' => Runs(v, pcs)
              /\ Runs(v, pcs) => Runs(v, pcs)' \/ (v = t /\ from \in pcs)
  <2>1. CASE v = t
    BY <1>1, <1>3, <1>5, <1>7, <1>9, <1>10, <2>1 DEF Runs
  <2>2. CASE v # t
    BY <1>7, <2>2 DEF Runs
  <2>3. QED BY <2>1, <2>2
<1>13. QED BY <1>8, <1>11, <1>12 DEF Moves
----------------------------------------------------------------------------
(* What the steps of the handlers have in common *)

LEMMA BaseStays ==
    ASSUME WindowInv, NEW t \in Thread, NEW place, NEW from, NEW to, UNCHANGED installed,
           Moves(t, from, to), to \notin BasePc,
           NoneNew \/ (Only(t, place) /\ place.pc \notin BasePc)
    PROVE  BaseOK'
<1>1. ASSUME NEW u \in Thread, NEW i \in 1..Len(stack'[u]), stack'[u][i].pc \in BasePc
      PROVE  u = "main" /\ i = 1
  <2>1. i \in 1..Len(stack[u]) /\ stack'[u][i] = stack[u][i]
    BY <1>1 DEF Only, NoneNew
  <2>2. QED BY <1>1, <2>1 DEF WindowInv, BaseOK
<1>2. Runs("main", {"start"})' => Runs("main", {"start"})
  BY DEF Moves, BasePc, Thread
<1>3. QED BY <1>1, <1>2 DEF WindowInv, BaseOK

LEMMA RowsStay ==
    ASSUME RowsOK, NEW t \in Thread, NEW place, UNCHANGED real,
           \/ NoneNew
           \/ Only(t, place) /\ (place.pc \in {"grow", "shrink"} => place.rows = real)
    PROVE  RowsOK'
<1>1. ASSUME NEW u \in Thread, NEW i \in 1..Len(stack'[u]),
             stack'[u][i].pc \in {"grow", "shrink"}
      PROVE  stack'[u][i].rows = real
  <2>1. CASE i \in 1..Len(stack[u]) /\ stack'[u][i] = stack[u][i]
    BY <1>1, <2>1 DEF RowsOK
  <2>2. CASE ~(i \in 1..Len(stack[u]) /\ stack'[u][i] = stack[u][i])
    BY <1>1, <2>2 DEF Only, NoneNew
  <2>3. QED BY <2>1, <2>2
<1>2. QED BY <1>1 DEF RowsOK

\* A step other than those of the copy leaves what is to come.
LEMMA Quiet ==
    ASSUME WindowInv, NEW t \in Thread, NEW from, NEW to, Moves(t, from, to),
           from \notin {"get", "start", "set"},
           UNCHANGED <<real, winsize, missed>>, "WINCH" \in pending => "WINCH" \in pending',
           overdrawn => overdrawn'
    PROVE  ReadOK' /\ (Settled' => Settled)
<1>1. Coming => Coming'
  BY DEF Moves, Coming
<1>2. Setting => Setting'
  BY DEF Moves, Setting
<1>3. QED BY <1>1, <1>2 DEF WindowInv, ReadOK, Settled

\* A step of a handler that does not touch the size leaves it.
LEMMA HandlerStep ==
    ASSUME WindowInv, NEW t \in Thread, NEW place, NEW from, NEW to, Moves(t, from, to),
           from \notin {"get", "start", "set", "shrink"}, to \notin BasePc,
           NoneNew \/ (Only(t, place) /\ place.pc = to /\ to \notin {"grow", "shrink"}),
           UNCHANGED <<sizeVars, historyVars>>, "WINCH" \in pending => "WINCH" \in pending'
    PROVE  BaseOK' /\ ReadOK' /\ SetOK'
<1>. USE DEF sizeVars, historyVars
<1>1. BaseOK'
  BY BaseStays
<1>2. ReadOK' /\ (Settled' => Settled)
  BY Quiet
<1>3. ASSUME Settled'
      PROVE  RowsOK' /\ (pty' = real' \/ (pty' = real' + 1 /\ \E u \in Thread : Runs(u, {"shrink"})'))
  <2>1. /\ RowsOK
        /\ pty = real \/ (pty = real + 1 /\ \E u \in Thread : Runs(u, {"shrink"}))
    BY <1>2, <1>3 DEF WindowInv, SetOK
  <2>2. RowsOK'
    BY <2>1, RowsStay
  <2>3. \A u \in Thread : Runs(u, {"shrink"}) => Runs(u, {"shrink"})'
    BY DEF Moves
  <2>4. QED BY <2>1, <2>2, <2>3
<1>4. QED BY <1>1, <1>2, <1>3 DEF SetOK
----------------------------------------------------------------------------
(* The invariant is preserved *)

LEMMA StartOK ==
    ASSUME WindowInit
    PROVE  WindowInv
<1>1. PICK place \in Place : place = At("start", 0) /\ place.pc = "start"
  <2>1. 0 \in Nat /\ "start" \in PlacePc
    BY DEF PlacePc, BasePc
  <2>2. QED BY <2>1, PlaceIs
<1>2. stack = [t \in Thread |-> IF t = "main" THEN <<place>> ELSE <<>>]
  BY <1>1 DEF WindowInit
<1>3. <<place>> \in Seq(Place) /\ Len(<<place>>) = 1 /\ <<place>>[1] = place
  OBVIOUS
<1>4. stack \in [Thread -> Seq(Place)]
  BY <1>2, <1>3, EmptySeq
<1>5. real \in Nat
  BY WindowAssumption DEF WindowInit
<1>6. WindowTypeOK
  <2>1. real \in Sizes /\ winsize \in Sizes /\ pty \in Nat
    BY <1>5 DEF WindowInit
  <2>2. /\ {installed, lockedSince, missed, overdrawn} \subseteq BOOLEAN
        /\ pending \subseteq {"WINCH", "USR2"}
    BY DEF WindowInit
  <2>3. resizes \in 0..MaxResizes /\ {locks, unlocks} \subseteq 0..MaxLocks
    BY WindowAssumption DEF WindowInit
  <2>4. QED BY <1>4, <2>1, <2>2, <2>3 DEF WindowTypeOK
<1>7. BaseOK
  <2>1. ASSUME NEW t \in Thread, NEW i \in 1..Len(stack[t])
        PROVE  t = "main" /\ i = 1
    <3>1. CASE t = "main"
      BY <1>2, <1>3, <3>1
    <3>2. CASE t # "main"
      <4>1. stack[t] = <<>>
        BY <1>2, <3>2
      <4>2. QED BY <2>1, <4>1
    <3>3. QED BY <3>1, <3>2
  <2>2. QED BY <2>1 DEF BaseOK, WindowInit
<1>8. Coming
  <2>1. stack["main"] = <<place>> /\ "main" \in Thread
    BY <1>2 DEF Thread
  <2>2. Runs("main", {"get", "start"})
    BY <1>1, <1>3, <2>1 DEF Runs
  <2>3. QED BY <2>1, <2>2 DEF Coming
<1>9. QED BY <1>6, <1>7, <1>8 DEF WindowInv, ReadOK, SetOK, Settled

LEMMA DeliverStep ==
    ASSUME WindowInv, NEW t \in Thread,
           \/ Deliver(t, "WINCH", SizePc, "get") \/ Deliver(t, "USR2", RedrawPc, "test")
    PROVE  WindowInv'
<1>. USE DEF sizeVars, lockVars, historyVars
<1>1. stack \in [Thread -> Seq(Place)] /\ {"get", "test"} \subseteq PlacePc
  BY DEF WindowInv, WindowTypeOK, PlacePc, SizePc, RedrawPc
<1>2. CASE Deliver(t, "WINCH", SizePc, "get")
  <2>1. Call(t, "get") /\ UNCHANGED <<sizeVars, lockVars, resizes, historyVars>>
        /\ pending' \subseteq pending
    BY <1>2 DEF Deliver
  <2>2. /\ stack' \in [Thread -> Seq(Place)] /\ Only(t, At("get", 0))
        /\ Moves(t, "none", "get") /\ Runs(t, {"get", "start"})'
    BY <1>1, <2>1, CallMoves
  <2>3. WindowTypeOK'
    BY <2>1, <2>2 DEF WindowInv, WindowTypeOK
  <2>4. "get" \notin BasePc /\ At("get", 0).pc = "get"
    BY DEF BasePc, At
  <2>5. BaseOK'
    BY <2>1, <2>2, <2>4, BaseStays
  <2>6. Coming'
    BY <2>2 DEF Coming
  <2>7. QED BY <2>3, <2>5, <2>6 DEF WindowInv, ReadOK, SetOK, Settled
<1>3. CASE Deliver(t, "USR2", RedrawPc, "test")
  <2>1. Call(t, "test") /\ UNCHANGED <<sizeVars, lockVars, resizes, historyVars>>
        /\ pending' = pending \ {"USR2"}
    BY <1>3 DEF Deliver
  <2>2. /\ stack' \in [Thread -> Seq(Place)] /\ Only(t, At("test", 0))
        /\ Moves(t, "none", "test")
    BY <1>1, <2>1, CallMoves
  <2>3. WindowTypeOK'
    BY <2>1, <2>2 DEF WindowInv, WindowTypeOK
  <2>4. "test" \notin BasePc /\ At("test", 0).pc = "test"
    BY DEF BasePc, At
  <2>5. BaseOK' /\ ReadOK' /\ SetOK'
    BY <2>1, <2>2, <2>4, HandlerStep
  <2>6. QED BY <2>3, <2>5 DEF WindowInv
<1>4. QED BY <1>2, <1>3

LEMMA GetSizeStep ==
    ASSUME WindowInv, NEW t \in Thread, GetSize(t)
    PROVE  WindowInv'
<1>. USE DEF lockVars
<1>1. /\ In(t, "get") /\ Goto(t, "set", 0) /\ winsize' = real /\ missed' = FALSE
      /\ UNCHANGED <<real, pty, installed, lockVars, pending, resizes, overdrawn>>
  BY DEF GetSize
<1>2. stack \in [Thread -> Seq(Place)] /\ "set" \in PlacePc /\ 0 \in Nat
  BY DEF WindowInv, WindowTypeOK, PlacePc, SizePc
<1>3. /\ stack' \in [Thread -> Seq(Place)] /\ Only(t, At("set", 0))
      /\ Moves(t, "get", "set") /\ Runs(t, {"set"})'
  BY <1>1, <1>2, GotoMoves
<1>4. WindowTypeOK'
  BY <1>1, <1>3 DEF WindowInv, WindowTypeOK
<1>5. "set" \notin BasePc /\ At("set", 0).pc = "set"
  BY DEF BasePc, At
<1>6. BaseOK'
  BY <1>1, <1>3, <1>5, BaseStays
<1>7. Setting'
  BY <1>3 DEF Setting
<1>8. QED BY <1>1, <1>4, <1>6, <1>7 DEF WindowInv, ReadOK, SetOK, Settled

\* Setting the size undoes what the redraws did to it; that they will undo it is what
\* overdrawn says.
LEMMA SetSizeStep ==
    ASSUME WindowInv, NEW t \in Thread, SetSize(t)
    PROVE  WindowInv'
<1>. USE DEF lockVars
<1>1. /\ In(t, "set") /\ Return(t) /\ pty' = winsize /\ overdrawn' = Measured
      /\ UNCHANGED <<real, winsize, installed, lockVars, pending, resizes, missed>>
  BY DEF SetSize
<1>2. stack \in [Thread -> Seq(Place)]
  BY DEF WindowInv, WindowTypeOK
<1>3. stack' \in [Thread -> Seq(Place)] /\ NoneNew /\ Moves(t, "set", "none")
  BY <1>1, <1>2, ReturnMoves
<1>4. winsize \in Nat /\ Measured \in BOOLEAN
  BY WindowAssumption DEF WindowInv, WindowTypeOK, Measured
<1>5. WindowTypeOK'
  BY <1>1, <1>3, <1>4 DEF WindowInv, WindowTypeOK
<1>6. BaseOK'
  BY <1>1, <1>3, BaseStays DEF BasePc
<1>7. Coming => Coming'
  BY <1>1, <1>3 DEF Moves, Coming
<1>8. ReadOK'
  BY <1>1, <1>7 DEF WindowInv, ReadOK
<1>9. ASSUME Settled'
      PROVE  RowsOK' /\ pty' = real'
  <2>1. ~Measured /\ winsize = real
    BY <1>1, <1>7, <1>9 DEF WindowInv, ReadOK, Settled
  <2>2. \A u \in Thread : \A i \in 1..Len(stack'[u]) :
            i \in 1..Len(stack[u]) /\ stack'[u][i] = stack[u][i]
    BY <1>3 DEF NoneNew
  <2>3. \A u \in Thread : \A i \in 1..Len(stack[u]) :
            stack[u][i].pc \notin {"grow", "shrink"}
    BY <2>1 DEF Measured, Runs
  <2>4. RowsOK'
    BY <2>2, <2>3 DEF RowsOK
  <2>5. QED BY <1>1, <2>1, <2>4
<1>10. QED BY <1>5, <1>6, <1>8, <1>9 DEF WindowInv, SetOK

LEMMA TestLockedStep ==
    ASSUME WindowInv, NEW t \in Thread, TestLocked(t)
    PROVE  WindowInv'
<1>. USE DEF sizeVars, lockVars, historyVars
<1>1. /\ In(t, "test") /\ IF lockedSince THEN Goto(t, "clear", 0) ELSE Return(t)
      /\ UNCHANGED <<sizeVars, lockVars, pending, resizes, historyVars>>
  BY DEF TestLocked
<1>2. stack \in [Thread -> Seq(Place)] /\ "clear" \in PlacePc /\ 0 \in Nat
  BY DEF WindowInv, WindowTypeOK, PlacePc, RedrawPc
<1>3. CASE Goto(t, "clear", 0)
  <2>1. /\ stack' \in [Thread -> Seq(Place)] /\ Only(t, At("clear", 0))
        /\ Moves(t, "test", "clear")
    BY <1>1, <1>2, <1>3, GotoMoves
  <2>2. "clear" \notin BasePc /\ At("clear", 0).pc = "clear"
    BY DEF BasePc, At
  <2>3. BaseOK' /\ ReadOK' /\ SetOK'
    BY <1>1, <2>1, <2>2, HandlerStep
  <2>4. WindowTypeOK'
    BY <1>1, <2>1 DEF WindowInv, WindowTypeOK
  <2>5. QED BY <2>3, <2>4 DEF WindowInv
<1>4. CASE Return(t)
  <2>1. stack' \in [Thread -> Seq(Place)] /\ NoneNew /\ Moves(t, "test", "none")
    BY <1>1, <1>2, <1>4, ReturnMoves
  <2>2. "none" \notin BasePc
    BY DEF BasePc
  <2>3. BaseOK' /\ ReadOK' /\ SetOK'
    BY <1>1, <2>1, <2>2, HandlerStep
  <2>4. WindowTypeOK'
    BY <1>1, <2>1 DEF WindowInv, WindowTypeOK
  <2>5. QED BY <2>3, <2>4 DEF WindowInv
<1>5. QED BY <1>1, <1>3, <1>4

LEMMA ClearLockedStep ==
    ASSUME WindowInv, NEW t \in Thread, ClearLocked(t)
    PROVE  WindowInv'
<1>. USE DEF sizeVars, historyVars
<1>1. /\ In(t, "clear") /\ Goto(t, "measure", 0) /\ lockedSince' = FALSE
      /\ UNCHANGED <<sizeVars, locks, unlocks, pending, resizes, historyVars>>
  BY DEF ClearLocked
<1>2. stack \in [Thread -> Seq(Place)] /\ "measure" \in PlacePc /\ 0 \in Nat
  BY DEF WindowInv, WindowTypeOK, PlacePc, RedrawPc
<1>3. /\ stack' \in [Thread -> Seq(Place)] /\ Only(t, At("measure", 0))
      /\ Moves(t, "clear", "measure")
  BY <1>1, <1>2, GotoMoves
<1>4. "measure" \notin BasePc /\ At("measure", 0).pc = "measure"
  BY DEF BasePc, At
<1>5. BaseOK' /\ ReadOK' /\ SetOK'
  BY <1>1, <1>3, <1>4, HandlerStep
<1>6. WindowTypeOK'
  BY <1>1, <1>3 DEF WindowInv, WindowTypeOK
<1>7. QED BY <1>5, <1>6 DEF WindowInv

\* A redraw measures the right size, unless another has added its row.
LEMMA MeasureStep ==
    ASSUME WindowInv, NEW t \in Thread, Measure(t)
    PROVE  WindowInv'
<1>. USE DEF sizeVars, lockVars
<1>1. /\ In(t, "measure") /\ Goto(t, "grow", pty)
      /\ overdrawn' = (overdrawn \/ \E u \in Thread : Runs(u, {"shrink"}))
      /\ UNCHANGED <<sizeVars, lockVars, pending, resizes, missed>>
  BY DEF Measure
<1>2. stack \in [Thread -> Seq(Place)] /\ "grow" \in PlacePc /\ pty \in Nat
  BY DEF WindowInv, WindowTypeOK, PlacePc, RedrawPc
<1>3. PICK rows \in Nat : rows = pty
  BY <1>2
<1>4. /\ stack' \in [Thread -> Seq(Place)] /\ Only(t, At("grow", rows))
      /\ Moves(t, "measure", "grow")
  BY <1>1, <1>2, <1>3, GotoMoves
<1>5. "grow" \notin BasePc /\ At("grow", rows).pc = "grow" /\ At("grow", rows).rows = rows
  BY DEF BasePc, At
<1>6. overdrawn \in BOOLEAN /\ overdrawn' \in BOOLEAN /\ (overdrawn => overdrawn')
  <2>1. overdrawn \in BOOLEAN
    BY DEF WindowInv, WindowTypeOK
  <2>2. QED BY <1>1, <2>1, Zenon
<1>7. WindowTypeOK'
  BY <1>1, <1>4, <1>6 DEF WindowInv, WindowTypeOK
<1>8. BaseOK'
  BY <1>1, <1>4, <1>5, BaseStays
<1>9. ReadOK' /\ (Settled' => Settled)
  BY <1>1, <1>4, <1>6, Quiet
<1>10. ASSUME Settled'
       PROVE  RowsOK' /\ pty' = real'
  <2>1. ~\E u \in Thread : Runs(u, {"shrink"})
    BY <1>1, <1>10 DEF Settled
  <2>2. RowsOK /\ pty = real
    BY <1>9, <1>10, <2>1 DEF WindowInv, SetOK
  <2>3. RowsOK'
    BY <1>1, <1>3, <1>4, <1>5, <2>2, RowsStay
  <2>4. QED BY <1>1, <2>2, <2>3
<1>11. QED BY <1>7, <1>8, <1>9, <1>10 DEF WindowInv, SetOK

LEMMA GrowStep ==
    ASSUME WindowInv, NEW t \in Thread, Grow(t)
    PROVE  WindowInv'
<1>. USE DEF lockVars, historyVars
<1>1. /\ In(t, "grow") /\ pty' = Top(t).rows + 1 /\ Goto(t, "shrink", Top(t).rows)
      /\ UNCHANGED <<real, winsize, installed, lockVars, pending, resizes, historyVars>>
  BY DEF Grow
<1>2. stack \in [Thread -> Seq(Place)] /\ "shrink" \in PlacePc
  BY DEF WindowInv, WindowTypeOK, PlacePc, RedrawPc
<1>3. PICK n \in Nat \ {0} : n = Len(stack[t]) /\ n \in 1..n /\ stack[t][n] = Top(t)
  BY <1>1, <1>2, AtTop
<1>4. PICK rows \in Nat : rows = Top(t).rows /\ Top(t).pc = "grow"
  BY <1>1, <1>2, AtTop
<1>5. /\ stack' \in [Thread -> Seq(Place)] /\ Only(t, At("shrink", rows))
      /\ Moves(t, "grow", "shrink") /\ Runs(t, {"shrink"})'
  BY <1>1, <1>2, <1>4, GotoMoves
<1>6. /\ "shrink" \notin BasePc /\ At("shrink", rows).pc = "shrink"
      /\ At("shrink", rows).rows = rows
  BY DEF BasePc, At
<1>7. pty' = rows + 1 /\ rows + 1 \in Nat
  BY <1>1, <1>4
<1>8. WindowTypeOK'
  BY <1>1, <1>5, <1>7 DEF WindowInv, WindowTypeOK
<1>9. BaseOK'
  BY <1>1, <1>5, <1>6, BaseStays
<1>10. ReadOK' /\ (Settled' => Settled)
  BY <1>1, <1>5, Quiet
<1>11. ASSUME Settled'
       PROVE  RowsOK' /\ pty' = real' + 1
  <2>1. RowsOK
    BY <1>10, <1>11 DEF WindowInv, SetOK
  <2>2. rows = real
    BY <1>3, <1>4, <2>1 DEF RowsOK
  <2>3. RowsOK'
    BY <1>1, <1>5, <1>6, <2>1, <2>2, RowsStay
  <2>4. QED BY <1>1, <1>7, <2>2, <2>3
<1>12. QED BY <1>5, <1>8, <1>9, <1>10, <1>11 DEF WindowInv, SetOK

LEMMA ShrinkStep ==
    ASSUME WindowInv, NEW t \in Thread, Shrink(t)
    PROVE  WindowInv'
<1>. USE DEF lockVars, historyVars
<1>1. /\ In(t, "shrink") /\ pty' = Top(t).rows /\ Return(t)
      /\ UNCHANGED <<real, winsize, installed, lockVars, pending, resizes, historyVars>>
  BY DEF Shrink
<1>2. stack \in [Thread -> Seq(Place)]
  BY DEF WindowInv, WindowTypeOK
<1>3. PICK n \in Nat \ {0} : n = Len(stack[t]) /\ n \in 1..n /\ stack[t][n] = Top(t)
  BY <1>1, <1>2, AtTop
<1>4. PICK rows \in Nat : rows = Top(t).rows /\ Top(t).pc = "shrink"
  BY <1>1, <1>2, AtTop
<1>5. stack' \in [Thread -> Seq(Place)] /\ NoneNew /\ Moves(t, "shrink", "none")
  BY <1>1, <1>2, ReturnMoves
<1>6. WindowTypeOK'
  BY <1>1, <1>4, <1>5 DEF WindowInv, WindowTypeOK
<1>7. BaseOK'
  BY <1>1, <1>5, BaseStays DEF BasePc
<1>8. ReadOK' /\ (Settled' => Settled)
  BY <1>1, <1>5, Quiet
<1>9. ASSUME Settled'
      PROVE  RowsOK' /\ pty' = real'
  <2>1. RowsOK
    BY <1>8, <1>9 DEF WindowInv, SetOK
  <2>2. rows = real
    BY <1>3, <1>4, <2>1 DEF RowsOK
  <2>3. RowsOK'
    BY <1>1, <1>5, <2>1, RowsStay
  <2>4. QED BY <1>1, <1>4, <2>2, <2>3
<1>10. QED BY <1>6, <1>7, <1>8, <1>9 DEF WindowInv, SetOK

LEMMA FirstCopyStep ==
    ASSUME WindowInv, FirstCopy
    PROVE  WindowInv'
<1>. USE DEF sizeVars, lockVars, historyVars
<1>1. PICK a \in Place, b \in Place : /\ a = At("install", 0) /\ a.pc = "install"
                                      /\ b = At("get", 0) /\ b.pc = "get"
  <2>1. 0 \in Nat /\ {"install", "get"} \subseteq PlacePc
    BY DEF PlacePc, SizePc, BasePc
  <2>2. QED BY <2>1, PlaceIs
<1>2. PICK s : s = <<a, b>>
  OBVIOUS
<1>3. s \in Seq(Place) /\ Len(s) = 2 /\ s[1] = a /\ s[2] = b
  BY <1>2
<1>4. /\ stack' = [stack EXCEPT !["main"] = s]
      /\ UNCHANGED <<sizeVars, lockVars, pending, resizes, historyVars>>
  BY <1>1, <1>2 DEF FirstCopy
<1>5. stack \in [Thread -> Seq(Place)] /\ "main" \in Thread
  BY DEF WindowInv, WindowTypeOK, Thread
<1>6. /\ stack' \in [Thread -> Seq(Place)] /\ stack'["main"] = s
      /\ \A t \in Thread : t # "main" => stack'[t] = stack[t]
  BY <1>3, <1>4, <1>5
<1>7. WindowTypeOK'
  BY <1>4, <1>6 DEF WindowInv, WindowTypeOK
<1>8. \A i \in 1..2 : i = 1 \/ i = 2
  OBVIOUS
<1>9. BaseOK'
  <2>1. ASSUME NEW t \in Thread, NEW i \in 1..Len(stack'[t]), stack'[t][i].pc \in BasePc
        PROVE  t = "main" /\ i = 1
    <3>1. CASE t = "main"
      BY <1>1, <1>3, <1>6, <1>8, <2>1, <3>1 DEF BasePc
    <3>2. CASE t # "main"
      BY <1>6, <2>1, <3>2 DEF WindowInv, BaseOK
    <3>3. QED BY <3>1, <3>2
  <2>2. ~Runs("main", {"start"})'
    BY <1>1, <1>3, <1>6, <1>8 DEF Runs
  <2>3. QED BY <2>1, <2>2 DEF BaseOK
<1>10. Coming'
  <2>1. 2 \in 1..2
    OBVIOUS
  <2>2. Runs("main", {"get", "start"})'
    BY <1>1, <1>3, <1>6, <2>1 DEF Runs
  <2>3. QED BY <1>5, <2>2 DEF Coming
<1>11. QED BY <1>7, <1>9, <1>10 DEF WindowInv, ReadOK, SetOK, Settled

LEMMA InstallStep ==
    ASSUME WindowInv, Install
    PROVE  WindowInv'
<1>. USE DEF lockVars, historyVars
<1>1. /\ In("main", "install") /\ installed' = TRUE /\ Goto("main", "loop", 0)
      /\ UNCHANGED <<real, winsize, pty, lockVars, pending, resizes, historyVars>>
  BY DEF Install
<1>2. /\ stack \in [Thread -> Seq(Place)] /\ "main" \in Thread
      /\ "loop" \in PlacePc /\ 0 \in Nat
  BY DEF WindowInv, WindowTypeOK, PlacePc, BasePc, Thread
<1>3. /\ stack' \in [Thread -> Seq(Place)] /\ Len(stack'["main"]) = Len(stack["main"])
      /\ Only("main", At("loop", 0)) /\ Moves("main", "install", "loop")
  BY <1>1, <1>2, GotoMoves
<1>4. PICK n \in Nat \ {0} : /\ n = Len(stack["main"]) /\ n \in 1..n
                             /\ stack["main"][n] = Top("main") /\ Top("main").pc = "install"
  BY <1>1, <1>2, AtTop
<1>5. n = 1
  BY <1>2, <1>4 DEF WindowInv, BaseOK, BasePc
<1>6. At("loop", 0).pc = "loop"
  BY DEF At
<1>7. WindowTypeOK'
  BY <1>1, <1>3 DEF WindowInv, WindowTypeOK
<1>8. BaseOK'
  <2>1. ASSUME NEW t \in Thread, NEW i \in 1..Len(stack'[t]), stack'[t][i].pc \in BasePc
        PROVE  t = "main" /\ i = 1
    <3>1. CASE i \in 1..Len(stack[t]) /\ stack'[t][i] = stack[t][i]
      BY <2>1, <3>1 DEF WindowInv, BaseOK
    <3>2. CASE ~(i \in 1..Len(stack[t]) /\ stack'[t][i] = stack[t][i])
      BY <1>3, <1>4, <1>5, <3>2 DEF Only
    <3>3. QED BY <3>1, <3>2
  <2>2. ~Runs("main", {"start"})'
    <3>1. ~Runs("main", {"start"})
      <4>1. \A i \in 1..1 : i = 1
        OBVIOUS
      <4>2. QED BY <1>4, <1>5, <4>1 DEF Runs
    <3>2. QED BY <1>2, <1>3, <3>1 DEF Moves
  <2>3. QED BY <2>1, <2>2 DEF BaseOK
<1>9. ReadOK' /\ (Settled' => Settled)
  BY <1>1, <1>2, <1>3, Quiet
<1>10. ASSUME Settled'
       PROVE  /\ RowsOK'
              /\ \/ pty' = real'
                 \/ pty' = real' + 1 /\ \E u \in Thread : Runs(u, {"shrink"})'
  <2>1. /\ RowsOK
        /\ pty = real \/ (pty = real + 1 /\ \E u \in Thread : Runs(u, {"shrink"}))
    BY <1>9, <1>10 DEF WindowInv, SetOK
  <2>2. RowsOK'
    BY <1>1, <1>2, <1>3, <1>6, <2>1, RowsStay
  <2>3. \A u \in Thread : Runs(u, {"shrink"}) => Runs(u, {"shrink"})'
    BY <1>3 DEF Moves
  <2>4. QED BY <1>1, <2>1, <2>2, <2>3
<1>11. QED BY <1>7, <1>8, <1>9, <1>10 DEF WindowInv, SetOK

\* A change is announced by a signal, or missed.
LEMMA ResizeStep ==
    ASSUME WindowInv, NEW rows \in Sizes, Resize(rows)
    PROVE  WindowInv'
<1>. USE DEF lockVars
<1>1. /\ resizes < MaxResizes /\ resizes' = resizes + 1 /\ real' = rows
      /\ pending' = IF installed THEN pending \cup {"WINCH"} ELSE pending
      /\ missed' = ~installed
      /\ UNCHANGED <<winsize, pty, installed, lockVars, stack, overdrawn>>
  BY DEF Resize
<1>2. resizes' \in 0..MaxResizes
  BY <1>1, WindowAssumption DEF WindowInv, WindowTypeOK
<1>3. missed' \in BOOLEAN /\ pending' \subseteq {"WINCH", "USR2"}
  <2>1. pending \subseteq {"WINCH", "USR2"}
    BY DEF WindowInv, WindowTypeOK
  <2>2. missed' \in BOOLEAN
    BY <1>1
  <2>3. QED BY <1>1, <2>1, <2>2
<1>4. WindowTypeOK'
  <2>1. /\ winsize \in Sizes /\ pty \in Nat /\ stack \in [Thread -> Seq(Place)]
        /\ {installed, lockedSince, overdrawn} \subseteq BOOLEAN
        /\ {locks, unlocks} \subseteq 0..MaxLocks
    BY DEF WindowInv, WindowTypeOK
  <2>2. QED BY <1>1, <1>2, <1>3, <2>1 DEF WindowTypeOK
<1>5. BaseOK'
  BY <1>1 DEF WindowInv, BaseOK, Runs
<1>6. missed' \/ Coming'
  BY <1>1 DEF Coming
<1>7. QED BY <1>4, <1>5, <1>6 DEF WindowInv, ReadOK, SetOK, Settled

\* What leaves the size, the stacks and what the signals say of the size.
LEMMA OthersStep ==
    ASSUME WindowInv, WindowTypeOK', UNCHANGED <<sizeVars, historyVars, stack>>,
           "WINCH" \in pending' <=> "WINCH" \in pending
    PROVE  WindowInv'
<1>. USE DEF sizeVars, historyVars
<1>1. Coming' <=> Coming
  BY DEF Coming, Runs
<1>2. Setting' <=> Setting
  BY DEF Setting, Runs
<1>3. BaseOK' /\ (RowsOK' <=> RowsOK)
  BY DEF WindowInv, BaseOK, RowsOK, Runs
<1>4. \A t \in Thread : Runs(t, {"shrink"})' <=> Runs(t, {"shrink"})
  BY DEF Runs
<1>5. Settled' <=> Settled
  BY <1>1, <1>2 DEF Settled
<1>6. QED BY <1>1, <1>3, <1>4, <1>5 DEF WindowInv, ReadOK, SetOK

LEMMA LockStep ==
    ASSUME WindowInv, Lock \/ Unlock
    PROVE  WindowInv'
<1>. USE DEF sizeVars, historyVars
<1>1. {locks', unlocks'} \subseteq 0..MaxLocks
  BY WindowAssumption DEF WindowInv, WindowTypeOK, Lock, Unlock
<1>2. lockedSince' \in BOOLEAN /\ pending' \subseteq {"WINCH", "USR2"}
  <2>1. lockedSince \in BOOLEAN /\ pending \subseteq {"WINCH", "USR2"}
    BY DEF WindowInv, WindowTypeOK
  <2>2. CASE Lock
    BY <2>1, <2>2 DEF Lock
  <2>3. CASE Unlock
    BY <2>1, <2>3 DEF Unlock
  <2>4. QED BY <2>2, <2>3
<1>3. /\ UNCHANGED <<sizeVars, historyVars, stack, resizes>>
      /\ "WINCH" \in pending' <=> "WINCH" \in pending
  BY DEF Lock, Unlock
<1>4. WindowTypeOK'
  <2>1. /\ {real, winsize} \subseteq Sizes /\ pty \in Nat /\ resizes \in 0..MaxResizes
        /\ {installed, missed, overdrawn} \subseteq BOOLEAN
        /\ stack \in [Thread -> Seq(Place)]
    BY DEF WindowInv, WindowTypeOK
  <2>2. QED BY <1>1, <1>2, <1>3, <2>1 DEF WindowTypeOK
<1>5. QED BY <1>3, <1>4, OthersStep

LEMMA StepOK ==
    ASSUME WindowInv, [WindowNext]_windowVars
    PROVE  WindowInv'
<1>1. ASSUME NEW t \in Thread,
             \/ Deliver(t, "WINCH", SizePc, "get") \/ Deliver(t, "USR2", RedrawPc, "test")
      PROVE  WindowInv'
  BY <1>1, DeliverStep
<1>2. ASSUME NEW t \in Thread, GetSize(t) PROVE WindowInv'
  BY <1>2, GetSizeStep
<1>3. ASSUME NEW t \in Thread, SetSize(t) PROVE WindowInv'
  BY <1>3, SetSizeStep
<1>4. ASSUME NEW t \in Thread, TestLocked(t) PROVE WindowInv'
  BY <1>4, TestLockedStep
<1>5. ASSUME NEW t \in Thread, ClearLocked(t) PROVE WindowInv'
  BY <1>5, ClearLockedStep
<1>6. ASSUME NEW t \in Thread, Measure(t) PROVE WindowInv'
  BY <1>6, MeasureStep
<1>7. ASSUME NEW t \in Thread, Grow(t) PROVE WindowInv'
  BY <1>7, GrowStep
<1>8. ASSUME NEW t \in Thread, Shrink(t) PROVE WindowInv'
  BY <1>8, ShrinkStep
<1>9. CASE FirstCopy
  BY <1>9, FirstCopyStep
<1>10. CASE Install
  BY <1>10, InstallStep
<1>11. ASSUME NEW rows \in Sizes, Resize(rows) PROVE WindowInv'
  BY <1>11, ResizeStep
<1>12. CASE Lock \/ Unlock
  BY <1>12, LockStep
<1>13. CASE UNCHANGED windowVars
  <2>1. UNCHANGED <<sizeVars, lockVars, pending, stack, resizes, historyVars>>
    BY <1>13 DEF windowVars
  <2>2. WindowTypeOK'
    BY <2>1 DEF WindowInv, WindowTypeOK, sizeVars, lockVars, historyVars
  <2>3. QED BY <2>1, <2>2, OthersStep
<1>14. QED
  BY <1>1, <1>2, <1>3, <1>4, <1>5, <1>6, <1>7, <1>8, <1>9, <1>10, <1>11, <1>12, <1>13
     DEF WindowNext
----------------------------------------------------------------------------
(* The theorems *)

\* The invariant: when the size is not to be read or set again, the program's terminal
\* has the size of the user's, or one row more while a redraw is at work.
THEOREM Inductive == WindowSpec => []WindowInv
<1>1. WindowInit => WindowInv
  BY StartOK
<1>2. WindowInv /\ [WindowNext]_windowVars => WindowInv'
  BY StepOK
<1>3. QED BY <1>1, <1>2, PTL DEF WindowSpec

\* The variables keep their types.
THEOREM TypeCorrect == WindowSpec => []WindowTypeOK
<1>1. WindowInv => WindowTypeOK
  BY DEF WindowInv
<1>2. QED BY <1>1, Inductive, PTL

\* However the handlers of the two threads interrupt one another, and however often the
\* terminal changes its size: when they are done, sigwinch_handler_parent has given the
\* last size to the program's terminal and no redraw has left its row, but for the two
\* exceptions that SizeFollows names.
THEOREM AlwaysSizeFollows == WindowSpec => []SizeFollows
<1>1. ASSUME WindowInv
      PROVE  SizeFollows
  <2>1. SUFFICES ASSUME installed, pending = {}, ~missed, ~overdrawn,
                        \A t \in Thread : ~Runs(t, SizePc \cup RedrawPc)
                 PROVE  pty = real
    BY DEF SizeFollows
  <2>2. \A t \in Thread : /\ ~Runs(t, {"get"}) /\ ~Runs(t, {"set"}) /\ ~Runs(t, {"shrink"})
    BY <2>1 DEF Runs, SizePc, RedrawPc
  <2>3. \A t \in Thread : ~Runs(t, {"start"})
    BY <1>1, <2>1 DEF WindowInv, BaseOK, Runs, BasePc
  <2>4. Settled
    BY <2>1, <2>2, <2>3 DEF Settled, Coming, Setting, Runs
  <2>5. QED BY <1>1, <2>2, <2>4 DEF WindowInv, SetOK
<1>2. QED BY <1>1, Inductive, PTL
=============================================================================
