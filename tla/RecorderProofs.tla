--------------------------- MODULE RecorderProofs ---------------------------
(***************************************************************************)
(* Proofs about module Recorder, for every value of its constants: type    *)
(* correctness; the safety of the recording; the rotations; and that the   *)
(* recorder implements module Transcript.                                  *)
(***************************************************************************)
EXTENDS Recorder, RecordsProofs, FiniteSetTheorems

\* The contexts on the stack are those that are not idle, and each is at a place
\* of its own; done() runs since the mutex is held.
FramesOK ==
    /\ at["loop"] \in {"read", "test", "show", "header", "data", "wait"}
    /\ at["swing"] \in {"idle", "test", "close", "open"}
    /\ at["done"] \in {"idle", "close", "exit"}
    /\ at["swing"] = "idle" <=> stack \in {<<"loop">>, <<"loop", "done">>}
    /\ at["done"] = "idle" <=> stack \in {<<"loop">>, <<"loop", "swing">>}
    /\ entered <=> at["done"] # "idle"

\* The file that is open is the last one.  None is open only between the two steps
\* of a rotation and after the end, and then nothing is left in the compressor.
WriterOK ==
    /\ files # <<>>
    /\ script \in {0, Len(files)}
    /\ script = 0 => ~frame /\ (at["swing"] = "open" \/ at["done"] = "exit")
    /\ frame => mode = "zstd"
    /\ ~frame => pool = <<>>
    /\ at["done"] = "exit" => pool = <<>>

\* The loop holds a chunk from its read to its last write.
ChunkHeld == at["loop"] \in {"test", "show", "header", "data"} => chunk # 0

\* A locked session that has passed the test has shown nothing since, and what it
\* shows next is the last.
LockInv == locked => leaked =< (IF at["loop"] = "show" THEN 0 ELSE 1)

\* The compressor's buffer holds what came after last_sync, which was not too long
\* ago when the writer was last called.
FlushInv ==
    /\ synced =< clock
    /\ \A i \in 1..Len(pool) : synced =< pool[i].time /\ wrote =< synced + MaxFlush

\* A request of this moment for which there is no new file yet.
Due == clock \in asked /\ (rotated # clock \/ at["swing"] \in {"close", "open"})

\* Only a request of this moment keeps a handler or a signal alive, and it has left
\* one or the other until the file has been rotated.
RotateInv ==
    /\ IsFiniteSet(asked) /\ \A time \in asked : time =< clock
    /\ clock # 0 /\ rotated =< clock /\ (rotated # 0 => rotated \in asked)
    /\ clock \notin asked => swings = {} /\ at["swing"] = "idle"
    /\ at["swing"] \in {"close", "open"} => rotated = clock
    /\ alive /\ ~entered =>
          /\ clock \in asked /\ rotated # clock => swings # {} \/ at["swing"] = "test"
          /\ Len(files) = 1 + Cardinality(asked) - (IF Due THEN 1 ELSE 0)

RecorderInv ==
    /\ RecorderTypeOK /\ FramesOK /\ WriterOK /\ ChunkHeld
    /\ RecordedAsShown /\ LockInv /\ FlushInv /\ RotateInv
----------------------------------------------------------------------------
(* The contexts *)

Stack == {<<"loop">>, <<"loop", "swing">>, <<"loop", "done">>,
          <<"loop", "swing", "done">>, <<"loop", "done", "swing">>}

\* The part of RecorderTypeOK about the contexts.
ContextsOK == stack \in Stack /\ at \in [Context -> Pc] /\ entered \in BOOLEAN /\ FramesOK

LEMMA AppendTo1 ==
    ASSUME NEW S, NEW a \in S, NEW b \in S
    PROVE  Append(<<a>>, b) = <<a, b>> /\ Front(<<a, b>>) = <<a>>
<1>1. <<a>> \in Seq(S) /\ Len(<<a>>) = 1
  OBVIOUS
<1>2. /\ Append(<<a>>, b) \in Seq(S) /\ Len(Append(<<a>>, b)) = 2
      /\ Append(<<a>>, b)[1] = a /\ Append(<<a>>, b)[2] = b
  OBVIOUS
<1>3. /\ <<a, b>> \in Seq(S) /\ Len(<<a, b>>) = 2 /\ <<a, b>>[1] = a /\ <<a, b>>[2] = b
  OBVIOUS
<1>4. \A i \in 1..2 : Append(<<a>>, b)[i] = <<a, b>>[i]
  BY <1>2, <1>3
<1>5. Append(<<a>>, b) = <<a, b>>
  BY <1>2, <1>3, <1>4, SeqEqual
<1>6. QED BY <1>1, <1>5, AppendFront

LEMMA AppendTo2 ==
    ASSUME NEW S, NEW a \in S, NEW b \in S, NEW c \in S
    PROVE  Append(<<a, b>>, c) = <<a, b, c>> /\ Front(<<a, b, c>>) = <<a, b>>
<1>1. <<a, b>> \in Seq(S) /\ Len(<<a, b>>) = 2
  OBVIOUS
<1>2. /\ Append(<<a, b>>, c) \in Seq(S) /\ Len(Append(<<a, b>>, c)) = 3
      /\ Append(<<a, b>>, c)[1] = a /\ Append(<<a, b>>, c)[2] = b
      /\ Append(<<a, b>>, c)[3] = c
  OBVIOUS
<1>3. /\ <<a, b, c>> \in Seq(S) /\ Len(<<a, b, c>>) = 3
      /\ <<a, b, c>>[1] = a /\ <<a, b, c>>[2] = b /\ <<a, b, c>>[3] = c
  OBVIOUS
<1>4. \A i \in 1..3 : Append(<<a, b>>, c)[i] = <<a, b, c>>[i]
  BY <1>2, <1>3
<1>5. Append(<<a, b>>, c) = <<a, b, c>>
  BY <1>2, <1>3, <1>4, SeqEqual
<1>6. QED BY <1>1, <1>5, AppendFront

LEMMA StackFacts ==
    /\ Last(<<"loop">>) = "loop" /\ Last(<<"loop", "swing">>) = "swing"
    /\ Last(<<"loop", "done">>) = "done" /\ Last(<<"loop", "swing", "done">>) = "done"
    /\ Last(<<"loop", "done", "swing">>) = "swing"
    /\ Append(<<"loop">>, "swing") = <<"loop", "swing">>
    /\ Append(<<"loop">>, "done") = <<"loop", "done">>
    /\ Append(<<"loop", "swing">>, "done") = <<"loop", "swing", "done">>
    /\ Append(<<"loop", "done">>, "swing") = <<"loop", "done", "swing">>
    /\ Front(<<"loop", "swing">>) = <<"loop">>
    /\ Front(<<"loop", "done", "swing">>) = <<"loop", "done">>
<1>1. /\ Last(<<"loop">>) = "loop" /\ Last(<<"loop", "swing">>) = "swing"
      /\ Last(<<"loop", "done">>) = "done" /\ Last(<<"loop", "swing", "done">>) = "done"
      /\ Last(<<"loop", "done", "swing">>) = "swing"
  BY DEF Last
<1>2. "loop" \in Context /\ "swing" \in Context /\ "done" \in Context
  BY DEF Context
<1>3. QED BY <1>1, <1>2, AppendTo1, AppendTo2

LEMMA LoopGoes ==
    ASSUME ContextsOK, NEW from, NEW pc, In("loop", from), Goto("loop", pc),
           pc \in {"read", "test", "show", "header", "data", "wait"}, UNCHANGED entered
    PROVE  /\ ContextsOK' /\ stack' = stack /\ stack = <<"loop">>
           /\ at'["swing"] = "idle" /\ at'["done"] = "idle"
           /\ at["swing"] = "idle" /\ at["done"] = "idle" /\ at'["loop"] = pc
  BY StackFacts DEF ContextsOK, FramesOK, Stack, Context, Pc, In, Goto

LEMMA LoopStays ==
    ASSUME ContextsOK, stack' = stack, at' = at, entered' = entered
    PROVE  ContextsOK'
  BY DEF ContextsOK, FramesOK

LEMMA SwingGoes ==
    ASSUME ContextsOK, NEW from, NEW pc, In("swing", from), Goto("swing", pc),
           pc \in {"close", "open"}, UNCHANGED entered
    PROVE  ContextsOK' /\ stack' = stack /\ at' = [at EXCEPT !["swing"] = pc]
  BY StackFacts DEF ContextsOK, FramesOK, Stack, Context, Pc, In, Goto

LEMMA SwingReturns ==
    ASSUME ContextsOK, NEW from, In("swing", from), Pop("swing"), UNCHANGED entered
    PROVE  ContextsOK' /\ at' = [at EXCEPT !["swing"] = "idle"]
  BY StackFacts DEF ContextsOK, FramesOK, Stack, Context, Pc, In, Pop

LEMMA SwingStarts ==
    ASSUME ContextsOK, at["swing"] = "idle", Push("swing", "test"), UNCHANGED entered
    PROVE  ContextsOK' /\ at' = [at EXCEPT !["swing"] = "test"]
  BY StackFacts DEF ContextsOK, FramesOK, Stack, Context, Pc, Push

LEMMA DoneCalled ==
    ASSUME ContextsOK, CallDone
    PROVE  /\ ContextsOK' /\ at' = [at EXCEPT !["done"] = "close"]
           /\ at["done"] = "idle" /\ entered' /\ alive' = alive
<1>1. at["done"] = "idle" /\ stack \in {<<"loop">>, <<"loop", "swing">>}
  BY DEF ContextsOK, FramesOK, CallDone
<1>2. /\ stack = <<"loop">> => stack' = <<"loop", "done">>
      /\ stack = <<"loop", "swing">> => stack' = <<"loop", "swing", "done">>
  BY StackFacts DEF CallDone, Push
<1>3. at' = [at EXCEPT !["done"] = "close"] /\ at \in [Context -> Pc]
  BY DEF CallDone, Push, ContextsOK
<1>4. /\ at' \in [Context -> Pc] /\ at'["done"] = "close"
      /\ at'["loop"] = at["loop"] /\ at'["swing"] = at["swing"]
  BY <1>3 DEF Context, Pc
<1>5. entered' = TRUE /\ alive' = alive
  BY DEF CallDone
<1>6. ContextsOK'
  BY <1>1, <1>2, <1>4, <1>5, StackFacts DEF ContextsOK, FramesOK, Stack
<1>7. QED BY <1>1, <1>3, <1>5, <1>6

LEMMA DoneGoes ==
    ASSUME ContextsOK, In("done", "close"), Goto("done", "exit"), UNCHANGED entered
    PROVE  ContextsOK' /\ stack' = stack /\ at' = [at EXCEPT !["done"] = "exit"]
  BY StackFacts DEF ContextsOK, FramesOK, Stack, Context, Pc, In, Goto
----------------------------------------------------------------------------
(* The files and the writer *)

\* The type of the writer's variables.
StoreOK ==
    /\ files \in Seq(Seq(Seq(Part))) /\ mode \in Modes
    /\ script \in 0..Len(files) /\ frame \in BOOLEAN
    /\ pool \in Seq([part : Part, time : Nat])
    /\ synced \in Nat /\ wrote \in Nat

Disk(all) == FlattenSeq([k \in 1..Len(all) |-> FlattenSeq(all[k])])

LEMMA DiskType ==
    ASSUME NEW all \in Seq(Seq(Seq(Part)))
    PROVE  /\ [k \in 1..Len(all) |-> FlattenSeq(all[k])] \in Seq(Seq(Part))
           /\ Len([k \in 1..Len(all) |-> FlattenSeq(all[k])]) = Len(all)
           /\ Disk(all) \in Seq(Part)
<1>1. \A k \in 1..Len(all) : FlattenSeq(all[k]) \in Seq(Part)
  BY FlattenType
<1>2. Len(all) \in Nat
  OBVIOUS
<1> DEFINE e(k) == FlattenSeq(all[k])
           each == [k \in 1..Len(all) |-> e(k)]
<1>3. each \in Seq(Seq(Part)) /\ Len(each) = Len(all)
  <2> HIDE DEF e
  <2>1. \A k \in 1..Len(all) : e(k) \in Seq(Part)
    BY <1>1 DEF e
  <2>2. QED BY <1>2, <2>1
<1>4. FlattenSeq(each) \in Seq(Part)
  BY <1>3, FlattenType
<1>5. QED BY <1>3, <1>4 DEF Disk

LEMMA DiskWrite ==
    ASSUME NEW all \in Seq(Seq(Seq(Part))), all # <<>>, NEW parts \in Seq(Part)
    PROVE  LET new == [all EXCEPT ![Len(all)] = Append(@, parts)]
           IN  /\ new \in Seq(Seq(Seq(Part))) /\ Len(new) = Len(all)
               /\ Disk(new) = Disk(all) \o parts
<1>1. PICK n \in Nat \ {0} : n = Len(all)
  BY FrontLast
<1>2. PICK new : new = [all EXCEPT ![n] = Append(all[n], parts)]
  OBVIOUS
<1>3. n \in 1..Len(all) /\ all[n] \in Seq(Seq(Part)) /\ Append(all[n], parts) \in Seq(Seq(Part))
  BY <1>1
<1>4. /\ new \in Seq(Seq(Seq(Part))) /\ Len(new) = n
      /\ \A j \in 1..n : new[j] = IF j = n THEN Append(all[n], parts) ELSE all[j]
  BY <1>1, <1>2, <1>3, ExceptSeq
<1>5. PICK old : old = [k \in 1..n |-> FlattenSeq(all[k])]
  OBVIOUS
<1>6. old \in Seq(Seq(Part)) /\ Len(old) = n /\ FlattenSeq(old) = Disk(all)
  BY <1>1, <1>5, DiskType DEF Disk
<1>7. FlattenSeq(Append(all[n], parts)) = FlattenSeq(all[n]) \o parts
  BY <1>3, FlattenAppend
<1>8. old[n] = FlattenSeq(all[n]) /\ old[n] \in Seq(Part) /\ old # <<>>
  BY <1>1, <1>3, <1>5, <1>6, EmptySeq
<1>9. [k \in 1..n |-> FlattenSeq(new[k])] = [old EXCEPT ![n] = old[n] \o parts]
  BY <1>4, <1>5, <1>7, <1>8
<1>10. Disk(new) = FlattenSeq([old EXCEPT ![n] = old[n] \o parts])
  BY <1>4, <1>9 DEF Disk
<1>11. PICK first, last, longer : /\ first = FlattenSeq(Front(old)) /\ last = old[n]
                                  /\ longer = last \o parts
  OBVIOUS
<1>12. longer \in Seq(Part) /\ last \in Seq(Part)
  BY <1>8, <1>11
<1>13. FlattenSeq([old EXCEPT ![n] = longer]) = first \o longer
  BY <1>6, <1>8, <1>11, <1>12, FlattenReplaceLast
<1>14. FlattenSeq(old) = first \o last
  BY <1>6, <1>8, <1>11, FlattenLast DEF Last
<1>15. first \in Seq(Part)
  BY <1>6, <1>8, <1>11, FrontLast, FlattenType
<1>16. Disk(new) = Disk(all) \o parts
  <2>1. (first \o last) \o parts = first \o (last \o parts)
    BY <1>12, <1>15, PartsAssociative
  <2>2. QED BY <1>6, <1>10, <1>11, <1>13, <1>14, <2>1
<1>17. QED BY <1>1, <1>2, <1>4, <1>16

LEMMA DiskOpen ==
    ASSUME NEW all \in Seq(Seq(Seq(Part)))
    PROVE  /\ Append(all, <<>>) \in Seq(Seq(Seq(Part)))
           /\ Len(Append(all, <<>>)) = Len(all) + 1
           /\ Disk(Append(all, <<>>)) = Disk(all)
<1>1. PICK n \in Nat : n = Len(all)
  OBVIOUS
<1>2. PICK new : new = Append(all, <<>>)
  OBVIOUS
<1>3. /\ new \in Seq(Seq(Seq(Part))) /\ Len(new) = n + 1 /\ new[n + 1] = <<>>
      /\ \A i \in 1..n : new[i] = all[i]
  BY <1>1, <1>2, EmptySeq, AppendProperties
<1>4. PICK old : old = [k \in 1..n |-> FlattenSeq(all[k])]
  OBVIOUS
<1>5. old \in Seq(Seq(Part)) /\ Len(old) = n /\ FlattenSeq(old) = Disk(all)
  BY <1>1, <1>4, DiskType DEF Disk
<1>6. PICK each : each = [k \in 1..(n + 1) |-> FlattenSeq(new[k])]
  OBVIOUS
<1>7. each \in Seq(Seq(Part)) /\ Len(each) = n + 1 /\ FlattenSeq(each) = Disk(new)
  BY <1>3, <1>6, DiskType DEF Disk
<1>8. Append(old, <<>>) \in Seq(Seq(Part)) /\ Len(Append(old, <<>>)) = n + 1
  BY <1>5, EmptySeq, AppendProperties
<1>9. \A k \in 1..(n + 1) : each[k] = Append(old, <<>>)[k]
  <2>1. \A k \in 1..n : each[k] = old[k] /\ Append(old, <<>>)[k] = old[k]
    BY <1>3, <1>4, <1>5, <1>6, EmptySeq, AppendProperties
  <2>2. each[n + 1] = <<>>
    BY <1>3, <1>6, FlattenEmpty
  <2>3. Append(old, <<>>)[n + 1] = <<>>
    BY <1>5, EmptySeq, AppendProperties
  <2>4. \A k \in 1..(n + 1) : k \in 1..n \/ k = n + 1
    OBVIOUS
  <2>5. QED BY <2>1, <2>2, <2>3, <2>4
<1>10. each = Append(old, <<>>)
  BY <1>7, <1>8, <1>9, SeqEqual
<1>11. FlattenSeq(Append(old, <<>>)) = FlattenSeq(old) \o <<>>
  BY <1>5, EmptySeq, FlattenAppend
<1>12. FlattenSeq(old) \o <<>> = FlattenSeq(old)
  BY <1>5, FlattenType, ConcatEmptySeq
<1>13. QED BY <1>1, <1>2, <1>3, <1>5, <1>7, <1>10, <1>11, <1>12

Stamped == [part : Part, time : Nat]
PartsIn(buffer) == [i \in 1..Len(buffer) |-> buffer[i].part]

LEMMA PartsInType ==
    ASSUME NEW buffer \in Seq(Stamped)
    PROVE  PartsIn(buffer) \in Seq(Part) /\ Len(PartsIn(buffer)) = Len(buffer)
<1>1. ASSUME NEW i \in 1..Len(buffer) PROVE buffer[i].part \in Part
  <2>1. buffer[i] \in Stamped
    BY ElementOfSeq
  <2>2. QED BY <2>1 DEF Stamped
<1>2. Len(buffer) \in Nat
  OBVIOUS
<1>3. QED BY <1>1, <1>2 DEF PartsIn

LEMMA PartsInAppend ==
    ASSUME NEW buffer \in Seq(Stamped), NEW stamped \in Stamped
    PROVE  PartsIn(Append(buffer, stamped)) = Append(PartsIn(buffer), stamped.part)
<1>1. PICK n \in Nat : n = Len(buffer)
  OBVIOUS
<1>2. PICK new : new = Append(buffer, stamped)
  OBVIOUS
<1>3. /\ new \in Seq(Stamped) /\ Len(new) = n + 1 /\ new[n + 1] = stamped
      /\ \A i \in 1..n : new[i] = buffer[i]
  BY <1>1, <1>2, AppendProperties
<1>4. PartsIn(new) \in Seq(Part) /\ Len(PartsIn(new)) = n + 1
  BY <1>3, PartsInType
<1>5. \A i \in 1..(n + 1) : PartsIn(new)[i] = new[i].part
  BY <1>3 DEF PartsIn
<1>6. PartsIn(buffer) \in Seq(Part) /\ Len(PartsIn(buffer)) = n
  BY <1>1, PartsInType
<1>7. \A i \in 1..n : PartsIn(buffer)[i] = buffer[i].part
  BY <1>1 DEF PartsIn
<1>8. PICK old, part : old = PartsIn(buffer) /\ part = stamped.part
  OBVIOUS
<1>9. part \in Part
  BY <1>8 DEF Stamped
<1>10. /\ Append(old, part) \in Seq(Part) /\ Len(Append(old, part)) = n + 1
       /\ Append(old, part)[n + 1] = part
       /\ \A i \in 1..n : Append(old, part)[i] = old[i]
  BY <1>6, <1>8, <1>9, AppendProperties
<1>11. \A i \in 1..(n + 1) : PartsIn(new)[i] = Append(old, part)[i]
  <2>1. \A i \in 1..n : PartsIn(new)[i] = Append(old, part)[i]
    BY <1>3, <1>5, <1>7, <1>8, <1>10
  <2>2. PartsIn(new)[n + 1] = Append(old, part)[n + 1]
    BY <1>3, <1>5, <1>8, <1>10
  <2>3. \A i \in 1..(n + 1) : i \in 1..n \/ i = n + 1
    OBVIOUS
  <2>4. QED BY <2>1, <2>2, <2>3
<1>12. PartsIn(new) = Append(old, part)
  BY <1>4, <1>10, <1>11, SeqEqual
<1>13. QED BY <1>2, <1>8, <1>12

LEMMA AllPartsIs == AllParts = Disk(files) /\ PoolParts = PartsIn(pool)
  BY DEF AllParts, Parts, Disk, PoolParts, PartsIn

LEMMA TapeType ==
    ASSUME StoreOK
    PROVE  AllParts \in Seq(Part) /\ PoolParts \in Seq(Part)
  BY AllPartsIs, DiskType, PartsInType DEF StoreOK, Stamped

\* A write to the last file puts the parts behind all others.
LEMMA DiskGrows ==
    ASSUME StoreOK, files # <<>>, script = Len(files), NEW parts \in Seq(Part), ToDisk(parts)
    PROVE  /\ files' \in Seq(Seq(Seq(Part))) /\ Len(files') = Len(files)
           /\ AllParts' = AllParts \o parts
<1>1. files' = [files EXCEPT ![Len(files)] = Append(@, parts)]
  BY DEF ToDisk
<1>2. files \in Seq(Seq(Seq(Part)))
  BY DEF StoreOK
<1>3. /\ files' \in Seq(Seq(Seq(Part))) /\ Len(files') = Len(files)
      /\ Disk(files') = Disk(files) \o parts
  BY <1>1, <1>2, DiskWrite
<1>4. AllParts' = Disk(files')
  BY DEF AllParts, Parts, Disk
<1>5. QED BY <1>3, <1>4, AllPartsIs

\* What every use of the writer does to the files and the buffer together.
Extends(parts) ==
    /\ AllParts' \o PoolParts' = (AllParts \o PoolParts) \o parts
    /\ \E more \in Seq(Part) : AllParts' = AllParts \o more
    /\ Len(files') = Len(files) /\ StoreOK'

LEMMA EmptyPool == <<>> \in Seq(Stamped) /\ PartsIn(<<>>) = <<>>
  BY EmptySeq DEF PartsIn

LEMMA WriteStep ==
    ASSUME StoreOK, clock \in Nat, files # <<>>, script = Len(files), ~frame => pool = <<>>,
           frame => mode = "zstd", NEW part \in Part, Write(part)
    PROVE  /\ Extends(<<part>>) /\ script' = script
           /\ ~frame' => pool' = <<>>
           /\ frame' => mode' = "zstd"
<1>1. AllParts \in Seq(Part) /\ PoolParts \in Seq(Part)
  BY TapeType
<1>2. PICK disk, held, one : /\ disk = AllParts /\ held = PoolParts /\ one = <<part>>
  OBVIOUS
<1>3. disk \in Seq(Part) /\ held \in Seq(Part) /\ one \in Seq(Part)
  BY <1>1, <1>2
<1>4. PICK stamped : stamped = [part |-> part, time |-> clock]
  OBVIOUS
<1>5. stamped \in Stamped /\ stamped.part = part
  BY <1>4 DEF Stamped
<1>6. mode' = mode /\ script' = script /\ wrote' \in Nat
  BY DEF Write
<1>7. PoolParts' = PartsIn(pool')
  BY DEF PoolParts, PartsIn
<1>8. ASSUME NEW parts \in Seq(Part), ToDisk(parts), synced' \in Nat, frame' \in BOOLEAN,
             pool' \in Seq(Stamped), parts \o PoolParts' = held \o one
      PROVE  Extends(one)
  <2>1. /\ files' \in Seq(Seq(Seq(Part))) /\ Len(files') = Len(files)
        /\ AllParts' = disk \o parts
    BY <1>2, <1>8, DiskGrows
  <2>2. PICK new : new = PoolParts'
    OBVIOUS
  <2>3. new \in Seq(Part)
    BY <1>7, <1>8, <2>2, PartsInType
  <2>4. (disk \o parts) \o new = disk \o (parts \o new)
    BY <1>3, <1>8, <2>3, PartsAssociative
  <2>5. disk \o (held \o one) = (disk \o held) \o one
    BY <1>3, PartsAssociative
  <2>6. AllParts' \o PoolParts' = (AllParts \o PoolParts) \o one
    BY <1>2, <1>8, <2>1, <2>2, <2>4, <2>5
  <2>7. StoreOK'
    BY <1>6, <1>8, <2>1 DEF StoreOK, Stamped
  <2>8. QED BY <1>2, <1>8, <2>1, <2>6, <2>7 DEF Extends
<1>9. CASE mode # "zstd"
  <2>1. ToDisk(one) /\ UNCHANGED <<frame, pool, synced>>
    BY <1>2, <1>9 DEF Write
  <2>2. pool = <<>> /\ held = <<>>
    BY <1>2, <1>9, AllPartsIs, EmptyPool
  <2>3. synced' \in Nat /\ frame' \in BOOLEAN /\ pool' \in Seq(Stamped) /\ PoolParts' = <<>>
    BY <1>7, <2>1, <2>2, EmptyPool DEF StoreOK
  <2>4. one \o <<>> = <<>> \o one
    BY <1>3, ConcatEmptySeq
  <2>5. Extends(one)
    BY <1>3, <1>8, <2>1, <2>2, <2>3, <2>4
  <2>6. QED BY <1>2, <1>6, <1>9, <2>1, <2>2, <2>5
<1>10. CASE mode = "zstd"
  <2>1. PICK start, all : /\ start = (IF frame THEN synced ELSE clock)
                          /\ all = Append(held, part)
    OBVIOUS
  <2>2. /\ frame' = TRUE
        /\ \/ pool # <<>> /\ ToDisk(held) /\ pool' = <<stamped>> /\ synced' = clock
           \/ ToDisk(all) /\ pool' = <<>> /\ synced' = clock
           \/ pool' = Append(pool, stamped) /\ synced' = start /\ UNCHANGED files
    BY <1>2, <1>4, <1>10, <2>1 DEF Write, WriteZstd
  <2>3. all \in Seq(Part) /\ all = held \o one
    BY <1>2, <1>3, <2>1, AppendIsConcat
  <2>4. pool \in Seq(Stamped) /\ start \in Nat
    BY <2>1 DEF StoreOK, Stamped
  <2> SUFFICES Extends(one)
    BY <1>2, <1>6, <1>10, <2>2
  <2>5. CASE ToDisk(held) /\ pool' = <<stamped>> /\ synced' = clock
    <3>1. PICK new : new = <<stamped>>
      OBVIOUS
    <3>2. new \in Seq(Stamped) /\ PartsIn(new) = one
      <4>1. new \in Seq(Stamped) /\ Len(new) = 1 /\ new[1] = stamped
        BY <1>5, <3>1
      <4>2. PartsIn(new) = [i \in 1..1 |-> new[i].part]
        BY <4>1 DEF PartsIn
      <4>3. PartsIn(new) \in Seq(Part) /\ Len(PartsIn(new)) = 1 /\ PartsIn(new)[1] = part
        BY <1>5, <4>1, <4>2, PartsInType
      <4>4. one \in Seq(Part) /\ Len(one) = 1 /\ one[1] = part
        BY <1>2
      <4>5. QED BY <4>1, <4>3, <4>4, SeqEqual
    <3>3. held \o PoolParts' = held \o one
      BY <1>7, <2>5, <3>1, <3>2
    <3>4. Extends(one)
      BY <1>3, <1>8, <2>2, <2>5, <3>1, <3>2, <3>3
    <3>5. QED BY <3>4
  <2>6. CASE ToDisk(all) /\ pool' = <<>> /\ synced' = clock
    <3>1. pool' \in Seq(Stamped) /\ PoolParts' = <<>>
      BY <1>7, <2>6, EmptyPool
    <3>2. all \o <<>> = all
      BY <2>3, ConcatEmptySeq
    <3>3. Extends(one)
      BY <1>8, <2>2, <2>3, <2>6, <3>1, <3>2
    <3>4. QED BY <3>3
  <2>7. CASE pool' = Append(pool, stamped) /\ synced' = start /\ UNCHANGED files
    <3>1. pool' \in Seq(Stamped)
      BY <1>5, <2>4, <2>7
    <3>2. PoolParts' = all
      BY <1>2, <1>5, <1>7, <2>1, <2>4, <2>7, PartsInAppend, AllPartsIs
    <3>3. AllParts' = AllParts
      BY <2>7 DEF AllParts, Parts
    <3>4. disk \o (held \o one) = (disk \o held) \o one
      BY <1>3, PartsAssociative
    <3>5. AllParts' \o PoolParts' = (AllParts \o PoolParts) \o one
      BY <1>2, <2>3, <3>2, <3>3, <3>4
    <3>6. disk = disk \o <<>> /\ <<>> \in Seq(Part)
      BY <1>3, ConcatEmptySeq, EmptySeq
    <3>7. StoreOK'
      BY <1>6, <2>2, <2>4, <2>7, <3>1 DEF StoreOK, Stamped
    <3>8. Extends(one)
      BY <1>2, <2>7, <3>3, <3>5, <3>6, <3>7 DEF Extends
    <3>9. QED BY <3>8
  <2>8. QED BY <2>2, <2>5, <2>6, <2>7
<1>11. QED BY <1>9, <1>10

LEMMA CloseStep ==
    ASSUME StoreOK, files # <<>>, script \in {0, Len(files)}, script = 0 => pool = <<>>,
           ~frame => pool = <<>>, Close
    PROVE  Extends(<<>>) /\ script' = 0 /\ ~frame' /\ pool' = <<>> /\ mode' = mode
<1>1. PICK disk, held : disk = AllParts /\ held = PoolParts
  OBVIOUS
<1>2. disk \in Seq(Part) /\ held \in Seq(Part)
  BY <1>1, TapeType
<1>3. /\ script' = 0 /\ frame' = FALSE /\ pool' = <<>> /\ mode' = mode
      /\ synced' = synced /\ wrote' = wrote
  BY DEF Close
<1>4. PoolParts' = <<>> /\ pool' \in Seq(Stamped)
  BY <1>3, EmptyPool DEF PoolParts, PartsIn
<1>5. /\ files' \in Seq(Seq(Seq(Part))) /\ Len(files') = Len(files)
      /\ AllParts' = disk \o held
  <2>1. CASE frame /\ pool # <<>>
    <3>1. ToDisk(held) /\ script = Len(files)
      BY <1>1, <2>1 DEF Close
    <3>2. QED BY <1>1, <1>2, <3>1, DiskGrows
  <2>2. CASE pool = <<>>
    <3>1. files' = files /\ held = <<>>
      BY <1>1, <2>2, EmptyPool, AllPartsIs DEF Close
    <3>2. AllParts' = disk
      BY <1>1, <3>1 DEF AllParts, Parts
    <3>3. disk \o <<>> = disk
      BY <1>2, ConcatEmptySeq
    <3>4. QED BY <3>1, <3>2, <3>3 DEF StoreOK
  <2>3. QED BY <2>1, <2>2
<1>6. StoreOK'
  <2>1. Len(files') \in Nat
    BY <1>5
  <2>2. synced' \in Nat /\ wrote' \in Nat /\ mode' \in Modes
    BY <1>3 DEF StoreOK
  <2>3. pool' \in Seq([part : Part, time : Nat])
    BY <1>4 DEF Stamped
  <2>4. files' \in Seq(Seq(Seq(Part)))
    BY <1>5
  <2>5. script' \in 0..Len(files')
    BY <1>3, <2>1
  <2>6. frame' \in BOOLEAN
    BY <1>3
  <2>7. QED BY <2>2, <2>3, <2>4, <2>5, <2>6 DEF StoreOK
<1>7. AllParts' \o PoolParts' = (AllParts \o PoolParts) \o <<>>
  BY <1>1, <1>4, <1>5
<1>8. QED BY <1>1, <1>2, <1>3, <1>5, <1>6, <1>7 DEF Extends

LEMMA OpenStep ==
    ASSUME StoreOK, files' = Append(files, <<>>), script' = Len(files) + 1,
           UNCHANGED <<mode, frame, pool, synced, wrote>>
    PROVE  /\ StoreOK' /\ AllParts' = AllParts /\ PoolParts' = PoolParts
           /\ files' # <<>> /\ script' = Len(files') /\ Len(files') = Len(files) + 1
<1>1. files \in Seq(Seq(Seq(Part))) /\ Len(files) \in Nat
  BY DEF StoreOK
<1>2. /\ files' \in Seq(Seq(Seq(Part))) /\ Len(files') = Len(files) + 1
      /\ Disk(files') = Disk(files)
  BY <1>1, DiskOpen
<1>3. AllParts' = Disk(files') /\ PoolParts' = PoolParts
  BY DEF AllParts, Parts, Disk, PoolParts
<1>4. files' # <<>>
  BY <1>1, <1>2, EmptySeq
<1>5. script' \in 0..Len(files')
  BY <1>1, <1>2
<1>6. StoreOK'
  BY <1>2, <1>5 DEF StoreOK
<1>7. QED BY <1>2, <1>3, <1>4, <1>6, AllPartsIs

\* The writer is left alone.
LEMMA StoreStays ==
    ASSUME StoreOK, UNCHANGED writerVars
    PROVE  /\ StoreOK' /\ AllParts' = AllParts /\ PoolParts' = PoolParts
           /\ UNCHANGED <<files, mode, script, frame, pool, synced, wrote>>
  BY DEF StoreOK, writerVars, AllParts, Parts, PoolParts
----------------------------------------------------------------------------
(* The invariant, part by part *)

LEMMA InvFacts ==
    ASSUME RecorderInv
    PROVE  /\ ContextsOK /\ StoreOK
           /\ clock \in Nat /\ chunk \in 0..MaxChunks /\ wanted \in Seq(Chunk)
           /\ leaked \in Nat /\ locked \in BOOLEAN /\ hidden \in BOOLEAN
           /\ swings \subseteq {"parent", "child"} /\ asked \subseteq Nat
           /\ rotated \in Nat /\ toggles \in Nat /\ alive \in BOOLEAN
  BY DEF RecorderInv, RecorderTypeOK, ContextsOK, StoreOK, Stack, FileTypeOK

\* The loop runs only when nothing else does, so a file is open.
LEMMA LoopWrites ==
    ASSUME RecorderInv, NEW from, In("loop", from)
    PROVE  /\ at["swing"] = "idle" /\ at["done"] = "idle" /\ at["loop"] = from
           /\ script = Len(files)
  BY StackFacts DEF RecorderInv, RecorderTypeOK, FramesOK, WriterOK, In

LEMMA ContextsStep ==
    ASSUME RecorderInv, [RecorderNext]_recorderVars
    PROVE  ContextsOK'
<1>1. ContextsOK
  BY InvFacts
<1>2. CASE TestLock
  BY <1>1, <1>2, LoopGoes DEF TestLock, endVars
<1>3. CASE Show
  BY <1>1, <1>3, LoopGoes DEF Show, endVars
<1>4. CASE ShowFails
  BY <1>1, <1>4, LoopGoes DEF ShowFails, endVars
<1>5. CASE WriteHeader
  BY <1>1, <1>5, LoopGoes DEF WriteHeader, endVars
<1>6. CASE WriteData
  BY <1>1, <1>6, LoopGoes DEF WriteData, endVars
<1>7. CASE StartRotation
  BY <1>1, <1>7, SwingStarts DEF StartRotation, endVars
<1>8. CASE TestRotation
  BY <1>1, <1>8, SwingGoes, SwingReturns DEF TestRotation, endVars
<1>9. CASE CloseOld
  BY <1>1, <1>9, SwingGoes DEF CloseOld, endVars
<1>10. CASE OpenNew
  BY <1>1, <1>10, SwingReturns DEF OpenNew, endVars
<1>11. CASE OpenFails
  BY <1>1, <1>11, DoneCalled, LoopStays DEF OpenFails
<1>12. CASE CloseLast
  BY <1>1, <1>12, DoneGoes DEF CloseLast, endVars
<1>13. CASE Exit
  BY <1>1, <1>13, LoopStays DEF Exit
<1>14. CASE \E source \in Sources : ReadOutput(source)
  BY <1>1, <1>14, LoopGoes DEF ReadOutput, endVars
<1>15. CASE OutputEnds
  BY <1>1, <1>15, LoopGoes DEF OutputEnds, endVars
<1>16. CASE ProgramReaped \/ Terminate
  BY <1>1, <1>16, DoneCalled DEF ProgramReaped, Terminate
<1>17. CASE Crash
  BY <1>1, <1>17, LoopStays DEF Crash
<1>18. CASE \E targets \in RotateTargets : RequestRotation(targets)
  BY <1>1, <1>18, LoopStays DEF RequestRotation, endVars
<1>19. CASE ForwardRotation \/ LockChanges \/ Tick
  BY <1>1, <1>19, LoopStays DEF ForwardRotation, LockChanges, Tick, endVars
<1>20. CASE UNCHANGED recorderVars
  BY <1>1, <1>20, LoopStays DEF recorderVars, endVars
<1>21. QED
  BY <1>2, <1>3, <1>4, <1>5, <1>6, <1>7, <1>8, <1>9, <1>10, <1>11, <1>12, <1>13, <1>14,
     <1>15, <1>16, <1>17, <1>18, <1>19, <1>20 DEF RecorderNext, ChildStep

\* A step that leaves the writer alone, and neither opens a file nor leaves done().
LEMMA WriterStays ==
    ASSUME RecorderInv, UNCHANGED writerVars,
           at["swing"] = "open" => at'["swing"] = "open",
           at["done"] = "exit" <=> at'["done"] = "exit"
    PROVE  StoreOK' /\ WriterOK'
<1>1. StoreOK /\ WriterOK
  BY InvFacts DEF RecorderInv
<1>2. StoreOK' /\ UNCHANGED <<files, script, frame, mode, pool>>
  BY <1>1, StoreStays
<1>3. QED BY <1>1, <1>2 DEF WriterOK

LEMMA WriterStep ==
    ASSUME RecorderInv, [RecorderNext]_recorderVars
    PROVE  StoreOK' /\ WriterOK'
<1>1. /\ ContextsOK /\ StoreOK /\ WriterOK /\ clock \in Nat
      /\ at \in [Context -> Pc] /\ {"loop", "swing", "done"} = Context
  BY InvFacts DEF RecorderInv, ContextsOK, Context
<1>2. CASE UNCHANGED writerVars /\ UNCHANGED at
  BY <1>2, WriterStays
<1>3. ASSUME NEW from, NEW pc, In("loop", from), Goto("loop", pc), UNCHANGED writerVars,
             pc \in {"read", "test", "show", "header", "data", "wait"}, UNCHANGED entered
      PROVE  StoreOK' /\ WriterOK'
  BY <1>1, <1>3, LoopGoes, WriterStays
<1>4. CASE TestLock \/ Show \/ ShowFails \/ OutputEnds
  <2>1. CASE TestLock
    BY <1>3, <2>1 DEF TestLock, endVars
  <2>2. CASE Show
    BY <1>3, <2>2 DEF Show, endVars
  <2>3. CASE ShowFails
    BY <1>3, <2>3 DEF ShowFails, endVars
  <2>4. CASE OutputEnds
    BY <1>3, <2>4 DEF OutputEnds, endVars
  <2>5. QED BY <1>4, <2>1, <2>2, <2>3, <2>4
<1>5. CASE \E source \in Sources : ReadOutput(source)
  BY <1>3, <1>5 DEF ReadOutput, endVars
<1>6. ASSUME NEW part \in Part, NEW from, NEW pc, In("loop", from), Write(part),
             Goto("loop", pc), pc \in {"read", "data"}, UNCHANGED entered
      PROVE  StoreOK' /\ WriterOK'
  <2>1. at'["done"] = "idle"
    BY <1>1, <1>6, LoopGoes
  <2>2. /\ Extends(<<part>>) /\ script' = script
        /\ ~frame' => pool' = <<>>
        /\ frame' => mode' = "zstd"
    BY <1>1, <1>6, LoopWrites, WriteStep DEF WriterOK
  <2>3. script = Len(files) /\ script # 0 /\ StoreOK' /\ Len(files') = Len(files)
    BY <1>1, <1>6, <2>2, LoopWrites, EmptySeq DEF Extends, WriterOK, StoreOK
  <2>4. files' # <<>>
    BY <2>3, EmptySeq
  <2>5. QED BY <2>1, <2>2, <2>3, <2>4 DEF WriterOK
<1>7. CASE WriteHeader \/ WriteData
  <2>1. chunk \in Chunk
    BY <1>7, InvFacts, LoopWrites DEF WriteHeader, WriteData, RecorderInv, ChunkHeld, Chunk
  <2>2. QED BY <1>6, <1>7, <2>1, PartTypes DEF WriteHeader, WriteData, endVars
<1>8. CASE StartRotation
  <2>1. at' = [at EXCEPT !["swing"] = "test"] /\ at["swing"] = "idle" /\ UNCHANGED writerVars
    BY <1>1, <1>8, SwingStarts DEF StartRotation, endVars
  <2>2. QED BY <1>1, <2>1, WriterStays
<1>9. CASE TestRotation
  <2>1. /\ \E pc \in {"idle", "close"} : at' = [at EXCEPT !["swing"] = pc]
        /\ at["swing"] = "test" /\ UNCHANGED writerVars
    BY <1>9 DEF TestRotation, Pop, Goto, In
  <2>2. QED BY <1>1, <2>1, WriterStays
<1>10. ASSUME Close, \/ at' = [at EXCEPT !["swing"] = "open"]
                     \/ at' = [at EXCEPT !["done"] = "exit"]
       PROVE  StoreOK' /\ WriterOK'
  <2>1. Extends(<<>>) /\ script' = 0 /\ ~frame' /\ pool' = <<>> /\ mode' = mode
    BY <1>1, <1>10, CloseStep DEF WriterOK
  <2>2. StoreOK' /\ Len(files') = Len(files)
    BY <2>1 DEF Extends
  <2>3. files' # <<>>
    BY <1>1, <2>2, EmptySeq DEF WriterOK, StoreOK
  <2>4. at'["swing"] = "open" \/ at'["done"] = "exit"
    BY <1>1, <1>10
  <2>5. QED BY <2>1, <2>2, <2>3, <2>4 DEF WriterOK
<1>11. CASE CloseOld \/ CloseLast
  BY <1>10, <1>11 DEF CloseOld, CloseLast, Goto
<1>12. CASE OpenNew
  <2>1. /\ StoreOK' /\ files' # <<>> /\ script' = Len(files')
        /\ frame' = frame /\ pool' = pool /\ mode' = mode
    BY <1>1, <1>12, OpenStep DEF OpenNew
  <2>2. at'["done"] = at["done"] /\ script' # 0
    BY <1>1, <1>12, <2>1, EmptySeq DEF OpenNew, Pop, StoreOK
  <2>3. QED BY <1>1, <2>1, <2>2 DEF WriterOK
<1>13. CASE CallDone /\ UNCHANGED writerVars
  <2>1. at' = [at EXCEPT !["done"] = "close"] /\ at["done"] = "idle"
    BY <1>1, <1>13, DoneCalled
  <2>2. QED BY <1>1, <1>13, <2>1, WriterStays
<1>14. CASE ProgramReaped \/ Terminate \/ OpenFails
  BY <1>2, <1>13, <1>14 DEF ProgramReaped, Terminate, OpenFails
<1>15. CASE Exit \/ Crash \/ ForwardRotation \/ LockChanges \/ Tick
  BY <1>2, <1>15 DEF Exit, Crash, ForwardRotation, LockChanges, Tick
<1>16. CASE \E targets \in RotateTargets : RequestRotation(targets)
  BY <1>2, <1>16 DEF RequestRotation
<1>17. CASE UNCHANGED recorderVars
  BY <1>2, <1>17 DEF recorderVars
<1>18. QED
  BY <1>4, <1>5, <1>7, <1>8, <1>9, <1>11, <1>12, <1>14, <1>15, <1>16, <1>17
     DEF RecorderNext, ChildStep

\* The steps of the loop, but for its call of done().
LoopAction ==
    \/ TestLock \/ Show \/ ShowFails \/ WriteHeader \/ WriteData \/ OutputEnds
    \/ \E source \in Sources : ReadOutput(source)

Tape == AllParts \o PoolParts
DiskKept == \E more \in Seq(Part) : AllParts' = AllParts \o more

LEMMA TapeStays ==
    ASSUME StoreOK, UNCHANGED writerVars
    PROVE  Tape' = Tape /\ DiskKept
<1>1. AllParts \in Seq(Part) /\ <<>> \in Seq(Part)
  BY TapeType, EmptySeq
<1>2. AllParts' = AllParts /\ PoolParts' = PoolParts
  BY StoreStays
<1>3. AllParts = AllParts \o <<>>
  BY <1>1, ConcatEmptySeq
<1>4. QED BY <1>1, <1>2, <1>3 DEF Tape, DiskKept

\* What every other step leaves alone.
LoopAlone ==
    /\ at'["loop"] = at["loop"] /\ chunk' = chunk /\ wanted' = wanted
    /\ Tape' = Tape /\ DiskKept
    /\ (locked' = locked /\ leaked' = leaked) \/ leaked' = 0

LEMMA OtherSteps ==
    ASSUME RecorderInv, [RecorderNext]_recorderVars, ~LoopAction
    PROVE  LoopAlone
<1>1. /\ ContextsOK /\ StoreOK /\ WriterOK
      /\ at \in [Context -> Pc] /\ {"loop", "swing", "done"} = Context
  BY InvFacts DEF RecorderInv, ContextsOK, Context
<1>2. ASSUME UNCHANGED writerVars, at'["loop"] = at["loop"], UNCHANGED <<chunk, wanted>>,
             (locked' = locked /\ leaked' = leaked) \/ leaked' = 0
      PROVE  LoopAlone
  BY <1>1, <1>2, TapeStays DEF LoopAlone
<1>3. ASSUME NEW other \in {"swing", "done"}, NEW pc, at' = [at EXCEPT ![other] = pc]
      PROVE  at'["loop"] = at["loop"]
  BY <1>1, <1>3
<1>4. CASE StartRotation
  BY <1>2, <1>3, <1>4 DEF StartRotation, Push, lockVars, loopVars
<1>5. CASE TestRotation
  BY <1>2, <1>3, <1>5 DEF TestRotation, Goto, Pop, lockVars, loopVars
<1>6. ASSUME Close, NEW other \in {"swing", "done"}, NEW pc, at' = [at EXCEPT ![other] = pc],
             UNCHANGED <<loopVars, lockVars>>
      PROVE  LoopAlone
  <2>1. Extends(<<>>)
    BY <1>1, <1>6, CloseStep DEF WriterOK
  <2>2. AllParts \in Seq(Part) /\ PoolParts \in Seq(Part)
    BY <1>1, TapeType
  <2>3. PICK tape : tape = AllParts \o PoolParts
    OBVIOUS
  <2>4. tape \in Seq(Part) /\ tape \o <<>> = tape
    BY <2>2, <2>3, ConcatEmptySeq
  <2>5. Tape' = Tape /\ DiskKept
    BY <2>1, <2>3, <2>4 DEF Tape, DiskKept, Extends
  <2>6. QED BY <1>3, <1>6, <2>5 DEF LoopAlone, loopVars, lockVars
<1>7. CASE CloseOld \/ CloseLast
  BY <1>6, <1>7 DEF CloseOld, CloseLast, Goto
<1>8. CASE OpenNew
  <2>1. AllParts' = AllParts /\ PoolParts' = PoolParts
    BY <1>1, <1>8, OpenStep DEF OpenNew
  <2>2. AllParts = AllParts \o <<>> /\ <<>> \in Seq(Part)
    BY <1>1, TapeType, EmptySeq, ConcatEmptySeq
  <2>3. Tape' = Tape /\ DiskKept
    BY <2>1, <2>2 DEF Tape, DiskKept
  <2>4. QED BY <1>3, <1>8, <2>3 DEF LoopAlone, loopVars, lockVars, OpenNew, Pop
<1>9. CASE OpenFails
  BY <1>2, <1>3, <1>9 DEF OpenFails, CallDone, Push, lockVars, loopVars
<1>10. CASE ProgramReaped \/ Terminate
  BY <1>2, <1>3, <1>10 DEF ProgramReaped, Terminate, CallDone, Push, lockVars, loopVars
<1>11. CASE Exit \/ Crash \/ ForwardRotation \/ LockChanges \/ Tick
  BY <1>2, <1>11 DEF Exit, Crash, ForwardRotation, LockChanges, Tick, lockVars, loopVars
<1>12. CASE \E targets \in RotateTargets : RequestRotation(targets)
  BY <1>2, <1>12 DEF RequestRotation, lockVars, loopVars
<1>13. CASE UNCHANGED recorderVars
  BY <1>2, <1>13 DEF recorderVars, lockVars, loopVars
<1>14. QED
  BY <1>4, <1>5, <1>7, <1>8, <1>9, <1>10, <1>11, <1>12, <1>13
     DEF RecorderNext, ChildStep, LoopAction

LEMMA ChunkStep ==
    ASSUME RecorderInv, [RecorderNext]_recorderVars
    PROVE  ChunkHeld' /\ chunk' \in 0..MaxChunks
<1>1. ChunkHeld /\ chunk \in 0..MaxChunks /\ MaxChunks \in Nat /\ ContextsOK
  BY InvFacts, ChunkAssumption DEF RecorderInv
<1>2. ASSUME NEW from, NEW pc, In("loop", from), Goto("loop", pc), UNCHANGED entered,
             pc \in {"read", "test", "show", "header", "data", "wait"}
      PROVE  at["loop"] = from /\ at'["loop"] = pc
  BY <1>1, <1>2, LoopGoes DEF In
<1>3. CASE \E source \in Sources : ReadOutput(source)
  <2>1. chunk' \in 0..MaxChunks /\ chunk' # 0
    BY <1>1, <1>3 DEF ReadOutput
  <2>2. QED BY <2>1 DEF ChunkHeld
<1>4. CASE TestLock
  BY <1>1, <1>2, <1>4 DEF TestLock, ChunkHeld, loopVars, endVars
<1>5. CASE Show
  BY <1>1, <1>2, <1>5 DEF Show, ChunkHeld, endVars
<1>6. CASE WriteHeader
  BY <1>1, <1>2, <1>6 DEF WriteHeader, ChunkHeld, loopVars, endVars
<1>7. CASE ShowFails \/ WriteData \/ OutputEnds
  BY <1>1, <1>2, <1>7 DEF ShowFails, WriteData, OutputEnds, ChunkHeld, loopVars, endVars
<1>8. CASE ~LoopAction
  BY <1>1, <1>8, OtherSteps DEF LoopAlone, ChunkHeld
<1>9. QED BY <1>3, <1>4, <1>5, <1>6, <1>7, <1>8 DEF LoopAction

\* A locked session shows what had passed the test, and nothing after it.
LEMMA LockStep ==
    ASSUME RecorderInv, [RecorderNext]_recorderVars
    PROVE  LockInv' /\ leaked' \in Nat
<1>1. LockInv /\ ContextsOK /\ leaked \in Nat
  BY InvFacts DEF RecorderInv
<1>2. ASSUME NEW from, NEW pc, In("loop", from), Goto("loop", pc), UNCHANGED entered,
             pc \in {"read", "test", "show", "header", "data", "wait"}
      PROVE  at["loop"] = from /\ at'["loop"] = pc
  BY <1>1, <1>2, LoopGoes DEF In
<1>3. CASE TestLock
  BY <1>1, <1>2, <1>3 DEF TestLock, LockInv, loopVars, lockVars, endVars
<1>4. CASE Show
  BY <1>1, <1>2, <1>4 DEF Show, LockInv, lockVars, endVars
<1>5. CASE ShowFails \/ WriteHeader \/ WriteData \/ OutputEnds
  BY <1>1, <1>2, <1>5
     DEF ShowFails, WriteHeader, WriteData, OutputEnds, LockInv, loopVars, lockVars, endVars
<1>6. CASE \E source \in Sources : ReadOutput(source)
  BY <1>1, <1>2, <1>6 DEF ReadOutput, LockInv, lockVars, endVars
<1>7. CASE ~LoopAction
  BY <1>1, <1>7, OtherSteps DEF LoopAlone, LockInv
<1>8. QED BY <1>3, <1>4, <1>5, <1>6, <1>7 DEF LoopAction

\* The parts of a record, and what is missing when some of them are written.
LEMMA MissingParts ==
    ASSUME NEW tape \in Seq(Part), NEW id \in Chunk
    PROVE  /\ <<Header(id)>> \in Seq(Part) /\ <<Data(id)>> \in Seq(Part)
           /\ (tape \o <<Header(id)>>) \o <<Data(id)>> = tape \o <<Header(id), Data(id)>>
           /\ tape \o <<>> = tape
<1>1. PICK h, d : h = Header(id) /\ d = Data(id)
  OBVIOUS
<1>2. h \in Part /\ d \in Part
  BY <1>1, PartTypes
<1>3. PICK s, t : s = <<h>> /\ t = <<d>>
  OBVIOUS
<1>4. s \in Seq(Part) /\ t \in Seq(Part)
  BY <1>2, <1>3
<1>5. s \o t = <<h, d>>
  <2>1. Append(s, d) = s \o t
    BY <1>2, <1>3, <1>4, AppendIsConcat
  <2>2. Append(<<h>>, d) = <<h, d>>
    BY <1>2, AppendTo1
  <2>3. QED BY <1>3, <2>1, <2>2
<1>6. (tape \o s) \o t = tape \o (s \o t)
  BY <1>4, PartsAssociative
<1>7. tape \o <<>> = tape
  BY ConcatEmptySeq
<1>8. QED BY <1>1, <1>3, <1>4, <1>5, <1>6, <1>7

LEMMA TapeSeq ==
    ASSUME StoreOK
    PROVE  Tape \in Seq(Part)
<1>1. PICK disk, held : disk = AllParts /\ held = PoolParts
  OBVIOUS
<1>2. disk \in Seq(Part) /\ held \in Seq(Part)
  BY <1>1, TapeType
<1>3. QED BY <1>1, <1>2 DEF Tape

LEMMA TapeStep ==
    ASSUME RecorderInv, [RecorderNext]_recorderVars
    PROVE  RecordedAsShown' /\ wanted' \in Seq(Chunk)
<1>1. /\ ContextsOK /\ StoreOK /\ ChunkHeld /\ chunk \in 0..MaxChunks
      /\ wanted \in Seq(Chunk) /\ clock \in Nat /\ WriterOK
  BY InvFacts DEF RecorderInv
<1>2. Tape \o Missing = RecordsOf(wanted)
  BY DEF RecorderInv, RecordedAsShown, Tape
<1>3. PICK tape : tape = Tape
  OBVIOUS
<1>4. tape \in Seq(Part) /\ tape \o <<>> = tape
  BY <1>1, <1>3, TapeSeq, ConcatEmptySeq
<1> SUFFICES Tape' \o Missing' = RecordsOf(wanted') /\ wanted' \in Seq(Chunk)
  BY DEF RecordedAsShown, Tape
<1>5. ASSUME NEW from, NEW pc, In("loop", from), Goto("loop", pc), UNCHANGED entered,
             pc \in {"read", "test", "show", "header", "data", "wait"}
      PROVE  at["loop"] = from /\ at'["loop"] = pc
  BY <1>1, <1>5, LoopGoes DEF In
<1>6. ASSUME NEW from, NEW pc, In("loop", from), Goto("loop", pc), UNCHANGED entered,
             pc \in {"read", "test", "show", "wait"}, from \in {"read", "test", "show"},
             UNCHANGED <<writerVars, wanted>>
      PROVE  Tape' \o Missing' = RecordsOf(wanted') /\ wanted' \in Seq(Chunk)
  <2>1. Missing = <<>> /\ Missing' = <<>>
    BY <1>5, <1>6 DEF Missing
  <2>2. Tape' = Tape
    BY <1>1, <1>6, TapeStays
  <2>3. QED BY <1>1, <1>2, <1>6, <2>1, <2>2
<1>7. CASE TestLock \/ ShowFails \/ OutputEnds
  BY <1>6, <1>7 DEF TestLock, ShowFails, OutputEnds, loopVars, endVars
<1>8. CASE \E source \in Sources : ReadOutput(source)
  BY <1>6, <1>8 DEF ReadOutput, endVars
<1>9. CASE Show
  <2>1. CASE hidden
    BY <1>6, <1>9, <2>1 DEF Show, endVars
  <2>2. CASE ~hidden
    <3>1. at["loop"] = "show" /\ at'["loop"] = "header"
      BY <1>5, <1>9, <2>2 DEF Show, endVars
    <3>2. chunk \in Chunk /\ chunk' = chunk
      BY <1>1, <1>9, <3>1 DEF Show, ChunkHeld, Chunk
    <3>3. wanted' = Append(wanted, chunk) /\ Tape' = tape
      BY <1>1, <1>3, <1>9, <2>2, TapeStays DEF Show
    <3>4. Missing = <<>> /\ Missing' = <<Header(chunk), Data(chunk)>>
      BY <3>1, <3>2 DEF Missing
    <3>5. tape = RecordsOf(wanted)
      BY <1>2, <1>3, <1>4, <3>4
    <3>6. RecordsOf(wanted') = tape \o <<Header(chunk), Data(chunk)>>
      BY <1>1, <3>2, <3>3, <3>5, RecordsAppend
    <3>7. wanted' \in Seq(Chunk)
      BY <1>1, <3>2, <3>3, AppendProperties
    <3>8. QED BY <3>3, <3>4, <3>6, <3>7
  <2>3. QED BY <2>1, <2>2
<1>10. ASSUME NEW part \in Part, NEW from, In("loop", from), Write(part)
       PROVE  Tape' = tape \o <<part>>
  <2>1. Extends(<<part>>)
    BY <1>1, <1>10, LoopWrites, WriteStep DEF WriterOK
  <2>2. QED BY <1>3, <2>1 DEF Extends, Tape
<1>11. CASE WriteHeader
  <2>1. at["loop"] = "header" /\ at'["loop"] = "data" /\ UNCHANGED <<chunk, wanted>>
    BY <1>5, <1>11 DEF WriteHeader, endVars, loopVars
  <2>2. chunk \in Chunk
    BY <1>1, <2>1 DEF ChunkHeld, Chunk
  <2>3. Tape' = tape \o <<Header(chunk)>>
    BY <1>10, <1>11, <2>2, PartTypes DEF WriteHeader
  <2>4. Missing = <<Header(chunk), Data(chunk)>> /\ Missing' = <<Data(chunk)>>
    BY <2>1 DEF Missing
  <2>5. (tape \o <<Header(chunk)>>) \o <<Data(chunk)>> = tape \o <<Header(chunk), Data(chunk)>>
    BY <1>4, <2>2, MissingParts
  <2>6. QED BY <1>1, <1>2, <1>3, <2>1, <2>3, <2>4, <2>5
<1>12. CASE WriteData
  <2>1. at["loop"] = "data" /\ at'["loop"] = "read" /\ UNCHANGED <<chunk, wanted>>
    BY <1>5, <1>12 DEF WriteData, endVars, loopVars
  <2>2. chunk \in Chunk
    BY <1>1, <2>1 DEF ChunkHeld, Chunk
  <2>3. Tape' = tape \o <<Data(chunk)>>
    BY <1>10, <1>12, <2>2, PartTypes DEF WriteData
  <2>4. Missing = <<Data(chunk)>> /\ Missing' = <<>>
    BY <2>1 DEF Missing
  <2>5. PICK one : one = <<Data(chunk)>>
    OBVIOUS
  <2>6. one \in Seq(Part) /\ tape \o one \in Seq(Part)
    BY <1>4, <2>2, <2>5, MissingParts, ConcatProperties
  <2>7. (tape \o one) \o <<>> = tape \o one
    BY <2>6, ConcatEmptySeq
  <2>8. QED BY <1>1, <1>2, <1>3, <2>1, <2>3, <2>4, <2>5, <2>7
<1>13. CASE ~LoopAction
  <2>1. LoopAlone
    BY <1>13, OtherSteps
  <2>2. Missing' = Missing
    BY <2>1 DEF LoopAlone, Missing
  <2>3. QED BY <1>1, <1>2, <2>1, <2>2 DEF LoopAlone
<1>14. QED BY <1>7, <1>8, <1>9, <1>11, <1>12, <1>13 DEF LoopAction

\* A write leaves nothing in the buffer that is older than last_sync, and nothing at
\* all when last_sync is too old.
LEMMA FlushWrite ==
    ASSUME StoreOK, clock \in Nat, FlushInv, ~frame => pool = <<>>, frame => mode = "zstd",
           NEW part, Write(part)
    PROVE  synced' =< clock /\ \A i \in 1..Len(pool') :
              synced' =< pool'[i].time /\ wrote' =< synced' + MaxFlush
<1>1. /\ MaxFlush \in Nat /\ synced \in Nat /\ synced =< clock /\ wrote' = clock
      /\ \A i \in 1..Len(pool) : synced =< pool[i].time
      /\ pool \in Seq([part : Part, time : Nat])
  BY RecorderAssumption DEF StoreOK, FlushInv, Write
<1>2. PICK stamped : stamped = [part |-> part, time |-> clock]
  OBVIOUS
<1>3. stamped.time = clock
  BY <1>2
<1>4. CASE mode # "zstd"
  BY <1>1, <1>4, EmptySeq DEF Write
<1>5. CASE mode = "zstd" /\ pool' = <<stamped>> /\ synced' = clock
  <2>1. Len(pool') = 1 /\ pool'[1] = stamped
    BY <1>5
  <2>2. QED BY <1>1, <1>3, <1>5, <2>1
<1>6. CASE mode = "zstd" /\ pool' = <<>> /\ synced' = clock
  BY <1>1, <1>6, EmptySeq
<1>7. CASE mode = "zstd" /\ ~(pool' = <<stamped>> /\ synced' = clock)
           /\ ~(pool' = <<>> /\ synced' = clock)
  <2>1. PICK start : start = IF frame THEN synced ELSE clock
    OBVIOUS
  <2>2. start + MaxFlush >= clock /\ pool' = Append(pool, stamped) /\ synced' = start
    BY <1>2, <1>7, <2>1 DEF Write, WriteZstd
  <2>3. start \in Nat /\ start =< clock /\ \A i \in 1..Len(pool) : start =< pool[i].time
    BY <1>1, <2>1, EmptySeq
  <2>4. PICK n \in Nat : n = Len(pool)
    BY <1>1
  <2>5. /\ Len(pool') = n + 1 /\ pool'[n + 1] = stamped
        /\ \A i \in 1..n : pool'[i] = pool[i]
    BY <1>1, <2>2, <2>4
  <2>6. \A i \in 1..(n + 1) : i \in 1..n \/ i = n + 1
    OBVIOUS
  <2>7. \A i \in 1..(n + 1) : start =< pool'[i].time
    BY <1>3, <2>3, <2>4, <2>5, <2>6
  <2>8. QED BY <1>1, <2>2, <2>3, <2>5, <2>7
<1>8. QED BY <1>4, <1>5, <1>6, <1>7

LEMMA FlushStep ==
    ASSUME RecorderInv, [RecorderNext]_recorderVars
    PROVE  FlushInv' /\ clock' \in Nat
<1>1. StoreOK /\ clock \in Nat /\ FlushInv /\ WriterOK /\ synced \in Nat
  BY InvFacts DEF RecorderInv, StoreOK
<1>2. ASSUME UNCHANGED writerVars, clock' = clock \/ clock' = clock + 1
      PROVE  FlushInv' /\ clock' \in Nat
  BY <1>1, <1>2 DEF FlushInv, writerVars
<1>3. CASE WriteHeader \/ WriteData
  <2>1. \E part : Write(part)
    BY <1>3 DEF WriteHeader, WriteData
  <2>2. clock' = clock
    BY <1>3 DEF WriteHeader, WriteData
  <2>3. QED BY <1>1, <2>1, <2>2, FlushWrite DEF FlushInv, WriterOK
<1>4. CASE CloseOld \/ CloseLast
  <2>1. pool' = <<>> /\ synced' = synced /\ clock' = clock
    BY <1>4 DEF CloseOld, CloseLast, Close
  <2>2. QED BY <1>1, <2>1, EmptySeq DEF FlushInv
<1>5. CASE OpenNew
  BY <1>1, <1>5 DEF OpenNew, FlushInv
<1>6. CASE UNCHANGED recorderVars
  BY <1>2, <1>6 DEF recorderVars
<1>7. CASE Tick
  BY <1>2, <1>7 DEF Tick
<1>8. CASE ~Tick /\ UNCHANGED writerVars /\ UNCHANGED clock
  BY <1>2, <1>8
<1>9. QED
  BY <1>3, <1>4, <1>5, <1>6, <1>7, <1>8
     DEF RecorderNext, ChildStep, TestLock, Show, ShowFails, StartRotation, TestRotation,
         OpenFails, Exit, ReadOutput, OutputEnds, ProgramReaped, Terminate, Crash,
         RequestRotation, ForwardRotation, LockChanges

\* What no step but those of a rotation, of a request and of the clock changes.
RotationAlone ==
    /\ UNCHANGED <<rotated, swings, asked, clock>>
    /\ at'["swing"] = at["swing"] /\ Len(files') = Len(files)
    /\ alive' /\ ~entered' => alive /\ ~entered

LEMMA RotationRests ==
    ASSUME RotateInv, RotationAlone
    PROVE  RotateInv'
  BY DEF RotateInv, RotationAlone, Due

RotationAction ==
    \/ \E targets \in RotateTargets : RequestRotation(targets)
    \/ ForwardRotation \/ StartRotation \/ TestRotation \/ CloseOld \/ OpenNew \/ Tick

LEMMA RestSteps ==
    ASSUME RecorderInv, [RecorderNext]_recorderVars, ~RotationAction
    PROVE  RotationAlone
<1>1. /\ ContextsOK /\ StoreOK /\ WriterOK /\ clock \in Nat /\ ChunkHeld
      /\ at \in [Context -> Pc] /\ {"loop", "swing", "done"} = Context
      /\ chunk \in 0..MaxChunks
  BY InvFacts DEF RecorderInv, ContextsOK, Context
<1>2. ASSUME UNCHANGED <<writerVars, rotateVars, clock>>,
             alive' /\ ~entered' => alive /\ ~entered,
             UNCHANGED at \/ \E other \in {"loop", "done"} : \E pc : at' = [at EXCEPT ![other] = pc]
      PROVE  RotationAlone
  <2>1. at'["swing"] = at["swing"]
    BY <1>1, <1>2
  <2>2. QED BY <1>2, <2>1 DEF RotationAlone, writerVars, rotateVars
<1>3. CASE TestLock \/ Show \/ ShowFails \/ OutputEnds
  BY <1>2, <1>3 DEF TestLock, Show, ShowFails, OutputEnds, Goto, endVars
<1>4. CASE \E source \in Sources : ReadOutput(source)
  <2>1. /\ at' = [at EXCEPT !["loop"] = "test"]
        /\ UNCHANGED <<writerVars, rotateVars, clock>> /\ UNCHANGED endVars
    BY <1>4 DEF ReadOutput, Goto
  <2>2. QED BY <1>2, <2>1 DEF endVars
<1>5. CASE WriteHeader \/ WriteData
  <2>1. PICK from, part, pc : /\ In("loop", from) /\ Write(part) /\ Goto("loop", pc)
                              /\ from \in {"header", "data"} /\ part \in {Header(chunk), Data(chunk)}
                              /\ UNCHANGED <<rotateVars, endVars, clock>>
    BY <1>5 DEF WriteHeader, WriteData
  <2>2. part \in Part
    BY <1>1, <2>1, PartTypes DEF In, ChunkHeld, Chunk
  <2>3. Extends(<<part>>)
    BY <1>1, <2>1, <2>2, LoopWrites, WriteStep DEF WriterOK
  <2>4. at'["swing"] = at["swing"]
    BY <1>1, <2>1 DEF Goto
  <2>5. QED BY <2>1, <2>3, <2>4 DEF RotationAlone, Extends, rotateVars, endVars
<1>6. CASE CloseLast
  <2>1. Extends(<<>>)
    BY <1>1, <1>6, CloseStep DEF CloseLast, WriterOK
  <2>2. at'["swing"] = at["swing"]
    BY <1>1, <1>6 DEF CloseLast, Goto
  <2>3. QED BY <1>6, <2>1, <2>2 DEF RotationAlone, Extends, CloseLast, rotateVars, endVars
<1>7. CASE ProgramReaped \/ Terminate \/ OpenFails
  BY <1>2, <1>7 DEF ProgramReaped, Terminate, OpenFails, CallDone, Push
<1>8. CASE Exit \/ Crash \/ LockChanges
  BY <1>2, <1>8 DEF Exit, Crash, LockChanges, endVars
<1>9. CASE UNCHANGED recorderVars
  BY <1>2, <1>9 DEF recorderVars, endVars
<1>10. QED
  BY <1>3, <1>4, <1>5, <1>6, <1>7, <1>8, <1>9 DEF RecorderNext, ChildStep, RotationAction

\* The type of the variables of the rotation.
RotateTypes ==
    /\ rotated \in Nat /\ swings \subseteq {"parent", "child"} /\ asked \subseteq Nat
    /\ clock \in Nat

LEMMA RotateStep ==
    ASSUME RecorderInv, [RecorderNext]_recorderVars
    PROVE  RotateInv' /\ RotateTypes'
<1>1. /\ RotateInv /\ ContextsOK /\ StoreOK /\ WriterOK /\ at \in [Context -> Pc]
      /\ "swing" \in Context /\ clock \in Nat /\ RotateTypes /\ Len(files) \in Nat
  BY InvFacts DEF RecorderInv, ContextsOK, Context, RotateTypes, StoreOK
<1>2. PICK many \in Nat : many = Cardinality(asked)
  BY <1>1, FS_CardinalityType DEF RotateInv
<1>3. CASE \E targets \in RotateTargets : RequestRotation(targets)
  <2>1. PICK targets \in RotateTargets : RequestRotation(targets)
    BY <1>3
  <2>2. targets \subseteq {"parent", "child"} /\ targets # {}
    BY RecorderAssumption
  <2>3. /\ clock \notin asked /\ asked' = asked \cup {clock} /\ swings' = swings \cup targets
        /\ UNCHANGED <<at, rotated, clock, alive, entered, files>>
    BY <2>1 DEF RequestRotation, endVars, writerVars
  <2>4. swings = {} /\ at["swing"] = "idle" /\ rotated # clock
    BY <1>1, <2>3 DEF RotateInv
  <2>5. IsFiniteSet(asked') /\ Cardinality(asked') = many + 1
    BY <1>1, <1>2, <2>3, FS_AddElement DEF RotateInv
  <2>6. ~Due /\ Due'
    BY <2>3, <2>4 DEF Due
  <2>7. RotateTypes'
    BY <1>1, <2>2, <2>3 DEF RotateTypes
  <2>8. QED BY <1>1, <1>2, <2>2, <2>3, <2>4, <2>5, <2>6, <2>7 DEF RotateInv
<1>4. CASE ForwardRotation
  <2>1. /\ "parent" \in swings /\ swings' = (swings \ {"parent"}) \cup {"child"}
        /\ UNCHANGED <<at, rotated, clock, alive, entered, files, asked>>
    BY <1>4 DEF ForwardRotation, endVars, writerVars
  <2>2. clock \in asked /\ Due' = Due
    BY <1>1, <2>1 DEF RotateInv, Due
  <2>3. RotateTypes'
    BY <1>1, <2>1 DEF RotateTypes
  <2>4. QED BY <1>1, <2>1, <2>2, <2>3 DEF RotateInv
<1>5. CASE StartRotation
  <2>1. /\ "child" \in swings /\ swings' = swings \ {"child"} /\ at["swing"] = "idle"
        /\ UNCHANGED <<rotated, clock, alive, entered, files, asked>>
    BY <1>5 DEF StartRotation, endVars, writerVars
  <2>2. at'["swing"] = "test"
    BY <1>1, <1>5 DEF StartRotation, Push
  <2>3. clock \in asked /\ Due' = Due
    BY <1>1, <2>1, <2>2 DEF RotateInv, Due
  <2>4. RotateTypes'
    BY <1>1, <2>1 DEF RotateTypes
  <2>5. QED BY <1>1, <2>1, <2>2, <2>3, <2>4 DEF RotateInv
<1>6. CASE TestRotation
  <2>1. at["swing"] = "test" /\ UNCHANGED <<swings, clock, alive, entered, files, asked>>
    BY <1>6 DEF TestRotation, In, endVars, writerVars
  <2>2. clock \in asked
    BY <1>1, <2>1 DEF RotateInv
  <2>3. CASE rotated # 0 /\ clock - rotated < 1
    <3>1. rotated = clock /\ rotated' = rotated
      BY <1>1, <1>6, <2>3 DEF RotateInv, RotateTypes, TestRotation
    <3>2. at'["swing"] = "idle"
      BY <1>1, <1>6, <2>3 DEF TestRotation, Pop
    <3>3. ~Due /\ ~Due'
      BY <2>1, <3>1, <3>2 DEF Due
    <3>4. QED BY <1>1, <2>1, <2>2, <3>1, <3>2, <3>3 DEF RotateInv, RotateTypes
  <2>4. CASE ~(rotated # 0 /\ clock - rotated < 1)
    <3>1. rotated # clock
      BY <1>1, <2>4 DEF RotateInv, RotateTypes
    <3>2. rotated' = clock /\ at'["swing"] = "close"
      BY <1>1, <1>6, <2>4 DEF TestRotation, Goto
    <3>3. Due /\ Due'
      BY <2>1, <2>2, <3>1, <3>2 DEF Due
    <3>4. QED BY <1>1, <2>1, <2>2, <3>2, <3>3 DEF RotateInv, RotateTypes
  <2>5. QED BY <2>3, <2>4
<1>7. CASE CloseOld
  <2>1. at["swing"] = "close" /\ UNCHANGED <<swings, clock, alive, entered, asked, rotated>>
    BY <1>7 DEF CloseOld, In, endVars, rotateVars
  <2>2. at'["swing"] = "open"
    BY <1>1, <1>7 DEF CloseOld, Goto
  <2>3. Extends(<<>>)
    BY <1>1, <1>7, CloseStep DEF CloseOld, WriterOK
  <2>4. Due' = Due /\ Len(files') = Len(files)
    BY <2>1, <2>2, <2>3 DEF Due, Extends
  <2>5. QED BY <1>1, <2>1, <2>2, <2>4 DEF RotateInv, RotateTypes
<1>8. CASE OpenNew
  <2>1. at["swing"] = "open" /\ UNCHANGED <<swings, clock, alive, entered, asked, rotated>>
    BY <1>8 DEF OpenNew, In, endVars, rotateVars
  <2>2. at'["swing"] = "idle"
    BY <1>1, <1>8 DEF OpenNew, Pop
  <2>3. Len(files') = Len(files) + 1
    BY <1>1, <1>8, OpenStep DEF OpenNew
  <2>4. rotated = clock /\ clock \in asked
    BY <1>1, <2>1 DEF RotateInv
  <2>5. Due /\ ~Due'
    BY <2>1, <2>2, <2>4 DEF Due
  <2>6. QED BY <1>1, <1>2, <2>1, <2>2, <2>3, <2>4, <2>5 DEF RotateInv, RotateTypes
<1>9. CASE Tick
  <2>1. /\ swings = {} /\ at["swing"] = "idle" /\ clock' = clock + 1 /\ alive
        /\ UNCHANGED <<at, swings, asked, rotated, alive, entered, files>>
    BY <1>9 DEF Tick, endVars, rotateVars, writerVars
  <2>2. clock' \notin asked
    BY <1>1, <2>1 DEF RotateInv, RotateTypes
  <2>3. ~entered => ~Due
    BY <1>1, <2>1 DEF RotateInv, Due
  <2>4. ~Due'
    BY <2>1, <2>2 DEF Due
  <2>5. QED BY <1>1, <2>1, <2>2, <2>3, <2>4 DEF RotateInv, RotateTypes
<1>10. CASE ~RotationAction
  <2>1. RotationAlone
    BY <1>10, RestSteps
  <2>2. QED BY <1>1, <2>1, RotationRests DEF RotateTypes, RotationAlone
<1>11. QED BY <1>3, <1>4, <1>5, <1>6, <1>7, <1>8, <1>9, <1>10 DEF RotationAction

LEMMA FlagStep ==
    ASSUME RecorderInv, [RecorderNext]_recorderVars
    PROVE  hidden' \in BOOLEAN /\ toggles' \in Nat /\ locked' \in BOOLEAN /\ alive' \in BOOLEAN
<1>1. hidden \in BOOLEAN /\ toggles \in Nat /\ locked \in BOOLEAN /\ alive \in BOOLEAN
  BY InvFacts
<1>2. CASE UNCHANGED <<hidden, toggles, locked, alive>>
  BY <1>1, <1>2
<1>3. CASE \E source \in Sources : ReadOutput(source)
  BY <1>1, <1>3 DEF ReadOutput, lockVars, endVars
<1>4. CASE OpenFails \/ Exit \/ Crash
  BY <1>1, <1>4 DEF OpenFails, Exit, Crash, CallDone, loopVars, lockVars
<1>5. CASE LockChanges
  BY <1>1, <1>5 DEF LockChanges, endVars
<1>6. CASE \E targets \in RotateTargets : RequestRotation(targets)
  BY <1>2, <1>6 DEF RequestRotation, loopVars, lockVars, endVars
<1>7. CASE TestLock \/ Show \/ ShowFails \/ WriteHeader \/ WriteData \/ OutputEnds
  BY <1>2, <1>7
     DEF TestLock, Show, ShowFails, WriteHeader, WriteData, OutputEnds, loopVars, lockVars, endVars
<1>8. CASE StartRotation \/ TestRotation \/ CloseOld \/ OpenNew \/ CloseLast
  BY <1>2, <1>8
     DEF StartRotation, TestRotation, CloseOld, OpenNew, CloseLast, loopVars, lockVars, endVars
<1>9. CASE ProgramReaped \/ Terminate \/ ForwardRotation \/ Tick \/ UNCHANGED recorderVars
  BY <1>2, <1>9
     DEF ProgramReaped, Terminate, ForwardRotation, Tick, CallDone, recorderVars,
         loopVars, lockVars, endVars
<1>10. QED BY <1>3, <1>4, <1>5, <1>6, <1>7, <1>8, <1>9 DEF RecorderNext, ChildStep

LEMMA EmptyTape ==
    ASSUME RecorderInit
    PROVE  AllParts = <<>> /\ PoolParts = <<>>
<1>1. PICK none : none = <<>>
  OBVIOUS
<1>2. none \in Seq(Seq(Part)) /\ none \in Seq(Part)
  BY <1>1, EmptySeq
<1>3. files \in Seq(Seq(Seq(Part))) /\ Len(files) = 1 /\ files[1] = <<>>
  <2>1. files = <<none>>
    BY <1>1 DEF RecorderInit
  <2>2. QED BY <1>1, <1>2, <2>1
<1>4. PICK each : each = [k \in 1..1 |-> FlattenSeq(files[k])]
  OBVIOUS
<1>5. AllParts = FlattenSeq(each)
  BY <1>3, <1>4, AllPartsIs DEF Disk
<1>6. each \in Seq(Seq(Part)) /\ Len(each) = 1
  BY <1>3, <1>4, DiskType
<1>7. each[1] = <<>> /\ each # <<>>
  BY <1>3, <1>4, <1>6, FlattenEmpty, EmptySeq
<1>8. Front(each) = <<>> /\ Last(each) = <<>>
  <2>1. Front(each) \in Seq(Seq(Part)) /\ Len(Front(each)) = Len(each) - 1
    BY <1>6, <1>7, FrontLast
  <2>2. Last(each) = each[Len(each)]
    BY <1>6, <1>7, FrontLast
  <2>3. Len(Front(each)) = 0
    BY <1>6, <2>1
  <2>4. QED BY <1>6, <1>7, <2>1, <2>2, <2>3, EmptySeq
<1>9. FlattenSeq(each) = <<>> \o <<>>
  BY <1>6, <1>7, <1>8, FlattenLast, FlattenEmpty
<1>10. AllParts = <<>>
  BY <1>1, <1>2, <1>5, <1>9, ConcatEmptySeq
<1>11. PoolParts = <<>>
  BY AllPartsIs, EmptyPool DEF RecorderInit
<1>12. QED BY <1>10, <1>11

LEMMA InvInit ==
    ASSUME RecorderInit
    PROVE  RecorderInv
<1>1. MaxChunks \in Nat /\ MaxFlush \in Nat
  BY ChunkAssumption, RecorderAssumption
<1>2. /\ <<>> \in Seq(Seq(Part)) /\ <<>> \in Seq(Part) /\ <<>> \in Seq(Chunk)
      /\ <<>> \in Seq(Stamped) /\ Len(<<>>) = 0
  BY EmptySeq
<1>3. PICK none : none = <<>>
  OBVIOUS
<1>4. /\ files = <<none>> /\ files \in Seq(Seq(Seq(Part))) /\ Len(files) = 1
      /\ files # <<>> /\ files[1] = <<>>
  <2>1. none \in Seq(Seq(Part)) /\ files = <<none>>
    BY <1>2, <1>3 DEF RecorderInit
  <2>2. files \in Seq(Seq(Seq(Part))) /\ Len(files) = 1 /\ files[1] = none
    BY <2>1
  <2>3. QED BY <1>3, <2>1, <2>2, EmptySeq
<1>5. /\ at \in [Context -> Pc] /\ at["loop"] = "read" /\ at["swing"] = "idle"
      /\ at["done"] = "idle"
  BY DEF RecorderInit, Context, Pc
<1>6. RecorderTypeOK
  <2>1. FileTypeOK
    BY <1>4 DEF RecorderInit, FileTypeOK
  <2>2. script \in 0..Len(files) /\ chunk \in 0..MaxChunks
    BY <1>1, <1>4 DEF RecorderInit
  <2>3. pool \in Seq([part : Part, time : Nat]) /\ wanted \in Seq(Chunk)
    BY <1>2 DEF RecorderInit, Stamped
  <2>4. {synced, rotated, clock, toggles, wrote, leaked} \subseteq Nat /\ asked \subseteq Nat
    BY DEF RecorderInit
  <2>5. QED BY <1>5, <2>1, <2>2, <2>3, <2>4 DEF RecorderInit, RecorderTypeOK
<1>7. FramesOK
  BY <1>5 DEF RecorderInit, FramesOK
<1>8. WriterOK
  BY <1>4, <1>5 DEF RecorderInit, WriterOK
<1>9. ChunkHeld /\ LockInv
  BY <1>5 DEF RecorderInit, ChunkHeld, LockInv
<1>10. RecordedAsShown
  <2>1. RecordsOf(<<>>) = <<>>
    <3>1. PICK records : records = RecordsOf(<<>>)
      OBVIOUS
    <3>2. records \in Seq(Part) /\ Len(records) = 2 * Len(<<>>)
      BY <1>2, <3>1, RecordsType
    <3>3. Len(records) = 0
      BY <1>2, <3>2
    <3>4. QED BY <3>1, <3>2, <3>3, EmptySeq
  <2>2. (<<>> \o <<>>) \o <<>> = <<>>
    BY <1>2, ConcatEmptySeq
  <2>3. AllParts = <<>> /\ PoolParts = <<>> /\ Missing = <<>>
    BY <1>5, EmptyTape DEF Missing
  <2>4. QED BY <2>1, <2>2, <2>3 DEF RecorderInit, RecordedAsShown
<1>11. FlushInv
  BY <1>2 DEF RecorderInit, FlushInv
<1>12. RotateInv
  <2>1. IsFiniteSet({}) /\ Cardinality({}) = 0
    BY FS_EmptySet
  <2>2. QED BY <1>4, <1>5, <2>1 DEF RecorderInit, RotateInv, Due
<1>13. QED BY <1>6, <1>7, <1>8, <1>9, <1>10, <1>11, <1>12 DEF RecorderInv

LEMMA InvStep ==
    ASSUME RecorderInv, [RecorderNext]_recorderVars
    PROVE  RecorderInv'
<1>1. ContextsOK' /\ StoreOK' /\ WriterOK' /\ ChunkHeld' /\ chunk' \in 0..MaxChunks
  BY ContextsStep, WriterStep, ChunkStep
<1>2. LockInv' /\ leaked' \in Nat /\ RecordedAsShown' /\ wanted' \in Seq(Chunk)
  BY LockStep, TapeStep
<1>3. FlushInv' /\ RotateInv' /\ RotateTypes'
  BY FlushStep, RotateStep
<1>4. hidden' \in BOOLEAN /\ toggles' \in Nat /\ locked' \in BOOLEAN /\ alive' \in BOOLEAN
  BY FlagStep
<1>5. RecorderTypeOK'
  BY <1>1, <1>2, <1>3, <1>4
     DEF RecorderTypeOK, FileTypeOK, ContextsOK, StoreOK, RotateTypes, Stack
<1>6. FramesOK'
  BY <1>1 DEF ContextsOK
<1>7. QED BY <1>1, <1>2, <1>3, <1>5, <1>6 DEF RecorderInv
----------------------------------------------------------------------------
(* The theorems *)

\* The invariant holds in every reachable state.
THEOREM Inductive == RecorderSpec => []RecorderInv
<1>1. RecorderInit => RecorderInv
  BY InvInit
<1>2. RecorderInv /\ [RecorderNext]_recorderVars => RecorderInv'
  BY InvStep
<1>3. QED BY <1>1, <1>2, PTL DEF RecorderSpec

\* The variables of the recorder keep their types: in particular the contexts of the
\* child nest in one of five ways, whatever signal came when.
THEOREM TypeCorrect == RecorderSpec => []RecorderTypeOK
<1>1. RecorderInv => RecorderTypeOK
  BY DEF RecorderInv
<1>2. QED BY <1>1, Inductive, PTL

\* The files, with what is in memory and what is about to be written, are the records
\* of what the user was shown, in both modes, for every number of chunks, rotations
\* and signals (dooutput, fwrite_wrapper_zstd, swing_output_file).
THEOREM AlwaysRecordedAsShown == RecorderSpec => []RecordedAsShown
<1>1. RecorderInv => RecordedAsShown
  BY DEF RecorderInv
<1>2. QED BY <1>1, Inductive, PTL

\* A session that is locked shows at most one more chunk (dooutput).
THEOREM AlwaysLockHidesOutput == RecorderSpec => []LockHidesOutput
<1>1. RecorderInv => LockHidesOutput
  BY InvFacts DEF RecorderInv, LockInv, LockHidesOutput
<1>2. QED BY <1>1, Inductive, PTL

\* Every request of a rotation opens one file, whichever processes were sent the
\* signal and however the two copies of it interleave (swing_output_file).
THEOREM AlwaysRotatesOnce == RecorderSpec => []RotatesOnce
<1>1. ASSUME RecorderInv, alive, ~entered, swings = {}, at["swing"] = "idle"
      PROVE  Len(files) = 1 + Cardinality(asked)
  <2>1. RotateInv /\ ~Due
    BY <1>1 DEF RecorderInv, RotateInv, Due
  <2>2. Cardinality(asked) \in Nat
    BY <2>1, FS_CardinalityType DEF RotateInv
  <2>3. QED BY <1>1, <2>1, <2>2 DEF RotateInv
<1>2. RecorderInv => RotatesOnce
  BY <1>1 DEF RotatesOnce
<1>3. QED BY <1>2, Inductive, PTL

\* When the writer returns, what it holds in memory came within the flush interval
\* (fwrite_wrapper_zstd).
THEOREM AlwaysFlushedInTime == RecorderSpec => []FlushedInTime
<1>1. ASSUME RecorderInv, NEW i \in 1..Len(pool)
      PROVE  wrote - pool[i].time =< MaxFlush
  <2>1. synced =< pool[i].time /\ wrote =< synced + MaxFlush
    BY <1>1 DEF RecorderInv, FlushInv
  <2>2. pool[i].time \in Nat
    <3>1. pool \in Seq(Stamped)
      BY <1>1, InvFacts DEF StoreOK, Stamped
    <3>2. pool[i] \in Stamped
      BY <3>1, ElementOfSeq
    <3>3. QED BY <3>2 DEF Stamped
  <2>3. synced \in Nat /\ wrote \in Nat /\ MaxFlush \in Nat
    BY <1>1, InvFacts, RecorderAssumption DEF StoreOK
  <2>4. QED BY <2>1, <2>2, <2>3
<1>2. RecorderInv => FlushedInTime
  BY <1>1 DEF FlushedInTime
<1>3. QED BY <1>2, Inductive, PTL
----------------------------------------------------------------------------
(* The refinement *)

LEMMA ConcatPrefix ==
    ASSUME NEW s \in Seq(Part), NEW t \in Seq(Part)
    PROVE  Abstract!IsPrefix(s, s \o t)
<1>1. PICK n \in Nat : n = Len(s)
  OBVIOUS
<1>2. PICK u : u = s \o t
  OBVIOUS
<1>3. /\ u \in Seq(Part) /\ Len(u) = n + Len(t) /\ Len(t) \in Nat
      /\ \A i \in 1..n : u[i] = s[i]
  BY <1>1, <1>2, ConcatProperties
<1>4. 1 \in Int /\ n \in Int /\ \A i \in 1..n : s[i] \in Part /\ u[i] \in Part
  BY <1>1, <1>3
<1>5. /\ SubSeq(s, 1, n) \in Seq(Part) /\ SubSeq(u, 1, n) \in Seq(Part)
      /\ Len(SubSeq(s, 1, n)) = Len(SubSeq(u, 1, n))
      /\ \A i \in 1..(n - 1 + 1) : SubSeq(s, 1, n)[i] = s[1 + i - 1]
      /\ \A i \in 1..(n - 1 + 1) : SubSeq(u, 1, n)[i] = u[1 + i - 1]
      /\ Len(SubSeq(s, 1, n)) = IF 1 =< n THEN n - 1 + 1 ELSE 0
  BY <1>4, SubSeqProperties
<1>6. n - 1 + 1 = n /\ Len(SubSeq(s, 1, n)) = n /\ \A i \in 1..n : 1 + i - 1 = i
  BY <1>5
<1>7. \A i \in 1..n : SubSeq(s, 1, n)[i] = SubSeq(u, 1, n)[i]
  BY <1>3, <1>5, <1>6
<1>8. SubSeq(s, 1, n) = SubSeq(u, 1, n)
  BY <1>5, <1>6, <1>7, SeqEqual
<1>9. n =< Len(u)
  BY <1>3
<1>10. QED BY <1>1, <1>2, <1>8, <1>9 DEF Abstract!IsPrefix

LEMMA AbstractRecords ==
    /\ Abstract!RecordsOf(wanted) = RecordsOf(wanted)
    /\ Abstract!Chunk = Chunk /\ Abstract!Tape = Tape
  BY DEF Abstract!RecordsOf, RecordsOf, Abstract!Header, Header, Abstract!Data, Data,
         Abstract!Chunk, Chunk, Abstract!Tape, Tape

\* A step that neither shows nor records, in a session that goes on.
LEMMA SettledStep ==
    ASSUME StoreOK, StoreOK', alive, alive', wanted' = wanted, Tape' = Tape, DiskKept
    PROVE  [Abstract!TranscriptNext]_(Abstract!transcriptVars)
<1>1. PICK disk, held, disk2, held2 : /\ disk = AllParts /\ held = PoolParts
                                      /\ disk2 = AllParts' /\ held2 = PoolParts'
  OBVIOUS
<1>2. disk \in Seq(Part) /\ held \in Seq(Part)
  BY <1>1, TapeType
<1>3. held2 \in Seq(Part)
  <2>1. PoolParts' = PartsIn(pool') /\ pool' \in Seq(Stamped)
    BY DEF PoolParts, PartsIn, StoreOK, Stamped
  <2>2. QED BY <1>1, <2>1, PartsInType
<1>4. PICK more \in Seq(Part) : disk2 = disk \o more
  BY <1>1 DEF DiskKept
<1>5. disk2 \o held2 = disk \o held
  BY <1>1 DEF Tape
<1>6. CASE disk2 = disk
  <2>1. held2 = held
    BY <1>2, <1>3, <1>5, <1>6, PartsCancel
  <2>2. UNCHANGED Abstract!transcriptVars
    BY <1>1, <1>6, <2>1 DEF Abstract!transcriptVars
  <2>3. QED BY <2>2
<1>7. CASE disk2 # disk
  <2>1. Abstract!IsStrictPrefix(disk, disk2)
    BY <1>2, <1>4, <1>7, ConcatPrefix DEF Abstract!IsStrictPrefix
  <2>2. Abstract!Tape' = Abstract!Tape
    BY <1>1, <1>5 DEF Abstract!Tape
  <2>3. Abstract!Flush
    BY <1>1, <2>1, <2>2 DEF Abstract!Flush
  <2>4. QED BY <2>3 DEF Abstract!TranscriptNext, Abstract!Running
<1>8. QED BY <1>6, <1>7

\* A write of the next part of a record.
LEMMA RecordStep ==
    ASSUME RecorderInv, [RecorderNext]_recorderVars, WriteHeader \/ WriteData
    PROVE  Abstract!TranscriptNext
<1>1. /\ ContextsOK /\ StoreOK /\ ChunkHeld /\ chunk \in 0..MaxChunks
      /\ wanted \in Seq(Chunk) /\ clock \in Nat /\ WriterOK
  BY InvFacts DEF RecorderInv
<1>2. PICK from, part, pc : /\ In("loop", from) /\ Write(part) /\ Goto("loop", pc)
                            /\ from \in {"header", "data"}
                            /\ part = IF from = "header" THEN Header(chunk) ELSE Data(chunk)
                            /\ UNCHANGED <<loopVars, endVars>>
  BY DEF WriteHeader, WriteData
<1>3. chunk \in Chunk /\ at["loop"] = from /\ part \in Part
  BY <1>1, <1>2, PartTypes DEF In, ChunkHeld, Chunk
<1>4. alive /\ alive' /\ wanted' = wanted
  BY <1>2 DEF In, loopVars, endVars
<1>5. Extends(<<part>>)
  BY <1>1, <1>2, <1>3, LoopWrites, WriteStep DEF WriterOK
<1>6. PICK tape, missing : tape = Tape /\ missing = Missing
  OBVIOUS
<1>7. tape \in Seq(Part) /\ tape \o missing = RecordsOf(wanted)
  BY <1>1, <1>6, TapeSeq DEF RecorderInv, RecordedAsShown, Tape
<1>8. missing \in Seq(Part) /\ Len(missing) # 0 /\ missing[1] = part
  <2>1. PICK h, d : h = Header(chunk) /\ d = Data(chunk)
    OBVIOUS
  <2>2. h \in Part /\ d \in Part
    BY <1>3, <2>1, PartTypes
  <2>3. missing = IF from = "header" THEN <<h, d>> ELSE <<d>>
    BY <1>2, <1>3, <1>6, <2>1 DEF Missing
  <2>4. CASE from = "header"
    <3>1. missing = <<h, d>> /\ part = h
      BY <1>2, <2>1, <2>3, <2>4
    <3>2. QED BY <2>2, <3>1
  <2>5. CASE from = "data"
    <3>1. missing = <<d>> /\ part = d
      BY <1>2, <2>1, <2>3, <2>5
    <3>2. QED BY <2>2, <3>1
  <2>6. QED BY <1>2, <2>4, <2>5
<1>9. PICK n \in Nat, k \in Nat : n = Len(tape) /\ k = Len(missing)
  BY <1>7, <1>8
<1>10. /\ Len(tape \o missing) = n + k
       /\ \A i \in 1..(n + k) : (tape \o missing)[i] = IF i =< n THEN tape[i] ELSE missing[i - n]
  BY <1>7, <1>8, <1>9, ConcatProperties
<1>11. tape # RecordsOf(wanted) /\ RecordsOf(wanted)[Len(tape) + 1] = part
  <2>1. n + k # n /\ n + 1 \in 1..(n + k) /\ ~(n + 1 =< n) /\ (n + 1) - n = 1
    BY <1>8, <1>9
  <2>2. (tape \o missing)[n + 1] = part
    BY <1>8, <1>10, <2>1
  <2>3. tape # tape \o missing
    BY <1>9, <1>10, <2>1
  <2>4. QED BY <1>7, <1>9, <2>2, <2>3
<1>12. Tape' = Append(tape, part)
  <2>1. Tape' = tape \o <<part>>
    BY <1>5, <1>6 DEF Extends, Tape
  <2>2. Append(tape, part) = tape \o <<part>>
    BY <1>3, <1>7, AppendIsConcat
  <2>3. QED BY <2>1, <2>2
<1>13. Abstract!Tape = tape /\ Abstract!Tape' = Append(tape, part)
  BY <1>6, <1>12 DEF Abstract!Tape, Tape
<1>14. Abstract!IsPrefix(AllParts, AllParts')
  <2>1. PICK disk, more : /\ disk = AllParts /\ more \in Seq(Part) /\ AllParts' = disk \o more
    BY <1>5 DEF Extends
  <2>2. disk \in Seq(Part)
    BY <1>1, <2>1, TapeType
  <2>3. QED BY <2>1, <2>2, ConcatPrefix
<1>15. ~Abstract!Recorded
  BY <1>11, <1>13, AbstractRecords DEF Abstract!Recorded
<1>16. Abstract!RecordPart
  <2>1. Abstract!Tape' = Append(Abstract!Tape, Abstract!RecordsOf(wanted)[Len(Abstract!Tape) + 1])
    BY <1>11, <1>13, AbstractRecords
  <2>2. QED BY <1>4, <1>14, <1>15, <2>1 DEF Abstract!RecordPart
<1>17. QED BY <1>4, <1>16 DEF Abstract!TranscriptNext, Abstract!Running

\* The chunk in obuf is shown.
LEMMA ShowStep ==
    ASSUME RecorderInv, Show
    PROVE  [Abstract!TranscriptNext]_(Abstract!transcriptVars)
<1>1. ContextsOK /\ StoreOK /\ ChunkHeld /\ chunk \in 0..MaxChunks
  BY InvFacts DEF RecorderInv
<1>2. alive /\ alive' /\ at["loop"] = "show"
  BY DEF Show, In, endVars
<1>3. AllParts' = AllParts /\ PoolParts' = PoolParts
  BY <1>1, StoreStays DEF Show
<1>4. CASE hidden
  BY <1>2, <1>3, <1>4 DEF Show, Abstract!transcriptVars
<1>5. CASE ~hidden
  <2>1. chunk \in Abstract!Chunk
    BY <1>1, <1>2, AbstractRecords DEF ChunkHeld, Chunk
  <2>2. Abstract!Recorded
    <3>1. Missing = <<>>
      BY <1>2 DEF Missing
    <3>2. PICK tape : tape = Tape
      OBVIOUS
    <3>3. tape \o <<>> = tape
      BY <1>1, <3>2, TapeSeq, ConcatEmptySeq
    <3>4. tape = RecordsOf(wanted)
      BY <3>1, <3>2, <3>3 DEF RecorderInv, RecordedAsShown, Tape
    <3>5. Abstract!Tape = tape /\ Abstract!RecordsOf(wanted) = tape
      <4>1. Abstract!RecordsOf(wanted) = RecordsOf(wanted) /\ Abstract!Tape = Tape
        BY AbstractRecords
      <4>2. QED BY <3>2, <3>4, <4>1, Zenon
    <3>6. QED BY <3>5 DEF Abstract!Recorded
  <2>3. Abstract!ShowChunk(chunk)
    BY <1>2, <1>3, <1>5, <2>2 DEF Abstract!ShowChunk, Show
  <2>4. QED BY <1>2, <2>1, <2>3 DEF Abstract!TranscriptNext, Abstract!Running
<1>6. QED BY <1>4, <1>5

\* The process is gone: it had come to the end of done(), or it crashed.
LEMMA StopStep ==
    ASSUME RecorderInv, alive, ~alive', UNCHANGED <<writerVars, wanted, at>>
    PROVE  Abstract!TranscriptNext
<1>1. AllParts' = AllParts /\ PoolParts' = PoolParts
  BY InvFacts, StoreStays
<1>2. CASE at["done"] = "exit"
  <2>1. PoolParts = <<>>
    BY <1>2, AllPartsIs, EmptyPool DEF RecorderInv, WriterOK
  <2>2. Abstract!End
    BY <1>1, <1>2, <2>1 DEF Abstract!End
  <2>3. QED BY <2>2 DEF Abstract!TranscriptNext, Abstract!Running
<1>3. CASE at["done"] # "exit"
  <2>1. Abstract!CrashNow
    BY <1>1, <1>3 DEF Abstract!CrashNow
  <2>2. QED BY <2>1 DEF Abstract!TranscriptNext, Abstract!Running
<1>4. QED BY <1>2, <1>3

LEMMA TranscriptStep ==
    ASSUME RecorderInv, [RecorderNext]_recorderVars
    PROVE  [Abstract!TranscriptNext]_(Abstract!transcriptVars)
<1>1. StoreOK /\ StoreOK'
  BY InvFacts, WriterStep
<1>2. CASE Show
  BY <1>2, ShowStep
<1>3. CASE WriteHeader \/ WriteData
  BY <1>3, RecordStep
<1>4. ASSUME UNCHANGED <<writerVars, loopVars>>, alive, alive'
      PROVE  [Abstract!TranscriptNext]_(Abstract!transcriptVars)
  BY <1>1, <1>4, TapeStays, SettledStep DEF loopVars
<1>5. CASE TestLock \/ ShowFails \/ OutputEnds
  BY <1>4, <1>5 DEF TestLock, ShowFails, OutputEnds, In, endVars
<1>6. CASE \E source \in Sources : ReadOutput(source)
  <2>1. alive /\ alive' /\ UNCHANGED <<writerVars, wanted>>
    BY <1>6 DEF ReadOutput, In, endVars
  <2>2. QED BY <1>1, <2>1, TapeStays, SettledStep
<1>7. ASSUME alive, ~alive', RecorderNext
      PROVE  Exit \/ Crash \/ (OpenFails /\ UNCHANGED at)
  BY <1>7
     DEF RecorderNext, ChildStep, TestLock, Show, ShowFails, WriteHeader, WriteData,
         StartRotation, TestRotation, CloseOld, OpenNew, OpenFails, CallDone, CloseLast,
         ReadOutput, OutputEnds, ProgramReaped, Terminate, RequestRotation, ForwardRotation,
         LockChanges, Tick, endVars
<1>8. CASE alive /\ ~alive' /\ RecorderNext
  <2>1. UNCHANGED <<writerVars, wanted, at>>
    BY <1>7, <1>8 DEF Exit, Crash, OpenFails, loopVars
  <2>2. QED BY <1>8, <2>1, StopStep
<1>9. CASE ~LoopAction /\ alive /\ alive'
  <2>1. LoopAlone
    BY <1>9, OtherSteps
  <2>2. QED BY <1>1, <1>9, <2>1, SettledStep DEF LoopAlone
<1>10. ASSUME RecorderNext PROVE alive
  BY <1>10
     DEF RecorderNext, ChildStep, TestLock, Show, ShowFails, WriteHeader, WriteData,
         StartRotation, TestRotation, CloseOld, OpenNew, OpenFails, CloseLast, Exit,
         ReadOutput, OutputEnds, ProgramReaped, Terminate, Crash, RequestRotation,
         ForwardRotation, LockChanges, Tick, In
<1>11. CASE UNCHANGED recorderVars
  <2>1. UNCHANGED <<writerVars, wanted, at, alive>>
    BY <1>11 DEF recorderVars, loopVars, endVars
  <2>2. AllParts' = AllParts /\ PoolParts' = PoolParts
    BY <1>1, <2>1, StoreStays
  <2>3. QED BY <2>1, <2>2 DEF Abstract!transcriptVars
<1>12. QED
  BY <1>2, <1>3, <1>5, <1>6, <1>8, <1>9, <1>10, <1>11 DEF LoopAction

\* Rotations, flushes, signals and errors are not to be seen in the transcript: every
\* step of the recorder is a step of module Transcript or leaves it alone.
THEOREM Implements == RecorderSpec => Transcribes
<1>1. RecorderInit => Abstract!TranscriptInit
  BY EmptyTape DEF RecorderInit, Abstract!TranscriptInit
<1>2. RecorderInv /\ [RecorderNext]_recorderVars =>
         [Abstract!TranscriptNext]_(Abstract!transcriptVars)
  BY TranscriptStep
<1>3. QED BY <1>1, <1>2, Inductive, PTL DEF RecorderSpec, Transcribes, Abstract!TranscriptSpec
=============================================================================
