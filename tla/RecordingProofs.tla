--------------------------- MODULE RecordingProofs ---------------------------
(***************************************************************************)
(* Proofs about module Recording, for every value of its constants: type   *)
(* correctness of recorder and player, and that who watches an             *)
(* uncompressed file as it grows sees the records it begins with.          *)
(***************************************************************************)
EXTENDS Recording, RecorderProofs

(* Sequences *)

LEMMA PrefixIs ==
    ASSUME NEW S, NEW s \in Seq(S), NEW t \in Seq(S), Len(s) =< Len(t),
           \A i \in 1..Len(s) : s[i] = t[i]
    PROVE  IsPrefix(s, t)
<1>1. PICK n \in Nat : n = Len(s)
  OBVIOUS
<1>2. 1 \in Int /\ n \in Int /\ \A i \in 1..n : s[i] \in S /\ t[i] \in S
  BY <1>1
<1>3. /\ SubSeq(s, 1, n) \in Seq(S) /\ SubSeq(t, 1, n) \in Seq(S)
      /\ Len(SubSeq(s, 1, n)) = Len(SubSeq(t, 1, n))
      /\ \A i \in 1..(n - 1 + 1) : SubSeq(s, 1, n)[i] = s[1 + i - 1]
      /\ \A i \in 1..(n - 1 + 1) : SubSeq(t, 1, n)[i] = t[1 + i - 1]
      /\ Len(SubSeq(s, 1, n)) = IF 1 =< n THEN n - 1 + 1 ELSE 0
  BY <1>2, SubSeqProperties
<1>4. n - 1 + 1 = n /\ Len(SubSeq(s, 1, n)) = n /\ \A i \in 1..n : 1 + i - 1 = i
  BY <1>3
<1>5. \A i \in 1..n : SubSeq(s, 1, n)[i] = SubSeq(t, 1, n)[i]
  BY <1>1, <1>3, <1>4
<1>6. SubSeq(s, 1, n) = SubSeq(t, 1, n)
  BY <1>3, <1>4, <1>5, SeqEqual
<1>7. QED BY <1>1, <1>6 DEF IsPrefix

\* Blocks of one part each, flattened.
LEMMA FlattenSingles ==
    ASSUME NEW S, NEW seqs \in Seq(Seq(S)), NEW e,
           \A i \in 1..Len(seqs) : seqs[i] = <<e[i]>>
    PROVE  /\ FlattenSeq(seqs) \in Seq(S) /\ Len(FlattenSeq(seqs)) = Len(seqs)
           /\ \A i \in 1..Len(seqs) : FlattenSeq(seqs)[i] = e[i]
<1>1. PICK n \in Nat : n = Len(seqs)
  OBVIOUS
<1>2. CASE n = 0
  <2>1. seqs = <<>>
    BY <1>1, <1>2, EmptySeq
  <2>2. FlattenSeq(seqs) = <<>> /\ FlattenSeq(seqs) \in Seq(S)
    BY <2>1, FlattenEmpty, FlattenType
  <2>3. QED BY <1>1, <1>2, <2>1, <2>2
<1>3. CASE n # 0
  <2>1. PICK f : f \in [1..n -> Seq(S)] /\ Flattens(f, seqs, n) /\ FlattenSeq(seqs) = f[n]
    BY <1>1, <1>3, FlattenIs
  <2> DEFINE P(k) == Len(f[k]) = k /\ \A i \in 1..k : f[k][i] = e[i]
             T == {k \in Nat : k \in 1..n => P(k)}
  <2>2. 0 \in T
    OBVIOUS
  <2>3. ASSUME NEW k \in Nat, k \in T, k + 1 \in 1..n PROVE P(k + 1)
    <3>1. seqs[k + 1] \in Seq(S) /\ seqs[k + 1] = <<e[k + 1]>>
      BY <1>1, <2>3
    <3>2. /\ Len(seqs[k + 1]) = 1 /\ seqs[k + 1][1] = e[k + 1]
      BY <3>1
    <3>3. f[k + 1] = Upto(f, seqs, k + 1)
      BY <2>1, <2>3 DEF Flattens
    <3>4. CASE k = 0
      BY <3>2, <3>3, <3>4 DEF Upto
    <3>5. CASE k # 0
      <4>1. f[k] \in Seq(S) /\ P(k)
        BY <2>1, <2>3, <3>5
      <4>2. f[k + 1] = f[k] \o seqs[k + 1]
        <5>1. k + 1 # 1 /\ (k + 1) - 1 = k
          BY <3>5
        <5>2. QED BY <3>3, <5>1 DEF Upto
      <4>3. /\ Len(f[k] \o seqs[k + 1]) = Len(f[k]) + Len(seqs[k + 1])
            /\ \A i \in 1..(Len(f[k]) + Len(seqs[k + 1])) :
                  (f[k] \o seqs[k + 1])[i] =
                      IF i =< Len(f[k]) THEN f[k][i] ELSE seqs[k + 1][i - Len(f[k])]
        BY <3>1, <4>1, ConcatProperties
      <4>4. /\ Len(f[k + 1]) = k + 1
            /\ \A i \in 1..(k + 1) : f[k + 1][i] = IF i =< k THEN f[k][i] ELSE seqs[k + 1][i - k]
        BY <3>2, <4>1, <4>2, <4>3
      <4>5. ASSUME NEW i \in 1..(k + 1) PROVE f[k + 1][i] = e[i]
        <5>1. CASE i =< k
          BY <4>1, <4>4, <5>1
        <5>2. CASE i = k + 1
          <6>1. ~(i =< k) /\ i - k = 1
            BY <5>2
          <6>2. QED BY <3>2, <4>4, <5>2, <6>1
        <5>3. QED BY <5>1, <5>2
      <4>6. QED BY <4>4, <4>5
    <3>6. QED BY <3>4, <3>5
  <2>4. \A k \in Nat : k \in T
    <3>1. \A k \in Nat : k \in T => k + 1 \in T
      BY <2>3
    <3> HIDE DEF T
    <3>2. QED BY <2>2, <3>1, Induction
  <2>5. n \in 1..n /\ n \in Nat
    BY <1>3
  <2>6. P(n)
    BY <2>4, <2>5
  <2>7. QED BY <1>1, <2>1, <2>5, <2>6
<1>4. QED BY <1>2, <1>3

\* The parts of the k-th record.
LEMMA RecordsAt ==
    ASSUME NEW ids \in Seq(Chunk), NEW k \in 1..Len(ids)
    PROVE  RecordsOf(ids)[2 * k - 1] = Header(ids[k]) /\ RecordsOf(ids)[2 * k] = Data(ids[k])
<1>1. PICK n \in Nat : n = Len(ids)
  OBVIOUS
<1>2. /\ 2 * k - 1 \in 1..(2 * n) /\ (2 * k - 1) % 2 = 1 /\ ((2 * k - 1) + 1) \div 2 = k
      /\ 2 * k \in 1..(2 * n) /\ (2 * k) % 2 # 1 /\ (2 * k) \div 2 = k
  BY <1>1
<1>3. QED BY <1>1, <1>2 DEF RecordsOf

\* A chunk that is shown leaves the parts of the others where they are.
LEMMA RecordsKeep ==
    ASSUME NEW ids \in Seq(Chunk), NEW id \in Chunk
    PROVE  /\ Append(ids, id) \in Seq(Chunk) /\ Len(Append(ids, id)) = Len(ids) + 1
           /\ Append(ids, id)[Len(ids) + 1] = id
           /\ \A i \in 1..Len(ids) : Append(ids, id)[i] = ids[i]
           /\ \A i \in 1..(2 * Len(ids)) : RecordsOf(Append(ids, id))[i] = RecordsOf(ids)[i]
<1>1. PICK n \in Nat : n = Len(ids)
  OBVIOUS
<1>2. PICK r, u : r = RecordsOf(ids) /\ u = <<Header(id), Data(id)>>
  OBVIOUS
<1>3. /\ r \in Seq(Part) /\ Len(r) = 2 * n /\ u \in Seq(Part) /\ Len(u) = 2
  BY <1>1, <1>2, RecordsType, PartTypes
<1>4. RecordsOf(Append(ids, id)) = r \o u
  BY <1>2, RecordsAppend
<1>5. \A i \in 1..(Len(r) + Len(u)) : (r \o u)[i] = IF i =< Len(r) THEN r[i] ELSE u[i - Len(r)]
  BY <1>3, ConcatProperties
<1>6. \A i \in 1..(2 * n) : (r \o u)[i] = r[i]
  BY <1>3, <1>5
<1>7. PICK all : all = Append(ids, id)
  OBVIOUS
<1>8. /\ all \in Seq(Chunk) /\ Len(all) = n + 1 /\ all[n + 1] = id
      /\ \A i \in 1..n : all[i] = ids[i]
  BY <1>1, <1>7, AppendProperties
<1>9. QED BY <1>1, <1>2, <1>4, <1>6, <1>7, <1>8
----------------------------------------------------------------------------
(* The file that is watched *)

Watched == files[PeekedFile]

\* What the loop holds was the last to be shown.
LastShown == at["loop"] \in {"header", "data"} => wanted # <<>> /\ wanted[Len(wanted)] = chunk

\* No block of the watched file is empty.  Without compression each is one part, and
\* they are the first ones of the records of what was shown: all of them, but for what
\* the loop is about to write, as long as the file has not been rotated.
FileInv ==
    /\ LastShown
    /\ \A i \in 1..Len(Watched) : Watched[i] # <<>>
    /\ mode = "none" =>
        /\ Len(Watched) =< 2 * Len(wanted)
        /\ \A i \in 1..Len(Watched) : Watched[i] = <<RecordsOf(wanted)[i]>>
        /\ Len(files) = 1 => Len(Watched) + Len(Missing) = 2 * Len(wanted)

LEMMA WatchedType ==
    ASSUME RecorderInv
    PROVE  /\ Watched \in Seq(Seq(Part)) /\ Len(files) \in Nat /\ Len(files) >= 1
           /\ Len(Watched) \in Nat /\ Len(wanted) \in Nat /\ wanted \in Seq(Chunk)
           /\ files \in Seq(Seq(Seq(Part))) /\ StoreOK /\ clock \in Nat
<1>1. /\ files \in Seq(Seq(Seq(Part))) /\ files # <<>> /\ wanted \in Seq(Chunk)
      /\ StoreOK /\ clock \in Nat
  BY InvFacts DEF RecorderInv, WriterOK, StoreOK
<1>2. Len(files) \in Nat /\ Len(files) >= 1
  BY <1>1, EmptySeq
<1>3. Watched \in Seq(Seq(Part))
  BY <1>1, <1>2 DEF Watched, PeekedFile
<1>4. QED BY <1>1, <1>2, <1>3

\* A write to the last file adds a block to the watched one, if that is it.
LEMMA BlockAdded ==
    ASSUME RecorderInv, script = Len(files), NEW parts \in Seq(Part), ToDisk(parts)
    PROVE  /\ Len(files') = Len(files)
           /\ Len(files) # 1 => Watched' = Watched
           /\ Len(files) = 1 =>
                 /\ Len(Watched') = Len(Watched) + 1
                 /\ Watched'[Len(Watched) + 1] = parts
                 /\ \A i \in 1..Len(Watched) : Watched'[i] = Watched[i]
<1>1. /\ Watched \in Seq(Seq(Part)) /\ Len(files) \in Nat /\ Len(files) >= 1
      /\ files \in Seq(Seq(Seq(Part)))
  BY WatchedType
<1>2. files' = [files EXCEPT ![Len(files)] = Append(files[Len(files)], parts)]
  BY DEF ToDisk
<1>3. Len(files') = Len(files)
  BY <1>1, <1>2
<1>4. CASE Len(files) # 1
  BY <1>1, <1>2, <1>3, <1>4 DEF Watched, PeekedFile
<1>5. CASE Len(files) = 1
  <2>1. Watched' = Append(Watched, parts)
    BY <1>1, <1>2, <1>5 DEF Watched, PeekedFile
  <2>2. QED BY <1>1, <1>3, <1>5, <2>1, AppendProperties
<1>6. QED BY <1>3, <1>4, <1>5

\* Steps that write nothing and show nothing.
LEMMA FileRests ==
    ASSUME FileInv, UNCHANGED <<files, mode, wanted>>, Len(Missing') = Len(Missing), LastShown'
    PROVE  FileInv'
  BY DEF FileInv, Watched

\* A call of the writer.
LEMMA FileWritten ==
    ASSUME RecorderInv, FileInv, LastShown', NEW part \in Part, Write(part),
           NEW from \in {"header", "data"}, In("loop", from), UNCHANGED wanted,
           Len(Missing) = Len(Missing') + 1, Len(Missing') \in Nat,
           part = RecordsOf(wanted)[2 * Len(wanted) - Len(Missing')]
    PROVE  FileInv'
<1>1. /\ Watched \in Seq(Seq(Part)) /\ Len(files) \in Nat /\ Len(files) >= 1
      /\ Len(Watched) \in Nat /\ Len(wanted) \in Nat /\ StoreOK
  BY WatchedType
<1>2. script = Len(files) /\ (frame => mode = "zstd") /\ mode' = mode
  BY LoopWrites DEF RecorderInv, WriterOK, Write
<1>3. PoolParts \in Seq(Part)
  BY <1>1, TapeType
<1>4. CASE mode # "zstd"
  <2>1. PICK parts \in Seq(Part) : parts = <<part>> /\ ToDisk(parts) /\ parts # <<>>
    <3>1. PICK parts : parts = <<part>>
      OBVIOUS
    <3>2. parts \in Seq(Part) /\ Len(parts) = 1
      BY <3>1
    <3>3. parts # <<>>
      <4>1. Len(<<>>) # 1
        OBVIOUS
      <4>2. QED BY <3>2, <4>1, Zenon
    <3>4. QED BY <1>4, <3>1, <3>2, <3>3 DEF Write
  <2>2. /\ Len(files') = Len(files)
        /\ Len(files) # 1 => Watched' = Watched
        /\ Len(files) = 1 =>
              /\ Len(Watched') = Len(Watched) + 1
              /\ Watched'[Len(Watched) + 1] = parts
              /\ \A i \in 1..Len(Watched) : Watched'[i] = Watched[i]
    BY <1>2, <2>1, BlockAdded
  <2>3. CASE Len(files) # 1
    BY <1>2, <2>2, <2>3 DEF FileInv
  <2>4. CASE Len(files) = 1
    <3>n. PICK w \in Nat, m \in Nat, n \in Nat :
             w = Len(Watched) /\ m = Len(Missing') /\ n = 2 * Len(wanted)
      BY <1>1
    <3>s. PICK v, u : v = Watched' /\ u = Watched
      OBVIOUS
    <3>1. /\ w = Len(Watched) /\ m = Len(Missing') /\ n = 2 * Len(wanted)
          /\ v = Watched' /\ u = Watched
      BY <3>n, <3>s
    <3>2. /\ Len(v) = w + 1 /\ v[w + 1] = parts /\ \A i \in 1..w : v[i] = u[i]
      BY <2>2, <2>4, <3>1
    <3>3. \A i \in 1..w : u[i] # <<>>
      BY <3>1 DEF FileInv
    <3>4. ASSUME NEW i \in 1..(w + 1) PROVE v[i] # <<>>
      <4>1. CASE i = w + 1
        BY <2>1, <3>2, <4>1
      <4>2. CASE i # w + 1
        <5>1. i \in 1..w
          BY <4>2
        <5>2. QED BY <3>2, <3>3, <5>1
      <4>3. QED BY <4>1, <4>2
    <3>5. SUFFICES ASSUME mode = "none"
                   PROVE  /\ w + 1 =< n
                          /\ \A i \in 1..(w + 1) : v[i] = <<RecordsOf(wanted)[i]>>
                          /\ (w + 1) + m = n
      BY <1>2, <3>1, <3>2, <3>4 DEF FileInv
    <3>6. w + (m + 1) = n
      BY <2>4, <3>1, <3>5 DEF FileInv
    <3>7. w + 1 = n - m /\ w + 1 =< n /\ (w + 1) + m = n
      BY <3>6
    <3>8. \A i \in 1..w : u[i] = <<RecordsOf(wanted)[i]>>
      BY <3>1, <3>5 DEF FileInv
    <3>9. v[w + 1] = <<RecordsOf(wanted)[w + 1]>>
      BY <2>1, <3>1, <3>2, <3>7
    <3>10. ASSUME NEW i \in 1..(w + 1) PROVE v[i] = <<RecordsOf(wanted)[i]>>
      <4>1. CASE i = w + 1
        BY <3>9, <4>1
      <4>2. CASE i # w + 1
        <5>1. i \in 1..w
          BY <4>2
        <5>2. QED BY <3>2, <3>8, <5>1
      <4>3. QED BY <4>1, <4>2
    <3>11. QED BY <3>7, <3>10
  <2>5. QED BY <2>3, <2>4
<1>5. CASE mode = "zstd"
  <2>1. \/ UNCHANGED files
        \/ \E parts \in Seq(Part) : parts # <<>> /\ ToDisk(parts)
    <3>1. PICK all : all = Append(PoolParts, part)
      OBVIOUS
    <3>2. all \in Seq(Part) /\ all # <<>>
      BY <1>3, <3>1, AppendFront
    <3>3. pool # <<>> => PoolParts # <<>>
      <4>1. pool \in Seq([part : Part, time : Nat])
        BY <1>1 DEF StoreOK, Stamped
      <4>2. Len(PoolParts) = Len(pool)
        BY <4>1 DEF PoolParts
      <4>3. QED BY <4>1, <4>2, EmptySeq
    <3>4. QED BY <1>3, <1>5, <3>1, <3>2, <3>3 DEF Write, WriteZstd
  <2>2. CASE UNCHANGED files
    BY <1>2, <1>5, <2>2 DEF FileInv, Watched
  <2>3. ASSUME NEW parts \in Seq(Part), parts # <<>>, ToDisk(parts)
        PROVE  FileInv'
    <3>1. \A i \in 1..Len(Watched') : Watched'[i] # <<>>
      <4>n. PICK w \in Nat : w = Len(Watched)
        BY <1>1
      <4>s. PICK v, u : v = Watched' /\ u = Watched
        OBVIOUS
      <4>1. w = Len(Watched) /\ v = Watched' /\ u = Watched
        BY <4>n, <4>s
      <4>2. \/ v = u
            \/ Len(v) = w + 1 /\ v[w + 1] = parts /\ \A i \in 1..w : v[i] = u[i]
        BY <1>2, <2>3, <4>1, BlockAdded
      <4>3. \A i \in 1..w : u[i] # <<>>
        BY <4>1 DEF FileInv
      <4>4. CASE v = u
        BY <4>1, <4>3, <4>4
      <4>5. CASE Len(v) = w + 1 /\ v[w + 1] = parts /\ \A i \in 1..w : v[i] = u[i]
        <5>1. ASSUME NEW i \in 1..(w + 1), i # w + 1 PROVE i \in 1..w
          BY <5>1
        <5>2. \A i \in 1..(w + 1) : v[i] # <<>>
          BY <2>3, <4>3, <4>5, <5>1
        <5>3. QED BY <4>1, <4>5, <5>2
      <4>6. QED BY <4>2, <4>4, <4>5
    <3>2. QED BY <1>2, <1>5, <3>1 DEF FileInv
  <2>4. QED BY <2>1, <2>2, <2>3
<1>6. QED BY <1>4, <1>5

\* The chunk in obuf is the last that was shown until it has been written.
LEMMA LastStep ==
    ASSUME RecorderInv, FileInv, [RecorderNext]_recorderVars
    PROVE  LastShown'
<1>1. /\ ContextsOK /\ at \in [Context -> Pc] /\ Context = {"loop", "swing", "done"}
      /\ LastShown /\ wanted \in Seq(Chunk) /\ ChunkHeld /\ chunk \in 0..MaxChunks
  BY InvFacts DEF ContextsOK, Context, FileInv, RecorderInv
<1>2. CASE LoopAction /\ ~Show
  <2>1. /\ at'["loop"] \in {"header", "data"} => at'["loop"] = "data" /\ at["loop"] = "header"
        /\ UNCHANGED wanted /\ (at["loop"] = "header" => UNCHANGED chunk)
    BY <1>1, <1>2
    DEF LoopAction, TestLock, ShowFails, WriteHeader, WriteData, OutputEnds, ReadOutput, Goto,
        loopVars, In
  <2>2. QED BY <1>1, <2>1 DEF LastShown
<1>3. CASE Show
  <2>1. CASE hidden
    BY <1>1, <1>3, <2>1 DEF Show, Goto, LastShown
  <2>2. CASE ~hidden
    <3>1. wanted' = Append(wanted, chunk) /\ chunk' = chunk /\ chunk \in Chunk
      BY <1>1, <1>3, <2>2 DEF Show, ChunkHeld, In, Chunk
    <3>2. /\ wanted' \in Seq(Chunk) /\ Len(wanted') = Len(wanted) + 1
          /\ wanted'[Len(wanted) + 1] = chunk
      BY <1>1, <3>1, RecordsKeep
    <3>3. wanted' # <<>>
      BY <1>1, <3>2, EmptySeq
    <3>4. QED BY <3>1, <3>2, <3>3 DEF LastShown
  <2>3. QED BY <2>1, <2>2
<1>4. CASE ~LoopAction
  BY <1>1, <1>4, OtherSteps DEF LoopAlone, LastShown
<1>5. QED BY <1>2, <1>3, <1>4

LEMMA FileStep ==
    ASSUME RecorderInv, FileInv, [RecorderNext]_recorderVars
    PROVE  FileInv'
<1>1. /\ ContextsOK /\ at \in [Context -> Pc] /\ Context = {"loop", "swing", "done"}
      /\ LastShown /\ wanted \in Seq(Chunk) /\ ChunkHeld /\ chunk \in 0..MaxChunks /\ LastShown'
      /\ WriterOK
  BY InvFacts, LastStep DEF ContextsOK, Context, FileInv, RecorderInv
<1>2. /\ Watched \in Seq(Seq(Part)) /\ Len(files) \in Nat /\ Len(files) >= 1
      /\ Len(Watched) \in Nat /\ Len(wanted) \in Nat
      /\ files \in Seq(Seq(Seq(Part))) /\ StoreOK
  BY WatchedType
<1>3. CASE TestLock \/ ShowFails \/ OutputEnds \/ (\E source \in Sources : ReadOutput(source))
              \/ (Show /\ hidden)
  <2>1. /\ {at["loop"], at'["loop"]} \subseteq {"read", "test", "show", "wait"}
        /\ UNCHANGED <<files, mode, wanted>>
    BY <1>1, <1>3
    DEF TestLock, ShowFails, OutputEnds, ReadOutput, Show, In, Goto, loopVars, writerVars
  <2>2. Missing = <<>> /\ Missing' = <<>>
    BY <2>1 DEF Missing
  <2>3. QED BY <1>1, <2>1, <2>2, FileRests
<1>4. CASE Show /\ ~hidden
  <2>1. /\ at["loop"] = "show" /\ at'["loop"] = "header" /\ UNCHANGED <<files, mode, chunk>>
        /\ wanted' = Append(wanted, chunk) /\ chunk \in Chunk
    BY <1>1, <1>4 DEF Show, In, Goto, writerVars, ChunkHeld, Chunk
  <2>2. Len(Missing) = 0 /\ Len(Missing') = 2
    BY <2>1 DEF Missing
  <2>3. PICK n \in Nat, w \in Nat : n = Len(wanted) /\ w = Len(Watched)
    BY <1>2
  <2>4. /\ Len(wanted') = n + 1 /\ Watched' = Watched
        /\ \A i \in 1..(2 * n) : RecordsOf(wanted')[i] = RecordsOf(wanted)[i]
    BY <1>1, <2>1, <2>3, RecordsKeep DEF Watched
  <2>5. SUFFICES ASSUME mode = "none"
                 PROVE  /\ w =< 2 * (n + 1)
                        /\ \A i \in 1..w : Watched[i] = <<RecordsOf(wanted')[i]>>
                        /\ Len(files) = 1 => w + 2 = 2 * (n + 1)
    BY <1>1, <2>1, <2>2, <2>3, <2>4 DEF FileInv
  <2>6. /\ w =< 2 * n
        /\ \A i \in 1..w : Watched[i] = <<RecordsOf(wanted)[i]>>
        /\ Len(files) = 1 => w + 0 = 2 * n
    BY <2>2, <2>3, <2>5 DEF FileInv
  <2>7. \A i \in 1..w : i \in 1..(2 * n)
    BY <2>6
  <2>8. \A i \in 1..w : Watched[i] = <<RecordsOf(wanted')[i]>>
    BY <2>4, <2>6, <2>7
  <2>9. QED BY <2>6, <2>8
<1>5. ASSUME NEW from \in {"header", "data"}, In("loop", from), at["loop"] = from
      PROVE  /\ chunk \in Chunk /\ Len(wanted) >= 1
             /\ RecordsOf(wanted)[2 * Len(wanted) - 1] = Header(chunk)
             /\ RecordsOf(wanted)[2 * Len(wanted)] = Data(chunk)
  <2>1. chunk \in Chunk /\ wanted # <<>> /\ wanted[Len(wanted)] = chunk
    BY <1>1, <1>5 DEF LastShown, ChunkHeld, Chunk
  <2>2. Len(wanted) >= 1
    BY <1>1, <2>1, EmptySeq
  <2>3. Len(wanted) \in 1..Len(wanted)
    BY <1>2, <2>2
  <2>4. QED BY <1>1, <2>1, <2>2, <2>3, RecordsAt
<1>6. CASE WriteHeader
  <2>1. /\ In("loop", "header") /\ at["loop"] = "header" /\ at'["loop"] = "data"
        /\ UNCHANGED <<wanted, chunk>> /\ Write(Header(chunk))
    BY <1>1, <1>6 DEF WriteHeader, In, Goto, loopVars
  <2>2. Len(Missing) = 2 /\ Len(Missing') = 1
    BY <2>1 DEF Missing
  <2>3. Header(chunk) = RecordsOf(wanted)[2 * Len(wanted) - Len(Missing')] /\ Header(chunk) \in Part
    BY <1>5, <2>1, <2>2, PartTypes
  <2>4. QED BY <1>1, <2>1, <2>2, <2>3, FileWritten
<1>7. CASE WriteData
  <2>1. /\ In("loop", "data") /\ at["loop"] = "data" /\ at'["loop"] = "read"
        /\ UNCHANGED <<wanted, chunk>> /\ Write(Data(chunk))
    BY <1>1, <1>7 DEF WriteData, In, Goto, loopVars
  <2>2. Len(Missing) = 1 /\ Len(Missing') = 0
    BY <2>1 DEF Missing
  <2>3. Data(chunk) = RecordsOf(wanted)[2 * Len(wanted) - Len(Missing')] /\ Data(chunk) \in Part
    <3>1. 2 * Len(wanted) - 0 = 2 * Len(wanted)
      BY <1>2
    <3>2. QED BY <1>5, <2>1, <2>2, <3>1, PartTypes
  <2>4. QED BY <1>1, <2>1, <2>2, <2>3, FileWritten
<1>8. CASE ~LoopAction
  <2>1. Missing' = Missing /\ UNCHANGED wanted
    BY <1>8, OtherSteps DEF LoopAlone, Missing
  <2>2. CASE UNCHANGED <<files, mode>>
    BY <1>1, <2>1, <2>2, FileRests
  <2>3. CASE Close
    <3>1. mode' = mode
      BY <2>3 DEF Close
    <3>2. CASE frame /\ pool # <<>>
      <4>1. mode = "zstd" /\ script = Len(files) /\ ToDisk(PoolParts)
        BY <1>1, <2>3, <3>2 DEF Close, WriterOK
      <4>2. PoolParts \in Seq(Part) /\ PoolParts # <<>>
        <5>1. pool \in Seq([part : Part, time : Nat])
          BY <1>2 DEF StoreOK, Stamped
        <5>2. Len(PoolParts) = Len(pool)
          BY <5>1 DEF PoolParts
        <5>3. PoolParts \in Seq(Part)
          BY <1>2, TapeType
        <5>4. QED BY <3>2, <5>1, <5>2, <5>3, EmptySeq
      <4>n. PICK w \in Nat : w = Len(Watched)
        BY <1>2
      <4>s. PICK v, u : v = Watched' /\ u = Watched
        OBVIOUS
      <4>3. \/ v = u
            \/ Len(v) = w + 1 /\ v[w + 1] = PoolParts /\ \A i \in 1..w : v[i] = u[i]
        BY <4>1, <4>2, <4>n, <4>s, BlockAdded
      <4>4. \A i \in 1..w : u[i] # <<>>
        BY <4>n, <4>s DEF FileInv
      <4>5. CASE v = u
        BY <1>1, <3>1, <4>1, <4>s, <4>n, <4>4, <4>5 DEF FileInv
      <4>6. CASE Len(v) = w + 1 /\ v[w + 1] = PoolParts /\ \A i \in 1..w : v[i] = u[i]
        <5>1. ASSUME NEW i \in 1..(w + 1), i # w + 1 PROVE i \in 1..w
          BY <5>1
        <5>2. \A i \in 1..(w + 1) : v[i] # <<>>
          BY <4>2, <4>4, <4>6, <5>1
        <5>3. QED BY <1>1, <3>1, <4>1, <4>s, <4>6, <5>2 DEF FileInv
      <4>7. QED BY <4>3, <4>5, <4>6
    <3>3. CASE ~(frame /\ pool # <<>>)
      <4>1. UNCHANGED files
        BY <2>3, <3>3 DEF Close
      <4>2. QED BY <1>1, <2>1, <3>1, <4>1, FileRests
    <3>4. QED BY <3>2, <3>3
  <2>4. CASE OpenNew
    <3>1. files' = Append(files, <<>>) /\ mode' = mode
      BY <2>4 DEF OpenNew
    <3>2. <<>> \in Seq(Seq(Part))
      BY EmptySeq
    <3>3. Len(files') = Len(files) + 1 /\ Watched' = Watched
      BY <1>2, <3>1, <3>2, AppendProperties DEF Watched, PeekedFile
    <3>4. Len(files') # 1
      BY <1>2, <3>3
    <3>5. QED BY <1>1, <2>1, <3>1, <3>3, <3>4 DEF FileInv
  <2>5. QED
    BY <1>8, <2>2, <2>3, <2>4
    DEF RecorderNext, ChildStep, LoopAction, StartRotation, TestRotation, CloseOld, CloseLast,
        OpenFails, Exit, ProgramReaped, Terminate, Crash, RequestRotation, ForwardRotation,
        LockChanges, Tick, writerVars, recorderVars
<1>9. QED BY <1>3, <1>4, <1>6, <1>7, <1>8 DEF LoopAction

LEMMA FileInit == RecorderInit => FileInv
<1> SUFFICES ASSUME RecorderInit PROVE FileInv
  OBVIOUS
<1>1. Watched = <<>> /\ wanted = <<>> /\ at["loop"] = "read"
  BY DEF RecorderInit, Watched, PeekedFile, Context
<1>2. Len(Watched) = 0 /\ Len(wanted) = 0 /\ Missing = <<>>
  BY <1>1 DEF Missing
<1>3. QED BY <1>1, <1>2 DEF FileInv, LastShown

\* The recorder only adds to the watched file, and to what was shown.
LEMMA FileGrows ==
    ASSUME RecorderInv, [RecorderNext]_recorderVars
    PROVE  /\ mode' = mode /\ Len(Watched) =< Len(Watched')
           /\ \A i \in 1..Len(wanted) : wanted'[i] = wanted[i]
<1>0. /\ Watched \in Seq(Seq(Part)) /\ Len(files) \in Nat /\ Len(files) >= 1
      /\ Len(Watched) \in Nat /\ files \in Seq(Seq(Seq(Part))) /\ StoreOK /\ WriterOK
      /\ wanted \in Seq(Chunk) /\ chunk \in 0..MaxChunks /\ ChunkHeld
  BY WatchedType, InvFacts DEF RecorderInv
<1>1. \A i \in 1..Len(wanted) : wanted'[i] = wanted[i]
  <2>1. CASE UNCHANGED wanted
    BY <2>1
  <2>2. CASE Show /\ ~hidden
    <3>1. chunk \in Chunk /\ wanted' = Append(wanted, chunk)
      BY <1>0, <2>2 DEF Show, In, ChunkHeld, Chunk
    <3>2. QED BY <1>0, <3>1, RecordsKeep
  <2>3. CASE LoopAction /\ ~Show
    <3>1. UNCHANGED wanted
      BY <2>3
      DEF LoopAction, TestLock, ShowFails, WriteHeader, WriteData, OutputEnds, ReadOutput, loopVars
    <3>2. QED BY <3>1
  <2>4. CASE Show /\ hidden
    BY <2>4 DEF Show
  <2>5. CASE ~LoopAction
    BY <2>5, OtherSteps DEF LoopAlone
  <2>6. QED BY <2>2, <2>3, <2>4, <2>5
<1>2. ASSUME NEW parts, ToDisk(parts), script \in {0, Len(files)}
      PROVE  Len(Watched) =< Len(Watched')
  <2>1. PICK l : l = Append(files[script], parts)
    OBVIOUS
  <2>2. files' = [files EXCEPT ![script] = l]
    BY <1>2, <2>1 DEF ToDisk
  <2>3. CASE script = 1
    <3>1. Watched' = l /\ l = Append(Watched, parts)
      BY <1>0, <2>1, <2>2, <2>3 DEF Watched, PeekedFile
    <3>2. Len(l) = Len(Watched) + 1
      BY <1>0, <3>1
    <3>3. QED BY <1>0, <3>1, <3>2
  <2>4. CASE script # 1
    <3>1. Watched' = Watched
      BY <1>0, <2>2, <2>4 DEF Watched, PeekedFile
    <3>2. QED BY <1>0, <3>1
  <2>5. QED BY <2>3, <2>4
<1>3. CASE UNCHANGED <<files, mode>>
  BY <1>0, <1>1, <1>3 DEF Watched
<1>4. ASSUME NEW part, Write(part)
      PROVE  mode' = mode /\ Len(Watched) =< Len(Watched')
  <2>1. UNCHANGED files \/ (\E parts : ToDisk(parts))
    BY <1>4 DEF Write, WriteZstd
  <2>2. script \in {0, Len(files)} /\ mode' = mode
    BY <1>0, <1>4 DEF WriterOK, Write
  <2>3. CASE UNCHANGED files
    BY <1>0, <2>2, <2>3 DEF Watched
  <2>4. QED BY <1>2, <2>1, <2>2, <2>3
<1>5. CASE WriteHeader \/ WriteData
  BY <1>1, <1>4, <1>5 DEF WriteHeader, WriteData
<1>6. CASE Close
  <2>1. UNCHANGED files \/ (\E parts : ToDisk(parts))
    BY <1>6 DEF Close
  <2>2. script \in {0, Len(files)} /\ mode' = mode
    BY <1>0, <1>6 DEF WriterOK, Close
  <2>3. CASE UNCHANGED files
    BY <1>0, <1>1, <2>2, <2>3 DEF Watched
  <2>4. QED BY <1>1, <1>2, <2>1, <2>2, <2>3
<1>7. CASE OpenNew
  <2>1. files' = Append(files, <<>>) /\ mode' = mode
    BY <1>7 DEF OpenNew
  <2>2. <<>> \in Seq(Seq(Part))
    BY EmptySeq
  <2>3. Watched' = Watched
    BY <1>0, <2>1, <2>2, AppendProperties DEF Watched, PeekedFile
  <2>4. QED BY <1>0, <1>1, <2>1, <2>3
<1>8. QED
  BY <1>3, <1>5, <1>6, <1>7
  DEF RecorderNext, ChildStep, TestLock, Show, ShowFails, OutputEnds, ReadOutput, StartRotation,
      TestRotation, CloseOld, CloseLast, OpenFails, Exit, ProgramReaped, Terminate, Crash,
      RequestRotation, ForwardRotation, LockChanges, Tick, writerVars, recorderVars
----------------------------------------------------------------------------
(* The player *)

\* In an uncompressed file the player is between two records, or between the parts of
\* the one that follows those it has read.
PlayerInv ==
    /\ PlayerTypeOK
    /\ mode = "none" =>
        /\ hand = <<>> /\ decoded = 0 /\ pos =< Len(Watched)
        /\ next \in {"header", "data"}
        /\ pos = 2 * Len(played) + (IF next = "header" THEN 0 ELSE 1)
        /\ next = "data" => saved = 2 * Len(played) /\ head = wanted[Len(played) + 1]
        /\ \A i \in 1..Len(played) : played[i] = wanted[i]

\* The recorder's steps do not disturb the player.
LEMMA PlayerWaits ==
    ASSUME RecorderInv, FileInv, PlayerInv, [RecorderNext]_recorderVars, UNCHANGED playerVars
    PROVE  PlayerInv'
<1>1. /\ mode' = mode /\ Len(Watched) =< Len(Watched')
      /\ \A i \in 1..Len(wanted) : wanted'[i] = wanted[i]
      /\ Len(Watched) \in Nat /\ Len(wanted) \in Nat
  BY FileGrows, WatchedType
<1>2. FileInv' /\ RecorderInv'
  BY FileStep, InvStep
<1>3. Len(Watched') \in Nat
  <2>1. files' \in Seq(Seq(Seq(Part))) /\ files' # <<>>
    BY <1>2, InvFacts DEF RecorderInv, WriterOK, RecorderTypeOK, FileTypeOK
  <2>2. Len(files') \in Nat /\ Len(files') >= 1
    BY <2>1, EmptySeq
  <2>3. Watched' \in Seq(Seq(Part))
    BY <2>1, <2>2 DEF Watched, PeekedFile
  <2>4. QED BY <2>3
<1>4. UNCHANGED <<pos, saved, decoded, hand, next, head, phase, played>>
  BY DEF playerVars
<1>5. PlayerTypeOK'
  BY <1>4 DEF PlayerInv, PlayerTypeOK
<1>6. SUFFICES ASSUME mode = "none"
               PROVE  /\ pos =< Len(Watched')
                      /\ next = "data" => wanted'[Len(played) + 1] = wanted[Len(played) + 1]
                      /\ \A i \in 1..Len(played) : wanted'[i] = wanted[i]
  BY <1>1, <1>4, <1>5 DEF PlayerInv
<1>7. PICK n \in Nat, p \in Nat, w \in Nat, v \in Nat, k \in Nat :
         n = Len(wanted) /\ p = pos /\ w = Len(Watched) /\ v = Len(Watched') /\ k = Len(played)
  BY <1>1, <1>3 DEF PlayerInv, PlayerTypeOK
<1>8. p =< w /\ w =< v /\ w =< 2 * n /\ p = 2 * k + (IF next = "header" THEN 0 ELSE 1)
  BY <1>1, <1>6, <1>7 DEF PlayerInv, FileInv
<1>9. p =< v /\ k =< n /\ (next = "data" => k + 1 =< n)
  BY <1>8
<1>10. \A i \in 1..k : i \in 1..n
  BY <1>9
<1>11. next = "data" => k + 1 \in 1..n
  BY <1>9
<1>12. QED BY <1>1, <1>7, <1>9, <1>10, <1>11

LEMMA TakeType ==
    ASSUME RecorderInv, FileInv, PlayerTypeOK, NEW part, Take(part)
    PROVE  {pos', decoded'} \subseteq Nat /\ hand' \in Seq(Part)
<1>1. /\ Watched \in Seq(Seq(Part)) /\ pos \in Nat /\ decoded \in Nat /\ hand \in Seq(Part)
      /\ Len(Watched) \in Nat
  BY WatchedType DEF PlayerTypeOK
<1>2. CASE hand # <<>>
  <2>1. Tail(hand) \in Seq(Part)
    BY <1>1, <1>2
  <2>2. QED BY <1>1, <1>2, <2>1 DEF Take
<1>3. CASE hand = <<>>
  <2>1. /\ pos < Len(Watched) /\ hand' = Tail(Watched[pos + 1])
        /\ pos' = pos + 1 /\ decoded' \in {pos + 1, decoded}
    BY <1>3 DEF Take, Block, Watched
  <2>2. pos + 1 \in 1..Len(Watched)
    BY <1>1, <2>1
  <2>3. PICK b : b = Watched[pos + 1]
    OBVIOUS
  <2>4. b \in Seq(Part) /\ b # <<>>
    BY <1>1, <2>2, <2>3 DEF FileInv
  <2>5. Tail(b) \in Seq(Part)
    BY <2>4
  <2>6. QED BY <1>1, <2>1, <2>3, <2>5
<1>4. QED BY <1>2, <1>3

\* Without compression the next part is the next one of the records.
LEMMA TakePlain ==
    ASSUME RecorderInv, FileInv, PlayerInv, mode = "none", NEW part, Take(part)
    PROVE  /\ hand' = <<>> /\ decoded' = 0 /\ pos' = pos + 1 /\ pos + 1 =< Len(Watched)
           /\ part = RecordsOf(wanted)[pos + 1] /\ pos + 1 =< 2 * Len(wanted)
<1>1. /\ Watched \in Seq(Seq(Part)) /\ pos \in Nat /\ hand = <<>> /\ decoded = 0
      /\ Len(Watched) \in Nat /\ Len(wanted) \in Nat
  BY WatchedType DEF PlayerInv, PlayerTypeOK
<1>2. PICK b : b = Watched[pos + 1]
  OBVIOUS
<1>3. /\ pos < Len(Watched) /\ part = Head(b) /\ hand' = Tail(b)
      /\ pos' = pos + 1 /\ decoded' = decoded
  BY <1>1, <1>2 DEF Take, Block, Watched
<1>4. pos + 1 \in 1..Len(Watched) /\ Len(Watched) =< 2 * Len(wanted)
  BY <1>1, <1>3 DEF FileInv
<1>5. PICK r : r = RecordsOf(wanted)[pos + 1]
  OBVIOUS
<1>6. b = <<r>>
  BY <1>2, <1>4, <1>5 DEF FileInv
<1>7. Head(<<r>>) = r /\ Tail(<<r>>) = <<>>
  OBVIOUS
<1>8. QED BY <1>1, <1>3, <1>4, <1>5, <1>6, <1>7

LEMMA PlayerStep ==
    ASSUME RecorderInv, FileInv, PlayerInv, PlayerNext, UNCHANGED recorderVars
    PROVE  PlayerInv'
<1>1. /\ {pos, saved, decoded} \subseteq Nat /\ hand \in Seq(Part)
      /\ next \in {"header", "data", "lost"} /\ head \in 0..MaxChunks
      /\ phase \in {"skip", "follow"} /\ played \in Seq(Chunk)
      /\ MaxChunks \in Nat /\ wanted \in Seq(Chunk) /\ Len(Watched) \in Nat
  BY ChunkAssumption, WatchedType DEF PlayerInv, PlayerTypeOK
<1>2. UNCHANGED <<files, mode, wanted>> /\ Watched' = Watched
  BY DEF recorderVars, writerVars, loopVars, Watched
<1>3. PICK k \in Nat, n \in Nat : k = Len(played) /\ n = Len(wanted)
  BY <1>1
<1>4. mode = "none" =>
         /\ hand = <<>> /\ decoded = 0 /\ pos =< Len(Watched)
         /\ next \in {"header", "data"}
         /\ pos = 2 * k + (IF next = "header" THEN 0 ELSE 1)
         /\ next = "data" => saved = 2 * k /\ head = wanted[k + 1]
         /\ \A i \in 1..k : played[i] = wanted[i]
  BY <1>3 DEF PlayerInv
<1>5. CASE ReadHeader
  <2>1. PICK part \in Part :
           /\ Take(part)
           /\ IF part.kind = "header" THEN next' = "data" /\ head' = part.id
                                      ELSE next' = "lost" /\ UNCHANGED head
    BY <1>5 DEF ReadHeader
  <2>2. next = "header" /\ saved' = pos /\ UNCHANGED <<phase, played>>
    BY <1>5 DEF ReadHeader
  <2>3. head' \in 0..MaxChunks
    BY <1>1, <2>1 DEF Part, Chunk
  <2>4. PlayerTypeOK'
    BY <1>1, <2>1, <2>2, <2>3, TakeType DEF PlayerTypeOK, PlayerInv
  <2>5. ASSUME mode = "none"
        PROVE  /\ hand' = <<>> /\ decoded' = 0 /\ pos' =< Len(Watched)
               /\ next' = "data" /\ pos' = 2 * k + 1
               /\ saved' = 2 * k /\ head' = wanted[k + 1]
    <3>1. /\ hand' = <<>> /\ decoded' = 0 /\ pos' = pos + 1 /\ pos + 1 =< Len(Watched)
          /\ part = RecordsOf(wanted)[pos + 1] /\ pos + 1 =< 2 * n
      BY <1>3, <2>1, <2>5, TakePlain
    <3>2. pos = 2 * k
      BY <1>1, <1>4, <2>2, <2>5
    <3>3. k + 1 \in 1..n /\ pos + 1 = 2 * (k + 1) - 1
      BY <3>1, <3>2
    <3>4. part = Header(wanted[k + 1])
      BY <1>1, <1>3, <3>1, <3>3, RecordsAt
    <3>5. part.kind = "header" /\ part.id = wanted[k + 1]
      BY <3>4 DEF Header
    <3>6. QED BY <2>1, <2>2, <3>1, <3>2, <3>5
  <2>6. QED BY <1>2, <1>3, <1>4, <2>2, <2>4, <2>5 DEF PlayerInv
<1>6. CASE ReadData
  <2>1. PICK part \in Part :
           /\ Take(part)
           /\ IF part = Data(head) THEN next' = "header" /\ played' = Append(played, head)
                                   ELSE next' = "lost" /\ UNCHANGED played
    BY <1>6 DEF ReadData
  <2>2. next = "data" /\ UNCHANGED <<saved, head, phase>>
    BY <1>6 DEF ReadData
  <2>3. part = Data(head) => head \in Chunk
    <3>1. part.id \in Chunk
      BY DEF Part
    <3>2. QED BY <3>1 DEF Data
  <2>4. played' \in Seq(Chunk)
    <3>1. played \in Seq(Chunk)
      BY <1>1
    <3>2. CASE part = Data(head)
      <4>1. head \in Chunk /\ played' = Append(played, head)
        BY <2>1, <2>3, <3>2
      <4>2. QED BY <3>1, <4>1, AppendProperties
    <3>3. CASE part # Data(head)
      BY <2>1, <3>1, <3>3
    <3>4. QED BY <3>2, <3>3
  <2>5. PlayerTypeOK'
    BY <1>1, <2>1, <2>2, <2>4, TakeType DEF PlayerTypeOK, PlayerInv
  <2>6. ASSUME mode = "none"
        PROVE  /\ hand' = <<>> /\ decoded' = 0 /\ pos' =< Len(Watched)
               /\ next' = "header" /\ pos' = 2 * Len(played')
               /\ \A i \in 1..Len(played') : played'[i] = wanted[i]
    <3>1. /\ hand' = <<>> /\ decoded' = 0 /\ pos' = pos + 1 /\ pos + 1 =< Len(Watched)
          /\ part = RecordsOf(wanted)[pos + 1] /\ pos + 1 =< 2 * n
      BY <1>3, <2>1, <2>6, TakePlain
    <3>2. pos = 2 * k + 1 /\ head = wanted[k + 1]
      BY <1>1, <1>4, <2>2, <2>6
    <3>3. k + 1 \in 1..n /\ pos + 1 = 2 * (k + 1)
      BY <3>1, <3>2
    <3>4. part = Data(head)
      BY <1>1, <1>3, <3>1, <3>2, <3>3, RecordsAt
    <3>5. PICK all : all = Append(played, head)
      OBVIOUS
    <3>6. Len(all) = k + 1 /\ all[k + 1] = head /\ \A i \in 1..k : all[i] = played[i]
      BY <1>1, <1>3, <2>3, <3>4, <3>5, AppendProperties
    <3>7. ASSUME NEW i \in 1..(k + 1) PROVE all[i] = wanted[i]
      <4>1. CASE i = k + 1
        BY <3>2, <3>6, <4>1
      <4>2. CASE i # k + 1
        <5>1. i \in 1..k
          BY <4>2
        <5>2. QED BY <1>4, <2>6, <3>6, <5>1
      <4>3. QED BY <4>1, <4>2
    <3>8. played' = all /\ next' = "header"
      BY <2>1, <3>4, <3>5
    <3>9. QED BY <3>1, <3>2, <3>3, <3>6, <3>7, <3>8
  <2>7. QED BY <1>2, <2>2, <2>5, <2>6 DEF PlayerInv
<1>7. CASE ShortRead
  <2>1. /\ pos' = (IF next = "data" THEN saved ELSE pos) /\ next' = "header" /\ phase' = "follow"
        /\ UNCHANGED <<saved, decoded, hand, head, played>> /\ next \in {"header", "data"}
    BY <1>7 DEF ShortRead
  <2>2. PlayerTypeOK'
    BY <1>1, <2>1 DEF PlayerTypeOK
  <2>3. ASSUME mode = "none"
        PROVE  pos' =< Len(Watched) /\ pos' = 2 * k
    <3>1. CASE next = "data"
      BY <1>1, <1>4, <2>1, <2>3, <3>1
    <3>2. CASE next = "header"
      BY <1>1, <1>4, <2>1, <2>3, <3>2
    <3>3. QED BY <2>1, <3>1, <3>2
  <2>4. QED BY <1>2, <1>3, <1>4, <2>1, <2>2, <2>3 DEF PlayerInv
<1>8. CASE ReadGarbled
  <2>1. mode # "none"
    BY <1>1, <1>4, <1>8 DEF ReadGarbled, Garbled
  <2>2. PlayerTypeOK'
    BY <1>1, <1>8 DEF ReadGarbled, PlayerTypeOK
  <2>3. QED BY <1>2, <2>1, <2>2 DEF PlayerInv
<1>9. QED BY <1>5, <1>6, <1>7, <1>8 DEF PlayerNext

LEMMA PlayerStart == ASSUME PlayerInit PROVE PlayerInv
<1>1. /\ pos = 0 /\ saved = 0 /\ decoded = 0 /\ hand = <<>> /\ next = "header" /\ head = 0
      /\ phase = "skip" /\ played = <<>> /\ hand \in Seq(Part) /\ played \in Seq(Chunk)
  BY EmptySeq DEF PlayerInit
<1>2. MaxChunks \in Nat
  BY ChunkAssumption
<1>3. PlayerTypeOK
  BY <1>1, <1>2 DEF PlayerTypeOK
<1>4. Len(played) = 0 /\ Len(Watched) >= 0
  BY <1>1
<1>5. QED BY <1>1, <1>3, <1>4 DEF PlayerInv
----------------------------------------------------------------------------
(* The theorems *)

\* What the recorder keeps true it keeps true while it is watched.
LEMMA Alone == Spec => RecorderSpec
<1>1. [Next]_vars => [RecorderNext]_recorderVars
  BY DEF Next, vars
<1>2. QED BY <1>1, PTL DEF Spec, Init, RecorderSpec

\* The invariant of recorder, file and player together.
THEOREM WatchedInductive == Spec => [](RecorderInv /\ FileInv /\ PlayerInv)
<1>1. Init => FileInv
  BY FileInit DEF Init
<1>2. Init => PlayerInv
  BY PlayerStart DEF Init
<1>3. RecorderInv /\ FileInv /\ [Next]_vars => FileInv'
  <2>1. [Next]_vars => [RecorderNext]_recorderVars
    BY DEF Next, vars
  <2>2. QED BY <2>1, FileStep
<1>4. RecorderInv /\ FileInv /\ PlayerInv /\ [Next]_vars => PlayerInv'
  <2>1. [Next]_vars => \/ [RecorderNext]_recorderVars /\ UNCHANGED playerVars
                       \/ PlayerNext /\ UNCHANGED recorderVars
    BY DEF Next, vars
  <2>2. QED BY <2>1, PlayerWaits, PlayerStep
<1>5. QED BY <1>1, <1>2, <1>3, <1>4, Alone, Inductive, PTL DEF Spec

\* Recorder and player keep their types, in both modes (dooutput, ttyread, ttypread).
THEOREM RecordingTypeCorrect == Spec => []TypeOK
<1>1. RecorderInv /\ PlayerInv => TypeOK
  BY DEF RecorderInv, PlayerInv, TypeOK
<1>2. QED BY <1>1, WatchedInductive, PTL

\* Who watches an uncompressed file has seen the records it begins with, and is never
\* out of step, however the reads fall between the writes, and even when the session is
\* killed or its file rotated in the middle of a record (ttyread, ttypread, ttyskipall).
THEOREM AlwaysPlaysWhatWasRecorded == Spec => []PlaysWhatWasRecorded
<1>1. RecorderInv /\ FileInv /\ PlayerInv => PlaysWhatWasRecorded
  <2>1. SUFFICES ASSUME RecorderInv, FileInv, PlayerInv, mode = "none"
                 PROVE  next # "lost" /\ IsPrefix(RecordsOf(played), Parts(PeekedFile))
    BY DEF PlaysWhatWasRecorded
  <2>2. /\ Watched \in Seq(Seq(Part)) /\ Len(Watched) \in Nat /\ wanted \in Seq(Chunk)
        /\ played \in Seq(Chunk)
    BY <2>1, WatchedType DEF PlayerInv, PlayerTypeOK
  <2>3. PICK e, s, t : e = RecordsOf(wanted) /\ s = RecordsOf(played) /\ t = FlattenSeq(Watched)
    OBVIOUS
  <2>4. PICK k \in Nat, w \in Nat, n \in Nat : k = Len(played) /\ w = Len(Watched) /\ n = Len(wanted)
    BY <2>2
  <2>5. \A i \in 1..w : Watched[i] = <<e[i]>>
    BY <2>1, <2>3, <2>4 DEF FileInv
  <2>6. t \in Seq(Part) /\ Len(t) = w /\ \A i \in 1..w : t[i] = e[i]
    BY <2>2, <2>3, <2>4, <2>5, FlattenSingles
  <2>7. s \in Seq(Part) /\ Len(s) = 2 * k
    BY <2>2, <2>3, <2>4, RecordsType
  <2>8. /\ pos \in Nat /\ pos =< w /\ next \in {"header", "data"} /\ w =< 2 * n
        /\ pos = 2 * k + (IF next = "header" THEN 0 ELSE 1)
        /\ \A i \in 1..k : played[i] = wanted[i]
    BY <2>1, <2>4 DEF PlayerInv, PlayerTypeOK, FileInv
  <2>9. 2 * k =< w /\ k =< n
    BY <2>8
  <2>10. ASSUME NEW i \in 1..(2 * k) PROVE s[i] = t[i]
    <3>1. PICK j \in 1..k : i = 2 * j - 1 \/ i = 2 * j
      <4>1. (i + 1) \div 2 \in 1..k /\ (i = 2 * ((i + 1) \div 2) - 1 \/ i = 2 * ((i + 1) \div 2))
        OBVIOUS
      <4>2. QED BY <4>1
    <3>2. j \in 1..n /\ i \in 1..w
      BY <2>9
    <3>3. /\ s[2 * j - 1] = Header(played[j]) /\ s[2 * j] = Data(played[j])
          /\ e[2 * j - 1] = Header(wanted[j]) /\ e[2 * j] = Data(wanted[j])
      BY <2>2, <2>3, <2>4, <3>2, RecordsAt
    <3>4. played[j] = wanted[j]
      BY <2>8
    <3>5. QED BY <2>6, <3>1, <3>2, <3>3, <3>4
  <2>11. IsPrefix(s, t)
    BY <2>6, <2>7, <2>9, <2>10, PrefixIs
  <2>12. QED BY <2>3, <2>8, <2>11 DEF Parts, Watched
<1>2. QED BY <1>1, WatchedInductive, PTL
=============================================================================
