--------------------------- MODULE PlaybackProofs ---------------------------
(***************************************************************************)
(* Proofs about modules RecordHeader and Playback: the header of a record  *)
(* keeps its time, and the waits of the player add up, for every width of  *)
(* the fields, every recording, speed and delay.                           *)
(***************************************************************************)
EXTENDS Playback, SequenceTheorems, TLAPS

LEMMA DivMod ==
    ASSUME NEW n \in Int, NEW d \in Nat \ {0}
    PROVE  /\ n \div d \in Int /\ n % d \in 0..(d - 1)
           /\ n = d * (n \div d) + (n % d)
  OBVIOUS

LEMMA ProductOrder ==
    ASSUME NEW d \in Nat, NEW a \in Int, NEW b \in Int, a =< b
    PROVE  d * a =< d * b
  OBVIOUS

\* Quotient and remainder are the only ones.
LEMMA DivIs ==
    ASSUME NEW d \in Nat \ {0}, NEW q \in Int, NEW r \in 0..(d - 1), NEW n \in Int, n = d * q + r
    PROVE  n \div d = q /\ n % d = r
<1>1. PICK p \in Int : p = n \div d
  BY DivMod
<1>2. PICK s \in 0..(d - 1) : s = n % d
  BY DivMod
<1>3. d * q + r = d * p + s
  BY <1>1, <1>2, DivMod
<1>4. d * (q - p) = s - r
  BY <1>3
<1>5. q - p >= 1 => d * (q - p) >= d
  OBVIOUS
<1>6. q - p =< -1 => d * (q - p) =< -d
  OBVIOUS
<1>7. p = q /\ r = s
  BY <1>4, <1>5, <1>6
<1>8. QED BY <1>1, <1>2, <1>7

LEMMA DivBound ==
    ASSUME NEW d \in Nat \ {0}, NEW h \in Nat \ {0}, NEW n \in 0..(d * h - 1)
    PROVE  n \div d \in 0..(h - 1)
<1>1. PICK q \in Int : q = n \div d
  BY DivMod
<1>2. PICK r \in 0..(d - 1) : r = n % d
  BY DivMod
<1>3. n = d * q + r
  BY <1>1, <1>2, DivMod
<1>4. d * h \in Int /\ d * q \in Int
  OBVIOUS
<1>5. q >= h => d * q >= d * h
  BY ProductOrder
<1>6. q =< -1 => d * q =< d * (-1)
  BY ProductOrder
<1>7. QED BY <1>1, <1>3, <1>4, <1>5, <1>6
----------------------------------------------------------------------------
(* The header of a record *)

Header == [low : 0..(Low - 1), high : 0..(Micro * High - 1)]

LEMMA Widths ==
    /\ Second \in Nat \ {0} /\ Low \in Nat \ {0} /\ Micro \in Nat \ {0} /\ High \in Nat \ {0}
    /\ Second =< Micro
  BY HeaderAssumption

\* A time that a header can hold is read as it was written; and it is written as the
\* original ttyrec does if its seconds fit into the first field (io.c).
LEMMA HeaderKeepsTime ==
    ASSUME NEW tv \in Stamp
    PROVE  /\ ReadHeader(WriteHeader(tv)) = tv
           /\ WriteHeader(tv) \in Header
           /\ tv.sec < Low => WriteHeader(tv) = [low |-> tv.sec, high |-> tv.usec]
<1>. USE Widths
<1>1. tv \in [sec : Int, usec : 0..(Second - 1)] /\ tv.sec \in 0..(Low * High - 1)
  BY DEF Stamp, Timeval
<1>2. PICK s \in 0..(Low * High - 1) : s = tv.sec
  BY <1>1
<1>3. PICK u \in 0..(Second - 1) : u = tv.usec
  BY <1>1
<1>4. tv = [sec |-> s, usec |-> u]
  BY <1>1, <1>2, <1>3
<1>5. PICK q \in 0..(High - 1) : q = s \div Low
  BY DivBound
<1>6. PICK r \in 0..(Low - 1) : r = s % Low
  BY DivMod
<1>7. s = Low * q + r
  BY <1>5, <1>6, DivMod
<1>8. q % High = q
  <2>1. q = High * 0 + q
    OBVIOUS
  <2>2. QED BY <2>1, DivIs
<1>9. PICK w : w = u + Micro * q
  OBVIOUS
<1>10. w = Micro * q + u /\ w \in Int /\ u \in 0..(Micro - 1)
  BY <1>9
<1>11. w \div Micro = q /\ w % Micro = u
  BY <1>10, DivIs
<1>12. WriteHeader(tv) = [low |-> r, high |-> w]
  BY <1>2, <1>3, <1>5, <1>6, <1>8, <1>9 DEF WriteHeader
<1>13. ReadHeader(WriteHeader(tv)) = [sec |-> r + Low * q, usec |-> u]
  BY <1>11, <1>12 DEF ReadHeader
<1>14. w \in 0..(Micro * High - 1)
  <2>1. Micro * q =< Micro * (High - 1)
    BY ProductOrder
  <2>2. Micro * q >= Micro * 0
    BY ProductOrder
  <2>3. Micro * (High - 1) = Micro * High - Micro /\ Micro * q \in Int /\ Micro * High \in Int
    OBVIOUS
  <2>4. QED BY <1>10, <2>1, <2>2, <2>3
<1>15. s < Low => q = 0 /\ r = s
  <2>1. SUFFICES ASSUME s < Low
                 PROVE  q = 0 /\ r = s
    OBVIOUS
  <2>2. s = Low * 0 + s /\ s \in 0..(Low - 1) /\ 0 \in Int
    BY <2>1
  <2>3. s \div Low = 0 /\ s % Low = s
    BY <2>2, DivIs
  <2>4. QED BY <1>5, <1>6, <2>3
<1>16. s < Low => w = u
  BY <1>9, <1>15
<1>17. QED BY <1>2, <1>3, <1>4, <1>7, <1>12, <1>13, <1>14, <1>15, <1>16 DEF Header
----------------------------------------------------------------------------
(* Arithmetic of struct timeval *)

LEMMA ZeroIs == Zero \in Timeval /\ Val(Zero) = 0
BY Widths DEF Zero, Timeval, Val

\* The order of the times is that of their values.
LEMMA ValOrder ==
    ASSUME NEW a \in Timeval
    PROVE  /\ Val(a) \in Int /\ (a.sec < 0 <=> Val(a) < 0) /\ (a = Zero <=> Val(a) = 0)
           /\ Zero \in Timeval /\ Val(Zero) = 0
<1>. USE Widths
<1>1. PICK s \in Int : s = a.sec
  BY DEF Timeval
<1>2. PICK u \in 0..(Second - 1) : u = a.usec
  BY DEF Timeval
<1>3. a = [sec |-> s, usec |-> u]
  BY <1>1, <1>2 DEF Timeval
<1>4. Val(a) = Second * s + u /\ Second * s \in Int
  BY <1>1, <1>2 DEF Val
<1>5. s =< -1 => Second * s =< Second * (-1)
  BY ProductOrder
<1>6. s >= 1 => Second * s >= Second * 1
  BY ProductOrder
<1>7. s = 0 => Second * s = 0
  OBVIOUS
<1>8. Zero \in Timeval /\ Val(Zero) = 0
  BY DEF Zero, Timeval, Val
<1>9. Val(a) < 0 <=> s < 0
  BY <1>4, <1>5, <1>6, <1>7
<1>10. Val(a) = 0 <=> s = 0 /\ u = 0
  BY <1>4, <1>5, <1>6, <1>7
<1>11. a = Zero <=> s = 0 /\ u = 0
  BY <1>3 DEF Zero
<1>12. QED BY <1>1, <1>4, <1>8, <1>9, <1>10, <1>11

LEMMA DiffIsMinus ==
    ASSUME NEW a \in Timeval, NEW b \in Timeval
    PROVE  timeval_diff(a, b) \in Timeval /\ Val(timeval_diff(a, b)) = Val(b) - Val(a)
<1>. USE Widths
<1>1. PICK s \in Int : s = b.sec - a.sec
  BY DEF Timeval
<1>2. PICK u \in (1 - Second)..(Second - 1) : u = b.usec - a.usec
  BY DEF Timeval
<1>3. timeval_diff(a, b) = IF u < 0 THEN [sec |-> s - 1, usec |-> u + Second]
                                    ELSE [sec |-> s, usec |-> u]
  BY <1>1, <1>2 DEF timeval_diff
<1>4. Val(b) - Val(a) = Second * s + u
  BY <1>1, <1>2 DEF Val, Timeval
<1>5. CASE u < 0
  <2>1. timeval_diff(a, b) = [sec |-> s - 1, usec |-> u + Second]
    BY <1>3, <1>5
  <2>2. Second * (s - 1) + (u + Second) = Second * s + u /\ u + Second \in 0..(Second - 1)
    BY <1>5
  <2>3. QED BY <1>4, <2>1, <2>2 DEF Timeval, Val
<1>6. CASE u >= 0
  <2>1. timeval_diff(a, b) = [sec |-> s, usec |-> u]
    BY <1>3, <1>6
  <2>2. QED BY <1>4, <1>6, <2>1 DEF Timeval, Val
<1>7. QED BY <1>5, <1>6

LEMMA NormalIs ==
    ASSUME NEW n \in Int
    PROVE  Normal(n) \in Timeval /\ Val(Normal(n)) = n
  BY Widths, DivMod DEF Normal, Timeval, Val

\* A quotient in whole seconds and the rest, both with the sign of the dividend.
LEMMA QuotientIs ==
    ASSUME NEW n \in Int, NEW d \in Nat \ {0}
    PROVE  /\ Quotient(n, d) \in Int
           /\ n >= 0 => Quotient(n, d) = n \div d /\ n - d * Quotient(n, d) \in 0..(d - 1)
           /\ n < 0 => Quotient(n, d) =< 0 /\ n - d * Quotient(n, d) \in (1 - d)..0
<1>1. CASE n >= 0
  <2>1. Quotient(n, d) = n \div d
    BY <1>1 DEF Quotient
  <2>2. QED BY <1>1, <2>1, DivMod
<1>2. CASE n < 0
  <2>1. PICK m \in Nat : m = -n
    BY <1>2
  <2>2. PICK q \in Int : q = m \div d
    BY DivMod
  <2>3. PICK r \in 0..(d - 1) : r = m % d
    BY DivMod
  <2>4. m = d * q + r
    BY <2>2, <2>3, DivMod
  <2>5. Quotient(n, d) = -q
    BY <1>2, <2>1, <2>2 DEF Quotient
  <2>6. q >= 0
    <3>1. q =< -1 => d * q =< d * (-1)
      BY ProductOrder
    <3>2. d * q \in Int
      OBVIOUS
    <3>3. QED BY <2>4, <3>1, <3>2
  <2>7. n - d * (-q) = -r
    BY <2>1, <2>4
  <2>8. QED BY <1>2, <2>5, <2>6, <2>7
<1>3. QED BY <1>1, <1>2

\* The pause x less the drift, or no wait: also where the difference of a negative pause
\* and the drift is not normal.
LEMMA RestOfPause ==
    ASSUME NEW d \in Timeval, Val(d) >= 0, NEW x \in Int, NEW g,
           g = [sec |-> Quotient(x, Second), usec |-> x - Second * Quotient(x, Second)],
           NEW t, t = IF timeval_diff(d, g).sec < 0 THEN Zero ELSE timeval_diff(d, g)
    PROVE  t \in Timeval /\ Val(t) = IF x < Val(d) THEN 0 ELSE x - Val(d)
<1>. USE Widths
<1>1. PICK q \in Int : q = Quotient(x, Second)
  BY QuotientIs
<1>2. PICK v \in Int : v = Val(d)
  BY ValOrder
<1>3. v >= 0 /\ d.sec >= 0 /\ d.sec \in Int /\ d.usec \in 0..(Second - 1)
  BY <1>2, ValOrder DEF Timeval
<1>4. CASE x >= 0
  <2>1. g \in Timeval /\ Val(g) = x
    BY <1>1, <1>4, QuotientIs DEF Timeval, Val
  <2>2. PICK e \in Timeval : e = timeval_diff(d, g)
    BY <2>1, DiffIsMinus
  <2>3. Val(e) = x - v
    BY <1>2, <2>1, <2>2, DiffIsMinus
  <2>4. e.sec < 0 <=> x - v < 0
    BY <2>3, ValOrder
  <2>5. CASE x < v
    <3>1. t = Zero
      BY <1>4, <2>2, <2>4, <2>5
    <3>2. QED BY <1>2, <2>5, <3>1, ValOrder
  <2>6. CASE ~(x < v)
    <3>1. t = e
      BY <1>4, <2>2, <2>4, <2>6
    <3>2. QED BY <1>2, <2>3, <2>6, <3>1
  <2>7. QED BY <2>5, <2>6
<1>5. CASE x < 0
  <2>1. PICK r \in (1 - Second)..0 : r = x - Second * q
    BY <1>1, <1>5, QuotientIs
  <2>2. q =< 0 /\ x = Second * q + r
    BY <1>1, <1>5, <2>1, QuotientIs
  <2>3. q = 0 => r < 0
    BY <1>5, <2>2
  <2>4. g.sec = q /\ g.usec = r
    BY <1>1, <2>1
  <2>5. timeval_diff(d, g).sec < 0
    <3>1. PICK a \in Int : a = q - d.sec
      BY <1>3
    <3>2. PICK b \in Int : b = r - d.usec
      BY <1>3
    <3>3. timeval_diff(d, g) = IF b < 0 THEN [sec |-> a - 1, usec |-> b + Second]
                                        ELSE [sec |-> a, usec |-> b]
      BY <2>4, <3>1, <3>2 DEF timeval_diff
    <3>4. a =< 0 /\ (a = 0 => b < 0)
      BY <1>3, <2>2, <2>3, <3>1, <3>2
    <3>5. QED BY <3>3, <3>4
  <2>6. t = Zero
    BY <2>5
  <2>7. QED BY <1>2, <1>3, <1>5, <2>6, ValOrder
<1>6. QED BY <1>4, <1>5
----------------------------------------------------------------------------
(* The invariant *)

\* The headers are those of the recording, and the drift is what the waits since the last
\* key took too long, less at most what a skipped pause would have absorbed.
FileIs ==
    /\ times \in Recordings /\ Len(file) = Len(times) /\ file \in Seq(Header)
    /\ \A i \in 1..Len(times) : file[i] = WriteHeader(times[i])
    /\ torn # "nothing" => Len(times) # 0
DriftOK == Val(drift) \in 0..spent /\ late =< Val(drift)
PlayInv == PlaybackTypeOK /\ FileIs /\ DriftOK

LEMMA RecordingTypes ==
    ASSUME FileIs
    PROVE  /\ times \in Seq(Stamp) /\ Len(times) \in Nat
           /\ \A i \in 1..Len(times) : /\ times[i] \in Stamp /\ times[i] \in Timeval
                                       /\ ReadHeader(file[i]) = times[i]
<1>1. PICK t : t = times
  OBVIOUS
<1>2. t \in Seq(Stamp)
  BY <1>1, PlaybackAssumption DEF FileIs
<1>3. Len(t) \in Nat /\ \A i \in 1..Len(t) : t[i] \in Stamp
  BY <1>2
<1>4. \A i \in 1..Len(t) : t[i] \in Timeval /\ ReadHeader(WriteHeader(t[i])) = t[i]
  BY <1>3, HeaderKeepsTime DEF Stamp
<1>5. QED BY <1>1, <1>2, <1>3, <1>4 DEF FileIs

\* A pause of the recording, by the player's speed; the player waits for it less the drift.
LEMMA PauseIs ==
    ASSUME PlayInv, shown \in 1..(Playable - 1)
    PROVE  \E pause \in Int :
               /\ Timeout \in Timeval
               /\ Val(Timeout) = IF pause < Val(drift) THEN 0 ELSE pause - Val(drift)
               /\ DueIn = IF pause < 0 THEN 0 ELSE pause
<1>1. FileIs /\ drift \in Timeval /\ Val(drift) >= 0
  BY DEF PlayInv, PlaybackTypeOK, DriftOK
<1>2. PICK n1 \in Nat \ {0} : n1 = speed[1]
  BY DEF PlayInv, PlaybackTypeOK
<1>3. PICK n2 \in Nat \ {0} : n2 = speed[2]
  BY DEF PlayInv, PlaybackTypeOK
<1>4. shown \in 1..Len(times) /\ shown + 1 \in 1..Len(times)
  BY <1>1, RecordingTypes DEF FileIs, Playable
<1>5. PICK gap \in Timeval : gap = timeval_diff(times[shown], times[shown + 1])
  BY <1>1, <1>4, RecordingTypes, DiffIsMinus
<1>6. Gap = gap
  BY <1>1, <1>4, <1>5, RecordingTypes DEF Gap
<1>7. PICK x \in Int : x = Quotient(Val(gap) * n2, n1)
  <2>1. Val(gap) * n2 \in Int
    BY ValOrder
  <2>2. QED BY <2>1, QuotientIs
<1>8. PICK g : g = timeval_div(gap, speed)
  OBVIOUS
<1>9. g = [sec |-> Quotient(x, Second), usec |-> x - Second * Quotient(x, Second)]
  BY <1>2, <1>3, <1>7, <1>8 DEF timeval_div
<1>10. PICK d \in Timeval : d = drift
  BY <1>1
<1>11. Timeout = IF timeval_diff(d, g).sec < 0 THEN Zero ELSE timeval_diff(d, g)
  BY <1>6, <1>8, <1>10 DEF Timeout
<1>12. PICK t : t = Timeout
  OBVIOUS
<1>13. t \in Timeval /\ Val(t) = IF x < Val(d) THEN 0 ELSE x - Val(d)
  BY <1>1, <1>9, <1>10, <1>11, <1>12, RestOfPause
<1>14. Val(g) = x
  <2>1. PICK q \in Int : q = Quotient(x, Second)
    BY QuotientIs, Widths
  <2>2. Val(g) = Second * q + (x - Second * q)
    BY <1>9, <2>1 DEF Val
  <2>3. QED BY <2>2, Widths
<1>15. DueIn = IF x < 0 THEN 0 ELSE x
  BY <1>5, <1>8, <1>14 DEF DueIn
<1>16. QED BY <1>10, <1>12, <1>13, <1>15

\* The delay of this wait is added to the drift, or to nothing if the wait was long enough
\* to make up for the drift.
LEMMA NewDriftIs ==
    ASSUME drift \in Timeval, NEW t \in Timeval, NEW delay \in Nat
    PROVE  /\ NewDrift(t, Normal(Val(t) + delay)) \in Timeval
           /\ Val(NewDrift(t, Normal(Val(t) + delay))) =
                  IF Val(t) = 0 THEN Val(drift) + delay ELSE delay
<1>1. PICK v \in Int : v = Val(t)
  BY ValOrder
<1>2. PICK elapsed \in Timeval : elapsed = Normal(v + delay)
  BY NormalIs
<1>3. Val(elapsed) = v + delay
  BY <1>2, NormalIs
<1>4. PICK d \in Timeval : d = drift
  OBVIOUS
<1>5. PICK w \in Int : w = Val(d)
  BY ValOrder
<1>6. CASE t = Zero
  <2>1. v = 0
    BY <1>1, <1>6, ValOrder
  <2>2. PICK e \in Timeval : e = timeval_diff(d, t)
    BY DiffIsMinus
  <2>3. Val(e) = -w
    <3>1. Val(e) = v - w
      BY <1>1, <1>5, <2>2, DiffIsMinus
    <3>2. v - w = -w
      BY <2>1
    <3>3. QED BY <3>1, <3>2, Zenon
  <2>4. NewDrift(t, elapsed) = timeval_diff(e, elapsed)
    BY <1>4, <1>6, <2>2 DEF NewDrift
  <2>5. timeval_diff(e, elapsed) \in Timeval /\ Val(timeval_diff(e, elapsed)) = delay - (-w)
    BY <1>3, <2>1, <2>3, DiffIsMinus
  <2>6. QED BY <1>1, <1>2, <1>4, <1>5, <2>1, <2>4, <2>5
<1>7. CASE t # Zero
  <2>1. v # 0
    BY <1>1, <1>7, ValOrder
  <2>2. NewDrift(t, elapsed) = timeval_diff(t, elapsed)
    BY <1>7 DEF NewDrift
  <2>3. timeval_diff(t, elapsed) \in Timeval /\ Val(timeval_diff(t, elapsed)) = delay
    BY <1>1, <1>3, DiffIsMinus
  <2>4. QED BY <1>1, <1>2, <2>1, <2>2, <2>3
<1>8. QED BY <1>6, <1>7
----------------------------------------------------------------------------
(* The invariant is preserved *)

LEMMA StartOK ==
    ASSUME PlaybackInit
    PROVE  PlayInv
<1>1. PICK t : t = times
  OBVIOUS
<1>2. t \in Seq(Stamp) /\ t \in Recordings
  BY <1>1, PlaybackAssumption DEF PlaybackInit
<1>3. PICK n \in Nat : n = Len(t)
  BY <1>2
<1>4. file = [i \in 1..n |-> WriteHeader(t[i])]
  BY <1>1, <1>3 DEF PlaybackInit
<1>5. \A i \in 1..n : WriteHeader(t[i]) \in Header
  BY <1>2, <1>3, HeaderKeepsTime
<1>6. file \in [1..n -> Header]
  BY <1>4, <1>5
<1>7. file \in Seq(Header) /\ Len(file) = n
  BY <1>6, SeqDef, LenProperties
<1>8. torn \in {"nothing", "data", "header"} /\ (torn # "nothing" => t # <<>>)
  BY <1>1 DEF PlaybackInit
<1>9. t # <<>> => n # 0
  BY <1>2, <1>3, EmptySeq
<1>10. FileIs
  BY <1>1, <1>2, <1>3, <1>4, <1>7, <1>8, <1>9 DEF FileIs
<1>11. drift = Zero /\ timeout = Zero /\ Zero \in Timeval /\ Val(Zero) = 0
  BY ZeroIs DEF PlaybackInit
<1>12. speed \in (Nat \ {0}) \X (Nat \ {0})
  BY PlaybackAssumption DEF PlaybackInit
<1>13. shown \in 0..n /\ keys = 0 /\ late = 0 /\ spent = 0
  BY DEF PlaybackInit
<1>14. PlaybackTypeOK
  BY <1>1, <1>2, <1>7, <1>8, <1>11, <1>12, <1>13 DEF PlaybackTypeOK, Header
<1>15. QED BY <1>10, <1>11, <1>13, <1>14 DEF PlayInv, DriftOK

LEMMA PlayableIs ==
    ASSUME FileIs, torn \in {"nothing", "data", "header"}
    PROVE  Len(file) \in Nat /\ Playable \in 0..Len(file)
<1>1. PICK n \in Nat : n = Len(file)
  BY RecordingTypes DEF FileIs
<1>2. torn # "nothing" => n # 0
  BY <1>1 DEF FileIs
<1>3. Playable = IF torn = "nothing" THEN n ELSE n - 1
  BY <1>1 DEF Playable
<1>4. n \in 0..n /\ (n # 0 => n - 1 \in 0..n)
  OBVIOUS
<1>5. QED BY <1>1, <1>2, <1>3, <1>4

LEMMA FileStays ==
    ASSUME PlayInv, UNCHANGED <<file, torn, times>>
    PROVE  FileIs' /\ file' \in Seq(Header)
  BY DEF PlayInv, FileIs

\* The record is shown, and the rest of the state is of its type.
LEMMA ShowTyped ==
    ASSUME PlayInv, UNCHANGED <<file, torn, times>>, shown' = shown + 1, shown < Playable,
           drift' \in Timeval, timeout' \in Timeval, keys' \in Nat, late' \in Int, spent' \in Nat,
           speed' \in (Nat \ {0}) \X (Nat \ {0})
    PROVE  PlaybackTypeOK'
<1>1. PICK n \in Nat : n = Len(file)
  BY PlayableIs DEF PlayInv, PlaybackTypeOK
<1>2. PICK m \in 0..n : m = Playable
  BY <1>1, PlayableIs DEF PlayInv, PlaybackTypeOK
<1>3. PICK k \in 0..n : k = shown
  BY <1>1 DEF PlayInv, PlaybackTypeOK
<1>4. k + 1 \in 0..n
  BY <1>2, <1>3
<1>5. shown' \in 0..Len(file')
  BY <1>1, <1>3, <1>4
<1>6. times' \in Recordings /\ torn' \in {"nothing", "data", "header"} /\ file' \in Seq(Header)
  BY FileStays DEF PlayInv, PlaybackTypeOK
<1>7. QED BY <1>5, <1>6 DEF PlaybackTypeOK, Header

LEMMA ShowFirstStep ==
    ASSUME PlayInv, ShowFirst
    PROVE  PlayInv'
<1>1. /\ UNCHANGED <<file, torn, times, drift, speed, timeout, keys, late, spent>>
      /\ shown' = shown + 1 /\ shown < Playable
  BY DEF ShowFirst
<1>2. PlaybackTypeOK'
  BY <1>1, ShowTyped DEF PlayInv, PlaybackTypeOK
<1>3. FileIs' /\ DriftOK'
  BY <1>1, FileStays DEF PlayInv, DriftOK
<1>4. QED BY <1>2, <1>3 DEF PlayInv

LEMMA WaitEndsStep ==
    ASSUME PlayInv, NEW delay \in Nat, WaitEnds(delay)
    PROVE  PlayInv'
<1>1. /\ UNCHANGED <<file, torn, speed, keys, times>> /\ shown \in 1..(Playable - 1)
      /\ timeout' = Timeout /\ shown' = shown + 1
      /\ drift' = NewDrift(Timeout, Normal(Val(Timeout) + delay))
      /\ late' = late + Val(Timeout) + delay - DueIn /\ spent' = spent + delay
  BY DEF WaitEnds
<1>2. PICK pause \in Int :
          /\ Timeout \in Timeval
          /\ Val(Timeout) = IF pause < Val(drift) THEN 0 ELSE pause - Val(drift)
          /\ DueIn = IF pause < 0 THEN 0 ELSE pause
  BY <1>1, PauseIs
<1>3. PICK t \in Timeval : t = Timeout
  BY <1>2
<1>4. drift \in Timeval /\ late \in Int /\ spent \in Nat /\ keys \in Nat
  BY DEF PlayInv, PlaybackTypeOK
<1>5. PICK d \in Nat : d = Val(drift)
  BY <1>4, ValOrder DEF PlayInv, DriftOK
<1>6. PICK l \in Int : l = late
  BY <1>4
<1>7. PICK s \in Nat : s = spent
  BY <1>4
<1>8. d =< s /\ l =< d
  BY <1>5, <1>6, <1>7 DEF PlayInv, DriftOK
<1>9. PICK v \in Int : v = Val(t)
  BY ValOrder
<1>10. v = IF pause < d THEN 0 ELSE pause - d
  BY <1>2, <1>3, <1>5, <1>9
<1>11. drift' \in Timeval /\ Val(drift') = IF v = 0 THEN d + delay ELSE delay
  BY <1>1, <1>3, <1>4, <1>5, <1>9, NewDriftIs
<1>12. PICK e \in Int : e = Val(drift')
  BY <1>11, ValOrder
<1>13. /\ spent' = s + delay
       /\ late' = l + v + delay - (IF pause < 0 THEN 0 ELSE pause)
  BY <1>1, <1>2, <1>3, <1>6, <1>7, <1>9
<1>14. spent' \in Nat /\ late' \in Int
  BY <1>13
<1>15. e \in 0..(s + delay)
  BY <1>8, <1>11, <1>12
<1>16. e >= l + v + delay - (IF pause < 0 THEN 0 ELSE pause)
  BY <1>8, <1>10, <1>11, <1>12
<1>17. DriftOK'
  BY <1>12, <1>13, <1>15, <1>16 DEF DriftOK
<1>18. shown < Playable
  BY <1>1, PlayableIs DEF PlayInv, PlaybackTypeOK
<1>19. timeout' \in Timeval /\ speed' \in (Nat \ {0}) \X (Nat \ {0}) /\ keys' \in Nat
  BY <1>1, <1>2, <1>4 DEF PlayInv, PlaybackTypeOK
<1>20. PlaybackTypeOK'
  BY <1>1, <1>11, <1>14, <1>18, <1>19, ShowTyped
<1>21. FileIs'
  BY <1>1, FileStays
<1>22. QED BY <1>17, <1>20, <1>21 DEF PlayInv

LEMMA KeyHitStep ==
    ASSUME PlayInv, NEW key \in {"+", "-", "1", "other"}, KeyHit(key)
    PROVE  PlayInv'
<1>1. /\ UNCHANGED <<file, torn, times>> /\ shown \in 1..(Playable - 1)
      /\ timeout' = Timeout /\ shown' = shown + 1 /\ drift' = Zero
      /\ late' = 0 /\ spent' = 0 /\ keys' = keys + 1 /\ speed' = NewSpeed(key)
  BY DEF KeyHit
<1>2. timeout' \in Timeval
  BY <1>1, PauseIs
<1>3. Zero \in Timeval /\ Val(Zero) = 0
  BY ZeroIs
<1>4. speed' \in (Nat \ {0}) \X (Nat \ {0})
  <2>1. PICK n1 \in Nat \ {0}, n2 \in Nat \ {0} : speed = <<n1, n2>>
    BY DEF PlayInv, PlaybackTypeOK
  <2>2. 2 * n1 \in Nat \ {0} /\ 2 * n2 \in Nat \ {0} /\ 1 \in Nat \ {0}
    OBVIOUS
  <2>3. speed' \in {<<2 * n1, n2>>, <<n1, 2 * n2>>, <<1, 1>>, <<n1, n2>>}
    BY <1>1, <2>1 DEF NewSpeed
  <2>4. QED BY <2>2, <2>3
<1>5. shown < Playable /\ keys' \in Nat
  BY <1>1, PlayableIs DEF PlayInv, PlaybackTypeOK
<1>6. PlaybackTypeOK'
  BY <1>1, <1>2, <1>3, <1>4, <1>5, ShowTyped
<1>7. DriftOK'
  BY <1>1, <1>3 DEF DriftOK
<1>8. QED BY <1>1, <1>6, <1>7, FileStays DEF PlayInv

LEMMA StepKeeps ==
    ASSUME PlayInv, [PlaybackNext]_playbackVars
    PROVE  PlayInv'
<1>1. CASE ShowFirst
  BY <1>1, ShowFirstStep
<1>2. CASE \E delay \in 0..MaxDelay : WaitEnds(delay)
  BY <1>2, WaitEndsStep, PlaybackAssumption
<1>3. CASE \E key \in {"+", "-", "1", "other"} : KeyHit(key)
  BY <1>3, KeyHitStep
<1>4. CASE UNCHANGED playbackVars
  BY <1>4 DEF playbackVars, PlayInv, PlaybackTypeOK, FileIs, DriftOK
<1>5. QED BY <1>1, <1>2, <1>3, <1>4 DEF PlaybackNext
----------------------------------------------------------------------------
(* The theorems *)

\* The invariant behind the others: what the file holds, and between what the drift is.
THEOREM Inductive == PlaybackSpec => []PlayInv
<1>1. PlaybackInit => PlayInv
  BY StartOK
<1>2. PlayInv /\ [PlaybackNext]_playbackVars => PlayInv'
  BY StepKeeps
<1>3. QED BY <1>1, <1>2, PTL DEF PlaybackSpec

\* Headers, times, drift and speed stay within their types: the drift is a normal time.
THEOREM TypeCorrect == PlaybackSpec => []PlaybackTypeOK
<1>1. PlayInv => PlaybackTypeOK
  BY DEF PlayInv
<1>2. QED BY <1>1, Inductive, PTL

\* The file keeps the times, for all widths of the header's fields, and those that 32 bits
\* can hold in the original format (io.c:122, README.md:98).
THEOREM AlwaysFileKeepsTimes == PlaybackSpec => []FileKeepsTimes
<1>1. PlayInv => FileKeepsTimes
  <2>1. SUFFICES ASSUME PlayInv
                 PROVE  FileKeepsTimes
    OBVIOUS
  <2>2. FileIs
    BY <2>1 DEF PlayInv
  <2>3. ASSUME NEW i \in 1..Len(times)
        PROVE  /\ ReadHeader(file[i]) = times[i]
               /\ times[i].sec < Low => file[i] = [low |-> times[i].sec, high |-> times[i].usec]
    <3>1. PICK tv \in Stamp : tv = times[i]
      BY <2>2, <2>3, RecordingTypes
    <3>2. file[i] = WriteHeader(tv)
      BY <2>2, <2>3, <3>1 DEF FileIs
    <3>3. QED BY <3>1, <3>2, HeaderKeepsTime
  <2>4. QED BY <2>2, <2>3 DEF FileKeepsTimes, FileIs
<1>2. QED BY <1>1, Inductive, PTL

\* No wait is negative or longer than the pause of the recording, whatever the drift, the
\* speed and the recorder's clock (ttywait, ttyplay.c:117).
THEOREM NeverWaitsTooLong == PlaybackSpec => WaitsNoLongerThanRecorded
<1>1. ASSUME PlayInv, PlaybackNext, shown' = shown + 1, shown > 0
      PROVE  Val(timeout') \in 0..DueIn
  <2>1. shown \in 1..(Playable - 1) /\ timeout' = Timeout
    BY <1>1 DEF PlaybackNext, ShowFirst, WaitEnds, KeyHit
  <2>2. PICK pause \in Int :
            /\ Timeout \in Timeval
            /\ Val(Timeout) = IF pause < Val(drift) THEN 0 ELSE pause - Val(drift)
            /\ DueIn = IF pause < 0 THEN 0 ELSE pause
    BY <1>1, <2>1, PauseIs
  <2>3. PICK d \in Nat : d = Val(drift)
    BY <1>1, ValOrder DEF PlayInv, PlaybackTypeOK, DriftOK
  <2>4. QED BY <2>1, <2>2, <2>3
<1>2. PlayInv /\ [PlaybackNext]_playbackVars =>
          [shown' = shown + 1 /\ shown > 0 => Val(timeout') \in 0..DueIn]_playbackVars
  BY <1>1
<1>3. QED BY <1>2, Inductive, PTL DEF PlaybackSpec, WaitsNoLongerThanRecorded

\* What the waits have put the playback behind, the drift knows of (ttyplay.c:174).
THEOREM AlwaysDelayIsInDrift == PlaybackSpec => []DelayIsInDrift
<1>1. PlayInv => DelayIsInDrift
  BY DEF PlayInv, DriftOK, DelayIsInDrift
<1>2. QED BY <1>1, Inductive, PTL

\* The drift is never negative, nor more than what the waits have really taken too long,
\* although it is a sum of signed differences (ttywait, ttyplay.c:169 to 180).
THEOREM AlwaysDriftIsDelay == PlaybackSpec => []DriftIsDelay
<1>1. PlayInv => DriftIsDelay
  BY DEF PlayInv, DriftOK, DriftIsDelay
<1>2. QED BY <1>1, Inductive, PTL

\* ttytime's difference of whole seconds is the length of the recording to within a second,
\* also when the last record was cut short (calc_time, ttytime.c:50).
THEOREM AlwaysTtytimeIsLength == PlaybackSpec => []TtytimeIsLength
<1>1. PlayInv => TtytimeIsLength
  <2>1. SUFFICES ASSUME PlayInv
                 PROVE  TtytimeIsLength
    OBVIOUS
  <2>2. FileIs /\ torn \in {"nothing", "data", "header"}
    BY <2>1 DEF PlayInv, PlaybackTypeOK
  <2>3. PICK f \in Seq(Header) : f = file
    BY <2>2 DEF FileIs
  <2>4. PICK n \in Nat : n = Len(f)
    OBVIOUS
  <2>5. n = Len(times) /\ (torn # "nothing" => n # 0)
    BY <2>2, <2>3, <2>4 DEF FileIs
  <2>6. PICK m \in 0..n : m = IF torn = "header" THEN n - 1 ELSE n
    BY <2>2, <2>5
  <2>7. PICK h : h = Headers
    OBVIOUS
  <2>8. h \in Seq(Header) /\ Len(h) = m /\ \A i \in 1..m : h[i] = f[i]
    <3>1. CASE torn # "header"
      BY <2>3, <2>4, <2>6, <2>7, <3>1 DEF Headers
    <3>2. CASE torn = "header"
      <4>1. h = SubSeq(f, 1, n - 1) /\ m = n - 1
        BY <2>3, <2>4, <2>6, <2>7, <3>2 DEF Headers, Front
      <4>2. 1 \in Int /\ m \in Int /\ \A i \in 1..m : f[i] \in Header
        BY <2>4
      <4>3. QED BY <4>1, <4>2, SubSeqProperties
    <3>3. QED BY <3>1, <3>2
  <2>9. CASE m = 0
    <3>1. h = <<>>
      BY <2>8, <2>9, EmptySeq
    <3>2. QED BY <2>5, <2>6, <2>7, <2>9, <3>1 DEF TtytimeIsLength, CalcTime
  <2>10. CASE m # 0
    <3>1. h # <<>>
      <4>1. Len(<<>>) = 0
        BY EmptySeq
      <4>2. QED BY <2>8, <2>10, <4>1
    <3>2. PICK a \in Timeval : a = times[1]
      BY <2>2, <2>5, <2>10, RecordingTypes
    <3>3. PICK b \in Timeval : b = times[m]
      BY <2>2, <2>5, <2>10, RecordingTypes
    <3>4. Head(h) = f[1] /\ Last(h) = f[m]
      BY <2>8, <2>10, <3>1 DEF Last
    <3>5. ReadHeader(f[1]) = a /\ ReadHeader(f[m]) = b
      BY <2>2, <2>3, <2>5, <2>10, <3>2, <3>3, RecordingTypes
    <3>6. CalcTime = b.sec - a.sec
      BY <2>7, <3>1, <3>4, <3>5 DEF CalcTime
    <3>7. /\ a.sec \in Int /\ b.sec \in Int
          /\ a.usec \in 0..(Second - 1) /\ b.usec \in 0..(Second - 1)
      BY DEF Timeval
    <3>8. PICK c \in Int : c = (b.sec - a.sec) * Second
      BY <3>7, Widths
    <3>9. Val(b) - Val(a) = c + (b.usec - a.usec)
      <4>1. PICK sa \in Int, sb \in Int : sa = a.sec /\ sb = b.sec
        BY <3>7
      <4>2. PICK ua \in Int, ub \in Int : ua = a.usec /\ ub = b.usec
        BY <3>7, Widths
      <4>3. Val(a) = Second * sa + ua /\ Val(b) = Second * sb + ub
        BY <4>1, <4>2 DEF Val
      <4>4. c = (sb - sa) * Second
        BY <3>8, <4>1
      <4>5. (Second * sb + ub) - (Second * sa + ua) = (sb - sa) * Second + (ub - ua)
        <5>1. PICK d \in Nat : d = Second
          BY Widths
        <5>2. \A x, y \in Int : (y + ub) - (x + ua) = (y - x) + (ub - ua)
          BY <4>2
        <5>3. d * sa \in Int /\ d * sb \in Int /\ (sb - sa) * d = d * sb - d * sa
          BY <4>1, <5>1
        <5>4. (d * sb + ub) - (d * sa + ua) = (sb - sa) * d + (ub - ua)
          BY <5>2, <5>3
        <5>5. QED BY <5>1, <5>4
      <4>6. QED BY <4>2, <4>3, <4>4, <4>5
    <3>10. PICK length \in Int : length = Val(b) - Val(a)
      BY ValOrder
    <3>11. c \in (length - Second + 1)..(length + Second - 1)
      BY <3>7, <3>9, <3>10, Widths
    <3>12. QED BY <2>5, <2>6, <2>10, <3>2, <3>3, <3>6, <3>8, <3>10, <3>11 DEF TtytimeIsLength
  <2>11. QED BY <2>9, <2>10
<1>2. QED BY <1>1, Inductive, PTL
=============================================================================
