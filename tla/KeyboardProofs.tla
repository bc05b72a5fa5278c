--------------------------- MODULE KeyboardProofs ---------------------------
(***************************************************************************)
(* Proofs about module Keyboard: no key but those of a code acts, and a    *)
(* code does, whatever was typed before its beginning.                     *)
(***************************************************************************)
EXTENDS Keyboard, SequenceTheorems, TLAPS

\* The last n keys typed are the first n of code; and they are all there are.
Ends(code, n) ==
    n =< Len(typed) /\ \A i \in 1..n : typed[Len(typed) - n + i] = code[i]
Reads(code, n) ==
    Len(typed) = n /\ \A i \in 1..n : typed[i] = code[i]

\* How far the lock automaton gets in the first keys of the kill code.
LockSeqInKillCode == <<0, 0, 0, 1, 2, 0, 0, 1>>

\* Both automata count the keys that were typed last.
Counted ==
    /\ Ends(KillCode, killseq) /\ Ends(LockCode, lockseq)
    /\ "kill" \in effect => Ends(KillCode, 8)
    /\ "lock" \in effect => Ends(LockCode, 8)

\* And they miss none of a code that began after a foreign key, or first.
Followed ==
    cheatcodes =>
        /\ \A n \in 0..7 : Reads(KillCode, n) => killseq = n /\ lockseq = LockSeqInKillCode[n + 1]
        /\ \A n \in 0..7 : Reads(LockCode, n) => killseq = 0 /\ lockseq = n

\* Without cheat codes nothing is counted.
Idle == ~cheatcodes => lockseq = 0 /\ killseq = 0 /\ effect = {}

KeyInv == KeyboardTypeOK /\ Len(typed) =< Bound /\ Counted /\ Followed /\ Idle
----------------------------------------------------------------------------
(* Sequences and codes *)

LEMMA CodeKeys ==
    /\ KillCode \in Seq(Key) /\ Len(KillCode) = 8
    /\ KillCode[1] = "^K" /\ KillCode[2] = "^I" /\ KillCode[3] = "^L" /\ KillCode[4] = "^L"
    /\ KillCode[5] = "^K" /\ KillCode[6] = "^I" /\ KillCode[7] = "^L" /\ KillCode[8] = "^L"
    /\ LockCode \in Seq(Key) /\ Len(LockCode) = 8
    /\ \A i \in 1..8 : LockCode[i] = "^L"
<1>1. /\ KillCode \in Seq(Key) /\ Len(KillCode) = 8
      /\ KillCode[1] = "^K" /\ KillCode[2] = "^I" /\ KillCode[3] = "^L" /\ KillCode[4] = "^L"
      /\ KillCode[5] = "^K" /\ KillCode[6] = "^I" /\ KillCode[7] = "^L" /\ KillCode[8] = "^L"
  BY DEF KillCode, Key
<1>2. "^L" \in Key /\ 8 \in Nat
  BY DEF Key
<1>3. LockCode \in [1..8 -> Key]
  BY <1>2 DEF LockCode
<1>4. LockCode \in Seq(Key) /\ DOMAIN LockCode = 1..8
  BY <1>2, <1>3, SeqDef
<1>5. Len(LockCode) = 8
  BY <1>2, <1>4, LenProperties
<1>6. QED BY <1>1, <1>4, <1>5 DEF LockCode

\* A suffix, key by key.
LEMMA SuffixByKey ==
    ASSUME NEW s \in Seq(Key), NEW t \in Seq(Key), Len(s) =< Len(t),
           \A i \in 1..Len(s) : t[Len(t) - Len(s) + i] = s[i]
    PROVE  IsSuffix(s, t)
<1>1. PICK m \in Nat : m = Len(s)
  OBVIOUS
<1>2. PICK n \in Nat : n = Len(t)
  OBVIOUS
<1>3. PICK r : r = Reverse(s)
  OBVIOUS
<1>4. PICK q : q = Reverse(t)
  OBVIOUS
<1>5. r = [i \in 1..m |-> s[(m - i) + 1]] /\ q = [i \in 1..n |-> t[(n - i) + 1]]
  BY <1>1, <1>2, <1>3, <1>4 DEF Reverse
<1>6. r \in [1..m -> Key] /\ q \in [1..n -> Key]
  <2>1. \A i \in 1..m : (m - i) + 1 \in 1..m
    OBVIOUS
  <2>2. \A i \in 1..n : (n - i) + 1 \in 1..n
    OBVIOUS
  <2>3. (\A i \in 1..m : s[i] \in Key) /\ (\A i \in 1..n : t[i] \in Key)
    BY <1>1, <1>2
  <2>4. QED BY <1>5, <2>1, <2>2, <2>3
<1>7. r \in Seq(Key) /\ Len(r) = m /\ q \in Seq(Key) /\ Len(q) = n
  BY <1>6, SeqDef, LenProperties
<1>8. \A i \in 1..m : r[i] = q[i]
  <2>1. TAKE i \in 1..m
  <2>2. /\ (m - i) + 1 \in 1..m /\ n - m + ((m - i) + 1) = (n - i) + 1 /\ i \in 1..n
    BY <1>1, <1>2
  <2>3. t[(n - i) + 1] = s[(m - i) + 1]
    BY <1>1, <1>2, <2>2
  <2>4. QED BY <1>5, <2>2, <2>3
<1>9. SubSeq(r, 1, m) = SubSeq(q, 1, m)
  <2>1. 1 \in Int /\ m \in Int /\ \A i \in 1..m : i \in 1..n /\ r[i] \in Key /\ q[i] \in Key
    BY <1>1, <1>2, <1>6, <1>8
  <2>2. PICK a : a = SubSeq(r, 1, m)
    OBVIOUS
  <2>3. PICK b : b = SubSeq(q, 1, m)
    OBVIOUS
  <2>4. /\ a \in Seq(Key) /\ Len(a) = m /\ \A i \in 1..m : a[i] = r[i]
    BY <1>7, <2>1, <2>2, SubSeqProperties
  <2>5. /\ b \in Seq(Key) /\ Len(b) = m /\ \A i \in 1..m : b[i] = q[i]
    BY <1>7, <2>1, <2>3, SubSeqProperties
  <2>6. a = b
    BY <1>8, <2>4, <2>5, SeqEqual
  <2>7. QED BY <2>2, <2>3, <2>6
<1>10. QED BY <1>1, <1>2, <1>3, <1>4, <1>7, <1>9 DEF IsSuffix, IsPrefix

LEMMA EndsIsSuffix ==
    ASSUME typed \in Seq(Key), NEW code \in Seq(Key), NEW n \in 0..Len(code), Ends(code, n)
    PROVE  IsSuffix(SubSeq(code, 1, n), typed) /\ (n = Len(code) => IsSuffix(code, typed))
<1>1. PICK s : s = SubSeq(code, 1, n)
  OBVIOUS
<1>2. s \in Seq(Key) /\ Len(s) = n /\ \A i \in 1..n : s[i] = code[i]
  <2>1. 1 \in Int /\ n \in Int /\ \A i \in 1..n : code[i] \in Key
    OBVIOUS
  <2>2. QED BY <1>1, <2>1, SubSeqProperties
<1>3. PICK t \in Seq(Key) : t = typed
  OBVIOUS
<1>4. n =< Len(t) /\ \A i \in 1..n : t[Len(t) - n + i] = code[i]
  BY <1>3 DEF Ends
<1>5. IsSuffix(s, t)
  BY <1>2, <1>4, SuffixByKey
<1>6. n = Len(code) => IsSuffix(code, t)
  BY <1>4, SuffixByKey
<1>7. QED BY <1>1, <1>3, <1>5, <1>6
----------------------------------------------------------------------------
(* One key more *)

LEMMA FewKeys ==
    ASSUME typed \in Seq(Key), Len(typed) =< Bound
    PROVE  Len(typed) \in 0..9
<1>1. PICK n \in Nat : n = Len(typed)
  BY LenProperties
<1>2. n =< 9
  BY <1>1 DEF Bound
<1>3. n \in 0..9
  BY <1>2
<1>4. QED BY <1>1, <1>3, Zenon

\* A key that is in a code is the last one remembered, the ones before it as they were.
LEMMA Remembered ==
    ASSUME typed \in Seq(Key), Len(typed) =< Bound, NEW key \in Key, key # Foreign,
           typed' = Remember(key)
    PROVE  /\ typed' \in Seq(Key)
           /\ Len(typed') = IF Len(typed) < Bound THEN Len(typed) + 1 ELSE Bound
           /\ typed'[Len(typed')] = key
           /\ \A k \in 1..(Len(typed') - 1) :
                  typed'[Len(typed') - k] = typed[Len(typed) - k + 1]
<1>1. PICK t : t = typed
  OBVIOUS
<1>2. PICK n \in 0..9 : n = Len(t)
  BY <1>1, FewKeys
<1>3. PICK a : a = Append(t, key)
  OBVIOUS
<1>4. t \in Seq(Key)
  BY <1>1
<1>5. /\ a \in Seq(Key) /\ Len(a) = n + 1 /\ a[n + 1] = key
      /\ \A i \in 1..n : a[i] = t[i]
  BY <1>2, <1>3, <1>4, AppendProperties
<1>6. PICK u : u = typed'
  OBVIOUS
<1>7. u = IF n + 1 > 9 THEN Tail(a) ELSE a
  BY <1>1, <1>3, <1>5, <1>6 DEF Remember, Bound
<1>8. CASE n < 9
  <2>1. u = a
    BY <1>7, <1>8
  <2>2. \A k \in 1..n : (n + 1) - k \in 1..n /\ (n + 1) - k = n - k + 1
    BY <1>8
  <2>3. \A k \in 1..((n + 1) - 1) : a[(n + 1) - k] = t[n - k + 1]
    BY <1>5, <2>2
  <2>4. QED BY <1>1, <1>2, <1>5, <1>6, <1>8, <2>1, <2>3 DEF Bound
<1>9. CASE n = 9
  <2>1. u = Tail(a) /\ Len(a) = 10
    BY <1>5, <1>7, <1>9
  <2>2. a # <<>>
    <3>1. Len(<<>>) = 0
      BY EmptySeq
    <3>2. 10 # 0
      OBVIOUS
    <3>3. QED BY <2>1, <3>1, <3>2, Zenon
  <2>3. u \in Seq(Key) /\ Len(u) = Len(a) - 1 /\ \A i \in 1..Len(u) : u[i] = a[i + 1]
    BY <1>5, <2>1, <2>2, HeadTailProperties
  <2>4. Len(u) = 9
    BY <2>1, <2>3
  <2>5. u[9] = key
    BY <1>5, <1>9, <2>3, <2>4
  <2>6. \A k \in 1..8 : 9 - k \in 1..9 /\ (9 - k) + 1 \in 1..9 /\ (9 - k) + 1 = 9 - k + 1
    OBVIOUS
  <2>7. \A k \in 1..(9 - 1) : u[9 - k] = t[9 - k + 1]
    BY <1>5, <1>9, <2>3, <2>4, <2>6
  <2>8. Len(typed) = 9 /\ Len(typed') = 9 /\ typed'[9] = key /\ typed' \in Seq(Key)
    BY <1>1, <1>2, <1>6, <1>9, <2>3, <2>4, <2>5
  <2>9. QED BY <1>1, <1>6, <2>7, <2>8 DEF Bound
<1>10. QED BY <1>8, <1>9

LEMMA EndsGrow ==
    ASSUME typed \in Seq(Key), Len(typed) =< Bound, NEW key \in Key, key # Foreign,
           typed' = Remember(key),
           NEW code, NEW n \in 0..7, Ends(code, n), code[n + 1] = key
    PROVE  Ends(code, n + 1)'
<1>1. PICK l \in 0..9 : l = Len(typed)
  BY FewKeys
<1>2. PICK m \in 1..9 : m = Len(typed')
  <2>1. Len(typed') = IF l < 9 THEN l + 1 ELSE 9
    BY <1>1, Remembered DEF Bound
  <2>2. QED BY <2>1
<1>3. /\ m = (IF l < 9 THEN l + 1 ELSE 9) /\ typed'[m] = key
      /\ \A k \in 1..(m - 1) : typed'[m - k] = typed[l - k + 1]
  BY <1>1, <1>2, Remembered DEF Bound
<1>4. n =< l /\ \A i \in 1..n : typed[l - n + i] = code[i]
  BY <1>1 DEF Ends
<1>5. n + 1 =< m
  BY <1>3, <1>4
<1>6. ASSUME NEW i \in 1..(n + 1)
      PROVE  typed'[m - (n + 1) + i] = code[i]
  <2>1. CASE i = n + 1
    BY <1>3, <2>1
  <2>2. CASE i # n + 1
    <3>1. PICK k \in 1..(m - 1) : k = n + 1 - i
      BY <1>5, <2>2
    <3>2. /\ i \in 1..n /\ m - (n + 1) + i = m - k /\ l - k + 1 = l - n + i
      BY <2>2, <3>1
    <3>3. QED BY <1>3, <1>4, <3>1, <3>2
  <2>3. QED BY <2>1, <2>2
<1>7. QED BY <1>2, <1>5, <1>6 DEF Ends

\* What was all that was typed, when it still is with one key more.
LEMMA ReadsShrink ==
    ASSUME typed \in Seq(Key), Len(typed) =< Bound, NEW key \in Key, key # Foreign,
           typed' = Remember(key),
           NEW code, NEW n \in 0..8, Reads(code, n)'
    PROVE  n # 0 /\ Reads(code, n - 1) /\ code[n] = key
<1>1. PICK l \in 0..9 : l = Len(typed)
  BY FewKeys
<1>2. /\ n = (IF l < 9 THEN l + 1 ELSE 9) /\ typed'[n] = key
      /\ \A k \in 1..(n - 1) : typed'[n - k] = typed[l - k + 1]
  BY <1>1, Remembered DEF Bound, Reads
<1>3. n = l + 1
  BY <1>2
<1>4. \A i \in 1..n : typed'[i] = code[i]
  BY DEF Reads
<1>5. code[n] = key
  BY <1>2, <1>3, <1>4
<1>6. \A i \in 1..l : typed[i] = code[i]
  <2>1. TAKE i \in 1..l
  <2>2. PICK k \in 1..(n - 1) : k = n - i
    BY <1>3
  <2>3. n - k = i /\ l - k + 1 = i /\ i \in 1..n
    BY <1>3, <2>2
  <2>4. QED BY <1>2, <1>4, <2>2, <2>3
<1>7. QED BY <1>1, <1>3, <1>5, <1>6 DEF Reads
----------------------------------------------------------------------------
(* The invariant is preserved *)

\* The counters after a key that is in a code.
LEMMA CountersMove ==
    ASSUME KeyInv, NEW key \in Key, key # Foreign
    PROVE  /\ LockSeq(key) \in 0..7 /\ KillSeq(key) \in 0..8
           /\ LockSeq(key) # 0 => key = "^L" /\ LockSeq(key) = lockseq + 1
           /\ LocksNow(key) <=> key = "^L" /\ lockseq = 7
           /\ KillSeq(key) # 0 => /\ killseq \in 0..7 /\ KillSeq(key) = killseq + 1
                                  /\ key = KillCode[killseq + 1]
<1>1. lockseq \in 0..7 /\ killseq \in 0..8
  BY DEF KeyInv, KeyboardTypeOK
<1>2. /\ LockSeq(key) \in 0..7
      /\ LockSeq(key) # 0 => key = "^L" /\ LockSeq(key) = lockseq + 1
      /\ LocksNow(key) <=> key = "^L" /\ lockseq = 7
  BY <1>1 DEF LockSeq, LocksNow
<1>3. /\ KillSeq(key) \in 0..8
      /\ KillSeq(key) # 0 => /\ killseq \in 0..7 /\ KillSeq(key) = killseq + 1
                             /\ key = KillCode[killseq + 1]
  BY <1>1, CodeKeys DEF KillSeq
<1>4. QED BY <1>2, <1>3

LEMMA ForeignStep ==
    ASSUME KeyInv, Press(Foreign)
    PROVE  KeyInv' /\ typed' = <<>>
<1>1. Foreign # "^K" /\ Foreign # "^I" /\ Foreign # "^L"
  BY KeyAssumption
<1>2. LockSeq(Foreign) = 0 /\ KillSeq(Foreign) = 0 /\ ~LocksNow(Foreign)
  BY <1>1 DEF LockSeq, KillSeq, LocksNow
<1>3. /\ typed' = <<>> /\ cheatcodes' = cheatcodes /\ effect' = {}
      /\ cheatcodes => lockseq' = 0 /\ killseq' = 0 /\ locked' = FALSE
      /\ ~cheatcodes => UNCHANGED <<lockseq, killseq, locked>>
  BY <1>2 DEF Press, Remember
<1>4. Len(typed') = 0 /\ typed' \in Seq(Key)
  BY <1>3, EmptySeq
<1>5. KeyboardTypeOK
  BY DEF KeyInv
<1>6. KeyboardTypeOK'
  <2>1. lockseq' \in 0..7 /\ killseq' \in 0..8
    BY <1>3, <1>5 DEF KeyboardTypeOK
  <2>2. cheatcodes' \in BOOLEAN /\ locked' \in BOOLEAN
    BY <1>3, <1>5 DEF KeyboardTypeOK
  <2>3. QED BY <1>3, <1>4, <2>1, <2>2 DEF KeyboardTypeOK
<1>7. ~cheatcodes => lockseq = 0 /\ killseq = 0
  BY DEF KeyInv, Idle
<1>8. Counted'
  BY <1>3, <1>4, <1>7 DEF Counted, Ends
<1>9. Followed'
  BY <1>3, <1>4 DEF Followed, Reads, LockSeqInKillCode
<1>10. QED BY <1>3, <1>4, <1>6, <1>7, <1>8, <1>9 DEF KeyInv, Bound, Idle

LEMMA PressTypes ==
    ASSUME KeyInv, NEW key \in Key, key # Foreign, Press(key)
    PROVE  /\ typed \in Seq(Key) /\ Len(typed) =< Bound /\ typed' = Remember(key)
           /\ typed' \in Seq(Key) /\ Len(typed') \in Nat /\ Len(typed') =< Bound
           /\ KeyboardTypeOK'
<1>1. /\ KeyboardTypeOK /\ typed \in Seq(Key) /\ Len(typed) =< Bound
      /\ typed' = Remember(key) /\ cheatcodes' = cheatcodes
  BY DEF KeyInv, KeyboardTypeOK, Press
<1>2. PICK l \in 0..9 : l = Len(typed)
  BY <1>1, FewKeys
<1>3. /\ typed' \in Seq(Key)
      /\ Len(typed') = IF l < 9 THEN l + 1 ELSE 9
  BY <1>1, <1>2, Remembered DEF Bound
<1>4. Len(typed') \in Nat /\ Len(typed') =< 9
  BY <1>3
<1>5. /\ locked \in BOOLEAN /\ lockseq \in 0..7 /\ killseq \in 0..8
      /\ LockSeq(key) \in 0..7 /\ KillSeq(key) \in 0..8 /\ LocksNow(key) \in BOOLEAN
  BY <1>1, CountersMove DEF KeyboardTypeOK, LocksNow
<1>6. lockseq' \in 0..7 /\ killseq' \in 0..8
  BY <1>5 DEF Press
<1>7. locked' \in BOOLEAN
  BY <1>5 DEF Press
<1>8. effect' \subseteq {"lock", "kill"}
  BY DEF Press
<1>9. KeyboardTypeOK'
  BY <1>1, <1>3, <1>6, <1>7, <1>8 DEF KeyboardTypeOK
<1>10. QED BY <1>1, <1>3, <1>4, <1>9 DEF Bound

LEMMA PressCounts ==
    ASSUME KeyInv, NEW key \in Key, key # Foreign, Press(key)
    PROVE  Counted' /\ Idle'
<1>1. /\ typed \in Seq(Key) /\ Len(typed) =< Bound /\ typed' = Remember(key)
      /\ typed' \in Seq(Key) /\ Len(typed') \in Nat
  BY PressTypes
<1>2. Counted /\ Idle /\ lockseq \in 0..7 /\ killseq \in 0..8
  BY DEF KeyInv, KeyboardTypeOK
<1>3. \A code : Ends(code, 0)'
  BY <1>1 DEF Ends
<1>4. CASE ~cheatcodes
  <2>1. lockseq' = 0 /\ killseq' = 0 /\ effect' = {} /\ cheatcodes' = cheatcodes
    BY <1>2, <1>4 DEF Idle, Press
  <2>2. QED BY <1>3, <2>1 DEF Counted, Idle, Ends
<1>5. CASE cheatcodes
  <2>1. /\ lockseq' = LockSeq(key) /\ killseq' = KillSeq(key) /\ cheatcodes' = cheatcodes
        /\ "lock" \in effect' => LocksNow(key)
        /\ "kill" \in effect' => KillSeq(key) >= 8
    BY <1>5 DEF Press
  <2>2. PICK m \in 0..8 : m = killseq'
    BY <2>1, CountersMove
  <2>3. PICK n \in 0..7 : n = lockseq'
    BY <2>1, CountersMove
  <2>4. Ends(KillCode, m)'
    <3>1. CASE m = 0
      BY <1>3, <3>1
    <3>2. CASE m # 0
      <4>1. PICK k \in 0..7 : k = killseq /\ m = k + 1 /\ key = KillCode[k + 1]
        BY <2>1, <2>2, <3>2, CountersMove
      <4>2. Ends(KillCode, k)
        BY <1>2, <4>1 DEF Counted
      <4>3. QED BY <1>1, <4>1, <4>2, EndsGrow
    <3>3. QED BY <3>1, <3>2
  <2>5. ASSUME key = "^L"
        PROVE  \A k \in 0..7 : k = lockseq => Ends(LockCode, k + 1)'
    <3>1. TAKE k \in 0..7
    <3>2. HAVE k = lockseq
    <3>3. Ends(LockCode, k) /\ LockCode[k + 1] = key
      BY <1>2, <2>5, <3>2, CodeKeys DEF Counted
    <3>4. QED BY <1>1, <3>3, EndsGrow
  <2>6. Ends(LockCode, n)'
    <3>1. CASE n = 0
      BY <1>3, <3>1
    <3>2. CASE n # 0
      BY <1>2, <2>1, <2>3, <2>5, <3>2, CountersMove
    <3>3. QED BY <3>1, <3>2
  <2>7. "kill" \in effect' => Ends(KillCode, 8)'
    <3>1. "kill" \in effect' => m = 8
      BY <2>1, <2>2
    <3>2. QED BY <2>4, <3>1
  <2>8. "lock" \in effect' => Ends(LockCode, 8)'
    <3>1. LocksNow(key) => key = "^L" /\ lockseq = 7
      BY CountersMove
    <3>2. 7 \in 0..7 /\ 7 + 1 = 8
      OBVIOUS
    <3>3. QED BY <2>1, <2>5, <3>1, <3>2
  <2>9. Counted'
    BY <2>2, <2>3, <2>4, <2>6, <2>7, <2>8 DEF Counted, Ends
  <2>10. QED BY <1>5, <2>1, <2>9 DEF Idle
<1>6. QED BY <1>4, <1>5

\* The counters when the keys typed are those of a code so far.
LEMMA InKillCode ==
    ASSUME Followed, cheatcodes, NEW n \in 1..8, NEW key, Reads(KillCode, n - 1),
           KillCode[n] = key
    PROVE  /\ KillSeq(key) = n /\ ~LocksNow(key)
           /\ n # 8 => LockSeq(key) = LockSeqInKillCode[n + 1]
<1>1. n - 1 \in 0..7 /\ (n - 1) + 1 = n
  OBVIOUS
<1>2. killseq = n - 1 /\ lockseq = LockSeqInKillCode[n]
  BY <1>1 DEF Followed
<1>3. QED BY <1>2, CodeKeys DEF KillSeq, LocksNow, LockSeq, LockSeqInKillCode

LEMMA InLockCode ==
    ASSUME Followed, cheatcodes, NEW n \in 1..8, NEW key, Reads(LockCode, n - 1),
           LockCode[n] = key
    PROVE  /\ KillSeq(key) = 0 /\ (LocksNow(key) <=> n = 8)
           /\ n # 8 => LockSeq(key) = n
<1>1. n - 1 \in 0..7
  OBVIOUS
<1>2. killseq = 0 /\ lockseq = n - 1 /\ key = "^L"
  BY <1>1, CodeKeys DEF Followed
<1>3. QED BY <1>2 DEF KillSeq, LocksNow, LockSeq

LEMMA PressFollows ==
    ASSUME KeyInv, NEW key \in Key, key # Foreign, Press(key)
    PROVE  Followed'
<1>1. /\ typed \in Seq(Key) /\ Len(typed) =< Bound /\ typed' = Remember(key) /\ Followed
  BY PressTypes DEF KeyInv
<1>2. SUFFICES ASSUME cheatcodes
               PROVE  Followed'
  BY DEF Followed, Press
<1>3. lockseq' = LockSeq(key) /\ killseq' = KillSeq(key)
  BY <1>2 DEF Press
<1>4. ASSUME NEW n \in 0..7, Reads(KillCode, n)'
      PROVE  killseq' = n /\ lockseq' = LockSeqInKillCode[n + 1]
  <2>1. n # 0 /\ Reads(KillCode, n - 1) /\ KillCode[n] = key
    BY <1>1, <1>4, ReadsShrink
  <2>2. QED BY <1>1, <1>2, <1>3, <2>1, InKillCode
<1>5. ASSUME NEW n \in 0..7, Reads(LockCode, n)'
      PROVE  killseq' = 0 /\ lockseq' = n
  <2>1. n # 0 /\ Reads(LockCode, n - 1) /\ LockCode[n] = key
    BY <1>1, <1>5, ReadsShrink
  <2>2. QED BY <1>1, <1>2, <1>3, <2>1, InLockCode
<1>6. QED BY <1>4, <1>5 DEF Followed

LEMMA OtherStep ==
    ASSUME KeyInv, Overlooked \/ OtherwiseLocked \/ UNCHANGED keyboardVars
    PROVE  KeyInv' /\ typed' = typed
<1>1. /\ UNCHANGED <<cheatcodes, lockseq, killseq, typed>>
      /\ effect' = {} \/ effect' = effect
  BY DEF Overlooked, OtherwiseLocked, keyboardVars
<1>2. locked \in BOOLEAN => locked' \in BOOLEAN
  BY DEF Overlooked, OtherwiseLocked, keyboardVars
<1>3. KeyboardTypeOK'
  BY <1>1, <1>2 DEF KeyInv, KeyboardTypeOK
<1>4. Counted' /\ Followed' /\ Idle' /\ Len(typed') =< Bound
  BY <1>1 DEF KeyInv, Counted, Followed, Idle, Ends, Reads
<1>5. QED BY <1>1, <1>3, <1>4 DEF KeyInv

LEMMA StepKeeps ==
    ASSUME KeyInv, [KeyboardNext]_keyboardVars
    PROVE  KeyInv'
<1>1. CASE \E key \in Key : Press(key)
  <2>1. PICK key \in Key : Press(key)
    BY <1>1
  <2>2. CASE key = Foreign
    BY <2>1, <2>2, ForeignStep
  <2>3. CASE key # Foreign
    BY <2>1, <2>3, PressTypes, PressCounts, PressFollows DEF KeyInv
  <2>4. QED BY <2>2, <2>3
<1>2. CASE Overlooked \/ OtherwiseLocked \/ UNCHANGED keyboardVars
  BY <1>2, OtherStep
<1>3. QED BY <1>1, <1>2 DEF KeyboardNext

LEMMA StartKnown ==
    ASSUME KeyboardInit
    PROVE  KeyInv
<1>1. /\ typed \in Seq(Key) /\ Len(typed) = 0
      /\ cheatcodes \in BOOLEAN /\ locked \in BOOLEAN /\ lockseq = 0 /\ killseq = 0 /\ effect = {}
  BY EmptySeq DEF KeyboardInit
<1>2. KeyboardTypeOK
  BY <1>1 DEF KeyboardTypeOK
<1>3. Counted /\ Idle
  BY <1>1 DEF Counted, Idle, Ends
<1>4. Followed
  BY <1>1 DEF Followed, Reads, LockSeqInKillCode
<1>5. QED BY <1>1, <1>2, <1>3, <1>4 DEF KeyInv, Bound
----------------------------------------------------------------------------
(* The theorems *)

\* The invariant behind the others: lockseq and killseq say what the last keys were, and
\* a code in progress is what they say (handle_cheatcodes, ttyrec.c:869 to 893).
THEOREM Inductive == KeyboardSpec => []KeyInv
<1>1. KeyboardInit => KeyInv
  BY StartKnown
<1>2. KeyInv /\ [KeyboardNext]_keyboardVars => KeyInv'
  BY StepKeeps
<1>3. QED BY <1>1, <1>2, PTL DEF KeyboardSpec

\* The counters stay within a code, and the keys are keys.
THEOREM TypeCorrect == KeyboardSpec => []KeyboardTypeOK
<1>1. KeyInv => KeyboardTypeOK
  BY DEF KeyInv
<1>2. QED BY <1>1, Inductive, PTL

\* No session is locked or killed by keys that are not its code, however long the user
\* types (handle_cheatcodes, ttyrec.c:869 to 893).
THEOREM AlwaysCodesAreTyped == KeyboardSpec => []CodesAreTyped
<1>1. KeyInv => CodesAreTyped
  <2>1. SUFFICES ASSUME KeyInv
                 PROVE  CodesAreTyped
    OBVIOUS
  <2>2. Counted /\ typed \in Seq(Key)
    BY <2>1 DEF KeyInv, KeyboardTypeOK
  <2>3. PICK m \in 0..8 : m = killseq
    BY <2>1 DEF KeyInv, KeyboardTypeOK
  <2>4. PICK n \in 0..8 : n = lockseq
    BY <2>1 DEF KeyInv, KeyboardTypeOK
  <2>5. Ends(KillCode, m) /\ Ends(LockCode, n) /\ 8 \in 0..8
    BY <2>2, <2>3, <2>4 DEF Counted
  <2>6. IsSuffix(SubSeq(KillCode, 1, m), typed) /\ IsSuffix(SubSeq(LockCode, 1, n), typed)
    BY <2>2, <2>5, CodeKeys, EndsIsSuffix
  <2>7. "kill" \in effect => IsSuffix(KillCode, typed)
    BY <2>2, <2>5, CodeKeys, EndsIsSuffix DEF Counted
  <2>8. "lock" \in effect => IsSuffix(LockCode, typed)
    BY <2>2, <2>5, CodeKeys, EndsIsSuffix DEF Counted
  <2>9. QED BY <2>3, <2>4, <2>6, <2>7, <2>8 DEF CodesAreTyped
<1>2. QED BY <1>1, Inductive, PTL

\* A code that is typed after a foreign key, or first, acts at its last key, although the
\* two codes overlap and the kill code repeats itself (ttyrec.c:869 to 893).
THEOREM AlwaysCodesWork == KeyboardSpec => CodesWork
<1>1. ASSUME KeyInv, KeyboardNext, cheatcodes, typed' # typed
      PROVE  /\ typed' = KillCode => effect' = {"kill"}
             /\ typed' = LockCode => effect' = {"lock"}
  <2>1. PICK key \in Key : Press(key)
    BY <1>1, OtherStep DEF KeyboardNext
  <2>2. CASE key = Foreign
    <3>1. Len(typed') = 0
      BY <1>1, <2>1, <2>2, ForeignStep, EmptySeq
    <3>2. Len(KillCode) # 0 /\ Len(LockCode) # 0
      BY CodeKeys
    <3>3. QED BY <3>1, <3>2
  <2>3. CASE key # Foreign
    <3>1. /\ typed \in Seq(Key) /\ Len(typed) =< Bound /\ typed' = Remember(key) /\ Followed
      BY <1>1, <2>1, <2>3, PressTypes DEF KeyInv
    <3>2. effect' = (IF LocksNow(key) THEN {"lock"} ELSE {})
                        \cup (IF KillSeq(key) >= 8 THEN {"kill"} ELSE {})
      BY <1>1, <2>1 DEF Press
    <3>3. ASSUME typed' = KillCode
          PROVE  effect' = {"kill"}
      <4>1. Reads(KillCode, 8)'
        BY <3>3, CodeKeys DEF Reads
      <4>2. Reads(KillCode, 8 - 1) /\ KillCode[8] = key
        BY <2>3, <3>1, <4>1, ReadsShrink
      <4>3. KillSeq(key) = 8 /\ ~LocksNow(key)
        BY <1>1, <3>1, <4>2, InKillCode
      <4>4. QED BY <3>2, <4>3
    <3>4. ASSUME typed' = LockCode
          PROVE  effect' = {"lock"}
      <4>1. Reads(LockCode, 8)'
        BY <3>4, CodeKeys DEF Reads
      <4>2. Reads(LockCode, 8 - 1) /\ LockCode[8] = key
        BY <2>3, <3>1, <4>1, ReadsShrink
      <4>3. KillSeq(key) = 0 /\ LocksNow(key)
        BY <1>1, <3>1, <4>2, InLockCode
      <4>4. QED BY <3>2, <4>3
    <3>5. QED BY <3>3, <3>4
  <2>4. QED BY <2>2, <2>3
<1>2. KeyInv /\ [KeyboardNext]_keyboardVars =>
          [cheatcodes /\ typed' # typed =>
              /\ typed' = KillCode => effect' = {"kill"}
              /\ typed' = LockCode => effect' = {"lock"}]_keyboardVars
  BY <1>1
<1>3. QED BY <1>2, Inductive, PTL DEF KeyboardSpec, CodesWork
=============================================================================
