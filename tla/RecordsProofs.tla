--------------------------- MODULE RecordsProofs ----------------------------
(***************************************************************************)
(* Facts about the operators that recordings are made of: flattening, and  *)
(* the sequence of records of a sequence of chunks.  Flattening is defined *)
(* by recursion; what is proved of it rests on induction over the natural  *)
(* numbers, in the form of their least element.                            *)
(***************************************************************************)
EXTENDS Records, WellFoundedInduction, SequenceTheorems, TLAPS

LEMMA LessThan ==
    \E R : IsWellFoundedOn(R, Nat) /\ \A k, m \in Nat : k < m => <<k, m>> \in R
<1> DEFINE R == OpToRel(<, Nat)
<1>1. IsWellFoundedOn(R, Nat)
  BY NatLessThanWellFounded
<1>2. \A k, m \in Nat : k < m => <<k, m>> \in R
  BY DEF OpToRel
<1> HIDE DEF R
<1>3. QED BY <1>1, <1>2

LEMMA Least ==
    ASSUME NEW T \in SUBSET Nat, T # {}
    PROVE  \E m \in T : \A k \in T : m =< k
<1>1. PICK R : IsWellFoundedOn(R, Nat) /\ \A k, m \in Nat : k < m => <<k, m>> \in R
  BY LessThan
<1>2. IsWellFoundedOn(R, Nat) /\ T \subseteq Nat
  BY <1>1
<1>3. \E m \in T : \A k \in T : ~(<<k, m>> \in R)
  BY <1>2, WFMin
<1>4. PICK m \in T : \A k \in T : ~(<<k, m>> \in R)
  BY <1>3
<1>5. \A k \in T : ~(k < m)
  BY <1>1, <1>2, <1>4
<1>6. \A k \in T : m =< k
  BY <1>2, <1>5
<1>7. QED BY <1>6

\* Induction over the natural numbers, for a set instead of a predicate.
LEMMA Induction ==
    ASSUME NEW T, 0 \in T, \A n \in Nat : n \in T => n + 1 \in T
    PROVE  \A n \in Nat : n \in T
<1> SUFFICES ASSUME Nat \ T # {} PROVE FALSE
  OBVIOUS
<1>1. PICK m \in Nat \ T : \A k \in Nat \ T : m =< k
  BY Least
<1>2. m # 0 /\ m - 1 \in Nat /\ m - 1 \in T
  BY <1>1
<1>3. QED BY <1>1, <1>2
----------------------------------------------------------------------------
(* FlattenSeq *)

\* The i-th initial part of seqs, flattened, when f holds the one before.
Upto(f, seqs, i) == IF i = 1 THEN seqs[i] ELSE f[i - 1] \o seqs[i]

\* f holds the flattened initial parts of seqs, up to the n-th.
Flattens(f, seqs, n) == \A i \in 1..n : f[i] = Upto(f, seqs, i)

Agree(s, t, n) == \A i \in 1..n : s[i] = t[i]

LEMMA FlattensExists ==
    ASSUME NEW S, NEW seqs \in Seq(Seq(S)), NEW m \in Nat, m =< Len(seqs)
    PROVE  \E f \in [1..m -> Seq(S)] : Flattens(f, seqs, m)
<1> DEFINE P(n) == n =< Len(seqs) => \E f \in [1..n -> Seq(S)] : Flattens(f, seqs, n)
           T == {n \in Nat : P(n)}
<1>1. P(0)
  <2>1. [i \in 1..0 |-> seqs] \in [1..0 -> Seq(S)]
    OBVIOUS
  <2>2. Flattens([i \in 1..0 |-> seqs], seqs, 0)
    BY DEF Flattens
  <2>3. QED BY <2>1, <2>2
<1>2. ASSUME NEW n \in Nat, P(n), n + 1 =< Len(seqs)
      PROVE  \E f \in [1..(n + 1) -> Seq(S)] : Flattens(f, seqs, n + 1)
  <2>1. PICK f \in [1..n -> Seq(S)] : Flattens(f, seqs, n)
    BY <1>2
  <2>2. seqs[n + 1] \in Seq(S)
    BY <1>2
  <2> DEFINE new == IF n + 1 = 1 THEN seqs[n + 1] ELSE f[n] \o seqs[n + 1]
             g == [i \in 1..(n + 1) |-> IF i = n + 1 THEN new ELSE f[i]]
  <2>3. new \in Seq(S)
    BY <2>2
  <2>4. g \in [1..(n + 1) -> Seq(S)]
    BY <2>3
  <2>5. ASSUME NEW i \in 1..(n + 1) PROVE g[i] = Upto(g, seqs, i)
    <3>1. CASE i = n + 1
      BY <3>1 DEF Upto
    <3>2. CASE i # n + 1
      <4>1. i \in 1..n /\ g[i] = f[i]
        BY <3>2
      <4>2. f[i] = Upto(f, seqs, i)
        BY <2>1, <4>1 DEF Flattens
      <4>3. i # 1 => g[i - 1] = f[i - 1]
        BY <4>1
      <4>4. QED BY <4>1, <4>2, <4>3 DEF Upto
    <3>3. QED BY <3>1, <3>2
  <2>6. Flattens(g, seqs, n + 1)
    BY <2>5 DEF Flattens
  <2>7. QED BY <2>4, <2>6
<1>3. \A n \in Nat : n \in T
  <2>1. 0 \in T
    BY <1>1
  <2>2. ASSUME NEW n \in Nat, n \in T PROVE n + 1 \in T
    <3>1. P(n) /\ n + 1 \in Nat
      BY <2>2
    <3>2. P(n + 1)
      BY <1>2, <3>1
    <3>3. QED BY <3>1, <3>2
  <2> HIDE DEF T
  <2>3. QED BY <2>1, <2>2, Induction
<1>4. QED BY <1>3

\* Sequences that agree up to n have the same flattened initial parts up to n.
LEMMA FlattensUnique ==
    ASSUME NEW s, NEW t, NEW f, NEW g, NEW n \in Nat,
           Agree(s, t, n), Flattens(f, s, n), Flattens(g, t, n)
    PROVE  \A i \in 1..n : f[i] = g[i]
<1> DEFINE T == {k \in Nat : k \in 1..n => f[k] = g[k]}
<1>1. 0 \in T
  OBVIOUS
<1>2. ASSUME NEW k \in Nat, k \in T, k + 1 \in 1..n PROVE f[k + 1] = g[k + 1]
  <2>1. f[k + 1] = Upto(f, s, k + 1) /\ g[k + 1] = Upto(g, t, k + 1)
    BY <1>2 DEF Flattens
  <2>2. k + 1 # 1 => f[k] = g[k]
    BY <1>2
  <2>3. (k + 1) - 1 = k
    BY <1>2
  <2>4. QED BY <1>2, <2>1, <2>2, <2>3 DEF Upto, Agree
<1>3. \A k \in Nat : k \in T
  <2>1. \A k \in Nat : k \in T => k + 1 \in T
    BY <1>2
  <2> HIDE DEF T
  <2>2. QED BY <1>1, <2>1, Induction
<1>4. QED BY <1>3

LEMMA FlattenIs ==
    ASSUME NEW S, NEW seqs \in Seq(Seq(S)), NEW n \in Nat \ {0}, n = Len(seqs)
    PROVE  \E f : /\ f \in [1..n -> Seq(S)]
                  /\ Flattens(f, seqs, n) /\ FlattenSeq(seqs) = f[n]
<1> DEFINE E(f) == f = [i \in 1..n |-> Upto(f, seqs, i)]
           h == CHOOSE f : E(f)
<1>1. PICK f \in [1..n -> Seq(S)] : Flattens(f, seqs, n)
  BY FlattensExists
<1>2. E(f)
  BY <1>1 DEF Flattens
<1>3. FlattenSeq(seqs) = h[n]
  BY DEF FlattenSeq, Upto
<1>4. E(h)
  BY <1>2
<1>5. Flattens(h, seqs, n)
  <2> HIDE DEF h
  <2>1. QED BY <1>4 DEF Flattens
<1> HIDE DEF h
<1>6. n \in 1..n /\ n \in Nat /\ Agree(seqs, seqs, n)
  BY DEF Agree
<1>7. \A i \in 1..n : h[i] = f[i]
  BY <1>1, <1>5, <1>6, FlattensUnique
<1>8. QED BY <1>1, <1>3, <1>6, <1>7

LEMMA FlattenEmpty == FlattenSeq(<<>>) = <<>>
  BY DEF FlattenSeq

LEMMA FrontLast ==
    ASSUME NEW S, NEW s \in Seq(S), s # <<>>
    PROVE  /\ Len(s) \in Nat \ {0} /\ Last(s) \in S /\ Last(s) = s[Len(s)]
           /\ Front(s) \in Seq(S) /\ Len(Front(s)) = Len(s) - 1
           /\ \A i \in 1..(Len(s) - 1) : Front(s)[i] = s[i]
<1>1. PICK n \in Nat \ {0} : n = Len(s)
  BY EmptySeq
<1>2. Last(s) \in S /\ Last(s) = s[n]
  BY <1>1 DEF Last
<1>3. 1 \in Int /\ n - 1 \in Int /\ \A i \in 1..(n - 1) : s[i] \in S
  BY <1>1
<1>4. /\ SubSeq(s, 1, n - 1) \in Seq(S)
      /\ Len(SubSeq(s, 1, n - 1)) = IF 1 =< n - 1 THEN n - 1 - 1 + 1 ELSE 0
      /\ \A i \in 1..(n - 1 - 1 + 1) : SubSeq(s, 1, n - 1)[i] = s[1 + i - 1]
  BY <1>3, SubSeqProperties
<1>5. /\ n - 1 = IF 1 =< n - 1 THEN n - 1 - 1 + 1 ELSE 0
      /\ \A i \in 1..(n - 1) : i \in 1..(n - 1 - 1 + 1) /\ 1 + i - 1 = i
  OBVIOUS
<1>6. QED BY <1>1, <1>2, <1>4, <1>5 DEF Front

\* Flattening adds the last sequence to what the others are flattened to.
LEMMA FlattenLast ==
    ASSUME NEW S, NEW seqs \in Seq(Seq(S)), seqs # <<>>
    PROVE  /\ FlattenSeq(seqs) = FlattenSeq(Front(seqs)) \o Last(seqs)
           /\ FlattenSeq(seqs) \in Seq(S)
<1>0. PICK n \in Nat \ {0} : n = Len(seqs)
  BY FrontLast
<1>1. Last(seqs) = seqs[n] /\ Last(seqs) \in Seq(S)
  BY <1>0, FrontLast
<1>2. /\ Front(seqs) \in Seq(Seq(S)) /\ n - 1 = Len(Front(seqs))
      /\ \A i \in 1..(n - 1) : Front(seqs)[i] = seqs[i]
  BY <1>0, FrontLast
<1>3. PICK f : /\ f \in [1..n -> Seq(S)]
               /\ Flattens(f, seqs, n) /\ FlattenSeq(seqs) = f[n]
  BY <1>0, FlattenIs
<1>4. f[n] = IF n = 1 THEN seqs[n] ELSE f[n - 1] \o seqs[n]
  <2>1. n \in 1..n
    OBVIOUS
  <2>2. f[n] = Upto(f, seqs, n)
    BY <1>3, <2>1 DEF Flattens
  <2>3. QED BY <2>2 DEF Upto
<1>5. CASE n = 1
  <2>1. Front(seqs) = <<>>
    BY <1>2, <1>5, EmptySeq
  <2>2. FlattenSeq(Front(seqs)) = <<>>
    BY <2>1, FlattenEmpty
  <2>3. QED BY <1>1, <1>3, <1>4, <1>5, <2>2
<1>6. CASE n # 1
  <2>1. PICK k \in Nat \ {0} : k = n - 1
    BY <1>6
  <2>2. PICK g : /\ g \in [1..k -> Seq(S)]
                 /\ Flattens(g, Front(seqs), k) /\ FlattenSeq(Front(seqs)) = g[k]
    BY <1>2, <2>1, FlattenIs
  <2>3. Flattens(g, Front(seqs), k) /\ Flattens(f, seqs, k) /\ k \in Nat
        /\ Agree(Front(seqs), seqs, k)
    BY <1>2, <1>3, <2>1, <2>2 DEF Flattens, Agree
  <2>4. \A i \in 1..k : g[i] = f[i]
    BY <2>3, FlattensUnique
  <2>5. g[k] = f[n - 1] /\ f[n] \in Seq(S)
    BY <1>3, <2>1, <2>4
  <2>6. QED BY <1>1, <1>3, <1>4, <1>6, <2>2, <2>5
<1>7. QED BY <1>5, <1>6

LEMMA FlattenType ==
    ASSUME NEW S, NEW seqs \in Seq(Seq(S))
    PROVE  FlattenSeq(seqs) \in Seq(S)
<1>1. CASE seqs = <<>>
  BY <1>1, FlattenEmpty, EmptySeq
<1>2. CASE seqs # <<>>
  BY <1>2, FlattenLast
<1>3. QED BY <1>1, <1>2

LEMMA AppendFront ==
    ASSUME NEW S, NEW seqs \in Seq(S), NEW s \in S
    PROVE  /\ Append(seqs, s) \in Seq(S) /\ Append(seqs, s) # <<>>
           /\ Front(Append(seqs, s)) = seqs /\ Last(Append(seqs, s)) = s
<1>1. PICK t : t = Append(seqs, s)
  OBVIOUS
<1>2. /\ t \in Seq(S) /\ t # <<>> /\ Len(t) = Len(seqs) + 1
      /\ \A i \in 1..Len(seqs) : t[i] = seqs[i]
      /\ t[Len(seqs) + 1] = s
  BY <1>1, AppendProperties
<1>3. Len(seqs) \in Nat
  OBVIOUS
<1>4. Front(t) \in Seq(S) /\ Len(Front(t)) = Len(seqs) /\ Last(t) = s
  BY <1>2, <1>3, FrontLast
<1>5. \A i \in 1..Len(seqs) : Front(t)[i] = seqs[i]
  BY <1>2, <1>3, FrontLast
<1>6. Front(t) = seqs
  BY <1>4, <1>5, SeqEqual
<1>7. QED BY <1>1, <1>2, <1>4, <1>6

LEMMA FlattenAppend ==
    ASSUME NEW S, NEW seqs \in Seq(Seq(S)), NEW s \in Seq(S)
    PROVE  FlattenSeq(Append(seqs, s)) = FlattenSeq(seqs) \o s
<1>1. PICK t : t = Append(seqs, s)
  OBVIOUS
<1>2. t \in Seq(Seq(S)) /\ t # <<>> /\ Front(t) = seqs /\ Last(t) = s
  BY <1>1, AppendFront
<1>3. FlattenSeq(t) = FlattenSeq(Front(t)) \o Last(t)
  BY <1>2, FlattenLast
<1>4. QED BY <1>1, <1>2, <1>3

LEMMA FlattenReplaceLast ==
    ASSUME NEW S, NEW seqs \in Seq(Seq(S)), seqs # <<>>, NEW s \in Seq(S)
    PROVE  FlattenSeq([seqs EXCEPT ![Len(seqs)] = s]) = FlattenSeq(Front(seqs)) \o s
<1>1. PICK n \in Nat \ {0} : n = Len(seqs)
  BY FrontLast
<1>2. PICK t : t = [seqs EXCEPT ![n] = s]
  OBVIOUS
<1>3. /\ t \in Seq(Seq(S)) /\ Len(t) = n /\ t # <<>> /\ t[n] = s
      /\ \A i \in 1..(n - 1) : t[i] = seqs[i]
  <2>1. n \in 1..Len(seqs) /\ n \in 1..n
    BY <1>1
  <2>2. /\ t \in Seq(Seq(S)) /\ Len(t) = n
        /\ \A j \in 1..n : t[j] = IF j = n THEN s ELSE seqs[j]
    BY <1>1, <1>2, <2>1, ExceptSeq
  <2>3. t[n] = s /\ \A i \in 1..(n - 1) : t[i] = seqs[i]
    BY <2>1, <2>2
  <2>4. t # <<>>
    BY <1>1, <2>2, EmptySeq
  <2>5. QED BY <2>2, <2>3, <2>4
<1>4. /\ Front(t) \in Seq(Seq(S)) /\ Len(Front(t)) = n - 1 /\ Last(t) = s
      /\ \A i \in 1..(n - 1) : Front(t)[i] = seqs[i]
  BY <1>3, FrontLast
<1>5. /\ Front(seqs) \in Seq(Seq(S)) /\ Len(Front(seqs)) = n - 1
      /\ \A i \in 1..(n - 1) : Front(seqs)[i] = seqs[i]
  BY <1>1, FrontLast
<1>6. Front(t) = Front(seqs)
  BY <1>4, <1>5, SeqEqual
<1>7. FlattenSeq(t) = FlattenSeq(Front(t)) \o Last(t)
  BY <1>3, FlattenLast
<1>8. QED BY <1>1, <1>2, <1>4, <1>6, <1>7
----------------------------------------------------------------------------
(* RecordsOf *)

LEMMA PartTypes == \A id \in Chunk : Header(id) \in Part /\ Data(id) \in Part
  BY DEF Part, Header, Data

LEMMA PartsAssociative == \A s, t, u \in Seq(Part) : (s \o t) \o u = s \o (t \o u)
  BY ConcatAssociative

LEMMA PartsCancel == \A s, t, u \in Seq(Part) : s \o t = s \o u => t = u
<1> SUFFICES ASSUME NEW s \in Seq(Part), NEW t \in Seq(Part), NEW u \in Seq(Part),
                    s \o t = s \o u
             PROVE  t = u
  OBVIOUS
<1>1. /\ Len(s \o t) = Len(s) + Len(t) /\ Len(s \o u) = Len(s) + Len(u)
      /\ \A i \in 1..(Len(s) + Len(t)) :
            (s \o t)[i] = IF i =< Len(s) THEN s[i] ELSE t[i - Len(s)]
      /\ \A i \in 1..(Len(s) + Len(u)) :
            (s \o u)[i] = IF i =< Len(s) THEN s[i] ELSE u[i - Len(s)]
  BY ConcatProperties
<1>2. PICK n \in Nat, k \in Nat : n = Len(s) /\ k = Len(t) /\ k = Len(u)
  BY <1>1
<1>3. ASSUME NEW i \in 1..k PROVE t[i] = u[i]
  <2>1. n + i \in 1..(n + k) /\ ~(n + i =< n) /\ (n + i) - n = i
    BY <1>2
  <2>2. (s \o t)[n + i] = t[i] /\ (s \o u)[n + i] = u[i]
    BY <1>1, <1>2, <2>1
  <2>3. QED BY <2>2
<1>4. QED BY <1>2, <1>3, SeqEqual

LEMMA RecordsType ==
    ASSUME NEW ids \in Seq(Chunk)
    PROVE  RecordsOf(ids) \in Seq(Part) /\ Len(RecordsOf(ids)) = 2 * Len(ids)
<1>1. PICK n \in Nat : n = Len(ids)
  OBVIOUS
<1> DEFINE e(i) == IF i % 2 = 1 THEN Header(ids[(i + 1) \div 2]) ELSE Data(ids[i \div 2])
<1>2. ASSUME NEW i \in 1..(2 * n) PROVE e(i) \in Part
  <2>1. CASE i % 2 = 1
    <3>1. (i + 1) \div 2 \in 1..n
      BY <2>1
    <3>2. QED BY <1>1, <2>1, <3>1, PartTypes
  <2>2. CASE i % 2 # 1
    <3>1. i \div 2 \in 1..n
      BY <2>2
    <3>2. QED BY <1>1, <2>2, <3>1, PartTypes
  <2>3. QED BY <2>1, <2>2
<1>3. RecordsOf(ids) = [i \in 1..(2 * n) |-> e(i)]
  BY <1>1 DEF RecordsOf
<1>4. 2 * n \in Nat
  OBVIOUS
<1> HIDE DEF e
<1>5. [i \in 1..(2 * n) |-> e(i)] \in Seq(Part) /\ Len([i \in 1..(2 * n) |-> e(i)]) = 2 * n
  BY <1>2, <1>4
<1>6. QED BY <1>1, <1>3, <1>5

\* A chunk adds its header and its data to the records.
LEMMA RecordsAppend ==
    ASSUME NEW ids \in Seq(Chunk), NEW id \in Chunk
    PROVE  RecordsOf(Append(ids, id)) = RecordsOf(ids) \o <<Header(id), Data(id)>>
<1>1. PICK n \in Nat : n = Len(ids)
  OBVIOUS
<1>2. PICK all : all = Append(ids, id)
  OBVIOUS
<1>3. /\ all \in Seq(Chunk) /\ Len(all) = n + 1 /\ all[n + 1] = id
      /\ \A i \in 1..n : all[i] = ids[i]
  BY <1>1, <1>2, AppendProperties
<1> DEFINE r == RecordsOf(all)
           s == RecordsOf(ids)
           u == <<Header(id), Data(id)>>
<1>4. r \in Seq(Part) /\ Len(r) = 2 * n + 2
  BY <1>3, RecordsType
<1>5. s \in Seq(Part) /\ Len(s) = 2 * n
  BY <1>1, RecordsType
<1>6. u \in Seq(Part) /\ Len(u) = 2 /\ u[1] = Header(id) /\ u[2] = Data(id)
  BY PartTypes
<1>7. /\ s \o u \in Seq(Part) /\ Len(s \o u) = 2 * n + 2
      /\ \A i \in 1..(2 * n + 2) : (s \o u)[i] = IF i =< 2 * n THEN s[i] ELSE u[i - 2 * n]
  <2>1. /\ s \o u \in Seq(Part) /\ Len(s \o u) = Len(s) + Len(u)
        /\ \A i \in 1..(Len(s) + Len(u)) :
              (s \o u)[i] = IF i =< Len(s) THEN s[i] ELSE u[i - Len(s)]
    BY <1>5, <1>6, ConcatProperties
  <2> HIDE DEF s, u
  <2>2. QED BY <1>5, <1>6, <2>1
<1>8. ASSUME NEW i \in 1..(2 * n + 2) PROVE r[i] = (s \o u)[i]
  <2>1. r[i] = IF i % 2 = 1 THEN Header(all[(i + 1) \div 2]) ELSE Data(all[i \div 2])
    <3>1. 2 * Len(all) = 2 * n + 2
      BY <1>3
    <3>2. QED BY <3>1 DEF RecordsOf
  <2>2. i =< 2 * n =>
          s[i] = IF i % 2 = 1 THEN Header(ids[(i + 1) \div 2]) ELSE Data(ids[i \div 2])
    <3>1. 2 * Len(ids) = 2 * n
      BY <1>1
    <3>2. QED BY <3>1 DEF RecordsOf
  <2> HIDE DEF r, s, u
  <2>3. CASE i =< 2 * n
    <3>1. CASE i % 2 = 1
      <4>1. (i + 1) \div 2 \in 1..n
        BY <2>3, <3>1
      <4>2. QED BY <1>3, <1>7, <2>1, <2>2, <2>3, <3>1, <4>1
    <3>2. CASE i % 2 # 1
      <4>1. i \div 2 \in 1..n
        BY <2>3, <3>2
      <4>2. QED BY <1>3, <1>7, <2>1, <2>2, <2>3, <3>2, <4>1
    <3>3. QED BY <3>1, <3>2
  <2>4. CASE i = 2 * n + 1
    <3>1. i % 2 = 1 /\ (i + 1) \div 2 = n + 1 /\ ~(i =< 2 * n) /\ i - 2 * n = 1
      BY <2>4
    <3>2. QED BY <1>3, <1>6, <1>7, <2>1, <3>1
  <2>5. CASE i = 2 * n + 2
    <3>1. i % 2 # 1 /\ i \div 2 = n + 1 /\ ~(i =< 2 * n) /\ i - 2 * n = 2
      BY <2>5
    <3>2. QED BY <1>3, <1>6, <1>7, <2>1, <3>1
  <2>6. i =< 2 * n \/ i = 2 * n + 1 \/ i = 2 * n + 2
    OBVIOUS
  <2>7. QED BY <2>3, <2>4, <2>5, <2>6
<1> HIDE DEF r, s, u
<1>9. r = s \o u
  BY <1>4, <1>7, <1>8, SeqEqual
<1>10. QED BY <1>2, <1>9 DEF r, s, u
=============================================================================
