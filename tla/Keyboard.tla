------------------------------ MODULE Keyboard ------------------------------
(***************************************************************************)
(* What doinput does with what it reads: while the session is locked it    *)
(* is dropped; otherwise it goes to the program, and when it is a single   *)
(* byte the two automata of handle_cheatcodes look at it.                  *)
(***************************************************************************)
EXTENDS Integers, Sequences, SequencesExt

CONSTANT Foreign     \* a key that is in no code

Key == {"^K", "^I", "^L", Foreign}
KillCode == <<"^K", "^I", "^L", "^L", "^K", "^I", "^L", "^L">>
LockCode == [i \in 1..8 |-> "^L"]

ASSUME KeyAssumption == Foreign \notin {"^K", "^I", "^L"}

VARIABLES
    cheatcodes, \* opt_cheatcodes
    lockseq,    \* lockseq
    killseq,    \* killseq
    locked,     \* locked_since of the parent
    effect      \* what the last key did: subset of {"lock", "kill"}

\* History of the run: read by properties only.
VARIABLES
    typed       \* the keys forwarded one at a time, the last ones since the last foreign key

keyboardVars == <<cheatcodes, lockseq, killseq, locked, effect, typed>>

Bound == 9   \* bound: how many keys are remembered, one more than a code has

\* Mutant of LockSeq: the counter is compared before it is incremented.
LockSeqLate(key) == IF key # "^L" \/ lockseq >= 8 THEN 0 ELSE lockseq + 1

\* The LOCK part: the eighth ^L locks and starts again.
LockSeq(key) == IF key # "^L" \/ lockseq + 1 >= 8 THEN 0 ELSE lockseq + 1

LocksNow(key) == key = "^L" /\ LockSeq(key) = 0

\* Mutant of KillSeq: a key that does not fit leaves the counter.
KillSeqSticky(key) ==
    IF \/ key = "^K" /\ killseq \in {0, 4}
       \/ key = "^I" /\ killseq \in {1, 5}
       \/ key = "^L" /\ killseq \in {2, 3, 6, 7}
    THEN killseq + 1 ELSE killseq

\* Mutant of KillSeq: the second ^K is not expected.
KillSeqOnce(key) ==
    IF \/ key = "^K" /\ killseq = 0
       \/ key = "^I" /\ killseq \in {1, 5}
       \/ key = "^L" /\ killseq \in {2, 3, 6, 7}
    THEN killseq + 1 ELSE 0

\* The KILL part: a key that does not fit starts again, and is not itself counted.
KillSeq(key) ==
    IF \/ key = "^K" /\ killseq \in {0, 4}
       \/ key = "^I" /\ killseq \in {1, 5}
       \/ key = "^L" /\ killseq \in {2, 3, 6, 7}
    THEN killseq + 1 ELSE 0

Remember(key) ==
    IF key = Foreign THEN <<>>
    ELSE LET all == Append(typed, key)
         IN IF Len(all) > Bound THEN Tail(all) ELSE all

\* One byte is read and forwarded, and handle_cheatcodes is called.
Press(key) ==
    /\ ~locked
    /\ typed' = Remember(key)
    /\ IF cheatcodes
       THEN /\ lockseq' = LockSeq(key)
            /\ killseq' = KillSeq(key)
            /\ locked' = LocksNow(key)
            /\ effect' = (IF LocksNow(key) THEN {"lock"} ELSE {})
                            \cup (IF KillSeq(key) >= 8 THEN {"kill"} ELSE {})
       ELSE effect' = {} /\ UNCHANGED <<lockseq, killseq, locked>>
    /\ UNCHANGED cheatcodes

\* Several bytes in one read, or any while the session is locked: not looked at.
Overlooked ==
    /\ effect' = {}
    /\ UNCHANGED <<cheatcodes, lockseq, killseq, locked, typed>>

\* Someone else locks or unlocks: the watcher, an operator.
OtherwiseLocked ==
    /\ locked' = ~locked
    /\ effect' = {}
    /\ UNCHANGED <<cheatcodes, lockseq, killseq, typed>>

KeyboardInit ==
    /\ cheatcodes \in BOOLEAN
    /\ lockseq = 0 /\ killseq = 0
    /\ locked = FALSE /\ effect = {} /\ typed = <<>>

KeyboardNext ==
    \/ \E key \in Key : Press(key)
    \/ Overlooked \/ OtherwiseLocked

KeyboardSpec == KeyboardInit /\ [][KeyboardNext]_keyboardVars
----------------------------------------------------------------------------
(* Properties *)

KeyboardTypeOK ==
    /\ cheatcodes \in BOOLEAN /\ locked \in BOOLEAN
    /\ lockseq \in 0..7 /\ killseq \in 0..8
    /\ effect \subseteq {"lock", "kill"}
    /\ typed \in Seq(Key)

\* No session is killed or locked by keys that are not its code: both automata only
\* count keys that were the last ones typed, whatever came in between unseen.
CodesAreTyped ==
    /\ IsSuffix(SubSeq(KillCode, 1, killseq), typed)
    /\ IsSuffix(SubSeq(LockCode, 1, lockseq), typed)
    /\ "kill" \in effect => IsSuffix(KillCode, typed)
    /\ "lock" \in effect => IsSuffix(LockCode, typed)

\* A code typed after a key that is in none, or first, has its effect at its last key,
\* although the prefix of the kill code is repeated in it and overlaps the lock code.
CodesWork ==
    [][cheatcodes /\ typed' # typed =>
          /\ typed' = KillCode => effect' = {"kill"}
          /\ typed' = LockCode => effect' = {"lock"}]_keyboardVars
=============================================================================
