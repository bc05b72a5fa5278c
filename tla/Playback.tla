------------------------------ MODULE Playback ------------------------------
(***************************************************************************)
(* ttyplay and ttytime on a finished recording: how long the player waits  *)
(* between two records, and the length that ttytime prints.                *)
(*                                                                         *)
(* A wait takes longer than asked: ttyplay takes that delay, the drift,    *)
(* off the next one.  What reading and showing a record take is not        *)
(* measured by ttywait, and left out.                                      *)
(***************************************************************************)
EXTENDS RecordHeader, Sequences, SequencesExt

CONSTANTS
    Recordings, \* the recordings played: sequences of the times of their records
    Speeds,     \* what -s is given: pairs <<n, d>> for n/d
    MaxDelay,   \* bound: by how much a wait may be longer than asked
    MaxKeys     \* bound: how many keys are hit during the playback

ASSUME PlaybackAssumption ==
    /\ \A times \in Recordings : times \in Seq(Stamp)
    /\ Speeds \subseteq (Nat \ {0}) \X (Nat \ {0})
    /\ MaxDelay \in Nat /\ MaxKeys \in Nat

VARIABLES
    file,       \* the headers in the file
    torn,       \* what the last record lacks: "nothing", "data" or "header"
    shown,      \* how many records were shown
    drift,      \* drift
    speed,      \* speed
    timeout,    \* what select was given for the last wait
    keys        \* how many keys were hit

\* History of the run: read by properties only.
VARIABLES
    times,      \* the times at which the records were written
    late,       \* by how much the waits since the last key put the playback behind
    spent       \* by how much all waits since the last key were longer than asked

playbackVars == <<file, torn, shown, drift, speed, timeout, keys, times, late, spent>>
----------------------------------------------------------------------------
(* Arithmetic of struct timeval *)

Zero == [sec |-> 0, usec |-> 0]
Val(tv) == Second * tv.sec + tv.usec

\* Mutant of timeval_diff: nothing is borrowed.
timeval_diff_unborrowed(tv1, tv2) ==
    [sec |-> tv2.sec - tv1.sec, usec |-> tv2.usec - tv1.usec]

timeval_diff(tv1, tv2) ==
    LET sec == tv2.sec - tv1.sec
        usec == tv2.usec - tv1.usec
    IN IF usec < 0 THEN [sec |-> sec - 1, usec |-> usec + Second]
                   ELSE [sec |-> sec, usec |-> usec]

\* The quotient rounded towards 0, as by a cast.
Quotient(n, d) == IF n < 0 THEN -((-n) \div d) ELSE n \div d

\* Both fields have the sign of the result.  The rounding of doubles is left out.
timeval_div(tv, n) ==
    LET x == Quotient(Val(tv) * n[2], n[1])
        sec == Quotient(x, Second)
    IN [sec |-> sec, usec |-> x - Second * sec]
----------------------------------------------------------------------------
(* ttyplay *)

\* ttyread needs the whole record.
Playable == IF torn = "nothing" THEN Len(file) ELSE Len(file) - 1

\* timeval_diff(prev, cur)
Gap == timeval_diff(ReadHeader(file[shown]), ReadHeader(file[shown + 1]))

\* The same, by the times of the recording: how long the record should wait.
DueIn == LET wait == Val(timeval_div(timeval_diff(times[shown], times[shown + 1]), speed))
         IN IF wait < 0 THEN 0 ELSE wait

\* Mutant of Timeout: the drift is taken off without a look at the sign.
TimeoutUnchecked == timeval_diff(drift, timeval_div(Gap, speed))

\* How long ttywait asks select to wait.
Timeout == LET diff == timeval_diff(drift, timeval_div(Gap, speed))
           IN IF diff.sec < 0 THEN Zero ELSE diff

\* Mutant of NewDrift: a record that did not wait leaves only its own delay.
NewDriftForgetful(diff, elapsed) == timeval_diff(diff, elapsed)

\* Mutant of NewDrift: the drift is subtracted the wrong way round.
NewDriftDoubled(diff, elapsed) ==
    timeval_diff(IF diff = Zero THEN timeval_diff(diff, drift) ELSE diff, elapsed)

\* The drift after a wait that took elapsed.
NewDrift(diff, elapsed) ==
    timeval_diff(IF diff = Zero THEN timeval_diff(drift, diff) ELSE diff, elapsed)

Normal(n) == [sec |-> n \div Second, usec |-> n % Second]

\* The first record does not wait.
ShowFirst ==
    /\ shown = 0 /\ Playable > 0
    /\ shown' = 1
    /\ UNCHANGED <<file, torn, drift, speed, timeout, keys, times, late, spent>>

\* The wait comes to its end, delay later.
WaitEnds(delay) ==
    /\ shown \in 1..(Playable - 1)
    /\ timeout' = Timeout
    /\ drift' = NewDrift(Timeout, Normal(Val(Timeout) + delay))
    /\ late' = late + Val(Timeout) + delay - DueIn
    /\ spent' = spent + delay
    /\ shown' = shown + 1
    /\ UNCHANGED <<file, torn, speed, keys, times>>

NewSpeed(key) ==
    CASE key = "+" -> <<2 * speed[1], speed[2]>>
      [] key = "-" -> <<speed[1], 2 * speed[2]>>
      [] key = "1" -> <<1, 1>>
      [] key = "other" -> speed

\* A key, or an answer of the terminal, ends the wait.
KeyHit(key) ==
    /\ keys < MaxKeys
    /\ shown \in 1..(Playable - 1)
    /\ timeout' = Timeout
    /\ drift' = Zero
    /\ speed' = NewSpeed(key)
    /\ late' = 0 /\ spent' = 0
    /\ shown' = shown + 1 /\ keys' = keys + 1
    /\ UNCHANGED <<file, torn, times>>
----------------------------------------------------------------------------
(* ttytime *)

\* Mutant of Headers: a record counts when its data is there.
HeadersOfWhole == SubSeq(file, 1, Playable)

\* The headers that calc_time finds: it seeks over the data, also where there is none.
Headers == IF torn = "header" THEN Front(file) ELSE file

\* calc_time
CalcTime ==
    IF Headers = <<>> THEN 0
    ELSE ReadHeader(Last(Headers)).sec - ReadHeader(Head(Headers)).sec
----------------------------------------------------------------------------
PlaybackInit ==
    /\ times \in Recordings
    /\ file = [i \in 1..Len(times) |-> WriteHeader(times[i])]
    /\ torn \in IF times = <<>> THEN {"nothing"} ELSE {"nothing", "data", "header"}
    /\ shown = 0
    /\ drift = Zero /\ timeout = Zero
    /\ speed \in Speeds
    /\ keys = 0 /\ late = 0 /\ spent = 0

PlaybackNext ==
    \/ ShowFirst
    \/ \E delay \in 0..MaxDelay : WaitEnds(delay)
    \/ \E key \in {"+", "-", "1", "other"} : KeyHit(key)

PlaybackSpec == PlaybackInit /\ [][PlaybackNext]_playbackVars
----------------------------------------------------------------------------
(* Properties *)

PlaybackTypeOK ==
    /\ times \in Recordings
    /\ file \in Seq([low : 0..(Low - 1), high : 0..(Micro * High - 1)])
    /\ torn \in {"nothing", "data", "header"}
    /\ shown \in 0..Len(file)
    /\ drift \in Timeval /\ timeout \in Timeval
    /\ speed \in (Nat \ {0}) \X (Nat \ {0})
    /\ keys \in Nat /\ late \in Int /\ spent \in Nat

\* The file keeps the times, also those that 32 bits of seconds cannot hold, and those
\* that can are written in the format of the original ttyrec (io.c:122, README.md:98).
FileKeepsTimes ==
    \A i \in 1..Len(file) :
        /\ ReadHeader(file[i]) = times[i]
        /\ times[i].sec < Low => file[i] = [low |-> times[i].sec, high |-> times[i].usec]

\* Whatever the drift and the speed, and even if the recorder's clock was set back: no
\* wait is negative, and none is longer than the recorded pause (ttywait, ttyplay.c:117).
WaitsNoLongerThanRecorded ==
    [][shown' = shown + 1 /\ shown > 0 => Val(timeout') \in 0..DueIn]_playbackVars

\* However far its waits have put the playback behind the recording, the drift knows of
\* it, also after records that came too fast to wait at all.  It may exceed that, since
\* a pause that is skipped is not taken off it (ttyplay.c:174).
DelayIsInDrift == late =< Val(drift)

\* The drift is a delay that has really occurred: never negative, and no more than the
\* waits since the last key took too long.
DriftIsDelay == Val(drift) \in 0..spent

\* ttytime prints the length of the recording, to within a second, up to the last header;
\* a record that was cut short counts, and one that has no header is not missed.
TtytimeIsLength ==
    LET last == IF torn = "header" THEN Len(times) - 1 ELSE Len(times)
        length == Val(times[last]) - Val(times[1])
    IN IF last < 1 THEN CalcTime = 0
       ELSE CalcTime * Second \in (length - Second + 1)..(length + Second - 1)
=============================================================================
