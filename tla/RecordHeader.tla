---------------------------- MODULE RecordHeader ----------------------------
(***************************************************************************)
(* The time in the header of a record.  The format has 32 bits for the     *)
(* seconds and 32 for the microseconds, which need only 20 of them: the    *)
(* other 12 take the upper bits of the seconds.  Bit operations are        *)
(* arithmetic here, and the widths are constants.                          *)
(***************************************************************************)
EXTENDS Integers

CONSTANTS
    Second,     \* microseconds in a second: 10^6
    Low,        \* values of the first field: 2^32
    Micro,      \* values of the bits of the second field left to microseconds: 2^20
    High        \* values of the bits of the second field taken by the seconds: 2^12

ASSUME HeaderAssumption ==
    /\ {Second, Low, Micro, High} \subseteq Nat \ {0}
    /\ Second =< Micro

\* A struct timeval, and the times that a header can hold.
Timeval == [sec : Int, usec : 0..(Second - 1)]
Stamp == {tv \in Timeval : tv.sec \in 0..(Low * High - 1)}

\* Mutant of WriteHeader: the upper bits of the seconds are those of one bit further up.
WriteHeaderShifted(tv) ==
    [low |-> tv.sec % Low, high |-> tv.usec + Micro * ((tv.sec \div (2 * Low)) % High)]

WriteHeader(tv) ==
    [low |-> tv.sec % Low, high |-> tv.usec + Micro * ((tv.sec \div Low) % High)]

ReadHeader(header) ==
    [sec |-> header.low + Low * (header.high \div Micro), usec |-> header.high % Micro]
=============================================================================
