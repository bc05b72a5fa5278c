------------------------------- MODULE MCParts ------------------------------
(* Instances of Parts for TLC. *)
EXTENDS Parts

\* Around the start, around the last second that the original format can hold, later;
\* the times of a recording go back when the recorder's clock was set back.
SomeTimes == [sec : {0, 1, Low - 1, Low, Low + 2}, usec : {0, 1, Second - 1}]

\* Four records after one another, some too fast to wait for, up to a long pause.
FirstTimes == [sec : {1}, usec : {0, 2}]
NextTimes == {[sec |-> 1, usec |-> 0], [sec |-> 1, usec |-> 2], [sec |-> 2, usec |-> 1]}
LastTimes == {[sec |-> 3, usec |-> 0], [sec |-> Low + 2, usec |-> 2]}

SomeRecordings ==
    UNION {[1..n -> SomeTimes] : n \in 0..2}
        \cup {<<first>> \o next \o <<last>> :
                first \in FirstTimes, next \in [1..3 -> NextTimes], last \in LastTimes}

SomeSpeeds == {<<1, 1>>, <<3, 2>>}
=============================================================================
