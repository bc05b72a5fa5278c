------------------------------ MODULE Records -------------------------------
(***************************************************************************)
(* What a recording is made of: a record is the header of 12 bytes and the *)
(* output it announces, two parts written by two calls.                    *)
(***************************************************************************)
EXTENDS Integers, Sequences, SequencesExt

CONSTANT MaxChunks   \* bound: how many times the program's output is read

ASSUME ChunkAssumption == MaxChunks \in Nat

Chunk == 1..MaxChunks
Part == [kind : {"header", "data"}, id : Chunk]
Header(id) == [kind |-> "header", id |-> id]
Data(id) == [kind |-> "data", id |-> id]

\* The sequence of records ids[1], ids[2], ..., as it should be written.
RecordsOf(ids) ==
    [i \in 1..(2 * Len(ids)) |->
        IF i % 2 = 1 THEN Header(ids[(i + 1) \div 2]) ELSE Data(ids[i \div 2])]

\* The chunks whose data is in a sequence of parts.
DataOf(parts) ==
    LET data == SelectSeq(parts, LAMBDA part : part.kind = "data")
    IN [i \in 1..Len(data) |-> data[i].id]
=============================================================================
