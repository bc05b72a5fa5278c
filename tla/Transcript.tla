----------------------------- MODULE Transcript -----------------------------
(***************************************************************************)
(* What a recording promises, with no files, buffers, rotations or         *)
(* handlers: the output is shown, chunk by chunk, and each chunk is        *)
(* recorded before the next one is shown; what is recorded reaches the     *)
(* disk in order and is never taken back; and a session that ends by       *)
(* itself leaves nothing behind in memory, while one that crashes may.     *)
(* Module Recorder implements it.                                          *)
(***************************************************************************)
EXTENDS Records

VARIABLES
    shown,      \* the chunks the user was shown that are to be recorded
    held,       \* the recorded parts that are in memory only
    disk,       \* the recorded parts that would survive the end of the machine
    fate        \* "running", "ended" or "crashed"

transcriptVars == <<shown, held, disk, fate>>

TranscriptInit ==
    /\ shown = <<>> /\ held = <<>> /\ disk = <<>>
    /\ fate = "running"

Running == fate = "running"
Tape == disk \o held
Recorded == Tape = RecordsOf(shown)

\* The next chunk is shown, once the last one is recorded.
ShowChunk(id) ==
    /\ shown' = Append(shown, id)
    /\ Recorded
    /\ UNCHANGED <<held, disk, fate>>

\* The next part of what was shown is recorded, and some of what is in memory may
\* reach the disk.
RecordPart ==
    /\ UNCHANGED <<shown, fate>>
    /\ ~Recorded
    /\ Tape' = Append(Tape, RecordsOf(shown)[Len(Tape) + 1])
    /\ IsPrefix(disk, disk')

Flush ==
    /\ UNCHANGED <<shown, fate>>
    /\ Tape' = Tape
    /\ IsStrictPrefix(disk, disk')

\* The session ends, possibly within a record: what was recorded is on disk.
End ==
    /\ fate' = "ended"
    /\ held = <<>>
    /\ UNCHANGED <<shown, held, disk>>

CrashNow ==
    /\ fate' = "crashed"
    /\ UNCHANGED <<shown, held, disk>>

TranscriptNext ==
    /\ Running
    /\ \/ \E id \in Chunk : ShowChunk(id)
       \/ RecordPart \/ Flush \/ End \/ CrashNow

TranscriptSpec == TranscriptInit /\ [][TranscriptNext]_transcriptVars
=============================================================================
