------------------------------- MODULE Player -------------------------------
(***************************************************************************)
(* ttyplay -p on the first file of a session that may still be running:    *)
(* ttyskipall reads what is there, then the records are played as they     *)
(* come, "just like tail -f".  The player has the file, a position in it   *)
(* and, with zstd, the decoded parts it has not returned yet; it shares    *)
(* nothing else with ttyrec.                                               *)
(***************************************************************************)
EXTENDS RecordFile

PeekedFile == 1     \* the file -f names; a rotation does not make the player follow

VARIABLES
    pos,        \* the blocks of the file read so far: the file position
    saved,      \* pos, as ttyread took it before the header
    decoded,    \* the blocks the decoder has taken in
    hand,       \* decoded parts not yet returned by fread_wrapper
    next,       \* what ttyread is about to read, "lost" once it is out of step
    head,       \* the record whose header was read last
    phase,      \* "skip" while ttyskipall runs, then "follow"
    played      \* the records read so far, skipped or shown

playerVars == <<pos, saved, decoded, hand, next, head, phase, played>>

PlayerTypeOK ==
    /\ {pos, saved, decoded} \subseteq Nat
    /\ hand \in Seq(Part)
    /\ next \in {"header", "data", "lost"}
    /\ head \in 0..MaxChunks
    /\ phase \in {"skip", "follow"}
    /\ played \in Seq(Chunk)
----------------------------------------------------------------------------
Block == files[PeekedFile][pos + 1]
Ended == hand = <<>> /\ pos = Len(files[PeekedFile])

\* After a seek backwards the decoder is given a block it has taken in before: it
\* stops on an error, or yields bytes that are not where they belong.
Garbled == hand = <<>> /\ pos < Len(files[PeekedFile]) /\ pos < decoded

\* fread_wrapper: the next part, from what is decoded already or from a new block.
Take(part) ==
    /\ ~Garbled
    /\ \/ hand # <<>> /\ part = Head(hand) /\ hand' = Tail(hand)
          /\ UNCHANGED <<pos, decoded>>
       \/ hand = <<>> /\ pos < Len(files[PeekedFile])
          /\ part = Head(Block) /\ hand' = Tail(Block)
          /\ pos' = pos + 1
          /\ decoded' = IF mode = "zstd" THEN pos + 1 ELSE decoded

\* ttyread: fgetpos, then the header.  Data where a header should be is taken for
\* one: its length is refused, or a wrong number of bytes is read next.
ReadHeader ==
    /\ next = "header"
    /\ saved' = pos
    /\ \E part \in Part :
          /\ Take(part)
          /\ IF part.kind = "header" THEN next' = "data" /\ head' = part.id
                                     ELSE next' = "lost" /\ UNCHANGED head
    /\ UNCHANGED <<phase, played, files, mode>>

\* ... then the data.
ReadData ==
    /\ next = "data"
    /\ \E part \in Part :
          /\ Take(part)
          /\ IF part = Data(head) THEN next' = "header" /\ played' = Append(played, head)
                                  ELSE next' = "lost" /\ UNCHANGED played
    /\ UNCHANGED <<saved, head, phase, files, mode>>

\* Mutants of ShortRead: the player does not seek back, seeks back although nothing
\* was read, or uses ttyread where ttypread is due.
ShortReadNoSeek ==
    /\ next \in {"header", "data"}
    /\ Ended
    /\ next' = "header"
    /\ phase' = "follow"
    /\ UNCHANGED <<pos, saved, decoded, hand, head, played, files, mode>>

ShortReadAlwaysBack ==
    /\ next \in {"header", "data"}
    /\ Ended
    /\ pos' = pos - 1
    /\ next' = "header"
    /\ phase' = "follow"
    /\ UNCHANGED <<saved, decoded, hand, head, played, files, mode>>

ShortReadGivesUp ==
    /\ next \in {"header", "data"}
    /\ Ended
    /\ pos' = IF next = "data" THEN saved ELSE pos
    /\ next' = IF phase = "skip" THEN "header" ELSE "lost"
    /\ phase' = "follow"
    /\ UNCHANGED <<saved, decoded, hand, head, played, files, mode>>

\* A short read: seek back to before the header.  ttyskipall stops there; ttypread
\* waits 250 ms and tries again.
ShortRead ==
    /\ next \in {"header", "data"}
    /\ Ended
    /\ pos' = IF next = "data" THEN saved ELSE pos
    /\ next' = "header"
    /\ phase' = "follow"
    /\ UNCHANGED <<saved, decoded, hand, head, played, files, mode>>

ReadGarbled ==
    /\ next \in {"header", "data"}
    /\ Garbled
    /\ next' = "lost"
    /\ UNCHANGED <<pos, saved, decoded, hand, head, phase, played, files, mode>>

PlayerInit ==
    /\ pos = 0 /\ saved = 0 /\ decoded = 0
    /\ hand = <<>> /\ next = "header" /\ head = 0
    /\ phase = "skip" /\ played = <<>>

PlayerNext == ReadHeader \/ ReadData \/ ShortRead \/ ReadGarbled
=============================================================================
