----------------------------- MODULE RecordFile -----------------------------
(***************************************************************************)
(* The files ttyrec leaves.  What one write(2) puts on disk is a block of  *)
(* parts, which a reader decodes as a whole: one part without compression, *)
(* whatever zstd flushed at once with it.  The mark that ends a zstd frame *)
(* holds no part and is left out.                                          *)
(***************************************************************************)
EXTENDS Records

CONSTANT Modes   \* what set_compress_mode is given: subset of {"none", "zstd"}

ASSUME FileAssumption == Modes \subseteq {"none", "zstd"}

VARIABLES
    files,      \* the files opened so far, in order
    mode        \* the compression mode, chosen at startup

\* What a complete reading of file k yields.
Parts(k) == FlattenSeq(files[k])

\* What all the files hold together, in the order they were opened.
AllParts == FlattenSeq([k \in 1..Len(files) |-> Parts(k)])

FileTypeOK == /\ files \in Seq(Seq(Seq(Part)))
              /\ mode \in Modes
=============================================================================
