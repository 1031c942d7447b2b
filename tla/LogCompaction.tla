--------------------------- MODULE LogCompaction ---------------------------
(***************************************************************************)
(* compact_log_file: of the lines a sender has sent, only those of the     *)
(* most recent frames stay in the file; the unsent lines are copied.       *)
(***************************************************************************)
EXTENDS Naturals, Sequences, FiniteSets, Functions, SequencesExt

CONSTANT KeepFrames   \* keep_frames, 10 in both calls

ASSUME KeepAssumption == KeepFrames \in Nat \ {0}

\* keep_frame_id: a window of the last ids; an id already in it is not moved.
KeepFrameId(window, id) ==
    IF id \in Range(window) THEN window
    ELSE IF Len(window) < KeepFrames THEN Append(window, id)
    ELSE Append(Tail(window), id)

\* The ids in the window after the first n lines.
KeptFrames(lines, n) ==
    Range(FoldLeft(LAMBDA w, line : KeepFrameId(w, line.frame),
                   <<>>, SubSeq(lines, 1, n)))

\* Positions of the sent lines (the first n) that stay.
KeptLines(lines, n) == {i \in 1..n : lines[i].frame \in KeptFrames(lines, n)}

\* The one increasing enumeration of a finite set of positions.
InOrder(positions) ==
    {f \in [1..Cardinality(positions) -> positions] :
        \A i, j \in 1..Cardinality(positions) : i < j => f[i] < f[j]}

\* Mutant: the line at the offset counts as sent.
SentCountAndOne(lines, off) == IF off < Len(lines) THEN off + 1 ELSE Len(lines)

\* Lines before a sender's offset; an offset beyond the file counts them all.
SentCount(lines, off) == IF off < Len(lines) THEN off ELSE Len(lines)

\* Mutant: the first unsent line is read away and not copied.
CompactionsLosingLine(lines, off) ==
    LET n == SentCount(lines, off)
        kept == KeptLines(lines, n)
    IN  {[lines |-> [i \in 1..Cardinality(kept) |-> lines[f[i]]]
                      \o SubSeq(lines, n + 2, Len(lines)),
          off   |-> Cardinality(kept)] : f \in InOrder(kept)}

\* Mutant: the offset does not count the lines that were kept.
CompactionsFromStart(lines, off) ==
    LET n == SentCount(lines, off)
        kept == KeptLines(lines, n)
    IN  {[lines |-> [i \in 1..Cardinality(kept) |-> lines[f[i]]]
                      \o SubSeq(lines, n + 1, Len(lines)),
          off   |-> 0] : f \in InOrder(kept)}

\* Mutant: the line at the offset is copied in both passes.
CompactionsCopyingTwice(lines, off) ==
    LET n == SentCount(lines, off)
        kept == KeptLines(lines, n)
        next == IF n < Len(lines) THEN <<lines[n + 1]>> ELSE <<>>
    IN  {[lines |-> [i \in 1..Cardinality(kept) |-> lines[f[i]]]
                      \o next \o SubSeq(lines, n + 1, Len(lines)),
          off   |-> Cardinality(kept)] : f \in InOrder(kept)}

\* What the temporary file holds once both passes are done, and the offset
\* that goes with it.
Compactions(lines, off) ==
    LET n == SentCount(lines, off)
        kept == KeptLines(lines, n)
    IN  {[lines |-> [i \in 1..Cardinality(kept) |-> lines[f[i]]]
                      \o SubSeq(lines, n + 1, Len(lines)),
          off   |-> Cardinality(kept)] : f \in InOrder(kept)}
=============================================================================
