------------------------- MODULE MainSendRefinement -------------------------
(***************************************************************************)
(* The log files, their offsets and main_send_thread make a store that     *)
(* forwards (StoreAndForward): a source's queue is what its file holds of  *)
(* lines that are not settled, wherever the offset is.                     *)
(***************************************************************************)
EXTENDS MainSend

\* The lines at some positions of a file, in the order of the file.
LinesAt(lines, positions) ==
    LET f == CHOOSE f \in InOrder(positions) : TRUE
    IN  [i \in 1..Cardinality(positions) |-> lines[f[i]]]

Unsettled(p) == {i \in DOMAIN log[p] : ~Settled(log[p][i])}

Waiting(p) == LinesAt(log[p], Unsettled(p))

\* What the store holds, until it is broken.
Queues == [p \in Path |-> IF staleCrash THEN <<>> ELSE Waiting(p)]
Delivered == IF staleCrash THEN {} ELSE acked
Abandoned == IF staleCrash THEN {} ELSE {line \in skipped \ acked : Valid(line)}

Store == INSTANCE StoreAndForward WITH
            Source    <- Path,
            Item      <- Line,
            waiting   <- Queues,
            delivered <- Delivered,
            abandoned <- Abandoned,
            broken    <- staleCrash

\* Through failed sends, fallback, compaction, changes of role, crashes and restarts
\* the uplink is a queue for each source, until a crash falls between the replacement
\* of a file and the save of its offset.
IsStoreAndForward == Store!Spec
-----------------------------------------------------------------------------
(* What the proof needs to know beyond SafetyInv and OrderInv.             *)

PacketValid == Carrying => \A line \in packet : Valid(line)

\* Behind its offset the temporary file holds the next lines of the log file,
\* in their order and without a gap: what the rename loses was written last.
TmpExact ==
    (pc = "rename" /\ ~staleCrash) =>
        LET m == Len(tmp.lines) - tmp.off
        IN  /\ offsets[cp] + m <= Len(log[cp])
            /\ \A j \in 1..m : tmp.lines[tmp.off + j] = log[cp][offsets[cp] + j]

RefinementInv == PacketValid /\ TmpExact
=============================================================================
