----------------------------- MODULE ByteQueue -----------------------------
(***************************************************************************)
(* What a byte fifo promises its callers: a bounded queue that takes what  *)
(* fits of an offered block and gives back the oldest bytes in order.      *)
(***************************************************************************)
EXTENDS Integers, Sequences, SequencesExt

CONSTANTS Byte,      \* the values of a byte
          Capacity   \* the most bytes it holds

VARIABLES queue,     \* the bytes it holds, the oldest first
          call,      \* the last call
          read       \* the bytes the last get returned

Fitting(n) == IF n <= Capacity - Len(queue) THEN n ELSE Capacity - Len(queue)
Held(n) == IF n <= Len(queue) THEN n ELSE Len(queue)

Init == queue = <<>> /\ call = "init" /\ read = <<>>

Put(block) ==
    /\ call' = "put"
    /\ queue' = queue \o SubSeq(block, 1, Fitting(Len(block)))
    /\ UNCHANGED read

Get(n) ==
    /\ call' = "get"
    /\ read' = SubSeq(queue, 1, Held(n))
    /\ queue' = SubSeq(queue, Held(n) + 1, Len(queue))

Get2(n) ==
    /\ call' = "get2"
    /\ read' = SubSeq(queue, 1, Held(n))
    /\ UNCHANGED queue

Skip(n) ==
    /\ call' = "skip"
    /\ n <= Len(queue)
    /\ queue' = SubSeq(queue, n + 1, Len(queue))
    /\ UNCHANGED read

Reset == call' = "reset" /\ queue' = <<>> /\ UNCHANGED read

Next ==
    \/ \E block \in BoundedSeq(Byte, Capacity + 1) : Put(block)
    \/ \E n \in 0..Capacity + 1 : Get(n) \/ Get2(n) \/ Skip(n)
    \/ Reset

Spec == Init /\ [][Next]_<<queue, call, read>>
=============================================================================
