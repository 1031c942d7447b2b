-------------------------- MODULE StoreAndForward --------------------------
(***************************************************************************)
(* What the uplink promises those who log: the lines of a source are a     *)
(* queue.  The oldest are delivered first, whatever is delivered leaves    *)
(* the queue and does not return to it, and lines leave it undelivered in  *)
(* two ways only: all at once, when the unit becomes a LoRa node, or from  *)
(* the young end.  A crash at a bad moment may break the promise.          *)
(***************************************************************************)
EXTENDS Naturals, Sequences, Functions, SequencesExt

CONSTANTS Source,   \* the sources of lines
          Item      \* the lines

VARIABLES waiting,     \* the queue of each source, the oldest line first
          delivered,   \* lines that were sent and acknowledged
          abandoned,   \* lines given up to the LoRa role, and not sent after all
          broken

vars == <<waiting, delivered, abandoned, broken>>

Empty == [s \in Source |-> <<>>]

Init ==
    /\ waiting = Empty /\ broken = FALSE
    /\ delivered = {} /\ abandoned = {}

Known == delivered \cup abandoned \cup UNION {Range(waiting[s]) : s \in Source}

\* A line is accepted once.
Accept(s) ==
    /\ waiting'[s] # <<>> /\ Last(waiting'[s]) \in Item \ Known
    /\ waiting' = [waiting EXCEPT ![s] = Append(@, Last(waiting'[s]))]
    /\ UNCHANGED <<delivered, abandoned>>

\* The first n[s] lines of each source s.
Oldest(n) == UNION {{waiting[s][i] : i \in 1 .. n[s]} : s \in Source}

\* A line that was abandoned may still be delivered: it was in a packet on its way.
Deliver(n, late) ==
    /\ late \subseteq abandoned
    /\ \A s \in Source : n[s] \in 0 .. Len(waiting[s])
    /\ waiting' = [s \in Source |-> SubSeq(waiting[s], n[s] + 1, Len(waiting[s]))]
    /\ delivered' = delivered \cup Oldest(n) \cup late
    /\ abandoned' = abandoned \ late

Abandon ==
    /\ abandoned' = abandoned \cup UNION {Range(waiting[s]) : s \in Source}
    /\ waiting' = Empty
    /\ UNCHANGED delivered

\* The last lines of a source are lost.
Lose(s, n) ==
    /\ n < Len(waiting[s])
    /\ waiting' = [waiting EXCEPT ![s] = SubSeq(@, 1, n)]
    /\ UNCHANGED <<delivered, abandoned>>

Break == broken' = TRUE

\* Most steps of the uplink change no queue; TLC sees it soonest here.
Rest == UNCHANGED vars

Next ==
    \/ Rest
    \/ /\ ~broken /\ ~broken'
       /\ \/ \E n \in [Source -> {Len(waiting[s]) - Len(waiting'[s]) : s \in Source}],
                late \in SUBSET abandoned : Deliver(n, late)
          \/ \E s \in Source : Accept(s)
          \/ Abandon
          \/ \E s \in Source : \E n \in 0 .. Len(waiting[s]) - 1 : Lose(s, n)
    \/ Break

Spec == Init /\ [][Next]_vars
=============================================================================
