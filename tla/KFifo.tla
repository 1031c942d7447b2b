------------------------------- MODULE KFifo -------------------------------
(***************************************************************************)
(* kfifo: the byte ring between the threads that receive data and the one  *)
(* that writes it to the logs.  Its callers hold fifo_lock, so each call   *)
(* is one step.  in and out are free-running unsigned counters; their      *)
(* difference, modulo 2^32, is the length, and only their low bits index   *)
(* the buffer.                                                             *)
(***************************************************************************)
EXTENDS Integers, Sequences, SequencesExt, FiniteSetsExt

CONSTANTS Size,    \* fifo->size, FIFO_SIZE
          Wrap,    \* 2^32, where the counters wrap
          Byte,    \* the values of a byte
          Starts   \* the counter values a run begins with

\* FIFO_SIZE is a power of two, as is 2^32.
ASSUME KFifoAssumption ==
    /\ Size \in Nat \ {0} /\ Wrap \in Nat \ {0}
    /\ Wrap % Size = 0 /\ Wrap > Size
    /\ Starts \subseteq 0..Wrap - 1 /\ Starts # {} /\ Byte # {}

VARIABLES buffer, in, out,
          call,  \* the last call
          read   \* the bytes the last get copied to its caller

vars == <<buffer, in, out, call, read>>

\* Mutant: the length computed without the wrap of unsigned subtraction.
kfifo_len_signed == IF in >= out THEN in - out ELSE 0

kfifo_len == (in - out) % Wrap

kfifo_left == (Size - kfifo_len) % Wrap

At(i) == i % Size

Smaller(a, b) == IF a > b THEN b ELSE a

\* kfifo_init, and the counters at any later moment the fifo is empty.
Init ==
    /\ buffer \in {[i \in 0..Size - 1 |-> b] : b \in Byte}
    /\ in \in Starts /\ out = in
    /\ call = "init" /\ read = <<>>

\* Mutant: the block is not cut to what is left.
PutUncut(block) ==
    LET len == Len(block)
        l == Smaller(len, Size - At(in))
    IN  /\ buffer' = [i \in 0..Size - 1 |->
              CASE i \in At(in) .. At(in) + l - 1 -> block[i - At(in) + 1]
                [] i \in 0 .. len - l - 1 -> block[i + l + 1]
                [] OTHER -> buffer[i]]
        /\ in' = (in + len) % Wrap
        /\ call' = "put" /\ UNCHANGED <<out, read>>

\* kfifo_put: the first copy up to the end of the buffer, the second from its
\* beginning.
Put(block) ==
    LET len == Smaller(Len(block), kfifo_left)
        l == Smaller(len, Size - At(in))
    IN  /\ buffer' = [i \in 0..Size - 1 |->
              CASE i \in At(in) .. At(in) + l - 1 -> block[i - At(in) + 1]
                [] i \in 0 .. len - l - 1 -> block[i + l + 1]
                [] OTHER -> buffer[i]]
        /\ in' = (in + len) % Wrap
        /\ call' = "put" /\ UNCHANGED <<out, read>>

\* The two copies of kfifo_get and kfifo_get2.
Copied(n) ==
    LET len == Smaller(n, kfifo_len)
        l == Smaller(len, Size - At(out))
    IN  [k \in 1..len |-> IF k <= l THEN buffer[At(out) + k - 1] ELSE buffer[k - l - 1]]

\* kfifo_get
Get(n) ==
    /\ read' = Copied(n)
    /\ out' = (out + Smaller(n, kfifo_len)) % Wrap
    /\ call' = "get"
    /\ UNCHANGED <<buffer, in>>

\* kfifo_get2 looks without taking...
Get2(n) ==
    /\ read' = Copied(n)
    /\ call' = "get2"
    /\ UNCHANGED <<buffer, in, out>>

\* ...and kfifo_skip takes what was looked at.
Skip(n) ==
    /\ n <= kfifo_len
    /\ out' = (out + n) % Wrap
    /\ call' = "skip"
    /\ UNCHANGED <<buffer, in, read>>

\* kfifo_reset
Reset ==
    /\ in' = 0 /\ out' = 0
    /\ call' = "reset"
    /\ UNCHANGED <<buffer, read>>

Next ==
    \/ \E block \in BoundedSeq(Byte, Size + 1) : Put(block)
    \/ \E n \in 0..Size + 1 : Get(n) \/ Get2(n) \/ Skip(n)
    \/ Reset

Spec == Init /\ [][Next]_vars
-----------------------------------------------------------------------------
TypeOK ==
    /\ buffer \in [0..Size - 1 -> Byte]
    /\ in \in 0..Wrap - 1 /\ out \in 0..Wrap - 1
    /\ kfifo_len <= Size
    /\ read \in BoundedSeq(Byte, Size)

\* The bytes between out and in, the oldest first.
Content == [k \in 1..kfifo_len |-> buffer[At(out + k - 1)]]

Queue == INSTANCE ByteQueue WITH Capacity <- Size, queue <- Content

\* The ring is a bounded queue of bytes, at every position of its counters
\* and across their wrap.
IsByteQueue == Queue!Spec
=============================================================================
