----------------------------- MODULE KFifoProofs -----------------------------
(***************************************************************************)
(* Proofs about KFifo, for a buffer of any size, counters that wrap at any *)
(* multiple of it, and any values of a byte.                               *)
(***************************************************************************)
EXTENDS KFifo, SequenceTheorems, TLAPS

-----------------------------------------------------------------------------
(* The remainder.                                                          *)

LEMMA ModRange ==
    ASSUME NEW a \in Int, NEW m \in Nat \ {0} PROVE a % m \in 0..m - 1
OBVIOUS

LEMMA ModOfMultiple ==
    ASSUME NEW q \in Int, NEW m \in Nat \ {0}, NEW r \in 0..m - 1
    PROVE  (q * m + r) % m = r
OBVIOUS

LEMMA ModSmall ==
    ASSUME NEW m \in Nat \ {0}, NEW r \in 0..m - 1 PROVE r % m = r
OBVIOUS

LEMMA Division ==
    ASSUME NEW a \in Int, NEW m \in Nat \ {0}
    PROVE  \E q \in Int : a = q * m + (a % m)
<1>1. (a \div m) \in Int /\ a = (a \div m) * m + (a % m)
  OBVIOUS
<1> QED
  BY <1>1

\* Whole multiples do not change a remainder.
LEMMA ModShift ==
    ASSUME NEW a \in Int, NEW q \in Int, NEW m \in Nat \ {0}
    PROVE  (a + q * m) % m = a % m
<1>1. PICK d \in Int : a = d * m + (a % m)
  BY Division
<1> DEFINE r == a % m
<1>2. r \in 0..m - 1
  BY ModRange
<1>3. a = d * m + r
  BY <1>1
<1> HIDE DEF r
<1>4. a + q * m = (d + q) * m + r
  BY <1>2, <1>3
<1>5. d + q \in Int /\ ((d + q) * m + r) % m = r
  BY <1>2, ModOfMultiple
<1> QED
  BY <1>4, <1>5 DEF r

\* A remainder of a multiple of Size can stand for the number itself.
LEMMA ModOfWrap ==
    ASSUME NEW a \in Int, NEW b \in Int, NEW m \in Nat \ {0}, NEW w \in Nat,
           w * m \in Nat \ {0}
    PROVE  ((a % (w * m)) + b) % m = (a + b) % m
<1> DEFINE n == w * m
<1>1. PICK d \in Int : a = d * n + (a % n)
  BY Division
<1> DEFINE r == a % n
<1>2. r \in Int /\ a = d * n + r
  BY <1>1, ModRange
<1> HIDE DEF r
<1> DEFINE q == d * w
           c == r + b
<1>3. d * n = q * m /\ q \in Int /\ c \in Int
  BY <1>2
<1>4. a + b = c + q * m
  BY <1>2, <1>3
<1> HIDE DEF q, c
<1>5. (c + q * m) % m = c % m
  BY <1>3, ModShift
<1> QED
  BY <1>4, <1>5 DEF r, c

\* Numbers less than m apart have different remainders.
LEMMA ModDistinct ==
    ASSUME NEW m \in Nat \ {0}, NEW a \in Int, NEW b \in Int, a < b, b < a + m
    PROVE  a % m # b % m
<1> SUFFICES ASSUME a % m = b % m PROVE FALSE
  OBVIOUS
<1>1. PICK d \in Int : a = d * m + (a % m)
  BY Division
<1>2. PICK e \in Int : b = e * m + (b % m)
  BY Division
<1> DEFINE r == a % m
<1>3. r \in Int /\ a = d * m + r /\ b = e * m + r
  BY <1>1, <1>2, ModRange
<1> HIDE DEF r
<1>4. e * m - d * m = b - a /\ e * m - d * m = (e - d) * m
  BY <1>3
<1> DEFINE f == e - d
<1>5. f \in Int /\ f * m > 0 /\ f * m < m
  BY <1>3, <1>4
<1> HIDE DEF f
<1>6. CASE f <= 0
  BY <1>5, <1>6
<1>7. CASE f >= 1
  <2>1. f * m >= m
    BY <1>5, <1>7
  <2> QED
    BY <1>5, <2>1
<1> QED
  BY <1>5, <1>6, <1>7

-----------------------------------------------------------------------------
(* The positions of the ring.                                              *)

LEMMA SizeFacts ==
    /\ Size \in Nat \ {0} /\ Wrap \in Nat \ {0} /\ Wrap > Size
    /\ \E w \in Nat : Wrap = w * Size
<1>1. Size \in Nat \ {0} /\ Wrap \in Nat \ {0} /\ Wrap > Size /\ Wrap % Size = 0
  BY KFifoAssumption DEF KFifoAssumption
<1>2. PICK w \in Int : Wrap = w * Size + (Wrap % Size)
  <2>1. Wrap \in Int
    BY <1>1
  <2>2. \E w \in Int : Wrap = w * Size + (Wrap % Size)
    BY <1>1, <2>1, Division, Zenon
  <2> QED
    BY <2>2
<1>3. Wrap = w * Size
  <2> DEFINE y == w * Size
  <2>1. y \in Int /\ Wrap = y + (Wrap % Size)
    BY <1>1, <1>2
  <2> HIDE DEF y
  <2>2. Wrap = y
    BY <1>1, <2>1
  <2> QED
    BY <2>2 DEF y
<1>4. w >= 0
  <2>1. CASE w < 0
    <3>1. w * Size <= 0
      BY <1>1, <2>1
    <3> QED
      BY <1>1, <1>3, <3>1
  <2> QED
    BY <2>1
<1> QED
  BY <1>1, <1>3, <1>4

\* The wrap of a counter does not move the position it points to.
LEMMA AtOfWrapped ==
    ASSUME NEW a \in Int, NEW b \in Int
    PROVE  At((a % Wrap) + b) = At(a + b)
<1>1. PICK w \in Nat : Wrap = w * Size
  BY SizeFacts
<1>2. w * Size \in Nat \ {0} /\ Size \in Nat \ {0}
  BY <1>1, SizeFacts
<1>3. ((a % (w * Size)) + b) % Size = (a + b) % Size
  BY <1>2, ModOfWrap
<1> QED
  BY <1>1, <1>3 DEF At

LEMMA WrappedSum ==
    ASSUME NEW a \in Int, NEW b \in Int
    PROVE  ((a % Wrap) + b) % Wrap = (a + b) % Wrap
<1>1. PICK m \in Nat \ {0}, w \in Nat : m = Wrap /\ w = 1
  BY SizeFacts
<1>2. w * m = m
  BY <1>1
<1>3. w * m \in Nat \ {0}
  BY <1>2
<1>4. ((a % (w * m)) + b) % m = (a + b) % m
  BY <1>3, ModOfWrap
<1> QED
  BY <1>1, <1>2, <1>4

\* The counters, as the code keeps them.
Counters == /\ in \in 0..Wrap - 1 /\ out \in 0..Wrap - 1
            /\ kfifo_len <= Size

LEMMA LenFacts ==
    ASSUME Counters
    PROVE  /\ kfifo_len \in 0..Size
           /\ kfifo_left = Size - kfifo_len
           /\ \A j \in Int : At(in + j) = At(out + kfifo_len + j)
<1> DEFINE n == kfifo_len
<1>1. n \in 0..Wrap - 1
  BY SizeFacts, ModRange DEF Counters, kfifo_len
<1>2. n \in 0..Size
  BY <1>1, SizeFacts DEF Counters
<1>3. (Size - n) % Wrap = Size - n
  BY <1>2, SizeFacts, ModSmall
<1>4. ASSUME NEW j \in Int PROVE At(in + j) = At(out + n + j)
  <2>1. in - out \in Int /\ out + j \in Int
    BY DEF Counters
  <2>2. At(((in - out) % Wrap) + (out + j)) = At((in - out) + (out + j))
    BY <2>1, AtOfWrapped
  <2>3. (in - out) + (out + j) = in + j
    BY DEF Counters
  <2>4. ((in - out) % Wrap) + (out + j) = out + n + j
    BY <1>1 DEF Counters, kfifo_len
  <2> QED
    BY <2>2, <2>3, <2>4
<1> QED
  BY <1>2, <1>3, <1>4 DEF kfifo_left

\* What the counters are worth once k bytes went in, and n out.
LEMMA LenMoves ==
    ASSUME Counters, NEW k \in Nat, NEW n \in Nat,
           n <= kfifo_len + k, kfifo_len + k - n <= Size
    PROVE  /\ (in + k) % Wrap \in 0..Wrap - 1 /\ (out + n) % Wrap \in 0..Wrap - 1
           /\ (((in + k) % Wrap) - ((out + n) % Wrap)) % Wrap = kfifo_len + k - n
<1>t. in \in Int /\ out \in Int /\ in + k \in Int /\ out + n \in Int /\ kfifo_len \in Int
  BY LenFacts DEF Counters
<1>1. (in + k) % Wrap \in 0..Wrap - 1 /\ (out + n) % Wrap \in 0..Wrap - 1
  BY <1>t, SizeFacts, ModRange
<1> DEFINE o == (out + n) % Wrap
<1>2. PICK d \in Int : out + n = d * Wrap + o
  BY <1>t, SizeFacts, Division
<1>o. o \in Int /\ Wrap \in Int
  BY <1>1, SizeFacts
<1> HIDE DEF o
<1>3. (((in + k) % Wrap) - o) % Wrap = (in + k - o) % Wrap
  <2>1. -o \in Int
    BY <1>o
  <2>2. (((in + k) % Wrap) + (-o)) % Wrap = (in + k + (-o)) % Wrap
    BY <1>t, <2>1, WrappedSum
  <2>3. (in + k) % Wrap \in Int
    BY <1>1
  <2>4. ((in + k) % Wrap) + (-o) = ((in + k) % Wrap) - o /\ in + k + (-o) = in + k - o
    BY <1>t, <1>o, <2>3
  <2> QED
    BY <2>2, <2>4
<1>4. (in + k - o) % Wrap = ((in - out) + (k - n)) % Wrap
  <2> DEFINE x == (in - out) + (k - n)
             y == d * Wrap
  <2>0. y \in Int
    BY <1>o
  <2>e. out + n = y + o
    BY <1>2
  <2> HIDE DEF y
  <2>1. in + k - o = x + y
    BY <1>t, <1>o, <2>0, <2>e
  <2>x. x \in Int
    BY <1>t
  <2> HIDE DEF x
  <2>2. (x + d * Wrap) % Wrap = x % Wrap
    BY <2>x, SizeFacts, ModShift
  <2> QED
    BY <2>1, <2>2 DEF x, y
<1>5. ((in - out) + (k - n)) % Wrap = (kfifo_len + (k - n)) % Wrap
  BY <1>t, WrappedSum DEF kfifo_len
<1>6. (kfifo_len + (k - n)) % Wrap = kfifo_len + k - n
  <2>1. kfifo_len + (k - n) \in 0..Wrap - 1
    BY <1>t, SizeFacts
  <2>2. kfifo_len + (k - n) = kfifo_len + k - n
    BY <1>t
  <2> QED
    BY <2>1, <2>2, SizeFacts, ModSmall
<1> QED
  BY <1>1, <1>3, <1>4, <1>5, <1>6 DEF o

\* Walking on from a counter, the position goes up to the end of the buffer
\* and continues at its beginning.
LEMMA AtWalk ==
    ASSUME NEW c \in 0..Wrap - 1, NEW j \in 0..Size - 1
    PROVE  /\ At(c) \in 0..Size - 1
           /\ At(c + j) = IF j < Size - At(c) THEN At(c) + j ELSE At(c) + j - Size
<1>1. At(c) \in 0..Size - 1
  BY SizeFacts, ModRange DEF At
<1>2. PICK d \in Int : c = d * Size + At(c)
  <2>1. c \in Int
    BY SizeFacts
  <2>2. \E d \in Int : c = d * Size + (c % Size)
    BY <2>1, SizeFacts, Division, Zenon
  <2> QED
    BY <2>2 DEF At
<1> DEFINE a == At(c)
<1>s. Size \in Nat \ {0} /\ Wrap \in Nat
  BY SizeFacts
<1> DEFINE y == d * Size
<1>y. y \in Int /\ c = y + a /\ a \in 0..Size - 1
  BY <1>1, <1>2, <1>s
<1>z. (d + 1) * Size = y + Size
  BY <1>s
<1> HIDE DEF a, y
<1>3. CASE j < Size - a
  <2>1. c + j = y + (a + j) /\ a + j \in 0..Size - 1
    BY <1>3, <1>s, <1>y
  <2>2. (y + (a + j)) % Size = a + j
    BY <1>s, <2>1, ModOfMultiple DEF y
  <2> QED
    BY <1>1, <1>3, <2>1, <2>2 DEF At, a
<1>4. CASE ~(j < Size - a)
  <2>1. c + j = (d + 1) * Size + (a + j - Size) /\ a + j - Size \in 0..Size - 1
    BY <1>4, <1>s, <1>y, <1>z
  <2>2. ((d + 1) * Size + (a + j - Size)) % Size = a + j - Size
    BY <1>s, <2>1, ModOfMultiple
  <2> QED
    BY <1>1, <1>4, <2>1, <2>2 DEF At, a
<1> QED
  BY <1>1, <1>3, <1>4 DEF a

-----------------------------------------------------------------------------
(* What the calls do to the bytes.                                         *)

LEMMA BoundedSeqIs ==
    ASSUME NEW S, NEW n \in Nat, NEW s
    PROVE  s \in BoundedSeq(S, n) <=> \E m \in 0..n : s \in [1..m -> S]
BY DEF BoundedSeq, SeqOf

LEMMA SubSeqIs ==
    ASSUME NEW S, NEW n \in Nat, NEW s \in [1..n -> S], NEW a \in Nat, NEW b \in Nat,
           a >= 1, b <= n, a <= b + 1
    PROVE  /\ s \in Seq(S) /\ Len(s) = n
           /\ SubSeq(s, a, b) = [k \in 1 .. b - a + 1 |-> s[a + k - 1]]
OBVIOUS

LEMMA SeqIsFunction ==
    ASSUME NEW S, NEW s \in Seq(S) PROVE s = [k \in 1..Len(s) |-> s[k]]
OBVIOUS

\* The queue of the ring, at the positions the reader's counter walks over.
LEMMA ContentIs ==
    ASSUME TypeOK
    PROVE  /\ kfifo_len \in 0..Size
           /\ Content \in [1..kfifo_len -> Byte]
           /\ Content \in Seq(Byte) /\ Len(Content) = kfifo_len
           /\ \A k \in 1..kfifo_len : Content[k] = buffer[At(out + (k - 1))]
<1>1. kfifo_len \in 0..Size /\ out \in Int /\ buffer \in [0..Size - 1 -> Byte]
  BY LenFacts DEF TypeOK, Counters
<1>2. \A k \in 1..kfifo_len : At(out + k - 1) \in 0..Size - 1
  BY <1>1, SizeFacts, ModRange DEF At
<1> DEFINE n == kfifo_len
<1> HIDE DEF n
<1>3. [k \in 1..n |-> buffer[At(out + k - 1)]] \in [1..n -> Byte]
  BY <1>1, <1>2 DEF n
<1>4. Content = [k \in 1..n |-> buffer[At(out + k - 1)]]
  BY DEF Content, n
<1>5. Content \in [1..n -> Byte]
  BY <1>3, <1>4
<1>6. Content \in Seq(Byte) /\ Len(Content) = n
  BY <1>1, <1>5 DEF n
<1>7. \A k \in 1..n : Content[k] = buffer[At(out + (k - 1))]
  <2> SUFFICES ASSUME NEW k \in 1..n PROVE Content[k] = buffer[At(out + (k - 1))]
    OBVIOUS
  <2>1. out + k - 1 = out + (k - 1)
    BY <1>1 DEF n
  <2> QED
    BY <1>4, <2>1
<1> QED
  BY <1>1, <1>5, <1>6, <1>7 DEF n

\* The two copies of a get are the oldest bytes of the queue.
LEMMA CopiedIs ==
    ASSUME TypeOK, NEW n \in Nat
    PROVE  LET len == Smaller(n, kfifo_len) IN
           /\ len \in 0..kfifo_len
           /\ Copied(n) = SubSeq(Content, 1, len)
           /\ Copied(n) \in BoundedSeq(Byte, Size)
<1> DEFINE len == Smaller(n, kfifo_len)
           l == Smaller(len, Size - At(out))
<1>1. /\ kfifo_len \in 0..Size /\ Content \in [1..kfifo_len -> Byte]
      /\ \A k \in 1..kfifo_len : Content[k] = buffer[At(out + (k - 1))]
  BY ContentIs
<1>2. len \in 0..kfifo_len
  BY <1>1 DEF Smaller
<1>3. out \in 0..Wrap - 1 /\ Size \in Nat \ {0} /\ At(out) \in 0..Size - 1
  <2>1. 0 \in 0..Size - 1
    BY SizeFacts
  <2> QED
    BY <2>1, SizeFacts, AtWalk DEF TypeOK
<1>4. Copied(n) = [k \in 1..len |-> IF k <= l THEN buffer[At(out) + k - 1] ELSE buffer[k - l - 1]]
  BY DEF Copied
<1> HIDE DEF len
<1>5. ASSUME NEW k \in 1..len
      PROVE  Content[k] = IF k <= l THEN buffer[At(out) + k - 1] ELSE buffer[k - l - 1]
  <2>1. k - 1 \in 0..Size - 1 /\ k \in 1..kfifo_len
    BY <1>1, <1>2, <1>3
  <2>2. At(out + (k - 1)) = IF k - 1 < Size - At(out) THEN At(out) + (k - 1)
                            ELSE At(out) + (k - 1) - Size
    BY <1>3, <2>1, AtWalk
  <2>3. CASE k <= l
    <3>1. k - 1 < Size - At(out) /\ At(out) + (k - 1) = At(out) + k - 1
      BY <1>1, <1>2, <1>3, <2>3 DEF Smaller
    <3> QED
      BY <1>1, <2>1, <2>2, <2>3, <3>1
  <2>4. CASE ~(k <= l)
    <3>1. l = Size - At(out) /\ ~(k - 1 < Size - At(out))
      BY <1>1, <1>2, <1>3, <2>4 DEF Smaller
    <3>2. At(out) + (k - 1) - Size = k - l - 1
      BY <1>3, <3>1
    <3> QED
      BY <1>1, <2>1, <2>2, <2>4, <3>1, <3>2
  <2> QED
    BY <2>3, <2>4
<1>6. SubSeq(Content, 1, len) = [k \in 1 .. len |-> Content[k]]
  <2>1. len - 1 + 1 = len /\ \A k \in 1..len : 1 + k - 1 = k
    BY <1>1, <1>2
  <2>2. SubSeq(Content, 1, len) = [k \in 1 .. len - 1 + 1 |-> Content[1 + k - 1]]
    BY <1>1, <1>2, SubSeqIs
  <2> QED
    BY <2>1, <2>2
<1>7. Copied(n) = [k \in 1..len |-> Content[k]]
  BY <1>4, <1>5
<1>8. Copied(n) \in [1..len -> Byte] /\ len \in 0..Size
  <2>1. \A k \in 1..len : k \in 1..kfifo_len
    BY <1>1, <1>2, <1>3
  <2>2. \A k \in 1..len : Content[k] \in Byte
    BY <1>1, <2>1
  <2> QED
    BY <1>1, <1>2, <1>3, <1>7, <2>2
<1>9. Copied(n) \in BoundedSeq(Byte, Size)
  BY <1>3, <1>8, BoundedSeqIs
<1> QED
  BY <1>2, <1>6, <1>7, <1>9 DEF len

\* The two copies of a put fill the positions behind the queue with the block
\* and leave the queue alone.
LEMMA PutShape ==
    ASSUME TypeOK, NEW b \in Nat, NEW block \in [1..b -> Byte], Put(block)
    PROVE  LET len == Smaller(b, kfifo_left) IN
           /\ len \in 0..b /\ kfifo_len + len <= Size
           /\ len = Smaller(b, Size - kfifo_len)
           /\ in' = (in + len) % Wrap
           /\ buffer' \in [0..Size - 1 -> Byte]
           /\ \A j \in 0..len - 1 : buffer'[At(in + j)] = block[j + 1]
           /\ \A k \in 0..kfifo_len - 1 : buffer'[At(out + k)] = buffer[At(out + k)]
<1> DEFINE len == Smaller(b, kfifo_left)
           l == Smaller(len, Size - At(in))
<1>1. /\ kfifo_len \in 0..Size /\ kfifo_left = Size - kfifo_len
      /\ \A j \in Int : At(in + j) = At(out + kfifo_len + j)
  BY LenFacts DEF TypeOK, Counters
<1>2. Len(block) = b
  OBVIOUS
<1>3. len \in 0..b /\ kfifo_len + len <= Size /\ len = Smaller(b, Size - kfifo_len)
  BY <1>1, SizeFacts DEF Smaller
<1>4. /\ in \in 0..Wrap - 1 /\ out \in 0..Wrap - 1 /\ buffer \in [0..Size - 1 -> Byte]
      /\ Size \in Nat \ {0} /\ At(in) \in 0..Size - 1
  <2>1. 0 \in 0..Size - 1
    BY SizeFacts
  <2> QED
    BY <2>1, SizeFacts, AtWalk DEF TypeOK
<1>5. /\ in' = (in + len) % Wrap
      /\ buffer' = [i \in 0..Size - 1 |->
              CASE i \in At(in) .. At(in) + l - 1 -> block[i - At(in) + 1]
                [] i \in 0 .. len - l - 1 -> block[i + l + 1]
                [] OTHER -> buffer[i]]
  BY <1>2 DEF Put
<1> HIDE DEF len
<1>6. /\ l \in 0..len /\ At(in) + l <= Size
      /\ len - l <= At(in) /\ (l < len => l = Size - At(in))
  BY <1>1, <1>3, <1>4 DEF Smaller
<1> HIDE DEF l
<1>7. ASSUME NEW i \in 0..Size - 1
      PROVE  /\ i \in At(in) .. At(in) + l - 1 => buffer'[i] = block[i - At(in) + 1]
             /\ i \in 0 .. len - l - 1 => buffer'[i] = block[i + l + 1]
             /\ i \notin At(in) .. At(in) + l - 1 /\ i \notin 0 .. len - l - 1
                  => buffer'[i] = buffer[i]
  <2>1. ~(i \in At(in) .. At(in) + l - 1 /\ i \in 0 .. len - l - 1)
    BY <1>3, <1>4, <1>6
  <2> QED
    BY <1>5, <2>1
<1>8. buffer' \in [0..Size - 1 -> Byte]
  <2>1. ASSUME NEW i \in 0..Size - 1 PROVE buffer'[i] \in Byte
    <3>1. CASE i \in At(in) .. At(in) + l - 1
      <4>1. i - At(in) + 1 \in 1..b
        BY <1>3, <1>4, <1>6, <3>1, SMTT(30)
      <4> QED
        BY <1>7, <3>1, <4>1
    <3>2. CASE i \in 0 .. len - l - 1
      <4>1. i + l + 1 \in 1..b
        BY <1>3, <1>4, <1>6, <3>2
      <4> QED
        BY <1>7, <3>2, <4>1
    <3>3. CASE i \notin At(in) .. At(in) + l - 1 /\ i \notin 0 .. len - l - 1
      BY <1>4, <1>7, <3>3
    <3> QED
      BY <3>1, <3>2, <3>3
  <2>2. \E f : buffer' = [i \in 0..Size - 1 |-> f[i]]
    <3>1. buffer' = [i \in 0..Size - 1 |-> buffer'[i]]
      BY <1>5
    <3> QED
      BY <3>1
  <2> QED
    BY <2>1, <2>2
<1>9. ASSUME NEW j \in 0..len - 1 PROVE buffer'[At(in + j)] = block[j + 1]
  <2>1. j \in 0..Size - 1
    BY <1>1, <1>3, <1>4
  <2>2. At(in + j) = IF j < Size - At(in) THEN At(in) + j ELSE At(in) + j - Size
    BY <1>4, <2>1, AtWalk
  <2>3. CASE j < l
    <3>1. At(in + j) = At(in) + j /\ At(in) + j \in At(in) .. At(in) + l - 1
      BY <1>4, <1>6, <2>1, <2>2, <2>3
    <3>2. At(in) + j \in 0..Size - 1 
      BY <1>4, <1>6, <2>1, <2>3
    <3> DEFINE i == At(in) + j
    <3>a. At(in) \in Int /\ j \in Int
      BY <1>4
    <3>b. i - At(in) + 1 = j + 1
      BY <3>a
    <3>3. /\ i \in 0..Size - 1 /\ i \in At(in) .. At(in) + l - 1
          /\ i - At(in) + 1 = j + 1 /\ At(in + j) = i
      BY <3>1, <3>2, <3>b
    <3> HIDE DEF i
    <3>4. buffer'[i] = block[i - At(in) + 1]
      BY <1>7, <3>3
    <3> QED
      BY <3>3, <3>4
  <2>4. CASE ~(j < l)
    <3>0. j >= l /\ l < len /\ j < len /\ len \in Nat /\ l \in Nat
      BY <1>3, <1>6, <2>1, <2>4
    <3>1. l = Size - At(in)
      BY <1>6, <3>0
    <3>2. At(in + j) = j - l /\ j - l \in 0 .. len - l - 1
      BY <1>4, <2>1, <2>2, <3>0, <3>1, SMTT(30)
    <3>3. j - l \in 0..Size - 1 /\ j - l + l + 1 = j + 1
      BY <1>3, <1>4, <1>6, <2>1, <3>2
    <3> QED
      BY <1>7, <3>2, <3>3
  <2> QED
    BY <2>3, <2>4
<1>10. ASSUME NEW k \in 0..kfifo_len - 1 PROVE buffer'[At(out + k)] = buffer[At(out + k)]
  <2> DEFINE i == At(out + k)
  <2>1. i \in 0..Size - 1
    BY <1>1, <1>4, ModRange DEF At
  <2>2. ASSUME NEW j \in 0..len - 1 PROVE At(in + j) # i
    <3>1. At(in + j) = At(out + kfifo_len + j)
      BY <1>1
    <3>2. /\ out + k \in Int /\ out + kfifo_len + j \in Int
          /\ out + k < out + kfifo_len + j /\ out + kfifo_len + j < out + k + Size
      BY <1>1, <1>3, <1>4
    <3>3. (out + k) % Size # (out + kfifo_len + j) % Size
      BY <1>4, <3>2, ModDistinct
    <3> QED
      BY <3>1, <3>3 DEF At
  <2> HIDE DEF i
  <2>3. ASSUME i \in At(in) .. At(in) + l - 1 PROVE FALSE
    <3> DEFINE j == i - At(in)
    <3>1. j \in 0..len - 1 /\ j \in 0..Size - 1 /\ j < Size - At(in)
      BY <1>3, <1>4, <1>6, <2>1, <2>3, SMTT(30)
    <3>2. At(in + j) = At(in) + j
      BY <1>4, <3>1, AtWalk
    <3>3. At(in) + j = i
      BY <1>4, <2>1
    <3> HIDE DEF j
    <3> QED
      BY <2>2, <3>1, <3>2, <3>3
  <2>4. ASSUME i \in 0 .. len - l - 1 PROVE FALSE
    <3> DEFINE j == i + l
    <3>n. len \in Nat /\ len <= Size /\ l \in Nat
      BY <1>1, <1>3, <1>4, <1>6
    <3>0. /\ l < len /\ len \in Nat /\ l \in Nat /\ len <= Size
          /\ i \in Nat /\ i < len - l
      BY <2>4, <3>n
    <3>l. l = Size - At(in)
      BY <1>6, <3>0
    <3>1. j \in 0..len - 1 /\ j \in 0..Size - 1 /\ ~(j < Size - At(in))
      BY <1>4, <3>0, <3>l, SMTT(30)
    <3>2. At(in + j) = At(in) + j - Size
      BY <1>4, <3>1, AtWalk
    <3>a. At(in) \in Int /\ Size \in Int
      BY <1>4
    <3>3. At(in) + j - Size = i
      BY <3>0, <3>a, <3>l, SMTT(30)
    <3> HIDE DEF j
    <3> QED
      BY <2>2, <3>1, <3>2, <3>3
  <2> QED
    BY <1>7, <2>1, <2>3, <2>4 DEF i
<1> QED
  BY <1>3, <1>5, <1>8, <1>9, <1>10 DEF len

\* Moving the reader's counter takes the oldest bytes from the queue.
LEMMA TakeStep ==
    ASSUME TypeOK, NEW n \in 0..kfifo_len,
           UNCHANGED <<buffer, in>>, out' = (out + n) % Wrap
    PROVE  /\ out' \in 0..Wrap - 1 /\ kfifo_len' = kfifo_len - n
           /\ Content' = SubSeq(Content, n + 1, Len(Content))
<1> DEFINE L == kfifo_len
<1>1. /\ L \in 0..Size /\ Content \in [1..L -> Byte] /\ Len(Content) = L
      /\ \A k \in 1..L : Content[k] = buffer[At(out + (k - 1))]
  BY ContentIs
<1>2. /\ Counters /\ in \in 0..Wrap - 1 /\ out \in Int /\ Size \in Nat /\ Wrap \in Nat \ {0}
  BY SizeFacts DEF TypeOK, Counters
<1>3. (in + 0) % Wrap = in
  BY <1>2, ModSmall
<1>4. out' \in 0..Wrap - 1 /\ kfifo_len' = L - n
  <2>1. n \in Nat /\ n <= L + 0 /\ L + 0 - n <= Size /\ L + 0 - n = L - n
    BY <1>1, <1>2
  <2>2. /\ (out + n) % Wrap \in 0..Wrap - 1
        /\ (((in + 0) % Wrap) - ((out + n) % Wrap)) % Wrap = L + 0 - n
    BY <1>2, <2>1, LenMoves
  <2> QED
    BY <1>3, <2>1, <2>2 DEF kfifo_len
<1>5. Content' = [k \in 1..kfifo_len' |-> buffer'[At(out' + k - 1)]]
  BY DEF Content, kfifo_len, At
<1> HIDE DEF L
<1>6. ASSUME NEW k \in 1..L - n PROVE buffer'[At(out' + k - 1)] = Content[n + 1 + k - 1]
  <2>0. k - 1 \in Int /\ out + n \in Int /\ out' \in Int /\ n + k \in 1..L
    BY <1>1, <1>2, <1>4 DEF L
  <2>1. At(((out + n) % Wrap) + (k - 1)) = At((out + n) + (k - 1))
    BY <2>0, AtOfWrapped
  <2>2. out' + k - 1 = out' + (k - 1) /\ (out + n) + (k - 1) = out + ((n + k) - 1)
    BY <1>1, <1>2, <2>0 DEF L
  <2>3. Content[n + k] = buffer[At(out + ((n + k) - 1))]
    BY <1>1, <2>0
  <2>4. n + 1 + k - 1 = n + k
    BY <1>1, <2>0 DEF L
  <2> QED
    BY <2>1, <2>2, <2>3, <2>4
<1>7. SubSeq(Content, n + 1, L) = [k \in 1..L - n |-> Content[n + 1 + k - 1]]
  <2>1. n + 1 \in Nat /\ n + 1 >= 1 /\ n + 1 <= L + 1 /\ L - (n + 1) + 1 = L - n /\ L \in Nat
    BY <1>1 DEF L
  <2>2. SubSeq(Content, n + 1, L) = [k \in 1..L - (n + 1) + 1 |-> Content[n + 1 + k - 1]]
    BY <1>1, <2>1, SubSeqIs
  <2> QED
    BY <2>1, <2>2
<1> QED
  BY <1>1, <1>4, <1>5, <1>6, <1>7 DEF L

LEMMA GetStep ==
    ASSUME TypeOK, NEW n \in Nat, Get(n) PROVE TypeOK' /\ Queue!Get(n)
<1> DEFINE len == Smaller(n, kfifo_len)
<1>1. /\ len \in 0..kfifo_len /\ Copied(n) = SubSeq(Content, 1, len)
      /\ Copied(n) \in BoundedSeq(Byte, Size)
  BY CopiedIs
<1>2. kfifo_len \in 0..Size /\ Len(Content) = kfifo_len /\ Size \in Nat
  BY ContentIs, SizeFacts
<1>3. len = IF n <= Len(Content) THEN n ELSE Len(Content)
  BY <1>2 DEF Smaller
<1>4. /\ out' \in 0..Wrap - 1 /\ kfifo_len' = kfifo_len - len
      /\ Content' = SubSeq(Content, len + 1, Len(Content))
  BY <1>1, TakeStep DEF Get
<1>5. TypeOK'
  <2> HIDE DEF len
  <2>1. kfifo_len' <= Size
    BY <1>1, <1>2, <1>4
  <2> QED
    BY <1>1, <1>4, <2>1 DEF TypeOK, Get
<1>6. Queue!Get(n)
  BY <1>1, <1>3, <1>4 DEF Get, Queue!Get, Queue!Held
<1> QED
  BY <1>5, <1>6

LEMMA Get2Step ==
    ASSUME TypeOK, NEW n \in Nat, Get2(n) PROVE TypeOK' /\ Queue!Get2(n)
<1> DEFINE len == Smaller(n, kfifo_len)
<1>1. /\ Copied(n) = SubSeq(Content, 1, len)
      /\ Copied(n) \in BoundedSeq(Byte, Size)
  BY CopiedIs
<1>2. kfifo_len \in 0..Size /\ Len(Content) = kfifo_len
  BY ContentIs
<1>3. len = IF n <= Len(Content) THEN n ELSE Len(Content)
  BY <1>2, SizeFacts DEF Smaller
<1>4. Content' = Content /\ kfifo_len' = kfifo_len
  BY DEF Get2, Content, kfifo_len
<1>5. TypeOK'
  BY <1>1, <1>4 DEF TypeOK, Get2
<1>6. Queue!Get2(n)
  BY <1>1, <1>3, <1>4 DEF Get2, Queue!Get2, Queue!Held
<1> QED
  BY <1>5, <1>6

LEMMA SkipStep ==
    ASSUME TypeOK, NEW n \in Nat, Skip(n) PROVE TypeOK' /\ Queue!Skip(n)
<1>1. kfifo_len \in 0..Size /\ Len(Content) = kfifo_len /\ Size \in Nat
  BY ContentIs, SizeFacts
<1>2. n \in 0..kfifo_len
  BY <1>1 DEF Skip
<1>3. /\ out' \in 0..Wrap - 1 /\ kfifo_len' = kfifo_len - n
      /\ Content' = SubSeq(Content, n + 1, Len(Content))
  BY <1>2, TakeStep DEF Skip
<1>4. kfifo_len' <= Size
  BY <1>1, <1>2, <1>3
<1>5. TypeOK'
  BY <1>3, <1>4 DEF TypeOK, Skip
<1>6. Queue!Skip(n)
  BY <1>1, <1>3 DEF Skip, Queue!Skip
<1> QED
  BY <1>5, <1>6

LEMMA EmptyRing ==
    ASSUME in = out, in \in Nat PROVE kfifo_len = 0 /\ Content = <<>>
<1>1. in - out = 0 /\ 0 \in 0..Wrap - 1
  BY SizeFacts
<1>2. kfifo_len = 0
  BY <1>1, SizeFacts, ModSmall DEF kfifo_len
<1>3. Content = [k \in 1..0 |-> buffer[At(out + k - 1)]]
  BY <1>2 DEF Content
<1> QED
  BY <1>2, <1>3

LEMMA ResetStep ==
    ASSUME TypeOK, Reset PROVE TypeOK' /\ Queue!Reset
<1>1. kfifo_len' = 0 /\ Content' = <<>>
  <2>1. in' = 0 /\ out' = 0
    BY DEF Reset
  <2>2. (in' - out') = 0
    BY <2>1
  <2>n. 0 \in 0..Wrap - 1
    BY SizeFacts
  <2>3. kfifo_len' = 0
    BY <2>2, <2>n, SizeFacts, ModSmall DEF kfifo_len
  <2>4. Content' = [k \in 1..0 |-> buffer'[At(out' + k - 1)]]
    BY <2>3 DEF Content, At
  <2> QED
    BY <2>3, <2>4
<1>2. 0 \in 0..Wrap - 1 /\ 0 <= Size
  BY SizeFacts
<1>3. TypeOK'
  BY <1>1, <1>2 DEF TypeOK, Reset
<1>4. Queue!Reset
  BY <1>1 DEF Reset, Queue!Reset
<1> QED
  BY <1>3, <1>4

\* A block goes behind the queue, as much of it as there is room for.
LEMMA PutStep ==
    ASSUME TypeOK, NEW b \in Nat, NEW block \in [1..b -> Byte], Put(block)
    PROVE  TypeOK' /\ Queue!Put(block)
<1> DEFINE len == Smaller(b, kfifo_left)
           L == kfifo_len
<1>1. /\ len \in 0..b /\ L + len <= Size
      /\ len = Smaller(b, Size - L)
      /\ in' = (in + len) % Wrap
      /\ buffer' \in [0..Size - 1 -> Byte]
      /\ \A j \in 0..len - 1 : buffer'[At(in + j)] = block[j + 1]
      /\ \A k \in 0..L - 1 : buffer'[At(out + k)] = buffer[At(out + k)]
  BY PutShape
<1>2. /\ L \in 0..Size /\ Content \in [1..L -> Byte] /\ Len(Content) = L
      /\ Content \in Seq(Byte)
      /\ \A k \in 1..L : Content[k] = buffer[At(out + (k - 1))]
  BY ContentIs
<1>3. /\ Counters /\ in \in 0..Wrap - 1 /\ out \in 0..Wrap - 1
      /\ Size \in Nat /\ Wrap \in Nat \ {0}
      /\ out' = out /\ call' = "put" /\ read' = read
  BY SizeFacts DEF TypeOK, Counters, Put
<1> HIDE DEF len
<1>4. in' \in 0..Wrap - 1 /\ kfifo_len' = L + len
  <2>1. len \in Nat /\ 0 <= L + len /\ L + len - 0 <= Size /\ L + len - 0 = L + len
    BY <1>1, <1>2
  <2>2. /\ (in + len) % Wrap \in 0..Wrap - 1
        /\ (((in + len) % Wrap) - ((out + 0) % Wrap)) % Wrap = L + len - 0
    BY <1>3, <2>1, LenMoves
  <2>3. (out + 0) % Wrap = out
    BY <1>3, ModSmall
  <2> QED
    BY <1>1, <1>3, <2>1, <2>2, <2>3 DEF kfifo_len
<1>5. TypeOK'
  BY <1>1, <1>3, <1>4 DEF TypeOK
<1>6. Content' = [k \in 1..kfifo_len' |-> buffer'[At(out + k - 1)]]
  BY <1>3 DEF Content, At
<1>i. \A j \in Int : At(in + j) = At(out + L + j)
  BY <1>3, LenFacts
<1> HIDE DEF L
<1> DEFINE part == SubSeq(block, 1, len)
<1>7. part \in Seq(Byte) /\ Len(part) = len /\ \A k \in 1..len : part[k] = block[k]
  <2>1. /\ len \in Nat /\ len <= b /\ 1 <= len + 1 /\ len - 1 + 1 = len
        /\ \A k \in 1..len : 1 + k - 1 = k
    BY <1>1
  <2>2. part = [k \in 1..len - 1 + 1 |-> block[1 + k - 1]]
    BY <2>1, SubSeqIs
  <2>3. part = [k \in 1..len |-> block[k]]
    BY <2>1, <2>2
  <2>4. \A k \in 1..len : block[k] \in Byte
    BY <1>1
  <2> QED
    BY <2>1, <2>3, <2>4
<1> HIDE DEF part
<1>8. /\ Content \o part \in Seq(Byte) /\ Len(Content \o part) = L + len
      /\ \A k \in 1..L : (Content \o part)[k] = Content[k]
      /\ \A k \in 1..len : (Content \o part)[L + k] = part[k]
  <2>1. L \in Nat /\ len \in Nat
    BY <1>1, <1>2
  <2>2. /\ Content \o part \in Seq(Byte) /\ Len(Content \o part) = L + len
        /\ \A k \in 1..L + len :
              (Content \o part)[k] = IF k <= L THEN Content[k] ELSE part[k - L]
    BY <1>2, <1>7, ConcatProperties
  <2>3. ASSUME NEW k \in 1..L PROVE (Content \o part)[k] = Content[k]
    BY <2>1, <2>2
  <2>4. ASSUME NEW k \in 1..len PROVE (Content \o part)[L + k] = part[k]
    <3>1. L + k \in 1..L + len /\ ~(L + k <= L) /\ (L + k) - L = k
      BY <2>1
    <3> QED
      BY <2>2, <3>1
  <2> QED
    BY <2>2, <2>3, <2>4
<1>9. ASSUME NEW k \in 1..L + len
      PROVE  buffer'[At(out + k - 1)] = (Content \o part)[k]
  <2>0. out + k - 1 = out + (k - 1) /\ L \in Nat /\ len \in Nat
    BY <1>1, <1>2, <1>3
  <2>1. CASE k <= L
    <3>1. k - 1 \in 0..L - 1 /\ k \in 1..L
      BY <2>0, <2>1
    <3> QED
      BY <1>1, <1>2, <1>8, <2>0, <3>1 DEF L
  <2>2. CASE k > L
    <3> DEFINE j == k - 1 - L
    <3>1. j \in 0..len - 1 /\ j + 1 \in 1..len /\ L + (j + 1) = k /\ out + L + j = out + (k - 1)
      BY <1>3, <2>0, <2>2
    <3> HIDE DEF j
    <3>2. At(in + j) = At(out + (k - 1))
      BY <1>i, <3>1
    <3>3. buffer'[At(in + j)] = block[j + 1]
      BY <1>1, <3>1
    <3>4. (Content \o part)[L + (j + 1)] = part[j + 1] /\ part[j + 1] = block[j + 1]
      BY <1>7, <1>8, <3>1
    <3> QED
      BY <2>0, <3>1, <3>2, <3>3, <3>4
  <2>3. k <= L \/ k > L
    BY <2>0
  <2> QED
    BY <2>1, <2>2, <2>3
<1>10. Content' = Content \o part
  <2>1. Content' = [k \in 1..L + len |-> (Content \o part)[k]]
    BY <1>4, <1>6, <1>9
  <2>2. Content \o part = [k \in 1..L + len |-> (Content \o part)[k]]
    BY <1>8, SeqIsFunction
  <2> QED
    BY <2>1, <2>2
<1>11. Queue!Fitting(Len(block)) = len
  <2>1. Len(block) = b
    BY <1>1
  <2> QED
    BY <1>1, <1>2, <1>3, <2>1 DEF Queue!Fitting, Smaller
<1>12. Queue!Put(block)
  BY <1>3, <1>10, <1>11 DEF Queue!Put, part
<1> QED
  BY <1>5, <1>12

-----------------------------------------------------------------------------

LEMMA RingInit == Init => TypeOK /\ Queue!Init
<1> SUFFICES ASSUME Init PROVE TypeOK /\ Queue!Init
  OBVIOUS
<1>1. in \in 0..Wrap - 1 /\ in = out /\ in \in Nat
  BY SizeFacts, KFifoAssumption DEF Init, KFifoAssumption
<1>2. kfifo_len = 0 /\ Content = <<>>
  BY <1>1, EmptyRing
<1>3. buffer \in [0..Size - 1 -> Byte]
  BY DEF Init
<1>4. read \in BoundedSeq(Byte, Size)
  <2>1. 0 \in 0..Size /\ Size \in Nat
    BY SizeFacts
  <2>2. <<>> \in [1..0 -> Byte]
    OBVIOUS
  <2> QED
    BY <2>1, <2>2, BoundedSeqIs DEF Init
<1>5. TypeOK
  BY <1>1, <1>2, <1>3, <1>4, SizeFacts DEF TypeOK
<1>6. Queue!Init
  BY <1>2 DEF Init, Queue!Init
<1> QED
  BY <1>5, <1>6

LEMMA RingStep ==
    ASSUME TypeOK, [Next]_vars
    PROVE  TypeOK' /\ [Queue!Next]_<<Content, call, read>>
<1>s. Size \in Nat
  BY SizeFacts
<1>1. ASSUME NEW block \in BoundedSeq(Byte, Size + 1), Put(block)
      PROVE  TypeOK' /\ Queue!Next
  <2>1. PICK b \in 0..Size + 1 : block \in [1..b -> Byte]
    BY <1>s, BoundedSeqIs
  <2>2. TypeOK' /\ Queue!Put(block)
    BY <1>1, <2>1, PutStep
  <2> QED
    <3>1. \E x \in Queue!BoundedSeq(Byte, Size + 1) : Queue!Put(x)
      BY <2>2 DEF BoundedSeq, SeqOf, Queue!BoundedSeq, Queue!SeqOf
    <3> QED
      BY <2>2, <3>1 DEF Queue!Next
<1>2. ASSUME NEW n \in 0..Size + 1, Get(n) \/ Get2(n) \/ Skip(n)
      PROVE  TypeOK' /\ Queue!Next
  <2>1. n \in Nat
    BY <1>s
  <2>2. TypeOK' /\ (Queue!Get(n) \/ Queue!Get2(n) \/ Queue!Skip(n))
    BY <1>2, <2>1, GetStep, Get2Step, SkipStep
  <2> QED
    BY <2>2 DEF Queue!Next
<1>3. ASSUME Reset PROVE TypeOK' /\ Queue!Next
  BY <1>3, ResetStep DEF Queue!Next
<1>4. ASSUME UNCHANGED vars PROVE TypeOK' /\ UNCHANGED <<Content, call, read>>
  BY <1>4 DEF vars, TypeOK, Content, kfifo_len, At
<1> QED
  BY <1>1, <1>2, <1>3, <1>4 DEF Next

\* The counters stay below the wrap and never more than the buffer apart.
THEOREM RingTypeCorrect == Spec => []TypeOK
<1>1. Init => TypeOK
  BY RingInit
<1>2. TypeOK /\ [Next]_vars => TypeOK'
  BY RingStep
<1> QED
  BY <1>1, <1>2, PTL DEF Spec

\* kfifo is a bounded queue of bytes: whatever the size of its buffer, and at
\* every value of its counters, across the wrap of either of them, a put
\* appends what fits, and a get returns the oldest bytes in their order.
THEOREM RingIsByteQueue == Spec => IsByteQueue
<1>1. Init => Queue!Init
  BY RingInit
<1>2. TypeOK /\ [Next]_vars => [Queue!Next]_<<Content, call, read>>
  BY RingStep
<1> QED
  BY <1>1, <1>2, RingTypeCorrect, PTL DEF Spec, IsByteQueue, Queue!Spec
=============================================================================
