----------------------------- MODULE IngestProofs ------------------------------
(***************************************************************************)
(* Proofs about Ingest, for any number of ports and other sources, any     *)
(* lengths of frames and messages, any fifo and any number of bytes.       *)
(***************************************************************************)
EXTENDS Ingest, SequenceTheorems, TLAPS

-----------------------------------------------------------------------------
(* Numbers.                                                                 *)

Number == Nat \ {0}

LEMMA Bounds ==
    /\ Ports \in Seq(Port) /\ Len(Ports) \in Nat \ {0} /\ Port \subseteq Source
    /\ ReadSizes \subseteq Nat \ {0}
    /\ {MaxLogLen, DataLen, Slots, MaxId} \subseteq Nat \ {0}
    /\ FirstIds \subseteq 0 .. MaxId
    /\ \A s \in Source : s \notin Port => s \in Pushers
    /\ Port \cap Pushers = {}
<1>1. Ports \in Seq(Port) /\ Ports # <<>> /\ Port \cap Pushers = {}
      /\ ReadSizes \subseteq 1 .. MaxLogLen - 1
      /\ {MaxLogLen, DataLen, Slots, MaxId} \subseteq Nat \ {0}
      /\ FirstIds \subseteq 0 .. MaxId
  BY IngestAssumption DEF IngestAssumption
<1>2. Len(Ports) \in Nat \ {0}
  BY <1>1
<1>3. ReadSizes \subseteq Nat \ {0}
  BY <1>1
<1> QED
  BY <1>1, <1>2, <1>3 DEF Source

LEMMA CurIsPort == ASSUME turn \in 1 .. Len(Ports) PROVE Cur \in Port /\ Cur \in Source
BY Bounds DEF Cur

LEMMA NextIdRange == ASSUME NEW i \in 0 .. MaxId PROVE NextId(i) \in 1 .. MaxId
<1>1. MaxId \in Nat \ {0}
  BY Bounds
<1> QED
  BY <1>1 DEF NextId

LEMMA QuotientIs ==
    ASSUME NEW a \in Nat, NEW d \in Nat \ {0}
    PROVE  a \div d \in Nat /\ d * (a \div d) <= a /\ a < d * ((a \div d) + 1)
OBVIOUS

\* Counting on from k places: the place i > k is the (i - k)-th of what follows.
LEMMA BeyondIs ==
    ASSUME NEW k \in Nat, NEW f \in Nat, NEW i \in 1 .. k + f, i > k
    PROVE  i - k \in 1 .. f /\ i = k + (i - k)
OBVIOUS

LEMMA TimesIs ==
    ASSUME NEW d \in Nat \ {0}, NEW x \in Int, NEW y \in Int, d * x < d * y PROVE x < y
OBVIOUS

\* Which part of a frame begins at an offset, and which one is the last.
LEMMA PartsAre ==
    ASSUME NEW frame \in Seq(Number), NEW k \in Nat, k * DataLen < Len(frame)
    PROVE  /\ PartCount(frame) \in Nat /\ k < PartCount(frame)
           /\ k < PartCount(frame) - 1 <=> k * DataLen + DataLen < Len(frame)
<1>1. PICK d \in Nat \ {0} : d = DataLen
  BY Bounds
<1>2. PICK l \in Nat : l = Len(frame)
  OBVIOUS
<1>3. PICK c \in Nat : c = PartCount(frame) /\ d * c <= l + d - 1 /\ l + d - 1 < d * (c + 1)
  <2>1. l + d - 1 \in Nat
    OBVIOUS
  <2> QED
    BY <1>1, <1>2, <2>1, QuotientIs DEF PartCount
<1>4. k * d = d * k /\ d * (k + 1) = d * k + d /\ d * (k + 2) = d * k + d + d
      /\ d * (c + 1) = d * c + d
  OBVIOUS
<1>5. d * k < l
  BY <1>1, <1>2, <1>4
<1>6. k < c
  <2>1. d * (k + 1) < d * (c + 1)
    BY <1>3, <1>4, <1>5
  <2>2. k + 1 < c + 1
    BY <2>1, TimesIs
  <2> QED
    BY <2>2
<1>7. ASSUME k < c - 1 PROVE d * k + d < l
  <2>1. k + 2 <= c
    BY <1>7
  <2>2. d * (k + 2) <= d * c
    <3>1. ~(d * c < d * (k + 2))
      BY <2>1, TimesIs
    <3> QED
      BY <3>1
  <2> QED
    BY <1>3, <1>4, <2>2
<1>8. ASSUME d * k + d < l PROVE k < c - 1
  <2>1. d * (k + 2) < d * (c + 1)
    BY <1>3, <1>4, <1>8
  <2>2. k + 2 < c + 1
    BY <2>1, TimesIs
  <2> QED
    BY <2>2
<1> QED
  BY <1>1, <1>2, <1>3, <1>4, <1>6, <1>7, <1>8

-----------------------------------------------------------------------------
(* Sequences and messages.                                                  *)

LEMMA ConcatIs ==
    ASSUME NEW S, NEW q \in Seq(S), NEW r \in Seq(S)
    PROVE  /\ q \o r \in Seq(S) /\ Len(q \o r) = Len(q) + Len(r)
           /\ \A i \in 1 .. Len(q) : (q \o r)[i] = q[i]
           /\ \A i \in 1 .. Len(r) : (q \o r)[Len(q) + i] = r[i]
           /\ Len(q) \in Nat /\ Len(r) \in Nat
OBVIOUS

LEMMA AppendIs ==
    ASSUME NEW S, NEW q \in Seq(S), NEW x \in S
    PROVE  /\ Append(q, x) \in Seq(S) /\ Len(Append(q, x)) = Len(q) + 1 /\ Len(q) \in Nat
           /\ Append(q, x)[Len(q) + 1] = x
           /\ \A i \in 1 .. Len(q) : Append(q, x)[i] = q[i]
OBVIOUS

LEMMA CutIs ==
    ASSUME NEW S, NEW q \in Seq(S), NEW a \in Nat, NEW b \in Nat, a <= b, b <= Len(q)
    PROVE  LET r == SubSeq(q, a + 1, b)
           IN  /\ r \in Seq(S) /\ Len(r) = b - a
               /\ \A i \in 1 .. b - a : r[i] = q[a + i]
OBVIOUS

LEMMA MessageIs ==
    ASSUME NEW m \in Message
    PROVE  /\ m # <<>> /\ m.src \in Source /\ m.id \in 0 .. MaxId /\ m.part \in Nat
           /\ m.parts \in Nat /\ m.frame \in Number /\ m.data \in Seq(Number)
<1>1. DOMAIN m = {"src", "id", "part", "parts", "frame", "data"}
  BY DEF Message
<1>2. m # <<>>
  BY <1>1
<1> QED
  BY <1>2 DEF Message, Number

-----------------------------------------------------------------------------
(* Types.                                                                   *)

RecvTypes ==
    /\ rpc \in {"poll", "read", "append", "push", "flush", "exited"}
    /\ turn \in 1 .. Len(Ports)
    /\ fresh \in Seq(Number) /\ freshZero \in BOOLEAN
    /\ buf \in [Port -> Seq(Number)]
    /\ noise \in [Port -> BOOLEAN] /\ late \in [Port -> BOOLEAN]
    /\ sub \in [off : Nat, id : 0 .. MaxId, part : Nat,
                reason : {"none", "timeout", "max_len", "flush"}]

SharedTypes ==
    /\ wpc \in {"wait", "write", "exited"}
    /\ msg \in Message \cup {<<>>} /\ (wpc = "write" <=> msg # <<>>)
    /\ fifo \in Seq(Message) /\ Len(fifo) <= Slots
    /\ logs \in [Source -> Seq(Message)]
    /\ frameId \in 0 .. MaxId /\ stop \in BOOLEAN
    /\ got \in [Source -> Nat]

LEMMA TypesAre == TypeOK <=> RecvTypes /\ SharedTypes
BY DEF TypeOK, RecvTypes, SharedTypes, Number

Reasons == {"timeout", "max_len", "flush"}

LEMMA NextPortIs ==
    ASSUME turn \in 1 .. Len(Ports), NextPort
    PROVE  turn' \in 1 .. Len(Ports) /\ rpc' \in {"read", "poll"}
BY Bounds DEF NextPort

\* submit_frame returns within the port's turn only after a time-out.
LEMMA AfterSubmitIs ==
    ASSUME turn \in 1 .. Len(Ports), NEW r \in Reasons, AfterSubmit(r)
    PROVE  /\ turn' \in 1 .. Len(Ports)
           /\ rpc' \in {"append", "read", "poll", "flush", "exited"}
           /\ r = "timeout" => rpc' = "append" /\ turn' = turn
<1>1. CASE r = "timeout"
  BY <1>1 DEF AfterSubmit
<1>2. CASE r = "max_len"
  <2>1. NextPort
    BY <1>2 DEF AfterSubmit
  <2> QED
    BY <1>2, <2>1, NextPortIs
<1>3. CASE r = "flush"
  <2>1. IF turn < Len(Ports) THEN turn' = turn + 1 /\ rpc' = "flush"
                             ELSE rpc' = "exited" /\ UNCHANGED turn
    BY <1>3 DEF AfterSubmit
  <2> QED
    BY <1>3, <2>1, Bounds
<1> QED
  BY <1>1, <1>2, <1>3 DEF Reasons

\* What submit_frame does first: it drops a frame of zeros, or begins to queue it.
Dropped(c, frame, r) ==
    /\ lost' = lost \cup BytesOf(c, frame)
    /\ buf' = [buf EXCEPT ![c] = <<>>]
    /\ UNCHANGED <<sub, frameId>>
    /\ rpc' # "push" /\ (r = "timeout" => rpc' = "append" /\ turn' = turn)

Began(c, frame, r) ==
    /\ lost' = lost
    /\ buf' = [buf EXCEPT ![c] = frame]
    /\ rpc' = "push" /\ turn' = turn
    /\ sub' = [off |-> 0, id |-> frameId', part |-> 0, reason |-> r]
    /\ frameId' \in 1 .. MaxId

LEMMA SubmitIs ==
    ASSUME RecvTypes, SharedTypes, NEW frame \in Seq(Number), NEW zero \in BOOLEAN,
           NEW r \in Reasons, Submit(frame, zero, r)
    PROVE  /\ Dropped(Cur, frame, r) \/ Began(Cur, frame, r)
           /\ turn' \in 1 .. Len(Ports)
           /\ rpc' \in {"poll", "read", "append", "push", "flush", "exited"}
           /\ buf' \in [Port -> Seq(Number)] /\ noise' \in [Port -> BOOLEAN]
           /\ sub' \in [off : Nat, id : 0 .. MaxId, part : Nat,
                        reason : {"none", "timeout", "max_len", "flush"}]
           /\ frameId' \in 0 .. MaxId
<1>1. PICK c \in Port : c = Cur
  BY CurIsPort DEF RecvTypes
<1>2. turn \in 1 .. Len(Ports) /\ frameId \in 0 .. MaxId /\ MaxId \in Nat \ {0}
  BY Bounds DEF RecvTypes, SharedTypes
<1>3. CASE zero
  <2>1. /\ lost' = lost \cup BytesOf(Cur, frame)
        /\ ClearFrame /\ AfterSubmit(r) /\ UNCHANGED <<sub, frameId>>
    BY <1>3 DEF Submit
  <2>2. /\ turn' \in 1 .. Len(Ports)
        /\ rpc' \in {"append", "read", "poll", "flush", "exited"}
        /\ r = "timeout" => rpc' = "append" /\ turn' = turn
    BY <1>2, <2>1, AfterSubmitIs
  <2>3. /\ buf' = [buf EXCEPT ![Cur] = <<>>] /\ buf' \in [Port -> Seq(Number)]
        /\ noise' \in [Port -> BOOLEAN]
    BY <1>1, <2>1 DEF ClearFrame, RecvTypes
  <2>4. Dropped(Cur, frame, r)
    BY <2>1, <2>2, <2>3 DEF Dropped
  <2> QED
    BY <1>2, <2>1, <2>2, <2>3, <2>4 DEF RecvTypes
<1>4. CASE ~zero
  <2>1. /\ frameId' = NextId(frameId)
        /\ sub' = [off |-> 0, id |-> frameId', part |-> 0, reason |-> r]
        /\ buf' = [buf EXCEPT ![Cur] = frame]
        /\ noise' = [noise EXCEPT ![Cur] = FALSE]
        /\ rpc' = "push" /\ turn' = turn /\ lost' = lost
    BY <1>4 DEF Submit
  <2>2. frameId' \in 1 .. MaxId
    BY <1>2, <2>1, NextIdRange
  <2>3. buf' \in [Port -> Seq(Number)] /\ noise' \in [Port -> BOOLEAN]
    BY <1>1, <2>1 DEF RecvTypes
  <2>4. Began(Cur, frame, r)
    BY <2>1, <2>2 DEF Began
  <2>5. sub' \in [off : Nat, id : 0 .. MaxId, part : Nat,
                  reason : {"none", "timeout", "max_len", "flush"}]
    BY <1>2, <2>1, <2>2 DEF Reasons
  <2> QED
    BY <1>2, <2>1, <2>2, <2>3, <2>4, <2>5
<1> QED
  BY <1>3, <1>4

\* What process_serial_data does with what was read: besides, it may only add it.
Added(c, frame) ==
    /\ lost' = lost
    /\ buf' = [buf EXCEPT ![c] = frame]
    /\ UNCHANGED <<sub, frameId>> /\ rpc' # "push"

LEMMA AddDataIs ==
    ASSUME RecvTypes, SharedTypes, NEW new \in Seq(Number), NEW zero \in BOOLEAN,
           AddData(new, zero)
    PROVE  /\ \/ Dropped(Cur, buf[Cur] \o new, "max_len")
              \/ Began(Cur, buf[Cur] \o new, "max_len") /\ new # <<>>
              \/ Added(Cur, buf[Cur] \o new)
           /\ turn' \in 1 .. Len(Ports)
           /\ rpc' \in {"poll", "read", "append", "push", "flush", "exited"}
           /\ buf' \in [Port -> Seq(Number)] /\ noise' \in [Port -> BOOLEAN]
           /\ sub' \in [off : Nat, id : 0 .. MaxId, part : Nat,
                        reason : {"none", "timeout", "max_len", "flush"}]
           /\ frameId' \in 0 .. MaxId
           /\ fresh' = <<>> /\ freshZero' = FALSE /\ late' \in [Port -> BOOLEAN]
<1>1. PICK c \in Port : c = Cur
  BY CurIsPort DEF RecvTypes
<1>2. PICK frame \in Seq(Number) : frame = buf[Cur] \o new
  <2>1. buf[Cur] \in Seq(Number)
    BY <1>1 DEF RecvTypes
  <2> QED
    BY <2>1, ConcatIs
<1>3. fresh' = <<>> /\ freshZero' = FALSE /\ late' \in [Port -> BOOLEAN]
  BY <1>1 DEF AddData, RecvTypes
<1>4. (noise[Cur] /\ (new = <<>> \/ zero)) \in BOOLEAN
  OBVIOUS
<1>5. CASE new # <<>> /\ Len(frame) >= MaxLogLen
  <2>1. PICK z \in BOOLEAN : Submit(frame, z, "max_len")
    BY <1>2, <1>4, <1>5 DEF AddData
  <2>2. /\ Dropped(Cur, frame, "max_len") \/ Began(Cur, frame, "max_len")
        /\ turn' \in 1 .. Len(Ports)
        /\ rpc' \in {"poll", "read", "append", "push", "flush", "exited"}
        /\ buf' \in [Port -> Seq(Number)] /\ noise' \in [Port -> BOOLEAN]
        /\ sub' \in [off : Nat, id : 0 .. MaxId, part : Nat,
                     reason : {"none", "timeout", "max_len", "flush"}]
        /\ frameId' \in 0 .. MaxId
    BY <2>1, SubmitIs DEF Reasons
  <2> QED
    BY <1>2, <1>3, <1>5, <2>2
<1>6. CASE ~(new # <<>> /\ Len(frame) >= MaxLogLen)
  <2>1. /\ buf' = [buf EXCEPT ![Cur] = frame]
        /\ noise' = [noise EXCEPT ![Cur] = noise[Cur] /\ (new = <<>> \/ zero)]
        /\ NextPort
        /\ UNCHANGED <<sub, frameId, lost>>
    BY <1>2, <1>6 DEF AddData
  <2>2. turn' \in 1 .. Len(Ports) /\ rpc' \in {"read", "poll"}
    BY <2>1, NextPortIs DEF RecvTypes
  <2>3. buf' \in [Port -> Seq(Number)] /\ noise' \in [Port -> BOOLEAN]
    BY <1>1, <1>4, <2>1 DEF RecvTypes
  <2>4. Added(Cur, frame)
    BY <2>1, <2>2 DEF Added
  <2> QED
    BY <1>2, <1>3, <2>1, <2>2, <2>3, <2>4 DEF RecvTypes, SharedTypes
<1> QED
  BY <1>5, <1>6

-----------------------------------------------------------------------------
(* What a port has delivered and no message holds yet.                      *)

FreshOf(p) == IF p = Cur THEN Len(fresh) ELSE 0
PushedOf(p) == IF rpc = "push" /\ p = Cur THEN sub.off ELSE 0

\* The last bytes of the port, in order, and where they begin.
Tail2(p) ==
    /\ Unqueued(p) \in Seq(Number)
    /\ Handed(p) = got[p] - FreshOf(p) - Len(buf[p]) + PushedOf(p)
    /\ Handed(p) \in Nat /\ Len(Unqueued(p)) = got[p] - Handed(p)
    /\ \A i \in 1 .. Len(Unqueued(p)) : Unqueued(p)[i] = Handed(p) + i

LEMMA HandedIs == RecvTypes /\ SharedTypes /\ BufInv => \A p \in Port : Tail2(p)
<1> SUFFICES ASSUME RecvTypes, SharedTypes, BufInv, NEW p \in Port PROVE Tail2(p)
  OBVIOUS
<1>1. fresh \in Seq(Number) /\ Len(fresh) \in Nat /\ sub.off \in Nat
  BY DEF RecvTypes
<1>2. PICK q \in Seq(Number) : q = buf[p]
  BY DEF RecvTypes
<1>3. PICK g \in Nat : g = got[p]
  BY Bounds DEF SharedTypes
<1>4. PICK l \in Nat : l = Len(q)
  OBVIOUS
<1>5. PICK f \in Nat : f = FreshOf(p)
  BY <1>1 DEF FreshOf
<1>6. PICK o \in Nat : o = PushedOf(p) /\ o <= l
  <2>1. rpc = "push" => sub.off < Len(buf[Cur])
    BY DEF BufInv
  <2> QED
    BY <1>1, <1>2, <1>4, <2>1 DEF PushedOf
<1>7. PICK rest \in Seq(Number) :
         /\ rest = IF rpc = "push" /\ p = Cur THEN SubSeq(buf[p], sub.off + 1, Len(buf[p]))
                                             ELSE buf[p]
         /\ Len(rest) = l - o
         /\ \A i \in 1 .. l - o : rest[i] = q[o + i]
  <2>1. CASE rpc = "push" /\ p = Cur
    <3>1. o = sub.off
      BY <1>6, <2>1 DEF PushedOf
    <3>2. /\ SubSeq(q, o + 1, l) \in Seq(Number) /\ Len(SubSeq(q, o + 1, l)) = l - o
          /\ \A i \in 1 .. l - o : SubSeq(q, o + 1, l)[i] = q[o + i]
      BY <1>4, <1>6, CutIs
    <3> QED
      BY <1>2, <1>4, <2>1, <3>1, <3>2
  <2>2. CASE ~(rpc = "push" /\ p = Cur)
    <3>1. o = 0
      BY <1>6, <2>2 DEF PushedOf
    <3> QED
      BY <1>2, <1>4, <2>2, <3>1
  <2> QED
    BY <2>1, <2>2
<1>8. PICK new \in Seq(Number) :
         /\ new = IF p = Cur THEN fresh ELSE <<>>
         /\ Len(new) = f
         /\ \A i \in 1 .. f : new[i] = g - f + i
  <2>1. CASE p = Cur
    <3>1. f = Len(fresh)
      BY <1>5, <2>1 DEF FreshOf
    <3>2. \A i \in 1 .. Len(fresh) : fresh[i] = got[p] - Len(fresh) + i
      BY <1>1, <2>1 DEF BufInv, Follows
    <3> QED
      BY <1>1, <1>3, <2>1, <3>1, <3>2
  <2>2. CASE p # Cur
    <3>1. f = 0
      BY <1>5, <2>2 DEF FreshOf
    <3>2. PICK e \in Seq(Number) : e = <<>> /\ Len(e) = 0
      <4>1. <<>> \in Seq(Number) /\ Len(<<>>) = 0
        OBVIOUS
      <4> QED
        BY <4>1, Zenon
    <3>3. e = IF p = Cur THEN fresh ELSE <<>>
      BY <2>2, <3>2
    <3>4. \A i \in 1 .. f : e[i] = g - f + i
      BY <3>1
    <3> QED
      BY <3>1, <3>2, <3>3, <3>4
  <2> QED
    BY <2>1, <2>2
<1>9. l <= g - f /\ \A i \in 1 .. l : q[i] = g - f - l + i
  <2>1. /\ Len(buf[p]) <= got[p] - FreshOf(p)
        /\ Follows(buf[p], got[p] - FreshOf(p) - Len(buf[p]))
    BY DEF BufInv, FreshOf
  <2>2. l <= g - f /\ Follows(q, g - f - l)
    BY <1>2, <1>3, <1>4, <1>5, <2>1
  <2>3. DOMAIN q = 1 .. l
    BY <1>4
  <2> QED
    BY <2>2, <2>3 DEF Follows
<1>10. Unqueued(p) = rest \o new
  BY <1>7, <1>8 DEF Unqueued
<1>11. PICK u \in Seq(Number) :
         /\ u = Unqueued(p) /\ Len(u) = (l - o) + f
         /\ \A i \in 1 .. l - o : u[i] = rest[i]
         /\ \A i \in 1 .. f : u[(l - o) + i] = new[i]
  <2>1. /\ rest \o new \in Seq(Number) /\ Len(rest \o new) = Len(rest) + Len(new)
        /\ \A i \in 1 .. Len(rest) : (rest \o new)[i] = rest[i]
        /\ \A i \in 1 .. Len(new) : (rest \o new)[Len(rest) + i] = new[i]
    BY ConcatIs
  <2>2. Len(rest) = l - o /\ Len(new) = f
    BY <1>7, <1>8
  <2> QED
    BY <1>10, <2>1, <2>2
<1>12. PICK h \in Nat : h = Handed(p) /\ h = ((g - f) - l) + o /\ Len(u) = g - h
  <2>1. ((g - f) - l) + o \in Nat /\ (l - o) + f = g - (((g - f) - l) + o)
    BY <1>6, <1>9
  <2>2. Handed(p) = g - ((l - o) + f)
    BY <1>3, <1>11 DEF Handed
  <2>3. g - ((l - o) + f) = ((g - f) - l) + o
    OBVIOUS
  <2> QED
    BY <1>11, <2>1, <2>2, <2>3
<1>13. ASSUME NEW i \in 1 .. Len(u) PROVE u[i] = h + i
  <2>1. i \in 1 .. (l - o) + f
    BY <1>11
  <2>2. CASE i <= l - o
    <3>1. i \in 1 .. l - o /\ o + i \in 1 .. l
      BY <1>6, <2>1, <2>2
    <3>2. u[i] = q[o + i]
      BY <1>7, <1>11, <3>1
    <3>3. q[o + i] = g - f - l + (o + i)
      BY <1>9, <3>1
    <3> QED
      BY <1>12, <3>2, <3>3
  <2>3. CASE i > l - o
    <3>1. PICK j \in 1 .. f : i = (l - o) + j
      <4>1. i - (l - o) \in 1 .. f /\ i = (l - o) + (i - (l - o))
        <5>1. l - o \in Nat /\ f \in Nat
          BY <1>6
        <5> QED
          BY <2>1, <2>3, <5>1, BeyondIs
      <4> QED
        BY <4>1
    <3>2. u[i] = g - f + j
      BY <1>8, <1>11, <3>1
    <3> QED
      BY <1>12, <3>1, <3>2
  <2> QED
    BY <2>1, <2>2, <2>3
<1>14. Handed(p) = got[p] - FreshOf(p) - Len(buf[p]) + PushedOf(p)
  BY <1>2, <1>3, <1>4, <1>5, <1>6, <1>12
<1> QED
  BY <1>3, <1>11, <1>12, <1>13, <1>14 DEF Tail2

LEMMA HandedElse ==
    \A s \in Source : s \notin Port => /\ Unqueued(s) = <<>> /\ Len(Unqueued(s)) = 0
                                       /\ (got[s] \in Nat => Handed(s) = got[s])
BY DEF Unqueued, Handed

\* A step of receive_thread on the port c: what it leaves in the buffers of c, and that
\* the other ports do not notice.
LEMMA Reshaped ==
    ASSUME RecvTypes, SharedTypes, BufInv, RecvTypes', SharedTypes',
           NEW c \in Port, c = Cur, NEW b \in Seq(Number), buf' = [buf EXCEPT ![c] = b],
           NEW g \in Nat, got' = [got EXCEPT ![c] = g],
           Follows(fresh', g - Len(fresh')), Len(fresh') + Len(b) <= g,
           Follows(b, g - Len(fresh') - Len(b)),
           fresh' # <<>> => /\ turn' = turn
                            /\ rpc' = "append" \/ (rpc' = "push" /\ sub'.reason = "timeout"),
           rpc' = "push" => /\ turn' = turn /\ sub'.reason # "none" /\ sub'.id # 0
                            /\ sub'.off = sub'.part * DataLen /\ sub'.off < Len(b)
    PROVE  /\ BufInv'
           /\ Handed(c)' = g - Len(fresh') - Len(b) + (IF rpc' = "push" THEN sub'.off ELSE 0)
           /\ \A s \in Source : s # c => Handed(s)' = Handed(s)
<1>1. PICK k \in Nat : k = Len(fresh') /\ (fresh' = <<>> => k = 0)
  BY DEF RecvTypes
<1>2. fresh' # <<>> \/ rpc' = "push" => Cur' = c
  BY DEF Cur
<1>3. buf'[c] = b /\ got'[c] = g
  BY Bounds DEF RecvTypes, SharedTypes
<1>4. \A s \in Source : s # c => got'[s] = got[s] /\ got[s] \in Nat
  BY DEF SharedTypes
<1>5. \A p \in Port : p # c => buf'[p] = buf[p] /\ buf[p] \in Seq(Number)
  BY DEF RecvTypes
<1>6. FreshOf(c)' = k
  BY <1>1, <1>2 DEF FreshOf
<1>7. \A p \in Port : p # c => FreshOf(p)' = 0 /\ FreshOf(p) = 0
  BY <1>1, <1>2 DEF FreshOf
<1>8. PushedOf(c)' = IF rpc' = "push" THEN sub'.off ELSE 0
  BY <1>2 DEF PushedOf
<1>9. \A p \in Port : p # c => PushedOf(p)' = 0 /\ PushedOf(p) = 0
  BY <1>2 DEF PushedOf
<1>10. BufInv'
  <2>1. Follows(fresh, got[Cur] - Len(fresh))'
    <3>1. CASE fresh' = <<>>
      BY <3>1 DEF Follows
    <3>2. CASE fresh' # <<>>
      BY <1>2, <1>3, <3>2
    <3> QED
      BY <3>1, <3>2
  <2>2. ASSUME NEW p \in Port
        PROVE  /\ Len(buf'[p]) <= got'[p] - FreshOf(p)'
               /\ Follows(buf'[p], got'[p] - FreshOf(p)' - Len(buf'[p]))
    <3>1. CASE p = c
      <4>1. Len(b) <= g - k
        BY <1>1
      <4> QED
        BY <1>1, <1>3, <1>6, <3>1, <4>1
    <3>2. CASE p # c
      <4>1. /\ Len(buf[p]) <= got[p] - FreshOf(p)
            /\ Follows(buf[p], got[p] - FreshOf(p) - Len(buf[p]))
        BY DEF BufInv, FreshOf
      <4>2. got'[p] = got[p] /\ buf'[p] = buf[p] /\ FreshOf(p)' = FreshOf(p)
        BY <1>4, <1>5, <1>7, <3>2, Bounds
      <4> QED
        BY <4>1, <4>2
    <3> QED
      BY <3>1, <3>2
  <2>3. fresh' # <<>> => rpc' = "append" \/ (rpc' = "push" /\ sub'.reason = "timeout")
    OBVIOUS
  <2>4. rpc' = "push" => /\ sub'.reason # "none" /\ sub'.id # 0
                         /\ sub'.off = sub'.part * DataLen /\ sub'.off < Len(buf'[Cur'])
    BY <1>2, <1>3
  <2> QED
    BY <2>1, <2>2, <2>3, <2>4 DEF BufInv, FreshOf
<1>11. \A p \in Port : Tail2(p)'
  <2>1. (\A p \in Port : Tail2(p))'
    BY <1>10, HandedIs, PTL
  <2> QED
    BY <2>1
<1>12. \A p \in Port : Tail2(p)
  BY HandedIs
<1>13. Handed(c)' = g - k - Len(b) + PushedOf(c)'
  BY <1>3, <1>6, <1>11 DEF Tail2
<1>14. ASSUME NEW s \in Source, s # c PROVE Handed(s)' = Handed(s)
  <2>1. CASE s \in Port
    <3>1. /\ got'[s] = got[s] /\ buf'[s] = buf[s] /\ FreshOf(s)' = FreshOf(s)
          /\ PushedOf(s)' = PushedOf(s)
      BY <1>4, <1>5, <1>7, <1>9, <1>14, <2>1
    <3>2. Handed(s)' = got'[s] - FreshOf(s)' - Len(buf'[s]) + PushedOf(s)'
      BY <1>11, <2>1 DEF Tail2
    <3>3. Handed(s) = got[s] - FreshOf(s) - Len(buf[s]) + PushedOf(s)
      BY <1>12, <2>1 DEF Tail2
    <3> QED
      BY <3>1, <3>2, <3>3
  <2>2. CASE s \notin Port
    <3>1. Len(Unqueued(s)) = 0 /\ Len(Unqueued(s))' = 0
      BY <2>2 DEF Unqueued
    <3> QED
      BY <1>4, <1>14, <3>1 DEF Handed
  <2> QED
    BY <2>1, <2>2
<1> QED
  BY <1>1, <1>8, <1>10, <1>13, <1>14

-----------------------------------------------------------------------------
(* receive_thread.                                                          *)

LEMMA FollowsConcat ==
    ASSUME NEW q \in Seq(Number), NEW r \in Seq(Number), NEW a \in Int,
           Follows(q, a), Follows(r, a + Len(q))
    PROVE  Follows(q \o r, a)
<1>1. /\ q \o r \in Seq(Number) /\ Len(q \o r) = Len(q) + Len(r)
      /\ \A i \in 1 .. Len(q) : (q \o r)[i] = q[i]
      /\ \A i \in 1 .. Len(r) : (q \o r)[Len(q) + i] = r[i]
      /\ Len(q) \in Nat /\ Len(r) \in Nat
  BY ConcatIs
<1>2. DOMAIN (q \o r) = 1 .. Len(q) + Len(r) /\ DOMAIN q = 1 .. Len(q)
      /\ DOMAIN r = 1 .. Len(r)
  BY <1>1
<1>3. ASSUME NEW i \in 1 .. Len(q) + Len(r) PROVE (q \o r)[i] = a + i
  <2>1. CASE i <= Len(q)
    <3>1. i \in 1 .. Len(q)
      BY <1>1, <2>1
    <3> QED
      BY <1>1, <1>2, <3>1 DEF Follows
  <2>2. CASE i > Len(q)
    <3>1. PICK j \in 1 .. Len(r) : i = Len(q) + j
      <4>1. i - Len(q) \in 1 .. Len(r) /\ i = Len(q) + (i - Len(q))
        BY <1>1, <2>2
      <4> QED
        BY <4>1
    <3>2. r[j] = (a + Len(q)) + j
      BY <1>2, <3>1 DEF Follows
    <3> QED
      BY <1>1, <3>1, <3>2
  <2> QED
    BY <1>1, <2>1, <2>2
<1> QED
  BY <1>2, <1>3 DEF Follows

LEMMA BytesAre ==
    ASSUME NEW c, NEW q \in Seq(Number), NEW a \in Int, Follows(q, a)
    PROVE  BytesOf(c, q) = {<<c, n>> : n \in a + 1 .. a + Len(q)}
<1>1. DOMAIN q = 1 .. Len(q) /\ Len(q) \in Nat
  OBVIOUS
<1>2. BytesOf(c, q) = {<<c, q[i]>> : i \in 1 .. Len(q)}
  BY <1>1 DEF BytesOf
<1>3. \A i \in 1 .. Len(q) : q[i] = a + i /\ a + i \in a + 1 .. a + Len(q)
  BY <1>1 DEF Follows
<1>4. \A n \in a + 1 .. a + Len(q) : n - a \in 1 .. Len(q) /\ q[n - a] = n
  <2>1. ASSUME NEW n \in a + 1 .. a + Len(q) PROVE n - a \in 1 .. Len(q) /\ a + (n - a) = n
    BY <1>1
  <2> QED
    BY <1>3, <2>1
<1>5. ASSUME NEW x \in {<<c, q[i]>> : i \in 1 .. Len(q)}
      PROVE  x \in {<<c, n>> : n \in a + 1 .. a + Len(q)}
  BY <1>3
<1>6. ASSUME NEW x \in {<<c, n>> : n \in a + 1 .. a + Len(q)}
      PROVE  x \in {<<c, q[i]>> : i \in 1 .. Len(q)}
  <2>1. PICK n \in a + 1 .. a + Len(q) : x = <<c, n>>
    OBVIOUS
  <2> QED
    BY <1>4, <2>1
<1> QED
  BY <1>2, <1>5, <1>6

\* What a step of the thread makes of the bytes of c it had not handed on.
GaveUp(c) ==
    /\ UNCHANGED <<msg, logs, fifo>>
    /\ Handed(c)' >= Handed(c)
    /\ lost' = lost \cup {<<c, n>> : n \in Handed(c) + 1 .. Handed(c)'}

Enqueued(c) ==
    /\ UNCHANGED <<msg, logs, lost>>
    /\ \E m \in Message :
          /\ fifo' = Append(fifo, m) /\ m.src = c /\ Sound(m)
          /\ Follows(m.data, Handed(c)) /\ Handed(c)' = Handed(c) + Len(m.data)

Others(c) == \A s \in Source : s # c => Handed(s)' = Handed(s) /\ got'[s] = got[s]

\* A frame is dropped, is going to be queued, or is still open.
LEMMA FrameStep ==
    ASSUME RecvTypes, SharedTypes, BufInv, RecvTypes', SharedTypes',
           NEW c \in Port, c = Cur, NEW frame \in Seq(Number), NEW r \in Reasons,
           NEW g \in Nat, got' = [got EXCEPT ![c] = g], NEW k \in Nat, k = Len(fresh'),
           Dropped(c, frame, r) \/ (Began(c, frame, r) /\ frame # <<>>)
              \/ (Added(c, frame) /\ fresh' = <<>>),
           Follows(fresh', g - k), k + Len(frame) <= g, Follows(frame, g - k - Len(frame)),
           fresh' # <<>> => r = "timeout", Handed(c) = g - k - Len(frame),
           UNCHANGED <<msg, logs, fifo>>
    PROVE  BufInv' /\ GaveUp(c) /\ Others(c)
<1>1. Others(c) <=> \A s \in Source : s # c => Handed(s)' = Handed(s)
  BY DEF Others, SharedTypes
<1>2. Len(frame) \in Nat
  OBVIOUS
<1>3. CASE Dropped(c, frame, r)
  <2>1. PICK b \in Seq(Number) : b = <<>> /\ Len(b) = 0
    <3>1. <<>> \in Seq(Number) /\ Len(<<>>) = 0
      OBVIOUS
    <3> QED
      BY <3>1, Zenon
  <2>2. /\ buf' = [buf EXCEPT ![c] = b]
        /\ rpc' # "push"
        /\ fresh' # <<>> => turn' = turn /\ rpc' = "append"
    BY <1>3, <2>1 DEF Dropped
  <2>3. Len(fresh') + Len(b) <= g /\ Follows(b, g - Len(fresh') - Len(b))
    BY <1>2, <2>1 DEF Follows
  <2>4. BufInv' /\ Handed(c)' = g - k /\ \A s \in Source : s # c => Handed(s)' = Handed(s)
    <3>1. /\ BufInv'
          /\ Handed(c)' = g - Len(fresh') - Len(b) + (IF rpc' = "push" THEN sub'.off ELSE 0)
          /\ \A s \in Source : s # c => Handed(s)' = Handed(s)
      BY <2>1, <2>2, <2>3, Reshaped
    <3>2. g - Len(fresh') - Len(b) + (IF rpc' = "push" THEN sub'.off ELSE 0) = g - k
      BY <2>1, <2>2
    <3> QED
      BY <3>1, <3>2
  <2>5. lost' = lost \cup {<<c, n>> : n \in Handed(c) + 1 .. Handed(c)'}
    <3>1. PICK a \in Int : a = Handed(c) /\ a + Len(frame) = Handed(c)' /\ Follows(frame, a)
      BY <1>2, <2>4
    <3>2. BytesOf(c, frame) = {<<c, n>> : n \in a + 1 .. a + Len(frame)}
      BY <3>1, BytesAre
    <3> QED
      BY <1>3, <3>1, <3>2 DEF Dropped
  <2> QED
    BY <1>1, <1>2, <2>4, <2>5 DEF GaveUp
<1>4. CASE (Began(c, frame, r) /\ frame # <<>>) \/ (Added(c, frame) /\ fresh' = <<>>)
  <2>1. /\ buf' = [buf EXCEPT ![c] = frame] /\ lost' = lost
        /\ fresh' # <<>> => turn' = turn /\ rpc' = "push" /\ sub'.reason = "timeout"
    BY <1>4 DEF Began, Added
  <2>2. rpc' = "push" => /\ turn' = turn /\ sub'.reason # "none" /\ sub'.id # 0
                         /\ sub'.off = 0 /\ sub'.part = 0 /\ Len(frame) > 0
    BY <1>4, <1>2 DEF Began, Added, Reasons
  <2>3. rpc' = "push" => sub'.off = sub'.part * DataLen /\ sub'.off < Len(frame)
    BY <2>2, Bounds
  <2>4. /\ BufInv'
        /\ Handed(c)' = g - Len(fresh') - Len(frame)
                            + (IF rpc' = "push" THEN sub'.off ELSE 0)
        /\ \A s \in Source : s # c => Handed(s)' = Handed(s)
    BY <2>1, <2>2, <2>3, Reshaped
  <2>5. PICK h \in Int : h = Handed(c) /\ Handed(c)' = h
    BY <1>2, <2>2, <2>4
  <2>6. {<<c, n>> : n \in h + 1 .. h} = {}
    OBVIOUS
  <2> QED
    BY <1>1, <2>1, <2>4, <2>5, <2>6 DEF GaveUp
<1> QED
  BY <1>3, <1>4

Received == /\ RecvTypes' /\ SharedTypes' /\ BufInv'
            /\ \E c \in Port : (GaveUp(c) \/ Enqueued(c)) /\ Others(c)

\* The state before a step on the present port.
LEMMA PortIs ==
    ASSUME RecvTypes, SharedTypes, BufInv
    PROVE  /\ Cur \in Port /\ Cur \in Source /\ buf[Cur] \in Seq(Number) /\ got[Cur] \in Nat
           /\ Follows(fresh, got[Cur] - Len(fresh))
           /\ Len(fresh) \in Nat /\ Len(buf[Cur]) \in Nat
           /\ Len(buf[Cur]) <= got[Cur] - Len(fresh)
           /\ Follows(buf[Cur], got[Cur] - Len(fresh) - Len(buf[Cur]))
           /\ rpc # "push" => Handed(Cur) = got[Cur] - Len(fresh) - Len(buf[Cur])
           /\ rpc = "push" => Handed(Cur) = got[Cur] - Len(fresh) - Len(buf[Cur]) + sub.off
           /\ rpc \notin {"append", "push"} => fresh = <<>> /\ Len(fresh) = 0
<1>1. PICK c \in Port : c = Cur
  BY CurIsPort DEF RecvTypes
<1>2. buf[c] \in Seq(Number) /\ got[c] \in Nat /\ fresh \in Seq(Number)
  BY Bounds DEF RecvTypes, SharedTypes
<1>3. /\ Len(buf[c]) <= got[c] - Len(fresh)
      /\ Follows(buf[c], got[c] - Len(fresh) - Len(buf[c]))
      /\ Follows(fresh, got[c] - Len(fresh))
  BY <1>1 DEF BufInv
<1>4. Handed(c) = got[c] - FreshOf(c) - Len(buf[c]) + PushedOf(c)
  BY HandedIs DEF Tail2
<1>5. FreshOf(c) = Len(fresh) /\ PushedOf(c) = IF rpc = "push" THEN sub.off ELSE 0
  BY <1>1 DEF FreshOf, PushedOf
<1>6. rpc \notin {"append", "push"} => fresh = <<>> /\ Len(fresh) = 0
  BY DEF BufInv
<1>7. Len(fresh) \in Nat /\ Len(buf[c]) \in Nat
  BY <1>2
<1>8. /\ rpc # "push" => Handed(c) = got[c] - Len(fresh) - Len(buf[c])
      /\ rpc = "push" => Handed(c) = got[c] - Len(fresh) - Len(buf[c]) + sub.off
  BY <1>2, <1>4, <1>5, <1>7
<1> QED
  BY <1>1, <1>2, <1>3, <1>6, <1>7, <1>8, Bounds

\* The buffers stay as they are.
LEMMA NoFrameStep ==
    ASSUME RecvTypes, SharedTypes, BufInv, RecvTypes', SharedTypes',
           fresh = <<>>, rpc # "push", rpc' # "push",
           UNCHANGED <<fresh, buf, got, lost, msg, logs, fifo>>
    PROVE  BufInv' /\ \E c \in Port : GaveUp(c) /\ Others(c)
<1>1. PICK c \in Port : c = Cur
  BY CurIsPort DEF RecvTypes
<1>2. PICK q \in Seq(Number) : q = buf[c] /\ buf' = [buf EXCEPT ![c] = q]
  BY DEF RecvTypes
<1>3. PICK g \in Nat : g = got[c] /\ got' = [got EXCEPT ![c] = g]
  BY Bounds DEF SharedTypes
<1>4. fresh' = <<>> /\ Len(fresh') = 0 /\ Len(q) \in Nat
  OBVIOUS
<1>5. Len(q) <= g /\ Follows(q, g - Len(q)) /\ Handed(c) = g - Len(q)
  BY <1>1, <1>2, <1>3, <1>4, PortIs
<1>6. /\ fresh' # <<>> => /\ turn' = turn
                          /\ rpc' = "append" \/ (rpc' = "push" /\ sub'.reason = "timeout")
      /\ rpc' = "push" => /\ turn' = turn /\ sub'.reason # "none" /\ sub'.id # 0
                          /\ sub'.off = sub'.part * DataLen /\ sub'.off < Len(q)
  BY <1>4
<1>7. /\ Follows(fresh', g - Len(fresh')) /\ Len(fresh') + Len(q) <= g
      /\ Follows(q, g - Len(fresh') - Len(q))
  BY <1>4, <1>5 DEF Follows
<1>8. /\ BufInv'
      /\ Handed(c)' = g - Len(fresh') - Len(q) + (IF rpc' = "push" THEN sub'.off ELSE 0)
      /\ \A s \in Source : s # c => Handed(s)' = Handed(s)
  <2>1. c \in Port /\ c = Cur
    BY <1>1
  <2>2. q \in Seq(Number) /\ buf' = [buf EXCEPT ![c] = q]
    BY <1>2
  <2>3. g \in Nat /\ got' = [got EXCEPT ![c] = g]
    BY <1>3
  <2>4. fresh' # <<>> => /\ turn' = turn
                         /\ rpc' = "append" \/ (rpc' = "push" /\ sub'.reason = "timeout")
    BY <1>6
  <2>5. rpc' = "push" => /\ turn' = turn /\ sub'.reason # "none" /\ sub'.id # 0
                         /\ sub'.off = sub'.part * DataLen /\ sub'.off < Len(q)
    BY <1>6
  <2> QED
    BY <1>7, <2>1, <2>2, <2>3, <2>4, <2>5, Reshaped
<1>9. PICK h \in Int : h = Handed(c) /\ Handed(c)' = h
  BY <1>4, <1>5, <1>8
<1>10. {<<c, n>> : n \in h + 1 .. h} = {}
  OBVIOUS
<1> QED
  BY <1>8, <1>9, <1>10 DEF GaveUp, Others

LEMMA ReceivedPoll ==
    ASSUME RecvTypes, SharedTypes, BufInv, Poll PROVE Received
<1>1. RecvTypes' /\ SharedTypes'
  BY DEF Poll, RecvTypes, SharedTypes, writeVars
<1>2. /\ fresh = <<>> /\ rpc # "push" /\ rpc' # "push"
      /\ UNCHANGED <<fresh, buf, got, lost, msg, logs, fifo>>
  BY DEF Poll, BufInv, writeVars
<1> QED
  BY <1>1, <1>2, NoFrameStep DEF Received

LEMMA ReceivedFlush ==
    ASSUME RecvTypes, SharedTypes, BufInv, Flush PROVE Received
<1>1. PICK c \in Port : c = Cur
  BY PortIs
<1>2. /\ rpc = "flush" /\ fresh = <<>> /\ Len(fresh) = 0
      /\ UNCHANGED <<fresh, freshZero, late, wpc, msg, logs, fifo, stop, got>>
  BY PortIs DEF Flush, writeVars
<1>3. CASE buf[Cur] # <<>>
  <2>1. PICK frame \in Seq(Number) : frame = buf[Cur]
    BY PortIs
  <2>2. PICK z \in BOOLEAN : Submit(frame, z, "flush")
    <3>1. noise[c] \in BOOLEAN
      BY DEF RecvTypes
    <3> QED
      BY <1>1, <1>3, <2>1, <3>1 DEF Flush
  <2>3. /\ Dropped(c, frame, "flush") \/ Began(c, frame, "flush")
        /\ turn' \in 1 .. Len(Ports)
        /\ rpc' \in {"poll", "read", "append", "push", "flush", "exited"}
        /\ buf' \in [Port -> Seq(Number)] /\ noise' \in [Port -> BOOLEAN]
        /\ sub' \in [off : Nat, id : 0 .. MaxId, part : Nat,
                     reason : {"none", "timeout", "max_len", "flush"}]
        /\ frameId' \in 0 .. MaxId
    BY <1>1, <2>2, SubmitIs DEF Reasons
  <2>4. RecvTypes' /\ SharedTypes'
    BY <1>2, <2>3 DEF RecvTypes, SharedTypes
  <2>5. PICK g \in Nat : g = got[c] /\ got' = [got EXCEPT ![c] = g]
    BY <1>2, Bounds DEF SharedTypes
  <2>6. PICK k \in Nat : k = 0 /\ k = Len(fresh') /\ fresh' = <<>> /\ Follows(fresh', g - k)
    BY <1>2 DEF Follows
  <2>7. /\ Len(frame) \in Nat /\ k + Len(frame) <= g /\ Follows(frame, g - k - Len(frame))
        /\ Handed(c) = g - k - Len(frame)
    BY <1>1, <1>2, <2>1, <2>5, <2>6, PortIs
  <2>8. "flush" \in Reasons
    BY DEF Reasons
  <2>9. BufInv' /\ GaveUp(c) /\ Others(c)
    BY <1>1, <1>2, <1>3, <2>1, <2>3, <2>4, <2>5, <2>6, <2>7, <2>8, FrameStep
  <2> QED
    BY <2>4, <2>9 DEF Received
<1>4. CASE buf[Cur] = <<>>
  <2>1. AfterSubmit("flush") /\ UNCHANGED <<buf, noise, sub, frameId, lost>>
    BY <1>4 DEF Flush
  <2>2. /\ turn' \in 1 .. Len(Ports)
        /\ rpc' \in {"append", "read", "poll", "flush", "exited"}
    BY <2>1, AfterSubmitIs DEF Reasons, RecvTypes
  <2>3. RecvTypes' /\ SharedTypes'
    BY <1>2, <2>1, <2>2 DEF RecvTypes, SharedTypes
  <2> QED
    BY <1>2, <2>1, <2>2, <2>3, NoFrameStep DEF Received
<1> QED
  BY <1>3, <1>4

LEMMA ReceivedAddFresh ==
    ASSUME RecvTypes, SharedTypes, BufInv, AddFresh PROVE Received
<1>1. PICK c \in Port : c = Cur
  BY PortIs
<1>2. /\ rpc = "append" /\ AddData(fresh, freshZero) /\ fresh \in Seq(Number)
      /\ freshZero \in BOOLEAN
      /\ UNCHANGED <<wpc, msg, logs, fifo, stop, got>>
  BY DEF AddFresh, writeVars, RecvTypes
<1>3. /\ \/ Dropped(c, buf[c] \o fresh, "max_len")
         \/ Began(c, buf[c] \o fresh, "max_len") /\ fresh # <<>>
         \/ Added(c, buf[c] \o fresh)
      /\ turn' \in 1 .. Len(Ports)
      /\ rpc' \in {"poll", "read", "append", "push", "flush", "exited"}
      /\ buf' \in [Port -> Seq(Number)] /\ noise' \in [Port -> BOOLEAN]
      /\ sub' \in [off : Nat, id : 0 .. MaxId, part : Nat,
                   reason : {"none", "timeout", "max_len", "flush"}]
      /\ frameId' \in 0 .. MaxId
      /\ fresh' = <<>> /\ freshZero' = FALSE /\ late' \in [Port -> BOOLEAN]
  BY <1>1, <1>2, AddDataIs
<1>4. RecvTypes' /\ SharedTypes'
  <2>1. <<>> \in Seq(Number)
    OBVIOUS
  <2>2. fresh' \in Seq(Number) /\ freshZero' \in BOOLEAN
    BY <1>3, <2>1
  <2> QED
    BY <1>2, <1>3, <2>2 DEF RecvTypes, SharedTypes
<1>5. PICK g \in Nat : g = got[c] /\ got' = [got EXCEPT ![c] = g]
  BY <1>2, Bounds DEF SharedTypes
<1>6. PICK k \in Nat : k = 0 /\ k = Len(fresh') /\ Follows(fresh', g - k)
  BY <1>3 DEF Follows
<1>7. PICK q \in Seq(Number) : /\ q = buf[c] /\ Len(q) <= g - Len(fresh)
                               /\ Follows(q, g - Len(fresh) - Len(q))
                               /\ Follows(fresh, g - Len(fresh))
                               /\ Handed(c) = g - Len(fresh) - Len(q)
                               /\ Len(fresh) \in Nat /\ Len(q) \in Nat
  BY <1>1, <1>2, <1>5, PortIs
<1>8. PICK frame \in Seq(Number) : frame = q \o fresh /\ Len(frame) = Len(q) + Len(fresh)
  BY <1>2, ConcatIs
<1>9. /\ Follows(frame, g - k - Len(frame)) /\ k + Len(frame) <= g
      /\ Handed(c) = g - k - Len(frame)
  <2>1. PICK l \in Nat, f \in Nat : l = Len(q) /\ f = Len(fresh)
    BY <1>7
  <2>2. PICK a \in Int : a = g - f - l
    OBVIOUS
  <2>3. Follows(q, a) /\ Follows(fresh, a + Len(q))
    <3>1. a + l = g - f
      BY <2>2
    <3> QED
      BY <1>7, <2>1, <2>2, <3>1
  <2>4. Follows(q \o fresh, a)
    BY <1>2, <2>3, FollowsConcat
  <2>5. Len(frame) = l + f /\ l <= g - f /\ Handed(c) = a
    BY <1>7, <1>8, <2>1, <2>2
  <2>6. g - k - Len(frame) = a /\ k + Len(frame) <= g
    BY <1>6, <2>1, <2>2, <2>5
  <2> QED
    BY <1>8, <2>4, <2>5, <2>6
<1>10. fresh # <<>> => frame # <<>>
  <2>1. fresh # <<>> => Len(fresh) > 0
    BY <1>2
  <2> QED
    BY <1>7, <1>8, <2>1
<1>11. "max_len" \in Reasons
  BY DEF Reasons
<1>12. /\ Dropped(c, frame, "max_len") \/ (Began(c, frame, "max_len") /\ frame # <<>>)
            \/ (Added(c, frame) /\ fresh' = <<>>)
       /\ fresh' # <<>> => "max_len" = "timeout"
  BY <1>3, <1>7, <1>8, <1>10
<1>13. BufInv' /\ GaveUp(c) /\ Others(c)
  BY <1>1, <1>2, <1>4, <1>5, <1>6, <1>9, <1>11, <1>12, FrameStep
<1> QED
  BY <1>4, <1>13 DEF Received

\* The bytes a read returns.
LEMMA NewBytes ==
    ASSUME NEW g \in Nat, NEW n \in Nat
    PROVE  LET new == [i \in 1 .. n |-> g + i]
           IN  new \in Seq(Number) /\ Len(new) = n /\ Follows(new, g)
               /\ (n = 0 <=> new = <<>>)
<1>1. PICK new : new = [i \in 1 .. n |-> g + i]
  OBVIOUS
<1>2. \A i \in 1 .. n : g + i \in Number
  BY DEF Number
<1>3. new \in Seq(Number) /\ Len(new) = n
  BY <1>1, <1>2
<1>4. Follows(new, g)
  BY <1>1 DEF Follows
<1>5. n = 0 <=> new = <<>>
  BY <1>3
<1> QED
  BY <1>1, <1>3, <1>4, <1>5

LEMMA ReceivedRead ==
    ASSUME RecvTypes, SharedTypes, BufInv, Read PROVE Received
<1>1. PICK c \in Port : c = Cur
  BY PortIs
<1>2. PICK g \in Nat : g = got[c]
  BY Bounds DEF SharedTypes
<1>3. /\ rpc = "read" /\ fresh = <<>> /\ Len(fresh) = 0
      /\ UNCHANGED <<wpc, msg, logs, fifo, stop>>
  BY PortIs DEF Read, writeVars
<1>4. PICK n \in Nat, zero \in BOOLEAN :
         /\ got' = [got EXCEPT ![c] = g + n]
         /\ LET data == [i \in 1 .. n |-> g + i] IN
              \/ /\ buf[Cur] # <<>> /\ late[Cur]
                 /\ Submit(buf[Cur], noise[Cur], "timeout")
                 /\ fresh' = data /\ freshZero' = zero
                 /\ late' = [late EXCEPT ![Cur] = FALSE]
              \/ /\ buf[Cur] = <<>> \/ ~late[Cur]
                 /\ AddData(data, zero)
  <2>1. PICK n \in {0} \cup ReadSizes :
         /\ got' = [got EXCEPT ![Cur] = @ + n]
         /\ \E zero \in IF n = 0 THEN {FALSE} ELSE BOOLEAN :
              LET data == [i \in 1..n |-> got[Cur] + i] IN
              \/ /\ buf[Cur] # <<>> /\ late[Cur]
                 /\ Submit(buf[Cur], noise[Cur], "timeout")
                 /\ fresh' = data /\ freshZero' = zero
                 /\ late' = [late EXCEPT ![Cur] = FALSE]
              \/ /\ buf[Cur] = <<>> \/ ~late[Cur]
                 /\ AddData(data, zero)
    BY DEF Read
  <2>2. n \in Nat
    BY Bounds
  <2>3. got' = [got EXCEPT ![c] = g + n]
    BY <1>1, <1>2, <2>1
  <2>4. PICK zero \in IF n = 0 THEN {FALSE} ELSE BOOLEAN :
              LET data == [i \in 1..n |-> got[Cur] + i] IN
              \/ /\ buf[Cur] # <<>> /\ late[Cur]
                 /\ Submit(buf[Cur], noise[Cur], "timeout")
                 /\ fresh' = data /\ freshZero' = zero
                 /\ late' = [late EXCEPT ![Cur] = FALSE]
              \/ /\ buf[Cur] = <<>> \/ ~late[Cur]
                 /\ AddData(data, zero)
    BY <2>1
  <2>5. zero \in BOOLEAN
    OBVIOUS
  <2> QED
    BY <1>1, <1>2, <2>2, <2>3, <2>4, <2>5
<1>5. PICK new \in Seq(Number) : /\ new = [i \in 1 .. n |-> g + i]
                                 /\ Len(new) = n /\ Follows(new, g) /\ (n = 0 <=> new = <<>>)
  BY NewBytes
<1>6. PICK e \in Nat : e = g + n /\ got' = [got EXCEPT ![c] = e]
  <2>1. g + n \in Nat
    OBVIOUS
  <2>2. got' = [got EXCEPT ![c] = g + n]
    BY <1>4
  <2> QED
    BY <2>1, <2>2
<1>7. PICK q \in Seq(Number), l \in Nat :
         /\ q = buf[c] /\ l = Len(q) /\ l <= g /\ Follows(q, g - l) /\ Handed(c) = g - l
  <2>1. /\ buf[c] \in Seq(Number) /\ Len(buf[c]) \in Nat /\ Len(buf[c]) <= g - 0
        /\ Follows(buf[c], g - 0 - Len(buf[c])) /\ Handed(c) = g - 0 - Len(buf[c])
    BY <1>1, <1>2, <1>3, PortIs
  <2>2. g - 0 = g
    OBVIOUS
  <2> QED
    BY <2>1, <2>2
<1>8. got' \in [Source -> Nat]
  BY <1>6 DEF SharedTypes
<1>9. "timeout" \in Reasons /\ "max_len" \in Reasons
  BY DEF Reasons
<1>10. CASE /\ buf[Cur] # <<>> /\ late[Cur]
            /\ Submit(buf[Cur], noise[Cur], "timeout")
            /\ fresh' = new /\ freshZero' = zero
            /\ late' = [late EXCEPT ![Cur] = FALSE]
  <2>1. PICK z \in BOOLEAN : Submit(q, z, "timeout")
    <3>1. noise[c] \in BOOLEAN
      BY DEF RecvTypes
    <3> QED
      BY <1>1, <1>7, <1>10, <3>1
  <2>2. /\ Dropped(c, q, "timeout") \/ Began(c, q, "timeout")
        /\ turn' \in 1 .. Len(Ports)
        /\ rpc' \in {"poll", "read", "append", "push", "flush", "exited"}
        /\ buf' \in [Port -> Seq(Number)] /\ noise' \in [Port -> BOOLEAN]
        /\ sub' \in [off : Nat, id : 0 .. MaxId, part : Nat,
                     reason : {"none", "timeout", "max_len", "flush"}]
        /\ frameId' \in 0 .. MaxId
    BY <1>1, <1>9, <2>1, SubmitIs
  <2>3. late' \in [Port -> BOOLEAN] /\ fresh' \in Seq(Number) /\ freshZero' \in BOOLEAN
    BY <1>1, <1>10 DEF RecvTypes
  <2>4. RecvTypes' /\ SharedTypes'
    BY <1>3, <1>8, <2>2, <2>3 DEF RecvTypes, SharedTypes
  <2>5. n = Len(fresh') /\ e - n = g /\ e - n - l = g - l /\ n + l <= e
    BY <1>5, <1>6, <1>7, <1>10
  <2>6. /\ Follows(fresh', e - n) /\ n + Len(q) <= e /\ Follows(q, e - n - Len(q))
        /\ Handed(c) = e - n - Len(q) /\ n = Len(fresh') /\ q # <<>>
    BY <1>1, <1>5, <1>7, <1>10, <2>5
  <2>7. UNCHANGED <<msg, logs, fifo>>
    BY <1>3
  <2>8. BufInv' /\ GaveUp(c) /\ Others(c)
    BY <1>1, <1>6, <1>9, <2>2, <2>4, <2>6, <2>7, FrameStep
  <2> QED
    BY <2>4, <2>8 DEF Received
<1>11. CASE AddData(new, zero)
  <2>1. /\ \/ Dropped(c, q \o new, "max_len")
           \/ Began(c, q \o new, "max_len") /\ new # <<>>
           \/ Added(c, q \o new)
        /\ turn' \in 1 .. Len(Ports)
        /\ rpc' \in {"poll", "read", "append", "push", "flush", "exited"}
        /\ buf' \in [Port -> Seq(Number)] /\ noise' \in [Port -> BOOLEAN]
        /\ sub' \in [off : Nat, id : 0 .. MaxId, part : Nat,
                     reason : {"none", "timeout", "max_len", "flush"}]
        /\ frameId' \in 0 .. MaxId
        /\ fresh' = <<>> /\ freshZero' = FALSE /\ late' \in [Port -> BOOLEAN]
    BY <1>1, <1>7, <1>11, AddDataIs
  <2>2. RecvTypes' /\ SharedTypes'
    <3>1. <<>> \in Seq(Number)
      OBVIOUS
    <3>2. fresh' \in Seq(Number) /\ freshZero' \in BOOLEAN
      BY <2>1, <3>1
    <3> QED
      BY <1>3, <1>8, <2>1, <3>2 DEF RecvTypes, SharedTypes
  <2>3. PICK frame \in Seq(Number) : frame = q \o new /\ Len(frame) = l + n
    <3>1. q \o new \in Seq(Number) /\ Len(q \o new) = Len(q) + Len(new)
      BY ConcatIs
    <3> QED
      BY <1>5, <1>7, <3>1
  <2>4. Follows(frame, g - l)
    <3>1. PICK a \in Int : a = g - l /\ a + l = g
      <4>1. g - l \in Int /\ (g - l) + l = g
        OBVIOUS
      <4> QED
        BY <4>1
    <3>2. Follows(q, a) /\ Follows(new, a + Len(q))
      BY <1>5, <1>7, <3>1
    <3> QED
      BY <2>3, <3>1, <3>2, FollowsConcat
  <2>5. PICK k \in Nat : k = 0 /\ k = Len(fresh') /\ Follows(fresh', e - k)
    BY <2>1 DEF Follows
  <2>6. e - k - Len(frame) = g - l /\ k + Len(frame) <= e
    BY <1>6, <1>7, <2>3, <2>5
  <2>7. Follows(frame, e - k - Len(frame)) /\ Handed(c) = e - k - Len(frame)
    BY <1>7, <2>4, <2>6
  <2>8. new # <<>> => frame # <<>>
    <3>1. new # <<>> => Len(frame) # 0
      BY <1>5, <2>3
    <3> QED
      BY <3>1
  <2>9. /\ Dropped(c, frame, "max_len") \/ (Began(c, frame, "max_len") /\ frame # <<>>)
            \/ (Added(c, frame) /\ fresh' = <<>>)
        /\ fresh' # <<>> => "max_len" = "timeout"
        /\ UNCHANGED <<msg, logs, fifo>>
    BY <1>3, <2>1, <2>3, <2>8
  <2>10. BufInv' /\ GaveUp(c) /\ Others(c)
    BY <1>1, <1>6, <1>9, <2>2, <2>5, <2>6, <2>7, <2>9, FrameStep
  <2> QED
    BY <2>2, <2>10 DEF Received
<1> QED
  BY <1>4, <1>5, <1>10, <1>11

\* The next part of a frame: the bytes it holds and which part it says it is.
PartIs(c, rest, m, a) ==
    /\ m \in Message /\ m.src = c /\ Sound(m)
    /\ Follows(m.data, a) /\ Len(m.data) \in Nat
    /\ Len(m.data) = IF Len(rest) > DataLen THEN DataLen ELSE Len(rest)

LEMMA NextPart ==
    ASSUME RecvTypes, SharedTypes, BufInv, rpc = "push"
    PROVE  LET frame == buf[Cur]
               rest  == SubSeq(frame, sub.off + 1, Len(frame))
               part  == [src |-> Cur, id |-> sub.id, part |-> sub.part,
                         parts |-> PartCount(frame), frame |-> frame[1],
                         data |-> SubSeq(rest, 1, IF Len(rest) > DataLen THEN DataLen
                                                                        ELSE Len(rest))]
           IN  /\ rest \in Seq(Number) /\ Follows(rest, Handed(Cur))
               /\ Len(rest) = Len(frame) - sub.off
               /\ PartIs(Cur, rest, part, Handed(Cur))
<1>1. PICK c \in Port : c = Cur /\ c \in Source
  BY PortIs
<1>2. PICK frame \in Seq(Number), l \in Nat : frame = buf[c] /\ l = Len(frame)
  BY <1>1, PortIs
<1>3. PICK o \in Nat, k \in Nat, d \in Nat \ {0} :
         o = sub.off /\ k = sub.part /\ d = DataLen /\ o < l
  <2>1. sub.off \in Nat /\ sub.part \in Nat /\ DataLen \in Nat \ {0}
    BY Bounds DEF RecvTypes
  <2>2. sub.off = sub.part * DataLen /\ sub.off < Len(buf[Cur])
    BY DEF BufInv
  <2> QED
    BY <1>1, <1>2, <2>1, <2>2
<1>20. o = k * DataLen
  BY <1>3 DEF BufInv
<1>4. PICK a \in Nat : Follows(frame, a) /\ Handed(c) = a + o
  <2>1. PICK g \in Nat, f \in Nat : g = got[c] /\ f = Len(fresh)
    BY <1>1, PortIs
  <2>2. l <= g - f /\ Follows(frame, g - f - l) /\ Handed(c) = g - f - l + o
    BY <1>1, <1>2, <1>3, <2>1, PortIs
  <2>3. g - f - l \in Nat
    BY <2>2
  <2> QED
    BY <2>2, <2>3
<1>5. PICK rest \in Seq(Number) : /\ rest = SubSeq(frame, o + 1, l) /\ Len(rest) = l - o
                                  /\ \A i \in 1 .. l - o : rest[i] = frame[o + i]
  <2>1. /\ SubSeq(frame, o + 1, l) \in Seq(Number) /\ Len(SubSeq(frame, o + 1, l)) = l - o
        /\ \A i \in 1 .. l - o : SubSeq(frame, o + 1, l)[i] = frame[o + i]
    <3>1. o <= l /\ l <= Len(frame)
      BY <1>2, <1>3
    <3> QED
      BY <3>1, CutIs
  <2> QED
    BY <2>1
<1>6. \A i \in 1 .. l : frame[i] = a + i
  <2>1. DOMAIN frame = 1 .. l
    BY <1>2
  <2> QED
    BY <1>4, <2>1 DEF Follows
<1>7. \A i \in 1 .. l - o : rest[i] = (a + o) + i
  <2>1. ASSUME NEW i \in 1 .. l - o PROVE rest[i] = (a + o) + i
    <3>1. o + i \in 1 .. l
      BY <1>3
    <3>2. rest[i] = a + (o + i)
      BY <1>5, <1>6, <3>1
    <3> QED
      BY <3>2
  <2> QED
    BY <2>1
<1>8. Follows(rest, a + o)
  <2>1. DOMAIN rest = 1 .. l - o
    BY <1>5
  <2> QED
    BY <1>7, <2>1 DEF Follows
<1>9. PICK n \in Nat \ {0} : /\ n = (IF Len(rest) > DataLen THEN DataLen ELSE Len(rest))
                             /\ n <= l - o /\ (d < l - o => n = d)
  <2>1. PICK e \in Nat \ {0} : e = l - o
    <3>1. l - o \in Nat \ {0}
      BY <1>3
    <3> QED
      BY <3>1
  <2>2. PICK n \in Nat \ {0} : n = IF e > d THEN d ELSE e
    OBVIOUS
  <2>3. n <= e /\ (d < e => n = d)
    BY <2>2
  <2> QED
    BY <1>3, <1>5, <2>1, <2>2, <2>3
<1>10. PICK data \in Seq(Number) : /\ data = SubSeq(rest, 1, n) /\ Len(data) = n
                                   /\ \A i \in 1 .. n : data[i] = rest[i]
  <2>1. /\ SubSeq(rest, 0 + 1, n) \in Seq(Number) /\ Len(SubSeq(rest, 0 + 1, n)) = n - 0
        /\ \A i \in 1 .. n - 0 : SubSeq(rest, 0 + 1, n)[i] = rest[0 + i]
    BY <1>5, <1>9, CutIs
  <2>2. 0 + 1 = 1 /\ n - 0 = n /\ \A i \in 1 .. n : 0 + i = i
    OBVIOUS
  <2> QED
    BY <2>1, <2>2
<1>11. \A i \in 1 .. n : data[i] = (a + o) + i
  BY <1>7, <1>9, <1>10
<1>12. Follows(data, a + o) /\ data[1] = (a + o) + 1 /\ data # <<>>
  <2>1. DOMAIN data = 1 .. n /\ 1 \in 1 .. n
    BY <1>10
  <2>2. data # <<>>
    BY <1>10
  <2> QED
    BY <1>11, <2>1, <2>2 DEF Follows
<1>13. PICK m : m = [src |-> c, id |-> sub.id, part |-> sub.part, parts |-> PartCount(frame),
                     frame |-> frame[1], data |-> data]
  OBVIOUS
<1>14. PICK t \in Nat : t = PartCount(frame) /\ k < t
                        /\ (k < t - 1 <=> k * DataLen + DataLen < Len(frame))
  <2>1. k * DataLen < Len(frame)
    BY <1>2, <1>3, <1>20
  <2>2. /\ PartCount(frame) \in Nat /\ k < PartCount(frame)
        /\ k < PartCount(frame) - 1 <=> k * DataLen + DataLen < Len(frame)
    BY <2>1, PartsAre
  <2> QED
    BY <2>2
<1>15. frame[1] = a + 1 /\ a + 1 \in Nat \ {0}
  BY <1>3, <1>6
<1>16. m \in Message
  <2>1. sub.id \in 0 .. MaxId
    BY DEF RecvTypes
  <2>2. data \in Seq(Nat \ {0})
    BY DEF Number
  <2> QED
    BY <1>1, <1>3, <1>13, <1>14, <1>15, <2>1, <2>2 DEF Message
<1>17. m.src = c /\ m.id = sub.id /\ m.part = k /\ m.parts = t /\ m.frame = a + 1
       /\ m.data = data
  BY <1>3, <1>13, <1>14, <1>15
<1>18. Sound(m)
  <2>1. m.id # 0
    BY <1>17 DEF BufInv
  <2>2. Fits(m)
    <3>1. data[1] = (a + 1) + k * DataLen
      <4>1. (a + o) + 1 = (a + 1) + o
        OBVIOUS
      <4> QED
        BY <1>12, <1>20, <4>1
    <3>2. k < t - 1 => Len(data) = DataLen
      <4>1. k < t - 1 => o + d < l
        BY <1>2, <1>3, <1>14, <1>20
      <4>2. o + d < l => d < l - o
        OBVIOUS
      <4> QED
        BY <1>3, <1>9, <1>10, <4>1, <4>2
    <3> QED
      BY <1>14, <1>17, <3>1, <3>2 DEF Fits
  <2>3. data[1] - 1 = a + o
    BY <1>12
  <2> QED
    BY <1>12, <1>17, <2>1, <2>2, <2>3 DEF Sound
<1>19. PartIs(c, rest, m, a + o)
  BY <1>9, <1>10, <1>12, <1>16, <1>17, <1>18 DEF PartIs
<1> QED
  BY <1>1, <1>2, <1>3, <1>4, <1>5, <1>8, <1>9, <1>10, <1>13, <1>19

LEMMA ReceivedPush ==
    ASSUME RecvTypes, SharedTypes, BufInv, PushPart PROVE Received
<1>1. PICK c \in Port : c = Cur /\ c \in Source
  BY PortIs
<1>2. PICK frame \in Seq(Number), l \in Nat, g \in Nat, f \in Nat, o \in Nat :
         /\ frame = buf[c] /\ l = Len(frame) /\ g = got[c] /\ f = Len(fresh) /\ o = sub.off
         /\ l <= g - f /\ o < l /\ Follows(fresh, g - f) /\ Follows(frame, g - f - l)
  <2>1. sub.off \in Nat
    BY DEF RecvTypes
  <2>2. sub.off < Len(buf[Cur])
    BY DEF BufInv, PushPart
  <2> QED
    BY <1>1, <2>1, <2>2, PortIs
<1>3. /\ rpc = "push" /\ fresh' = fresh /\ got' = got
      /\ UNCHANGED <<freshZero, late, wpc, msg, logs, frameId, stop>>
  BY DEF PushPart, writeVars
<1>4. PICK a \in Nat : a = Handed(c) /\ a = g - f - l + o
  <2>1. Handed(c) = g - f - l + o
    BY <1>1, <1>2, <1>3, PortIs
  <2>2. g - f - l + o \in Nat
    <3>1. l <= g - f /\ o \in Nat /\ {g, f, l} \subseteq Nat
      BY <1>2
    <3> QED
      BY <3>1
  <2> QED
    BY <2>1, <2>2
<1>5. PICK rest \in Seq(Number), m \in Message :
         /\ Len(rest) = l - o /\ Follows(rest, a) /\ PartIs(c, rest, m, a)
         /\ \/ /\ Len(fifo) = Slots
               /\ lost' = lost \cup BytesOf(c, rest)
               /\ sub' = NoSub /\ ClearFrame /\ AfterSubmit(sub.reason)
               /\ UNCHANGED fifo
            \/ /\ Len(fifo) < Slots
               /\ fifo' = Append(fifo, m)
               /\ IF Len(rest) > DataLen
                  THEN /\ sub' = [sub EXCEPT !.off = @ + DataLen, !.part = @ + 1]
                       /\ UNCHANGED <<rpc, turn, buf, noise>>
                  ELSE sub' = NoSub /\ ClearFrame /\ AfterSubmit(sub.reason)
               /\ UNCHANGED lost
  <2>1. PICK rest : rest = SubSeq(buf[Cur], sub.off + 1, Len(buf[Cur]))
    OBVIOUS
  <2>2. PICK m : m = [src |-> Cur, id |-> sub.id, part |-> sub.part,
                      parts |-> PartCount(buf[Cur]), frame |-> buf[Cur][1],
                      data |-> SubSeq(rest, 1, IF Len(rest) > DataLen THEN DataLen
                                                                     ELSE Len(rest))]
    OBVIOUS
  <2>3. /\ rest \in Seq(Number) /\ Follows(rest, Handed(Cur))
        /\ Len(rest) = Len(buf[Cur]) - sub.off /\ PartIs(Cur, rest, m, Handed(Cur))
    BY <1>3, <2>1, <2>2, NextPart
  <2>4. m \in Message
    BY <2>3 DEF PartIs
  <2> QED
    BY <1>1, <1>2, <1>4, <2>1, <2>2, <2>3, <2>4 DEF PushPart
<1>6. PICK n \in Nat : n = Len(m.data) /\ n = (IF Len(rest) > DataLen THEN DataLen ELSE Len(rest))
  BY <1>5 DEF PartIs
<1>7. PICK r \in Reasons : r = sub.reason
  BY <1>3 DEF RecvTypes, BufInv, Reasons
<1>8. fresh # <<>> => r = "timeout"
  BY <1>3, <1>7 DEF BufInv
<1>9. got' = [got EXCEPT ![c] = g]
  BY <1>1, <1>2, <1>3 DEF SharedTypes
<1>10. fifo' \in Seq(Message) /\ Len(fifo') <= Slots
  <2>1. fifo \in Seq(Message) /\ Len(fifo) \in Nat /\ Slots \in Nat /\ Len(fifo) <= Slots
    BY Bounds DEF SharedTypes
  <2>2. Append(fifo, m) \in Seq(Message) /\ Len(Append(fifo, m)) = Len(fifo) + 1
    BY <2>1, AppendIs
  <2>3. fifo' = fifo \/ (Len(fifo) < Slots /\ fifo' = Append(fifo, m))
    BY <1>5
  <2>4. CASE fifo' = fifo
    BY <2>1, <2>4
  <2>5. CASE Len(fifo) < Slots /\ fifo' = Append(fifo, m)
    BY <2>1, <2>2, <2>5
  <2> QED
    BY <2>3, <2>4, <2>5
<1>11. SharedTypes'
  BY <1>3, <1>10 DEF SharedTypes
<1>12. Len(fresh') = f /\ f + l <= g /\ Follows(fresh', g - Len(fresh'))
  BY <1>2, <1>3
<1>13. CASE sub' = NoSub /\ ClearFrame /\ AfterSubmit(sub.reason)
  <2>1. PICK b \in Seq(Number) : b = <<>> /\ Len(b) = 0
    <3>1. <<>> \in Seq(Number) /\ Len(<<>>) = 0
      OBVIOUS
    <3> QED
      BY <3>1, Zenon
  <2>2. /\ turn' \in 1 .. Len(Ports)
        /\ rpc' \in {"append", "read", "poll", "flush", "exited"}
        /\ r = "timeout" => rpc' = "append" /\ turn' = turn
    BY <1>7, <1>13, AfterSubmitIs DEF RecvTypes
  <2>3. buf' = [buf EXCEPT ![c] = b] /\ buf' \in [Port -> Seq(Number)]
    BY <1>1, <1>13, <2>1 DEF ClearFrame, RecvTypes
  <2>4. noise' \in [Port -> BOOLEAN]
    BY <1>1, <1>13 DEF ClearFrame, RecvTypes
  <2>5. sub' \in [off : Nat, id : 0 .. MaxId, part : Nat,
                  reason : {"none", "timeout", "max_len", "flush"}]
    BY <1>13, Bounds DEF NoSub
  <2>6. RecvTypes'
    BY <1>3, <2>2, <2>3, <2>4, <2>5 DEF RecvTypes
  <2>7. Len(fresh') + Len(b) <= g /\ Follows(b, g - Len(fresh') - Len(b))
    BY <1>2, <1>12, <2>1 DEF Follows
  <2>8. fresh' # <<>> => turn' = turn /\ rpc' = "append"
    BY <1>3, <1>8, <2>2
  <2>9. /\ BufInv'
        /\ Handed(c)' = g - Len(fresh') - Len(b) + (IF rpc' = "push" THEN sub'.off ELSE 0)
        /\ \A s \in Source : s # c => Handed(s)' = Handed(s)
    BY <1>1, <1>9, <1>11, <2>2, <2>3, <2>6, <2>7, <2>8, <1>12, Reshaped
  <2>10. Handed(c)' = g - f
    BY <1>12, <2>1, <2>2, <2>9
  <2>11. Handed(c)' = a + (l - o)
    <3>1. g - f = (g - f - l + o) + (l - o)
      OBVIOUS
    <3> QED
      BY <1>4, <2>10, <3>1
  <2>12. Others(c)
    BY <1>3, <2>9 DEF Others
  <2>13. CASE /\ Len(fifo) = Slots
              /\ lost' = lost \cup BytesOf(c, rest)
              /\ UNCHANGED fifo
    <3>1. BytesOf(c, rest) = {<<c, i>> : i \in a + 1 .. a + Len(rest)}
      BY <1>5, BytesAre
    <3>2. GaveUp(c)
      BY <1>2, <1>3, <1>4, <1>5, <2>11, <2>13, <3>1 DEF GaveUp
    <3> QED
      BY <1>11, <2>6, <2>9, <2>12, <3>2 DEF Received
  <2>14. CASE /\ fifo' = Append(fifo, m) /\ ~(Len(rest) > DataLen) /\ UNCHANGED lost
    <3>1. n = l - o
      BY <1>5, <1>6, <2>14
    <3>2. Enqueued(c)
      BY <1>3, <1>4, <1>5, <1>6, <2>11, <2>14, <3>1 DEF Enqueued, PartIs
    <3> QED
      BY <1>11, <2>6, <2>9, <2>12, <3>2 DEF Received
  <2>15. \/ Len(fifo) = Slots /\ lost' = lost \cup BytesOf(c, rest) /\ UNCHANGED fifo
         \/ fifo' = Append(fifo, m) /\ ~(Len(rest) > DataLen) /\ UNCHANGED lost
    <3>1. sub' = NoSub => sub'.reason = "none"
      BY DEF NoSub
    <3>2. CASE sub' = [sub EXCEPT !.off = @ + DataLen, !.part = @ + 1]
      <4>1. sub'.reason = r
        BY <1>7, <3>2 DEF RecvTypes
      <4> QED
        BY <1>13, <3>1, <4>1 DEF Reasons
    <3> QED
      BY <1>5, <3>2
  <2> QED
    BY <2>13, <2>14, <2>15
<1>14. CASE /\ fifo' = Append(fifo, m) /\ Len(rest) > DataLen /\ UNCHANGED lost
            /\ sub' = [sub EXCEPT !.off = @ + DataLen, !.part = @ + 1]
            /\ UNCHANGED <<rpc, turn, buf, noise>>
  <2>1. PICK d \in Nat \ {0} : d = DataLen
    BY Bounds
  <2>2. PICK k \in Nat : k = sub.part /\ o = k * DataLen
    BY <1>2, <1>3 DEF RecvTypes, BufInv
  <2>3. /\ sub'.off = o + d /\ sub'.part = k + 1 /\ sub'.id = sub.id /\ sub'.reason = r
        /\ sub' \in [off : Nat, id : 0 .. MaxId, part : Nat,
                     reason : {"none", "timeout", "max_len", "flush"}]
    <3>1. sub \in [off : Nat, id : 0 .. MaxId, part : Nat,
                   reason : {"none", "timeout", "max_len", "flush"}]
      BY DEF RecvTypes
    <3>2. sub.off + DataLen = o + d /\ sub.part + 1 = k + 1
      BY <1>2, <2>1, <2>2
    <3>3. sub' = [sub EXCEPT !.off = o + d, !.part = k + 1]
      BY <1>14, <3>1, <3>2
    <3>4. o + d \in Nat /\ k + 1 \in Nat
      OBVIOUS
    <3> QED
      BY <1>7, <3>1, <3>3, <3>4
  <2>4. RecvTypes'
    BY <1>3, <1>14, <2>3 DEF RecvTypes
  <2>5. sub'.off = sub'.part * DataLen
    <3>1. (k + 1) * d = k * d + d
      OBVIOUS
    <3> QED
      BY <2>1, <2>2, <2>3, <3>1
  <2>6. o + d < l
    BY <1>2, <1>5, <1>14, <2>1
  <2>7. buf' = [buf EXCEPT ![c] = frame]
    BY <1>1, <1>2, <1>14 DEF RecvTypes
  <2>8. /\ sub'.reason # "none" /\ sub'.id # 0 /\ sub'.off = sub'.part * DataLen
        /\ sub'.off < Len(frame)
    BY <1>2, <1>3, <2>3, <2>5, <2>6 DEF BufInv, Reasons
  <2>9. Len(fresh') + Len(frame) <= g /\ Follows(frame, g - Len(fresh') - Len(frame))
    BY <1>2, <1>12
  <2>10. fresh' # <<>> => turn' = turn /\ rpc' = "push" /\ sub'.reason = "timeout"
    BY <1>3, <1>8, <1>14, <2>3
  <2>11. turn' = turn /\ rpc' = "push"
    BY <1>3, <1>14
  <2>12. /\ BufInv'
         /\ Handed(c)' = g - Len(fresh') - Len(frame)
                            + (IF rpc' = "push" THEN sub'.off ELSE 0)
         /\ \A s \in Source : s # c => Handed(s)' = Handed(s)
    BY <1>1, <1>9, <1>11, <1>12, <2>4, <2>7, <2>8, <2>9, <2>10, <2>11, Reshaped
  <2>13. Handed(c)' = g - f - l + (o + d)
    BY <1>2, <1>12, <2>3, <2>11, <2>12
  <2>14. Handed(c)' = a + n
    BY <1>4, <1>6, <1>14, <2>1, <2>13
  <2>15. Enqueued(c) /\ Others(c)
    BY <1>3, <1>4, <1>5, <1>6, <1>14, <2>12, <2>14 DEF Enqueued, PartIs, Others
  <2> QED
    BY <1>11, <2>4, <2>12, <2>15 DEF Received
<1> QED
  BY <1>5, <1>13, <1>14

\* receive_thread drops bytes of its port or queues the next ones, in order.
LEMMA ReceivedBytes ==
    ASSUME RecvTypes, SharedTypes, BufInv, Receive PROVE Received
BY ReceivedPoll, ReceivedRead, ReceivedAddFresh, ReceivedPush, ReceivedFlush DEF Receive

-----------------------------------------------------------------------------
(* The other threads.                                                       *)

\* A step that drops bytes of one source or queues the next ones.
Moved == /\ RecvTypes' /\ SharedTypes' /\ BufInv'
         /\ \E c \in Source : (GaveUp(c) \/ Enqueued(c)) /\ Others(c)

LEMMA SameBuffers ==
    ASSUME BufInv, UNCHANGED <<rpc, turn, fresh, buf, sub, got>>
    PROVE  BufInv' /\ \A s : Handed(s)' = Handed(s)
<1>1. Cur' = Cur
  BY DEF Cur
<1>2. BufInv'
  BY <1>1 DEF BufInv
<1>3. \A s : Unqueued(s)' = Unqueued(s)
  BY <1>1 DEF Unqueued
<1> QED
  BY <1>2, <1>3 DEF Handed

LEMMA QuietMoves ==
    ASSUME RecvTypes, SharedTypes, BufInv,
           (\E p \in Port : FrameTimesOut(p)) \/ HandleSignal \/ WriterStops
    PROVE  Moved
<1>1. /\ UNCHANGED <<rpc, turn, fresh, freshZero, buf, noise, sub, got, msg, logs, fifo,
                     frameId, lost>>
      /\ late' \in [Port -> BOOLEAN] /\ stop' \in BOOLEAN
      /\ wpc' \in {"wait", "write", "exited"} /\ (wpc' = "write" <=> wpc = "write")
  <2>1. CASE \E p \in Port : FrameTimesOut(p)
    BY <2>1 DEF FrameTimesOut, writeVars, RecvTypes, SharedTypes
  <2>2. CASE HandleSignal
    BY <2>2 DEF HandleSignal, recvVars, writeVars, RecvTypes, SharedTypes
  <2>3. CASE WriterStops
    BY <2>3 DEF WriterStops, recvVars, RecvTypes, SharedTypes
  <2> QED
    BY <2>1, <2>2, <2>3
<1>2. RecvTypes' /\ SharedTypes'
  BY <1>1 DEF RecvTypes, SharedTypes
<1>3. BufInv' /\ \A s : Handed(s)' = Handed(s)
  BY <1>1, SameBuffers
<1>4. PICK c \in Port : c = Cur /\ c \in Source
  BY PortIs
<1>5. PICK h \in Int : h = Handed(c) /\ Handed(c)' = h
  <2>1. Handed(c) \in Int
    BY <1>4, HandedIs DEF Tail2
  <2> QED
    BY <1>3, <2>1
<1>6. {<<c, n>> : n \in h + 1 .. h} = {}
  OBVIOUS
<1>7. GaveUp(c) /\ Others(c)
  BY <1>1, <1>3, <1>5, <1>6 DEF GaveUp, Others
<1> QED
  BY <1>2, <1>3, <1>4, <1>7 DEF Moved

LEMMA PushMoves ==
    ASSUME RecvTypes, SharedTypes, BufInv, NEW s \in Pushers, Push(s) PROVE Moved
<1>1. s \in Source /\ s \notin Port
  BY Bounds DEF Source
<1>2. PICK g \in Nat : g = got[s] /\ got' = [got EXCEPT ![s] = g + 1] /\ got'[s] = g + 1
  <2>1. got' = [got EXCEPT ![s] = @ + 1]
    BY DEF Push
  <2>2. got[s] \in Nat
    BY <1>1 DEF SharedTypes
  <2> QED
    BY <1>1, <2>1, <2>2 DEF SharedTypes
<1>3. /\ UNCHANGED <<rpc, turn, fresh, freshZero, buf, noise, late, sub, wpc, msg, logs,
                     frameId, stop>>
      /\ RecvTypes'
  BY DEF Push, recvVars, writeVars, RecvTypes
<1>4. got' \in [Source -> Nat] /\ \A t \in Source : t # s => got'[t] = got[t]
  BY <1>1, <1>2 DEF SharedTypes
<1>5. Cur' = Cur /\ Cur \in Port
  BY <1>3, PortIs DEF Cur
<1>6. \A p \in Port : got'[p] = got[p]
  BY <1>1, <1>4, Bounds
<1>7. BufInv'
  BY <1>3, <1>5, <1>6 DEF BufInv
<1>8. \A t : Unqueued(t)' = Unqueued(t)
  BY <1>3, <1>5 DEF Unqueued
<1>9. Others(s)
  BY <1>4, <1>8 DEF Others, Handed
<1>10. Handed(s) = g /\ Handed(s)' = g + 1
  <2>1. Len(Unqueued(s)) = 0
    BY <1>1, HandedElse
  <2>2. Len(Unqueued(s)') = 0
    BY <1>8, <2>1
  <2> QED
    BY <1>2, <2>1, <2>2 DEF Handed
<1>11. PICK m : m = [src |-> s, id |-> 0, part |-> 0, parts |-> 0, frame |-> got'[s],
                     data |-> <<got'[s]>>]
  OBVIOUS
<1>12. PICK d \in Seq(Number) : d = <<g + 1>> /\ Len(d) = 1 /\ d[1] = g + 1 /\ d # <<>>
  <2>1. g + 1 \in Number
    BY DEF Number
  <2>2. <<g + 1>> \in Seq(Number) /\ Len(<<g + 1>>) = 1 /\ <<g + 1>>[1] = g + 1
        /\ <<g + 1>> # <<>>
    BY <2>1
  <2> QED
    BY <2>2
<1>13. Follows(d, g)
  <2>1. DOMAIN d = 1 .. 1
    BY <1>12
  <2> QED
    BY <1>12, <2>1 DEF Follows
<1>14. m \in Message /\ m.src = s /\ m.data = d /\ m.id = 0 /\ m.frame = g + 1
  <2>1. d \in Seq(Nat \ {0}) /\ g + 1 \in Nat \ {0} /\ 0 \in 0 .. MaxId
    BY Bounds DEF Number
  <2> QED
    BY <1>1, <1>2, <1>11, <1>12, <2>1 DEF Message
<1>15. Sound(m)
  <2>1. d[1] - 1 = g
    BY <1>12
  <2> QED
    BY <1>12, <1>13, <1>14, <2>1 DEF Sound
<1>16. fifo \in Seq(Message) /\ Len(fifo) \in Nat /\ Slots \in Nat /\ Len(fifo) <= Slots
  BY Bounds DEF SharedTypes
<1>17. CASE Len(fifo) < Slots /\ fifo' = Append(fifo, m) /\ UNCHANGED lost
  <2>1. Append(fifo, m) \in Seq(Message) /\ Len(Append(fifo, m)) = Len(fifo) + 1
    BY <1>14, <1>16, AppendIs
  <2>2. fifo' \in Seq(Message) /\ Len(fifo') <= Slots
    BY <1>16, <1>17, <2>1
  <2>3. SharedTypes'
    BY <1>3, <1>4, <2>2 DEF SharedTypes
  <2>4. Enqueued(s)
    BY <1>3, <1>10, <1>12, <1>13, <1>14, <1>15, <1>17 DEF Enqueued
  <2> QED
    BY <1>1, <1>3, <1>7, <1>9, <2>3, <2>4 DEF Moved
<1>18. CASE lost' = lost \cup BytesOf(s, d) /\ UNCHANGED fifo
  <2>1. SharedTypes'
    BY <1>3, <1>4, <1>18 DEF SharedTypes
  <2>2. BytesOf(s, d) = {<<s, n>> : n \in g + 1 .. g + Len(d)}
    BY <1>13, BytesAre
  <2>3. GaveUp(s)
    BY <1>3, <1>10, <1>12, <1>18, <2>2 DEF GaveUp
  <2> QED
    BY <1>1, <1>3, <1>7, <1>9, <2>1, <2>3 DEF Moved
<1>19. \/ Len(fifo) < Slots /\ fifo' = Append(fifo, m) /\ UNCHANGED lost
       \/ Len(fifo) = Slots /\ lost' = lost \cup BytesOf(s, m.data) /\ UNCHANGED fifo
  BY <1>11 DEF Push
<1> QED
  BY <1>14, <1>17, <1>18, <1>19

\* write_file_thread.
LEMMA TakeTypes ==
    ASSUME RecvTypes, SharedTypes, BufInv, Take
    PROVE  /\ RecvTypes' /\ SharedTypes' /\ BufInv' /\ \A s : Handed(s)' = Handed(s)
           /\ msg = <<>> /\ fifo # <<>> /\ msg' = fifo[1] /\ fifo[1] \in Message
           /\ Len(fifo) \in Nat \ {0} /\ Len(fifo') = Len(fifo) - 1
           /\ \A i \in 1 .. Len(fifo) - 1 : fifo'[i] = fifo[i + 1]
           /\ UNCHANGED <<logs, lost>>
<1>1. /\ wpc = "wait" /\ fifo # <<>> /\ msg' = Head(fifo) /\ fifo' = Tail(fifo)
      /\ wpc' = "write"
      /\ UNCHANGED <<rpc, turn, fresh, freshZero, buf, noise, late, sub, logs, frameId, stop,
                     got, lost>>
  BY DEF Take, recvVars
<1>2. fifo \in Seq(Message) /\ Len(fifo) <= Slots /\ Slots \in Nat
  BY Bounds DEF SharedTypes
<1>3. /\ Len(fifo) \in Nat \ {0} /\ fifo[1] \in Message /\ msg' = fifo[1]
      /\ fifo' \in Seq(Message) /\ Len(fifo') = Len(fifo) - 1
      /\ \A i \in 1 .. Len(fifo) - 1 : fifo'[i] = fifo[i + 1]
  <2>1. Len(fifo) \in Nat \ {0}
    BY <1>1, <1>2
  <2>2. fifo[1] \in Message /\ Head(fifo) = fifo[1]
    BY <1>2, <2>1
  <2>3. Tail(fifo) \in Seq(Message) /\ Len(Tail(fifo)) = Len(fifo) - 1
        /\ \A i \in 1 .. Len(fifo) - 1 : Tail(fifo)[i] = fifo[i + 1]
    BY <1>1, <1>2, <2>1
  <2> QED
    BY <1>1, <2>1, <2>2, <2>3
<1>4. msg' # <<>> /\ msg = <<>>
  BY <1>1, <1>3, MessageIs DEF SharedTypes
<1>5. Len(fifo') <= Slots
  BY <1>2, <1>3
<1>6. SharedTypes'
  BY <1>1, <1>3, <1>4, <1>5 DEF SharedTypes
<1>7. RecvTypes'
  BY <1>1 DEF RecvTypes
<1>8. BufInv' /\ \A s : Handed(s)' = Handed(s)
  BY <1>1, SameBuffers
<1> QED
  BY <1>1, <1>3, <1>4, <1>6, <1>7, <1>8

\* What a line says of its message.
LEMMA LineIs ==
    ASSUME NEW m \in Message, m.id = 0 => frameId' \in 1 .. MaxId
    PROVE  /\ LogLine(m) \in Message /\ LogLine(m).src = m.src /\ LogLine(m).data = m.data
           /\ Sound(m) => Sound(LogLine(m)) /\ Fits(LogLine(m))
<1>1. CASE m.id # 0
  BY <1>1 DEF LogLine, Message, Sound
<1>2. CASE m.id = 0
  <2>1. PICK e : e = LogLine(m)
    OBVIOUS
  <2>2. e = [m EXCEPT !.id = frameId', !.part = 0, !.parts = 1]
    BY <1>2, <2>1 DEF LogLine
  <2>3. /\ e \in Message /\ e.src = m.src /\ e.data = m.data /\ e.id = frameId'
        /\ e.part = 0 /\ e.parts = 1 /\ e.frame = m.frame
    <3>1. PICK x : x = frameId' /\ x \in 0 .. MaxId
      <4>1. frameId' \in 0 .. MaxId
        BY <1>2, Bounds
      <4> QED
        BY <4>1, Zenon
    <3>2. m \in [src : Source, id : 0 .. MaxId, part : Nat, parts : Nat,
                 frame : Nat \ {0}, data : Seq(Nat \ {0})]
      BY DEF Message
    <3>3. e = [m EXCEPT !.id = x, !.part = 0, !.parts = 1]
      BY <2>2, <3>1
    <3>4. e \in [src : Source, id : 0 .. MaxId, part : Nat, parts : Nat,
                 frame : Nat \ {0}, data : Seq(Nat \ {0})]
      BY <3>1, <3>2, <3>3
    <3> QED
      BY <3>1, <3>2, <3>3, <3>4 DEF Message
  <2>4. ASSUME Sound(m) PROVE Sound(e) /\ Fits(e)
    <3>1. m.data = <<m.frame>> /\ m.data # <<>> /\ Follows(m.data, m.data[1] - 1)
      BY <1>2, <2>4 DEF Sound
    <3>2. m.frame \in Nat /\ DataLen \in Nat
      BY MessageIs, Bounds DEF Number
    <3>3. m.frame + 0 * DataLen = m.frame /\ <<m.frame>>[1] = m.frame
      BY <3>2
    <3>4. Fits(e)
      BY <2>3, <3>1, <3>3 DEF Fits
    <3>5. e.id # 0
      BY <1>2, <2>3
    <3> QED
      BY <2>3, <3>1, <3>4, <3>5 DEF Sound
  <2> QED
    BY <2>1, <2>3, <2>4
<1> QED
  BY <1>1, <1>2

LEMMA WriteTypes ==
    ASSUME RecvTypes, SharedTypes, BufInv, WriteLine
    PROVE  /\ RecvTypes' /\ SharedTypes' /\ BufInv' /\ \A s : Handed(s)' = Handed(s)
           /\ msg \in Message /\ msg' = <<>> /\ UNCHANGED fifo
           /\ msg.id = 0 => frameId' \in 1 .. MaxId
           /\ \/ logs' = [logs EXCEPT ![msg.src] = Append(logs[msg.src], LogLine(msg))]
                 /\ UNCHANGED lost
              \/ lost' = lost \cup BytesOf(msg.src, msg.data) /\ UNCHANGED logs
<1>1. /\ wpc = "write"
      /\ frameId' = IF msg.id = 0 THEN NextId(frameId) ELSE frameId
      /\ \/ logs' = [logs EXCEPT ![msg.src] = Append(logs[msg.src], LogLine(msg))]
            /\ UNCHANGED lost
         \/ lost' = lost \cup BytesOf(msg.src, msg.data) /\ UNCHANGED logs
      /\ msg' = <<>> /\ wpc' = "wait"
      /\ UNCHANGED <<rpc, turn, fresh, freshZero, buf, noise, late, sub, fifo, stop, got>>
  BY DEF WriteLine, recvVars
<1>2. msg \in Message /\ msg.src \in Source
  BY <1>1, MessageIs DEF SharedTypes
<1>3. frameId' \in 0 .. MaxId /\ (msg.id = 0 => frameId' \in 1 .. MaxId)
  <2>1. frameId \in 0 .. MaxId /\ MaxId \in Nat \ {0}
    BY Bounds DEF SharedTypes
  <2>2. NextId(frameId) \in 1 .. MaxId
    BY <2>1, NextIdRange
  <2> QED
    BY <1>1, <2>1, <2>2
<1>4. LogLine(msg) \in Message
  BY <1>2, <1>3, LineIs
<1>5. logs' \in [Source -> Seq(Message)]
  <2>1. logs \in [Source -> Seq(Message)] /\ logs[msg.src] \in Seq(Message)
    BY <1>2 DEF SharedTypes
  <2>2. Append(logs[msg.src], LogLine(msg)) \in Seq(Message)
    BY <1>4, <2>1, AppendIs
  <2> QED
    BY <1>1, <1>2, <2>1, <2>2
<1>6. SharedTypes'
  BY <1>1, <1>3, <1>5 DEF SharedTypes
<1>7. RecvTypes'
  BY <1>1 DEF RecvTypes
<1>8. BufInv' /\ \A s : Handed(s)' = Handed(s)
  BY <1>1, SameBuffers
<1> QED
  BY <1>1, <1>2, <1>3, <1>6, <1>7, <1>8

-----------------------------------------------------------------------------
(* The queue of one source: pieces Q, of which the bytes up to h were        *)
(* handed on, and the bytes L that were lost.                                *)

Pieces(Q) == \A a \in Q : a.at \in Nat /\ a.data \in Seq(Number)

Ordered(Q, h) ==
    \A a \in Q : /\ \A n \in Range(a.data) : n <= h
                 /\ \A b \in Q : a.at < b.at => Before(a.data, b.data)

Account(s, Q, h, L) ==
    /\ \A n \in 1 .. h : (<<s, n>> \in L) <=> ~(\E a \in Q : n \in Range(a.data))
    /\ \A x \in L : x[1] = s => x[2] \in 1 .. h

LEMMA RangeIs ==
    ASSUME NEW d \in Seq(Number)
    PROVE  /\ \A i \in DOMAIN d : d[i] \in Range(d) /\ d[i] \in Number
           /\ \A n \in Range(d) : n \in Number /\ \E i \in DOMAIN d : n = d[i]
BY DEF Range

\* Bytes of the source are given up.
LEMMA GivingUp ==
    ASSUME NEW s, NEW Q, Pieces(Q), NEW h \in Nat, NEW e \in Nat, e >= h, NEW L,
           Ordered(Q, h), Account(s, Q, h, L)
    PROVE  /\ Ordered(Q, e)
           /\ Account(s, Q, e, L \cup {<<s, n>> : n \in h + 1 .. e})
<1>1. \A a \in Q : \A n \in Range(a.data) : n \in Number /\ n <= h
  BY RangeIs DEF Pieces, Ordered
<1>2. Ordered(Q, e)
  <2>1. \A a \in Q : \A n \in Range(a.data) : n <= e
    BY <1>1 DEF Number
  <2> QED
    BY <2>1 DEF Ordered
<1>3. PICK M : M = {<<s, n>> : n \in h + 1 .. e}
  OBVIOUS
<1>4. ASSUME NEW n \in 1 .. e
      PROVE  (<<s, n>> \in L \cup M) <=> ~(\E a \in Q : n \in Range(a.data))
  <2>1. CASE n <= h
    <3>1. n \in 1 .. h
      BY <2>1
    <3>2. <<s, n>> \notin M
      BY <1>3, <3>1
    <3>3. (<<s, n>> \in L) <=> ~(\E a \in Q : n \in Range(a.data))
      BY <3>1 DEF Account
    <3>4. (<<s, n>> \in L \cup M) <=> (<<s, n>> \in L)
      BY <3>2
    <3> QED
      BY <3>3, <3>4
  <2>2. CASE ~(n <= h)
    <3>1. <<s, n>> \in M
      BY <1>3, <2>2
    <3>2. ~\E a \in Q : n \in Range(a.data)
      BY <1>1, <2>2
    <3> QED
      BY <3>1, <3>2
  <2> QED
    BY <2>1, <2>2
<1>5. ASSUME NEW x \in L \cup M, x[1] = s PROVE x[2] \in 1 .. e
  <2>1. CASE x \in M
    <3>1. PICK n \in h + 1 .. e : x = <<s, n>>
      BY <1>3, <2>1
    <3> QED
      BY <3>1
  <2>2. CASE x \in L /\ x \notin M
    <3>1. x[2] \in 1 .. h
      BY <1>5, <2>2 DEF Account
    <3> QED
      BY <3>1
  <2> QED
    BY <2>1, <2>2
<1> QED
  BY <1>2, <1>3, <1>4, <1>5 DEF Account

\* The next bytes of the source are queued, behind all others.
LEMMA Enqueuing ==
    ASSUME NEW s, NEW Q, Pieces(Q), NEW h \in Nat, NEW L, Ordered(Q, h), Account(s, Q, h, L),
           NEW P, P.at \in Nat, \A a \in Q : a.at < P.at,
           P.data \in Seq(Number), Follows(P.data, h)
    PROVE  /\ Ordered(Q \cup {P}, h + Len(P.data))
           /\ Account(s, Q \cup {P}, h + Len(P.data), L)
<1>1. PICK d \in Seq(Number), l \in Nat : d = P.data /\ l = Len(d)
  OBVIOUS
<1>2. DOMAIN d = 1 .. l /\ \A i \in 1 .. l : d[i] = h + i
  BY <1>1 DEF Follows
<1>3. \A n \in h + 1 .. h + l : n \in Range(d)
  <2>1. ASSUME NEW n \in h + 1 .. h + l PROVE n \in Range(d)
    <3>1. n - h \in 1 .. l /\ h + (n - h) = n
      OBVIOUS
    <3>2. d[n - h] = n
      BY <1>2, <3>1
    <3> QED
      BY <1>2, <3>1, <3>2 DEF Range
  <2> QED
    BY <2>1
<1>4. \A n \in Range(d) : n \in h + 1 .. h + l
  <2>1. \A i \in 1 .. l : h + i \in h + 1 .. h + l
    OBVIOUS
  <2> QED
    BY <1>2, <2>1 DEF Range
<1>5. \A a \in Q : \A n \in Range(a.data) : n \in Number /\ n <= h
  BY RangeIs DEF Pieces, Ordered
<1>6. \A a \in Q : \A i \in DOMAIN a.data : a.data[i] \in Number /\ a.data[i] <= h
  BY <1>5, RangeIs DEF Pieces
<1>7. \A a \in Q : Before(a.data, d)
  <2>1. ASSUME NEW a \in Q, NEW i \in DOMAIN a.data, NEW j \in DOMAIN d
        PROVE  a.data[i] < d[j]
    <3>1. PICK x \in Nat : x = a.data[i] /\ x <= h
      BY <1>6 DEF Number
    <3>2. j \in 1 .. l /\ d[j] = h + j
      BY <1>2
    <3> QED
      BY <3>1, <3>2
  <2> QED
    BY <2>1 DEF Before
<1>8. ASSUME NEW a \in Q \cup {P}
      PROVE  /\ \A n \in Range(a.data) : n <= h + l
             /\ \A b \in Q \cup {P} : a.at < b.at => Before(a.data, b.data)
  <2>1. CASE a \in Q
    <3>1. \A n \in Range(a.data) : n <= h + l
      <4>1. ASSUME NEW n \in Range(a.data) PROVE n <= h + l
        <5>1. n \in Nat /\ n <= h
          BY <1>5, <2>1 DEF Number
        <5> QED
          BY <5>1
      <4> QED
        BY <4>1
    <3>2. ASSUME NEW b \in Q \cup {P}, a.at < b.at PROVE Before(a.data, b.data)
      BY <1>1, <1>7, <2>1, <3>2 DEF Ordered
    <3> QED
      BY <3>1, <3>2
  <2>2. CASE a = P
    <3>1. \A n \in Range(a.data) : n <= h + l
      BY <1>1, <1>4, <2>2
    <3>2. ASSUME NEW b \in Q \cup {P}, a.at < b.at PROVE Before(a.data, b.data)
      <4>1. CASE b \in Q
        <5>1. b.at < a.at /\ b.at \in Nat /\ a.at \in Nat
          BY <2>2, <4>1 DEF Pieces
        <5> QED
          BY <3>2, <5>1
      <4>2. CASE b = P
        BY <2>2, <3>2, <4>2
      <4> QED
        BY <4>1, <4>2
    <3> QED
      BY <3>1, <3>2
  <2> QED
    BY <2>1, <2>2
<1>9. ASSUME NEW n \in 1 .. h + l
      PROVE  (<<s, n>> \in L) <=> ~(\E a \in Q \cup {P} : n \in Range(a.data))
  <2>1. CASE n <= h
    <3>1. n \in 1 .. h
      BY <2>1
    <3>2. (<<s, n>> \in L) <=> ~(\E a \in Q : n \in Range(a.data))
      BY <3>1 DEF Account
    <3>3. n \notin Range(P.data)
      BY <1>1, <1>4, <2>1
    <3> QED
      BY <3>2, <3>3
  <2>2. CASE ~(n <= h)
    <3>1. n \in Range(P.data)
      BY <1>1, <1>3, <2>2
    <3>2. <<s, n>> \notin L
      <4>1. ASSUME <<s, n>> \in L PROVE n \in 1 .. h
        BY <4>1 DEF Account
      <4> QED
        BY <2>2, <4>1
    <3> QED
      BY <3>1, <3>2
  <2> QED
    BY <2>1, <2>2
<1>10. \A x \in L : x[1] = s => x[2] \in 1 .. h + l
  <2>1. \A x \in L : x[1] = s => x[2] \in 1 .. h
    BY DEF Account
  <2>2. \A n \in 1 .. h : n \in 1 .. h + l
    OBVIOUS
  <2> QED
    BY <2>1, <2>2
<1> QED
  BY <1>1, <1>8, <1>9, <1>10 DEF Ordered, Account

\* The places change, their order does not.
Renumbered(Q, f) == {[at |-> f[a.at], data |-> a.data] : a \in Q}

LEMMA Renumbering ==
    ASSUME NEW s, NEW Q, Pieces(Q), NEW h, NEW L, NEW f \in [Nat -> Nat],
           \A i, j \in Nat : i < j => f[i] < f[j]
    PROVE  /\ Pieces(Renumbered(Q, f))
           /\ Ordered(Q, h) <=> Ordered(Renumbered(Q, f), h)
           /\ Account(s, Q, h, L) <=> Account(s, Renumbered(Q, f), h, L)
<1>1. PICK R : R = Renumbered(Q, f)
  OBVIOUS
<1>2. \A a \in Q : \E b \in R : b.at = f[a.at] /\ b.data = a.data
  <2>1. ASSUME NEW a \in Q PROVE \E b \in R : b.at = f[a.at] /\ b.data = a.data
    <3>1. [at |-> f[a.at], data |-> a.data] \in R
      BY <1>1 DEF Renumbered
    <3> QED
      BY <3>1
  <2> QED
    BY <2>1
<1>3. \A b \in R : \E a \in Q : b.at = f[a.at] /\ b.data = a.data
  BY <1>1 DEF Renumbered
<1>4. \A i, j \in Nat : i < j <=> f[i] < f[j]
  <2>1. ASSUME NEW i \in Nat, NEW j \in Nat, f[i] < f[j] PROVE i < j
    <3>1. CASE i = j
      BY <2>1, <3>1
    <3>2. CASE j < i
      <4>1. f[j] < f[i] /\ f[i] \in Nat /\ f[j] \in Nat
        BY <3>2
      <4> QED
        BY <2>1, <4>1
    <3> QED
      BY <3>1, <3>2
  <2> QED
    BY <2>1
<1>5. Pieces(R)
  BY <1>3 DEF Pieces
<1>6. \A n : (\E a \in Q : n \in Range(a.data)) <=> (\E b \in R : n \in Range(b.data))
  BY <1>2, <1>3
<1>7. ASSUME Ordered(Q, h) PROVE Ordered(R, h)
  <2>1. ASSUME NEW b \in R
        PROVE  /\ \A n \in Range(b.data) : n <= h
               /\ \A c \in R : b.at < c.at => Before(b.data, c.data)
    <3>1. PICK a \in Q : b.at = f[a.at] /\ b.data = a.data
      BY <1>3
    <3>2. ASSUME NEW c \in R, b.at < c.at PROVE Before(b.data, c.data)
      <4>1. PICK e \in Q : c.at = f[e.at] /\ c.data = e.data
        BY <1>3
      <4>2. a.at < e.at
        BY <1>4, <3>1, <3>2, <4>1 DEF Pieces
      <4> QED
        BY <1>7, <3>1, <4>1, <4>2 DEF Ordered
    <3> QED
      BY <1>7, <3>1, <3>2 DEF Ordered
  <2> QED
    BY <2>1 DEF Ordered
<1>8. ASSUME Ordered(R, h) PROVE Ordered(Q, h)
  <2>1. ASSUME NEW a \in Q
        PROVE  /\ \A n \in Range(a.data) : n <= h
               /\ \A e \in Q : a.at < e.at => Before(a.data, e.data)
    <3>1. PICK b \in R : b.at = f[a.at] /\ b.data = a.data
      BY <1>2
    <3>2. ASSUME NEW e \in Q, a.at < e.at PROVE Before(a.data, e.data)
      <4>1. PICK c \in R : c.at = f[e.at] /\ c.data = e.data
        BY <1>2
      <4>2. b.at < c.at
        BY <1>4, <3>1, <3>2, <4>1 DEF Pieces
      <4> QED
        BY <1>8, <3>1, <4>1, <4>2 DEF Ordered
    <3> QED
      BY <1>8, <3>1, <3>2 DEF Ordered
  <2> QED
    BY <2>1 DEF Ordered
<1>9. Account(s, Q, h, L) <=> Account(s, R, h, L)
  BY <1>6 DEF Account
<1> QED
  BY <1>1, <1>5, <1>7, <1>8, <1>9

\* A piece is taken out of the queue and is lost.
LEMMA Removing ==
    ASSUME NEW s, NEW Q, Pieces(Q), NEW h \in Nat, NEW L, Ordered(Q, h), Account(s, Q, h, L),
           NEW P \in Q, \A a \in Q : a.at = P.at => a = P
    PROVE  /\ Ordered(Q \ {P}, h)
           /\ Account(s, Q \ {P}, h, L \cup BytesOf(s, P.data))
<1>1. Ordered(Q \ {P}, h)
  BY DEF Ordered
<1>2. \A n : <<s, n>> \in BytesOf(s, P.data) <=> n \in Range(P.data)
  BY DEF BytesOf, Range
<1>3. \A n \in Range(P.data) : n \in Number /\ n <= h
  BY RangeIs DEF Pieces, Ordered
<1>4. ASSUME NEW a \in Q \ {P}, NEW n \in Range(a.data), n \in Range(P.data) PROVE FALSE
  <2>1. PICK i \in DOMAIN a.data, j \in DOMAIN P.data : n = a.data[i] /\ n = P.data[j]
    BY <1>4, RangeIs DEF Pieces
  <2>2. n \in Nat
    BY <1>3, <1>4 DEF Number
  <2>3. a.at < P.at \/ P.at < a.at
    BY DEF Pieces
  <2>4. CASE a.at < P.at
    <3>1. Before(a.data, P.data)
      BY <2>4 DEF Ordered
    <3>2. a.data[i] < P.data[j]
      BY <3>1 DEF Before
    <3> QED
      BY <2>1, <2>2, <3>2
  <2>5. CASE P.at < a.at
    <3>1. Before(P.data, a.data)
      BY <2>5 DEF Ordered
    <3>2. P.data[j] < a.data[i]
      BY <3>1 DEF Before
    <3> QED
      BY <2>1, <2>2, <3>2
  <2> QED
    BY <2>3, <2>4, <2>5
<1>5. ASSUME NEW n \in 1 .. h
      PROVE  (<<s, n>> \in L \cup BytesOf(s, P.data))
                 <=> ~(\E a \in Q \ {P} : n \in Range(a.data))
  <2>1. (<<s, n>> \in L) <=> ~(\E a \in Q : n \in Range(a.data))
    BY DEF Account
  <2>2. CASE n \in Range(P.data)
    <3>1. <<s, n>> \in BytesOf(s, P.data)
      BY <1>2, <2>2
    <3>2. ~(\E a \in Q \ {P} : n \in Range(a.data))
      BY <1>4, <2>2
    <3> QED
      BY <3>1, <3>2
  <2>3. CASE n \notin Range(P.data)
    <3>1. <<s, n>> \notin BytesOf(s, P.data)
      BY <1>2, <2>3
    <3>2. (\E a \in Q : n \in Range(a.data)) <=> (\E a \in Q \ {P} : n \in Range(a.data))
      BY <2>3
    <3> QED
      BY <2>1, <3>1, <3>2
  <2> QED
    BY <2>2, <2>3
<1>6. ASSUME NEW x \in L \cup BytesOf(s, P.data), x[1] = s PROVE x[2] \in 1 .. h
  <2>1. CASE x \in L
    BY <1>6, <2>1 DEF Account
  <2>2. CASE x \in BytesOf(s, P.data)
    <3>1. PICK i \in DOMAIN P.data : x = <<s, P.data[i]>>
      BY <2>2 DEF BytesOf
    <3>2. x[2] \in Range(P.data)
      BY <3>1 DEF Range
    <3> QED
      BY <1>3, <3>2 DEF Number
  <2> QED
    BY <2>1, <2>2
<1> QED
  BY <1>1, <1>5, <1>6 DEF Account

\* Bytes of another source are lost.
LEMMA Elsewhere ==
    ASSUME NEW s, NEW Q, NEW h, NEW L, Account(s, Q, h, L), NEW t, t # s,
           NEW M, \A x \in M : \E n : x = <<t, n>>
    PROVE  Account(s, Q, h, L \cup M)
<1>1. \A x \in M : x[1] # s
  OBVIOUS
<1>2. \A n : <<s, n>> \notin M
  <2>1. \A n : <<s, n>>[1] = s
    OBVIOUS
  <2> QED
    BY <1>1, <2>1
<1> QED
  BY <1>1, <1>2 DEF Account

-----------------------------------------------------------------------------
(* What the steps make of the queue of a source.                            *)

\* The places of the pieces: in the log, at the writer, in the fifo.
Piece(s, x) ==
    \/ \E i \in 1 .. Len(logs[s]) : x = [at |-> i, data |-> logs[s][i].data]
    \/ msg # <<>> /\ msg.src = s /\ x = [at |-> Len(logs[s]) + 1, data |-> msg.data]
    \/ \E i \in 1 .. Len(fifo) :
          fifo[i].src = s /\ x = [at |-> Len(logs[s]) + 1 + i, data |-> fifo[i].data]

LEMMA QueuedIs ==
    SharedTypes => \A s \in Source : /\ Pieces(Queued(s))
                                     /\ \A x : x \in Queued(s) <=> Piece(s, x)
<1> SUFFICES ASSUME SharedTypes, NEW s \in Source
             PROVE  Pieces(Queued(s)) /\ \A x : x \in Queued(s) <=> Piece(s, x)
  OBVIOUS
<1>1. PICK l \in Seq(Message), f \in Seq(Message) : l = logs[s] /\ f = fifo
  BY DEF SharedTypes
<1>2. /\ DOMAIN l = 1 .. Len(l) /\ Len(l) \in Nat /\ \A i \in 1 .. Len(l) : l[i] \in Message
      /\ DOMAIN f = 1 .. Len(f) /\ Len(f) \in Nat /\ \A i \in 1 .. Len(f) : f[i] \in Message
      /\ msg # <<>> => msg \in Message
  BY <1>1 DEF SharedTypes
<1>3. \A x : x \in Queued(s) <=> Piece(s, x)
  BY <1>1, <1>2 DEF Queued, OnTheWriter, InFifo, Piece
<1>4. ASSUME NEW x, Piece(s, x) PROVE x.at \in Nat /\ x.data \in Seq(Number)
  <2>1. CASE \E i \in 1 .. Len(logs[s]) : x = [at |-> i, data |-> logs[s][i].data]
    BY <1>1, <1>2, <2>1, MessageIs
  <2>2. CASE msg # <<>> /\ msg.src = s /\ x = [at |-> Len(logs[s]) + 1, data |-> msg.data]
    BY <1>1, <1>2, <2>2, MessageIs
  <2>3. CASE \E i \in 1 .. Len(fifo) :
               fifo[i].src = s /\ x = [at |-> Len(logs[s]) + 1 + i, data |-> fifo[i].data]
    BY <1>1, <1>2, <2>3, MessageIs
  <2> QED
    BY <1>4, <2>1, <2>2, <2>3 DEF Piece
<1> QED
  BY <1>3, <1>4 DEF Pieces

LEMMA QueuedNext ==
    SharedTypes' => \A s \in Source : /\ Pieces(Queued(s)')
                                      /\ \A x : x \in Queued(s)' <=> Piece(s, x)'
<1>1. (SharedTypes => \A s \in Source : /\ Pieces(Queued(s))
                                        /\ \A x : x \in Queued(s) <=> Piece(s, x))'
  BY QueuedIs, PTL
<1> QED
  BY <1>1 DEF Pieces

LEMMA QueueAppended ==
    ASSUME SharedTypes, SharedTypes', NEW m \in Message, fifo' = Append(fifo, m),
           UNCHANGED <<msg, logs>>, NEW s \in Source
    PROVE  LET P == [at |-> Len(logs[s]) + 1 + (Len(fifo) + 1), data |-> m.data]
           IN  /\ Queued(s)' = IF s = m.src THEN Queued(s) \cup {P} ELSE Queued(s)
               /\ P.at \in Nat /\ \A a \in Queued(s) : a.at < P.at
<1>1. PICK n \in Nat, f \in Nat : n = Len(logs[s]) /\ f = Len(fifo)
  BY DEF SharedTypes
<1>2. PICK P : P = [at |-> n + 1 + (f + 1), data |-> m.data]
  OBVIOUS
<1>3. Len(fifo') = f + 1 /\ fifo'[f + 1] = m /\ \A i \in 1 .. f : fifo'[i] = fifo[i]
  BY <1>1, AppendIs DEF SharedTypes
<1>4. \A i \in 1 .. f + 1 : i \in 1 .. f \/ i = f + 1
  OBVIOUS
<1>5. \A x : Piece(s, x)' <=> Piece(s, x) \/ (m.src = s /\ x = P)
  <2>1. \A x : (\E i \in 1 .. f + 1 : fifo'[i].src = s
                                      /\ x = [at |-> n + 1 + i, data |-> fifo'[i].data])
               <=> \/ \E i \in 1 .. f : fifo[i].src = s
                                        /\ x = [at |-> n + 1 + i, data |-> fifo[i].data]
                   \/ m.src = s /\ x = P
    <3>1. \A i \in 1 .. f : i \in 1 .. f + 1
      OBVIOUS
    <3>2. f + 1 \in 1 .. f + 1
      OBVIOUS
    <3> QED
      BY <1>2, <1>3, <1>4, <3>1, <3>2
  <2> QED
    <3>1. ASSUME NEW x
          PROVE  Piece(s, x)' <=>
                   \/ \E i \in 1 .. n : x = [at |-> i, data |-> logs[s][i].data]
                   \/ msg # <<>> /\ msg.src = s /\ x = [at |-> n + 1, data |-> msg.data]
                   \/ \E i \in 1 .. f + 1 :
                        fifo'[i].src = s /\ x = [at |-> n + 1 + i, data |-> fifo'[i].data]
      BY <1>1, <1>3 DEF Piece
    <3>2. ASSUME NEW x
          PROVE  Piece(s, x) <=>
                   \/ \E i \in 1 .. n : x = [at |-> i, data |-> logs[s][i].data]
                   \/ msg # <<>> /\ msg.src = s /\ x = [at |-> n + 1, data |-> msg.data]
                   \/ \E i \in 1 .. f :
                        fifo[i].src = s /\ x = [at |-> n + 1 + i, data |-> fifo[i].data]
      BY <1>1 DEF Piece
    <3> QED
      BY <2>1, <3>1, <3>2
<1>6. \A x : x \in Queued(s)' <=> x \in Queued(s) \/ (m.src = s /\ x = P)
  BY <1>5, QueuedIs, QueuedNext
<1>7. Queued(s)' = IF s = m.src THEN Queued(s) \cup {P} ELSE Queued(s)
  BY <1>6
<1>8. P.at \in Nat
  BY <1>2
<1>9. ASSUME NEW a \in Queued(s) PROVE a.at < P.at
  <2>1. Piece(s, a)
    BY QueuedIs
  <2>2. \/ \E i \in 1 .. n : a.at = i
        \/ a.at = n + 1
        \/ \E i \in 1 .. f : a.at = n + 1 + i
    BY <1>1, <2>1 DEF Piece
  <2> QED
    BY <1>2, <2>2
<1> QED
  BY <1>1, <1>2, <1>7, <1>8, <1>9

\* A place is made, or filled, behind the first n.
Gap(n) == [k \in Nat |-> IF k <= n THEN k ELSE k + 1]

LEMMA GapIs ==
    ASSUME NEW n \in Nat
    PROVE  /\ Gap(n) \in [Nat -> Nat] /\ \A i, j \in Nat : i < j => Gap(n)[i] < Gap(n)[j]
           /\ \A i \in 1 .. n : Gap(n)[i] = i
           /\ \A i \in Nat : i > n => Gap(n)[i] = i + 1
BY DEF Gap

LEMMA QueueTaken ==
    ASSUME RecvTypes, SharedTypes, BufInv, Take, NEW s \in Source
    PROVE  Queued(s) = Renumbered(Queued(s)', Gap(Len(logs[s])))
<1>1. /\ SharedTypes' /\ msg = <<>> /\ msg' = fifo[1] /\ fifo[1] # <<>> /\ logs' = logs
      /\ Len(fifo') = Len(fifo) - 1 /\ Len(fifo) \in Nat \ {0}
      /\ \A i \in 1 .. Len(fifo) - 1 : fifo'[i] = fifo[i + 1]
  BY TakeTypes, MessageIs
<1>2. PICK n \in Nat, f \in Nat : n = Len(logs[s]) /\ f + 1 = Len(fifo) /\ f = Len(fifo')
  <2>1. Len(logs[s]) \in Nat
    BY DEF SharedTypes
  <2>2. Len(fifo) - 1 \in Nat /\ (Len(fifo) - 1) + 1 = Len(fifo)
    BY <1>1
  <2> QED
    BY <1>1, <2>1, <2>2
<1>3. PICK g \in [Nat -> Nat] : /\ g = Gap(n) /\ \A i \in 1 .. n : g[i] = i
                                /\ \A i \in Nat : i > n => g[i] = i + 1
  BY GapIs
<1>4. /\ \A i \in 1 .. f : fifo'[i] = fifo[i + 1] /\ i + 1 \in 1 .. f + 1
                           /\ g[n + 1 + i] = n + 1 + (i + 1)
      /\ g[n + 1] = n + 1 + 1
  <2>1. \A i \in 1 .. f : fifo'[i] = fifo[i + 1]
    BY <1>1, <1>2
  <2>2. ASSUME NEW i \in 1 .. f
        PROVE  i + 1 \in 1 .. f + 1 /\ g[n + 1 + i] = n + 1 + (i + 1)
    <3>1. n + 1 + i \in Nat /\ n + 1 + i > n
      OBVIOUS
    <3> QED
      BY <1>3, <3>1
  <2>3. g[n + 1] = n + 1 + 1
    <3>1. n + 1 \in Nat /\ n + 1 > n
      OBVIOUS
    <3> QED
      BY <1>3, <3>1
  <2> QED
    BY <2>1, <2>2, <2>3
<1>5. ASSUME NEW x \in Queued(s)
      PROVE  \E y \in Queued(s)' : x = [at |-> g[y.at], data |-> y.data]
  <2>1. Piece(s, x)
    BY QueuedIs
  <2>2. CASE \E i \in 1 .. n : x = [at |-> i, data |-> logs[s][i].data]
    <3>1. PICK i \in 1 .. n : x = [at |-> i, data |-> logs[s][i].data]
      BY <2>2
    <3>2. Piece(s, x)'
      BY <1>1, <1>2, <3>1 DEF Piece
    <3>3. x \in Queued(s)' /\ x = [at |-> g[x.at], data |-> x.data]
      BY <1>1, <1>3, <3>1, <3>2, QueuedNext
    <3> QED
      BY <3>3
  <2>3. CASE \E i \in 1 .. f + 1 :
               fifo[i].src = s /\ x = [at |-> n + 1 + i, data |-> fifo[i].data]
    <3>1. PICK i \in 1 .. f + 1 :
             fifo[i].src = s /\ x = [at |-> n + 1 + i, data |-> fifo[i].data]
      BY <2>3
    <3>2. CASE i = 1
      <4>1. PICK y : y = [at |-> n + 1, data |-> msg'.data]
        OBVIOUS
      <4>2. Piece(s, y)'
        BY <1>1, <1>2, <3>1, <3>2, <4>1 DEF Piece
      <4>3. y \in Queued(s)' /\ x = [at |-> g[y.at], data |-> y.data]
        BY <1>1, <1>4, <3>1, <3>2, <4>1, <4>2, QueuedNext
      <4> QED
        BY <4>3
    <3>3. CASE i # 1
      <4>1. PICK j \in 1 .. f : i = j + 1
        <5>1. i - 1 \in 1 .. f /\ i = (i - 1) + 1
          BY <3>3
        <5> QED
          BY <5>1
      <4>2. PICK y : y = [at |-> n + 1 + j, data |-> fifo'[j].data]
        OBVIOUS
      <4>3. Piece(s, y)'
        BY <1>1, <1>2, <1>4, <3>1, <4>1, <4>2 DEF Piece
      <4>4. y \in Queued(s)' /\ x = [at |-> g[y.at], data |-> y.data]
        BY <1>1, <1>4, <3>1, <4>1, <4>2, <4>3, QueuedNext
      <4> QED
        BY <4>4
    <3> QED
      BY <3>2, <3>3
  <2> QED
    BY <1>1, <1>2, <2>1, <2>2, <2>3 DEF Piece
<1>6. ASSUME NEW y \in Queued(s)'
      PROVE  [at |-> g[y.at], data |-> y.data] \in Queued(s)
  <2>1. Piece(s, y)'
    BY <1>1, QueuedNext
  <2>2. PICK x : x = [at |-> g[y.at], data |-> y.data]
    OBVIOUS
  <2>3. CASE \E i \in 1 .. n : y = [at |-> i, data |-> logs[s][i].data]
    <3>1. PICK i \in 1 .. n : y = [at |-> i, data |-> logs[s][i].data]
      BY <2>3
    <3>2. x = [at |-> i, data |-> logs[s][i].data]
      BY <1>3, <2>2, <3>1
    <3>3. Piece(s, x)
      BY <1>2, <3>2 DEF Piece
    <3> QED
      BY <2>2, <3>3, QueuedIs
  <2>4. CASE msg'.src = s /\ y = [at |-> n + 1, data |-> msg'.data]
    <3>1. x = [at |-> n + 1 + 1, data |-> fifo[1].data] /\ fifo[1].src = s
      BY <1>1, <1>4, <2>2, <2>4
    <3>2. 1 \in 1 .. f + 1
      OBVIOUS
    <3>3. Piece(s, x)
      BY <1>2, <3>1, <3>2 DEF Piece
    <3> QED
      BY <2>2, <3>3, QueuedIs
  <2>5. CASE \E i \in 1 .. f :
               fifo'[i].src = s /\ y = [at |-> n + 1 + i, data |-> fifo'[i].data]
    <3>1. PICK i \in 1 .. f :
             fifo'[i].src = s /\ y = [at |-> n + 1 + i, data |-> fifo'[i].data]
      BY <2>5
    <3>2. x = [at |-> n + 1 + (i + 1), data |-> fifo[i + 1].data] /\ fifo[i + 1].src = s
          /\ i + 1 \in 1 .. f + 1
      BY <1>4, <2>2, <3>1
    <3>3. Piece(s, x)
      BY <1>2, <3>2 DEF Piece
    <3> QED
      BY <2>2, <3>3, QueuedIs
  <2> QED
    BY <1>1, <1>2, <2>1, <2>3, <2>4, <2>5 DEF Piece
<1> QED
  BY <1>2, <1>3, <1>5, <1>6 DEF Renumbered

LEMMA QueueWritten ==
    ASSUME RecvTypes, SharedTypes, BufInv, WriteLine, NEW s \in Source,
           logs' = [logs EXCEPT ![msg.src] = Append(logs[msg.src], LogLine(msg))]
    PROVE  Queued(s)' = IF s = msg.src THEN Renumbered(Queued(s), Gap(Len(logs[s]) + 1))
                                      ELSE Queued(s)
<1>1. /\ SharedTypes' /\ msg \in Message /\ msg # <<>> /\ msg' = <<>> /\ fifo' = fifo
      /\ msg.src \in Source /\ LogLine(msg) \in Message /\ LogLine(msg).data = msg.data
  BY WriteTypes, MessageIs, LineIs
<1>2. PICK n \in Nat, f \in Nat : n = Len(logs[s]) /\ f = Len(fifo)
  BY DEF SharedTypes
<1>3. CASE s # msg.src
  <2>1. logs'[s] = logs[s]
    BY <1>1, <1>3 DEF SharedTypes
  <2>2. \A x : Piece(s, x)' <=> Piece(s, x)
    BY <1>1, <1>3, <2>1 DEF Piece
  <2>3. \A x : x \in Queued(s)' <=> x \in Queued(s)
    BY <1>1, <2>2, QueuedIs, QueuedNext
  <2> QED
    BY <1>3, <2>3
<1>4. CASE s = msg.src
  <2>1. /\ Len(logs'[s]) = n + 1 /\ logs'[s][n + 1].data = msg.data
        /\ \A i \in 1 .. n : logs'[s][i] = logs[s][i]
    <3>1. logs[s] \in Seq(Message) /\ logs'[s] = Append(logs[s], LogLine(msg))
      BY <1>1, <1>4 DEF SharedTypes
    <3>2. /\ Len(Append(logs[s], LogLine(msg))) = Len(logs[s]) + 1
          /\ Append(logs[s], LogLine(msg))[Len(logs[s]) + 1] = LogLine(msg)
          /\ \A i \in 1 .. Len(logs[s]) : Append(logs[s], LogLine(msg))[i] = logs[s][i]
      BY <1>1, <3>1, AppendIs
    <3> QED
      BY <1>1, <1>2, <3>1, <3>2
  <2>2. PICK g \in [Nat -> Nat] : /\ g = Gap(n + 1) /\ \A i \in 1 .. n + 1 : g[i] = i
                                  /\ \A i \in Nat : i > n + 1 => g[i] = i + 1
    <3>1. n + 1 \in Nat
      OBVIOUS
    <3> QED
      BY <3>1, GapIs
  <2>3. /\ \A i \in 1 .. n : g[i] = i
        /\ g[n + 1] = n + 1
        /\ \A i \in 1 .. f : g[n + 1 + i] = (n + 1) + 1 + i
    <3>1. \A i \in 1 .. n : i \in 1 .. n + 1
      OBVIOUS
    <3>2. n + 1 \in 1 .. n + 1
      OBVIOUS
    <3>3. \A i \in 1 .. f : n + 1 + i \in Nat /\ n + 1 + i > n + 1
                            /\ (n + 1 + i) + 1 = (n + 1) + 1 + i
      OBVIOUS
    <3> QED
      BY <2>2, <3>1, <3>2, <3>3
  <2>4. ASSUME NEW x
        PROVE  Piece(s, x) <=>
                 \/ \E i \in 1 .. n : x = [at |-> i, data |-> logs[s][i].data]
                 \/ x = [at |-> n + 1, data |-> msg.data]
                 \/ \E i \in 1 .. f :
                      fifo[i].src = s /\ x = [at |-> n + 1 + i, data |-> fifo[i].data]
    BY <1>1, <1>2, <1>4 DEF Piece
  <2>5. ASSUME NEW x
        PROVE  Piece(s, x)' <=>
                 \/ \E i \in 1 .. n + 1 : x = [at |-> i, data |-> logs'[s][i].data]
                 \/ \E i \in 1 .. f :
                      fifo[i].src = s /\ x = [at |-> (n + 1) + 1 + i, data |-> fifo[i].data]
    BY <1>1, <1>2, <2>1 DEF Piece
  <2>6. ASSUME NEW x
        PROVE  Piece(s, x)' <=>
                 \/ \E i \in 1 .. n : x = [at |-> i, data |-> logs[s][i].data]
                 \/ x = [at |-> n + 1, data |-> msg.data]
                 \/ \E i \in 1 .. f :
                      fifo[i].src = s /\ x = [at |-> (n + 1) + 1 + i, data |-> fifo[i].data]
    <3>1. (\E i \in 1 .. n + 1 : x = [at |-> i, data |-> logs'[s][i].data])
          <=> \/ \E i \in 1 .. n : x = [at |-> i, data |-> logs[s][i].data]
              \/ x = [at |-> n + 1, data |-> msg.data]
      <4>1. \A i \in 1 .. n + 1 : i \in 1 .. n \/ i = n + 1
        OBVIOUS
      <4>2. \A i \in 1 .. n : i \in 1 .. n + 1
        OBVIOUS
      <4>3. n + 1 \in 1 .. n + 1
        OBVIOUS
      <4> QED
        BY <2>1, <4>1, <4>2, <4>3
    <3> QED
      BY <2>5, <3>1
  <2>7. ASSUME NEW x \in Queued(s)' PROVE x \in Renumbered(Queued(s), g)
    <3>1. Piece(s, x)'
      BY <1>1, QueuedNext
    <3>2. CASE \E i \in 1 .. n : x = [at |-> i, data |-> logs[s][i].data]
      <4>1. PICK i \in 1 .. n : x = [at |-> i, data |-> logs[s][i].data]
        BY <3>2
      <4>2. x \in Queued(s)
        BY <2>4, <4>1, QueuedIs
      <4>3. x = [at |-> g[x.at], data |-> x.data]
        BY <2>3, <4>1
      <4> QED
        BY <4>2, <4>3 DEF Renumbered
    <3>3. CASE x = [at |-> n + 1, data |-> msg.data]
      <4>1. x \in Queued(s)
        BY <2>4, <3>3, QueuedIs
      <4>2. x = [at |-> g[x.at], data |-> x.data]
        BY <2>3, <3>3
      <4> QED
        BY <4>1, <4>2 DEF Renumbered
    <3>4. CASE \E i \in 1 .. f :
                  fifo[i].src = s /\ x = [at |-> (n + 1) + 1 + i, data |-> fifo[i].data]
      <4>1. PICK i \in 1 .. f :
               fifo[i].src = s /\ x = [at |-> (n + 1) + 1 + i, data |-> fifo[i].data]
        BY <3>4
      <4>2. PICK y : y = [at |-> n + 1 + i, data |-> fifo[i].data]
        OBVIOUS
      <4>3. y \in Queued(s)
        BY <2>4, <4>1, <4>2, QueuedIs
      <4>4. x = [at |-> g[y.at], data |-> y.data]
        BY <2>3, <4>1, <4>2
      <4> QED
        BY <4>3, <4>4 DEF Renumbered
    <3> QED
      BY <2>6, <3>1, <3>2, <3>3, <3>4
  <2>8. ASSUME NEW y \in Queued(s)
        PROVE  [at |-> g[y.at], data |-> y.data] \in Queued(s)'
    <3>1. Piece(s, y)
      BY QueuedIs
    <3>2. PICK x : x = [at |-> g[y.at], data |-> y.data]
      OBVIOUS
    <3>3. CASE \E i \in 1 .. n : y = [at |-> i, data |-> logs[s][i].data]
      <4>1. PICK i \in 1 .. n : y = [at |-> i, data |-> logs[s][i].data]
        BY <3>3
      <4>2. x = [at |-> i, data |-> logs[s][i].data]
        BY <2>3, <3>2, <4>1
      <4>3. Piece(s, x)'
        BY <2>6, <4>2
      <4> QED
        BY <1>1, <3>2, <4>3, QueuedNext
    <3>4. CASE y = [at |-> n + 1, data |-> msg.data]
      <4>1. x = [at |-> n + 1, data |-> msg.data]
        BY <2>3, <3>2, <3>4
      <4>2. Piece(s, x)'
        BY <2>6, <4>1
      <4> QED
        BY <1>1, <3>2, <4>2, QueuedNext
    <3>5. CASE \E i \in 1 .. f :
                  fifo[i].src = s /\ y = [at |-> n + 1 + i, data |-> fifo[i].data]
      <4>1. PICK i \in 1 .. f :
               fifo[i].src = s /\ y = [at |-> n + 1 + i, data |-> fifo[i].data]
        BY <3>5
      <4>2. x = [at |-> (n + 1) + 1 + i, data |-> fifo[i].data]
        BY <2>3, <3>2, <4>1
      <4>3. Piece(s, x)'
        BY <2>6, <4>1, <4>2
      <4> QED
        BY <1>1, <3>2, <4>3, QueuedNext
    <3> QED
      BY <2>4, <3>1, <3>3, <3>4, <3>5
  <2>9. Queued(s)' = Renumbered(Queued(s), g)
    BY <2>7, <2>8 DEF Renumbered
  <2> QED
    BY <1>2, <1>4, <2>2, <2>9
<1> QED
  BY <1>3, <1>4

LEMMA QueueFailed ==
    ASSUME RecvTypes, SharedTypes, BufInv, WriteLine, NEW s \in Source, logs' = logs
    PROVE  /\ s # msg.src => Queued(s)' = Queued(s)
           /\ s = msg.src =>
                \E P \in Queued(s) : /\ P.data = msg.data /\ Queued(s)' = Queued(s) \ {P}
                                     /\ \A a \in Queued(s) : a.at = P.at => a = P
<1>1. SharedTypes' /\ msg \in Message /\ msg # <<>> /\ msg' = <<>> /\ fifo' = fifo
  BY WriteTypes, MessageIs
<1>2. PICK n \in Nat, f \in Nat : n = Len(logs[s]) /\ f = Len(fifo)
  BY DEF SharedTypes
<1>3. ASSUME NEW x
      PROVE  Piece(s, x)' <=>
               \/ \E i \in 1 .. n : x = [at |-> i, data |-> logs[s][i].data]
               \/ \E i \in 1 .. f :
                    fifo[i].src = s /\ x = [at |-> n + 1 + i, data |-> fifo[i].data]
  BY <1>1, <1>2 DEF Piece
<1>4. CASE s # msg.src
  <2>1. ASSUME NEW x PROVE Piece(s, x)' <=> Piece(s, x)
    <3>1. Piece(s, x) <=>
            \/ \E i \in 1 .. n : x = [at |-> i, data |-> logs[s][i].data]
            \/ \E i \in 1 .. f :
                 fifo[i].src = s /\ x = [at |-> n + 1 + i, data |-> fifo[i].data]
      BY <1>2, <1>4 DEF Piece
    <3> QED
      BY <1>3, <3>1, Zenon
  <2>2. \A x : x \in Queued(s)' <=> x \in Queued(s)
    BY <1>1, <2>1, QueuedIs, QueuedNext
  <2>3. Queued(s)' = Queued(s)
    BY <2>2
  <2> QED
    BY <1>4, <2>3
<1>5. CASE s = msg.src
  <2>1. ASSUME NEW x
        PROVE  Piece(s, x) <=>
                 \/ \E i \in 1 .. n : x = [at |-> i, data |-> logs[s][i].data]
                 \/ x = [at |-> n + 1, data |-> msg.data]
                 \/ \E i \in 1 .. f :
                      fifo[i].src = s /\ x = [at |-> n + 1 + i, data |-> fifo[i].data]
    BY <1>1, <1>2, <1>5 DEF Piece
  <2>2. PICK P : P = [at |-> n + 1, data |-> msg.data]
    OBVIOUS
  <2>3. P \in Queued(s) /\ P.data = msg.data /\ P.at = n + 1
    BY <2>1, <2>2, QueuedIs
  <2>4. ASSUME NEW x
        PROVE  /\ (\E i \in 1 .. n : x = [at |-> i, data |-> logs[s][i].data])
                      => x.at # n + 1
               /\ (\E i \in 1 .. f :
                     fifo[i].src = s /\ x = [at |-> n + 1 + i, data |-> fifo[i].data])
                      => x.at # n + 1
    <3>1. \A i \in 1 .. n : i # n + 1
      OBVIOUS
    <3>2. \A i \in 1 .. f : n + 1 + i # n + 1
      OBVIOUS
    <3> QED
      BY <3>1, <3>2
  <2>5. \A a \in Queued(s) : a.at = P.at => a = P
    BY <2>1, <2>2, <2>3, <2>4, QueuedIs
  <2>6. \A x : Piece(s, x)' <=> Piece(s, x) /\ x # P
    BY <1>3, <2>1, <2>2, <2>3, <2>4
  <2>7. \A x : x \in Queued(s)' <=> x \in Queued(s) /\ x # P
    BY <1>1, <2>6, QueuedIs, QueuedNext
  <2>8. Queued(s)' = Queued(s) \ {P}
    BY <2>7
  <2> QED
    BY <1>5, <2>3, <2>5, <2>8
<1> QED
  BY <1>4, <1>5

-----------------------------------------------------------------------------
(* The inductive invariant.                                                 *)

SourceInv(s) == /\ Ordered(Queued(s), Handed(s))
                /\ Account(s, Queued(s), Handed(s), lost)

LEMMA SourcesAre == QueueInv /\ LostInv <=> \A s \in Source : SourceInv(s)
<1>1. QueueInv <=> \A s \in Source : Ordered(Queued(s), Handed(s))
  BY DEF QueueInv, Ordered
<1>2. LostInv <=> \A s \in Source : Account(s, Queued(s), Handed(s), lost)
  BY DEF LostInv, Account
<1> QED
  BY <1>1, <1>2 DEF SourceInv

LEMMA HandedRange ==
    ASSUME RecvTypes, SharedTypes, BufInv PROVE \A s \in Source : Handed(s) \in Nat
<1>1. \A s \in Port : Handed(s) \in Nat
  BY HandedIs DEF Tail2
<1>2. \A s \in Source : got[s] \in Nat
  BY DEF SharedTypes
<1> QED
  BY <1>1, <1>2, HandedElse

LEMMA HandedNext ==
    RecvTypes' /\ SharedTypes' /\ BufInv' => \A s \in Source : Handed(s)' \in Nat
<1>1. (RecvTypes /\ SharedTypes /\ BufInv => \A s \in Source : Handed(s) \in Nat)'
  BY HandedRange, PTL
<1> QED
  BY <1>1

LEMMA MovedMessages ==
    ASSUME SharedTypes, MessageInv, NEW c \in Source, GaveUp(c) \/ Enqueued(c)
    PROVE  MessageInv'
<1>1. CASE GaveUp(c)
  BY <1>1 DEF GaveUp, MessageInv
<1>2. CASE Enqueued(c)
  <2>1. PICK m \in Message : fifo' = Append(fifo, m) /\ Sound(m)
    BY <1>2 DEF Enqueued
  <2>2. msg' = msg /\ logs' = logs
    BY <1>2 DEF Enqueued
  <2>3. /\ fifo' \in Seq(Message) /\ Len(fifo') = Len(fifo) + 1 /\ Len(fifo) \in Nat
        /\ fifo'[Len(fifo) + 1] = m
        /\ \A i \in 1 .. Len(fifo) : fifo'[i] = fifo[i]
    BY <2>1, AppendIs DEF SharedTypes
  <2>4. ASSUME NEW i \in DOMAIN fifo' PROVE Sound(fifo'[i])
    <3>1. i \in 1 .. Len(fifo) \/ i = Len(fifo) + 1
      BY <2>3
    <3>2. i \in 1 .. Len(fifo) => i \in DOMAIN fifo
      BY DEF SharedTypes
    <3> QED
      BY <2>1, <2>3, <3>1, <3>2 DEF MessageInv
  <2> QED
    BY <2>2, <2>4 DEF MessageInv
<1> QED
  BY <1>1, <1>2

LEMMA MovedSources ==
    ASSUME RecvTypes, SharedTypes, BufInv, \A s \in Source : SourceInv(s),
           RecvTypes', SharedTypes', BufInv',
           NEW c \in Source, GaveUp(c) \/ Enqueued(c), Others(c), NEW s \in Source
    PROVE  SourceInv(s)'
<1>1. PICK h \in Nat, e \in Nat : h = Handed(s) /\ e = Handed(s)'
  BY HandedRange, HandedNext
<1>2. Pieces(Queued(s)) /\ Ordered(Queued(s), h) /\ Account(s, Queued(s), h, lost)
  BY <1>1, QueuedIs DEF SourceInv
<1>3. s # c => e = h
  BY <1>1 DEF Others
<1>4. CASE GaveUp(c)
  <2>1. Queued(s)' = Queued(s)
    BY <1>4 DEF GaveUp, Queued, OnTheWriter, InFifo
  <2>2. CASE s = c
    <3>1. e >= h /\ lost' = lost \cup {<<s, n>> : n \in h + 1 .. e}
      BY <1>1, <1>4, <2>2 DEF GaveUp
    <3>2. Ordered(Queued(s), e) /\ Account(s, Queued(s), e, lost')
      BY <1>2, <3>1, GivingUp
    <3> QED
      BY <1>1, <2>1, <3>2 DEF SourceInv
  <2>3. CASE s # c
    <3>1. PICK M : lost' = lost \cup M /\ \A x \in M : \E n : x = <<c, n>>
      <4>1. PICK M : M = {<<c, n>> : n \in Handed(c) + 1 .. Handed(c)'}
        OBVIOUS
      <4>2. lost' = lost \cup M
        BY <1>4, <4>1 DEF GaveUp
      <4>3. \A x \in M : \E n : x = <<c, n>>
        BY <4>1
      <4> QED
        BY <4>2, <4>3
    <3>2. Account(s, Queued(s), h, lost')
      BY <1>2, <2>3, <3>1, Elsewhere
    <3> QED
      BY <1>1, <1>2, <1>3, <2>1, <2>3, <3>2 DEF SourceInv
  <2> QED
    BY <2>2, <2>3
<1>5. CASE Enqueued(c)
  <2>1. /\ UNCHANGED <<msg, logs, lost>>
        /\ \E m \in Message :
              /\ fifo' = Append(fifo, m) /\ m.src = c
              /\ Follows(m.data, Handed(c)) /\ Handed(c)' = Handed(c) + Len(m.data)
    BY <1>5 DEF Enqueued
  <2>2. PICK m \in Message : /\ fifo' = Append(fifo, m) /\ m.src = c
                             /\ Follows(m.data, Handed(c))
                             /\ Handed(c)' = Handed(c) + Len(m.data)
    BY <2>1
  <2>3. PICK P : P = [at |-> Len(logs[s]) + 1 + (Len(fifo) + 1), data |-> m.data]
    OBVIOUS
  <2>4. /\ Queued(s)' = IF s = c THEN Queued(s) \cup {P} ELSE Queued(s)
        /\ P.at \in Nat /\ \A a \in Queued(s) : a.at < P.at
    BY <2>1, <2>2, <2>3, QueueAppended
  <2>5. P.data = m.data /\ m.data \in Seq(Number)
    BY <2>3, MessageIs
  <2>6. CASE s = c
    <3>1. Follows(P.data, h) /\ e = h + Len(P.data)
      BY <1>1, <2>2, <2>5, <2>6
    <3>2. Ordered(Queued(s) \cup {P}, e) /\ Account(s, Queued(s) \cup {P}, e, lost)
      BY <1>2, <2>4, <2>5, <3>1, Enqueuing
    <3> QED
      BY <1>1, <2>1, <2>4, <2>6, <3>2 DEF SourceInv
  <2>7. CASE s # c
    BY <1>1, <1>2, <1>3, <2>1, <2>4, <2>7 DEF SourceInv
  <2> QED
    BY <2>6, <2>7
<1> QED
  BY <1>4, <1>5

\* The invariant after a step that keeps its parts.
LEMMA InvParts == IngestInv <=> /\ RecvTypes /\ SharedTypes /\ BufInv /\ MessageInv
                                /\ \A s \in Source : SourceInv(s)
BY TypesAre, SourcesAre DEF IngestInv

LEMMA InvPartsNext ==
    ASSUME RecvTypes', SharedTypes', BufInv', MessageInv', \A s \in Source : SourceInv(s)'
    PROVE  IngestInv'
<1>1. (IngestInv <=> /\ RecvTypes /\ SharedTypes /\ BufInv /\ MessageInv
                     /\ \A s \in Source : SourceInv(s))'
  BY InvParts, PTL
<1> QED
  BY <1>1

LEMMA MovedInv == ASSUME IngestInv, Moved PROVE IngestInv'
<1>1. /\ RecvTypes /\ SharedTypes /\ BufInv /\ MessageInv
      /\ \A s \in Source : SourceInv(s)
  BY InvParts
<1>2. PICK c \in Source : (GaveUp(c) \/ Enqueued(c)) /\ Others(c)
  BY DEF Moved
<1>3. RecvTypes' /\ SharedTypes' /\ BufInv'
  BY DEF Moved
<1>4. MessageInv'
  BY <1>1, <1>2, MovedMessages
<1>5. \A s \in Source : SourceInv(s)'
  BY <1>1, <1>2, <1>3, MovedSources
<1> QED
  BY <1>3, <1>4, <1>5, InvPartsNext

LEMMA TakeInv == ASSUME IngestInv, Take PROVE IngestInv'
<1>1. /\ RecvTypes /\ SharedTypes /\ BufInv /\ MessageInv
      /\ \A s \in Source : SourceInv(s)
  BY InvParts
<1>2. /\ RecvTypes' /\ SharedTypes' /\ BufInv' /\ \A s : Handed(s)' = Handed(s)
      /\ msg' = fifo[1] /\ Len(fifo) \in Nat \ {0} /\ Len(fifo') = Len(fifo) - 1
      /\ \A i \in 1 .. Len(fifo) - 1 : fifo'[i] = fifo[i + 1]
      /\ UNCHANGED <<logs, lost>>
  BY <1>1, TakeTypes
<1>3. MessageInv'
  <2>1. DOMAIN fifo = 1 .. Len(fifo) /\ DOMAIN fifo' = 1 .. Len(fifo')
    BY <1>1, <1>2 DEF SharedTypes
  <2>2. \A i \in 1 .. Len(fifo) : Sound(fifo[i])
    BY <1>1, <2>1 DEF MessageInv
  <2>3. Sound(msg')
    BY <1>2, <2>2
  <2>4. ASSUME NEW i \in DOMAIN fifo' PROVE Sound(fifo'[i])
    <3>1. i \in 1 .. Len(fifo) - 1 /\ i + 1 \in 1 .. Len(fifo)
      BY <1>2, <2>1
    <3> QED
      BY <1>2, <2>2, <3>1
  <2> QED
    BY <1>1, <1>2, <2>3, <2>4 DEF MessageInv
<1>4. ASSUME NEW s \in Source PROVE SourceInv(s)'
  <2>1. PICK n \in Nat : n = Len(logs[s])
    BY <1>1 DEF SharedTypes
  <2>2. Queued(s) = Renumbered(Queued(s)', Gap(n))
    BY <1>1, <2>1, QueueTaken
  <2>3. Pieces(Queued(s)')
    BY <1>2, QueuedNext
  <2>4. PICK R : R = Queued(s)'
    OBVIOUS
  <2>5. Ordered(Queued(s), Handed(s)) /\ Account(s, Queued(s), Handed(s), lost)
    BY <1>1 DEF SourceInv
  <2>6. PICK f \in [Nat -> Nat] : f = Gap(n) /\ \A i, j \in Nat : i < j => f[i] < f[j]
    BY GapIs
  <2>7. PICK h : h = Handed(s)
    OBVIOUS
  <2>8. /\ Ordered(R, h) <=> Ordered(Renumbered(R, f), h)
        /\ Account(s, R, h, lost) <=> Account(s, Renumbered(R, f), h, lost)
    BY <2>3, <2>4, <2>6, Renumbering
  <2> QED
    BY <1>2, <2>2, <2>4, <2>5, <2>6, <2>7, <2>8 DEF SourceInv
<1> QED
  BY <1>2, <1>3, <1>4, InvPartsNext

LEMMA WriteInv == ASSUME IngestInv, WriteLine PROVE IngestInv'
<1>1. /\ RecvTypes /\ SharedTypes /\ BufInv /\ MessageInv
      /\ \A s \in Source : SourceInv(s)
  BY InvParts
<1>2. /\ RecvTypes' /\ SharedTypes' /\ BufInv' /\ \A s : Handed(s)' = Handed(s)
      /\ msg \in Message /\ msg' = <<>> /\ UNCHANGED fifo
      /\ msg.id = 0 => frameId' \in 1 .. MaxId
      /\ \/ logs' = [logs EXCEPT ![msg.src] = Append(logs[msg.src], LogLine(msg))]
            /\ UNCHANGED lost
         \/ lost' = lost \cup BytesOf(msg.src, msg.data) /\ UNCHANGED logs
  BY <1>1, WriteTypes
<1>3. msg # <<>> /\ msg.src \in Source
  BY <1>2, MessageIs
<1>4. CASE /\ logs' = [logs EXCEPT ![msg.src] = Append(logs[msg.src], LogLine(msg))]
           /\ UNCHANGED lost
  <2>1. LogLine(msg) \in Message /\ Sound(LogLine(msg)) /\ Fits(LogLine(msg))
    BY <1>1, <1>2, <1>3, LineIs DEF MessageInv
  <2>2. MessageInv'
    <3>1. ASSUME NEW s \in Source, NEW i \in DOMAIN logs'[s]
          PROVE  Sound(logs'[s][i]) /\ Fits(logs'[s][i])
      <4>1. logs \in [Source -> Seq(Message)]
        BY <1>1 DEF SharedTypes
      <4>2. CASE s # msg.src
        <5>1. logs'[s] = logs[s]
          BY <1>3, <1>4, <4>1, <4>2
        <5> QED
          BY <1>1, <3>1, <5>1 DEF MessageInv
      <4>3. CASE s = msg.src
        <5>1. PICK q \in Seq(Message) : q = logs[s] /\ logs'[s] = Append(q, LogLine(msg))
          BY <1>3, <1>4, <4>1, <4>3
        <5>2. /\ Append(q, LogLine(msg)) \in Seq(Message) /\ Len(q) \in Nat
              /\ Len(Append(q, LogLine(msg))) = Len(q) + 1
              /\ Append(q, LogLine(msg))[Len(q) + 1] = LogLine(msg)
              /\ \A j \in 1 .. Len(q) : Append(q, LogLine(msg))[j] = q[j]
          BY <2>1, AppendIs
        <5>3. i \in 1 .. Len(q) \/ i = Len(q) + 1
          BY <3>1, <5>1, <5>2
        <5>4. \A j \in 1 .. Len(q) : Sound(q[j]) /\ Fits(q[j])
          BY <1>1, <5>1 DEF MessageInv
        <5> QED
          BY <2>1, <5>1, <5>2, <5>3, <5>4
      <4> QED
        BY <4>2, <4>3
    <3> QED
      BY <1>1, <1>2, <3>1 DEF MessageInv
  <2>3. ASSUME NEW s \in Source PROVE SourceInv(s)'
    <3>1. Queued(s)' = IF s = msg.src THEN Renumbered(Queued(s), Gap(Len(logs[s]) + 1))
                                      ELSE Queued(s)
      BY <1>1, <1>4, QueueWritten
    <3>2. Ordered(Queued(s), Handed(s)) /\ Account(s, Queued(s), Handed(s), lost)
      BY <1>1 DEF SourceInv
    <3>3. CASE s = msg.src
      <4>1. PICK n \in Nat : n = Len(logs[s]) + 1
        BY <1>1 DEF SharedTypes
      <4>2. PICK f \in [Nat -> Nat] : f = Gap(n) /\ \A i, j \in Nat : i < j => f[i] < f[j]
        BY GapIs
      <4>3. PICK h : h = Handed(s)
        OBVIOUS
      <4>4. Pieces(Queued(s))
        BY <1>1, QueuedIs
      <4>5. /\ Ordered(Queued(s), h) <=> Ordered(Renumbered(Queued(s), f), h)
            /\ Account(s, Queued(s), h, lost)
                  <=> Account(s, Renumbered(Queued(s), f), h, lost)
        BY <4>2, <4>4, Renumbering
      <4> QED
        BY <1>2, <1>4, <3>1, <3>2, <3>3, <4>1, <4>2, <4>3, <4>5 DEF SourceInv
    <3>4. CASE s # msg.src
      BY <1>2, <1>4, <3>1, <3>2, <3>4 DEF SourceInv
    <3> QED
      BY <3>3, <3>4
  <2> QED
    BY <1>2, <2>2, <2>3, InvPartsNext
<1>5. CASE lost' = lost \cup BytesOf(msg.src, msg.data) /\ UNCHANGED logs
  <2>1. MessageInv'
    BY <1>1, <1>2, <1>5 DEF MessageInv
  <2>2. ASSUME NEW s \in Source PROVE SourceInv(s)'
    <3>1. PICK h \in Nat : h = Handed(s)
      BY <1>1, HandedRange
    <3>2. Pieces(Queued(s)) /\ Ordered(Queued(s), h) /\ Account(s, Queued(s), h, lost)
      BY <1>1, <3>1, QueuedIs DEF SourceInv
    <3>3. CASE s = msg.src
      <4>1. PICK P \in Queued(s) : /\ P.data = msg.data /\ Queued(s)' = Queued(s) \ {P}
                                   /\ \A a \in Queued(s) : a.at = P.at => a = P
        BY <1>1, <1>5, <3>3, QueueFailed
      <4>2. /\ Ordered(Queued(s) \ {P}, h)
            /\ Account(s, Queued(s) \ {P}, h, lost \cup BytesOf(s, P.data))
        BY <3>2, <4>1, Removing
      <4> QED
        BY <1>2, <1>5, <3>1, <3>3, <4>1, <4>2 DEF SourceInv
    <3>4. CASE s # msg.src
      <4>1. Queued(s)' = Queued(s)
        BY <1>1, <1>5, <3>4, QueueFailed
      <4>2. \A x \in BytesOf(msg.src, msg.data) : \E n : x = <<msg.src, n>>
        BY DEF BytesOf
      <4>3. Account(s, Queued(s), h, lost')
        BY <1>5, <3>2, <3>4, <4>2, Elsewhere
      <4> QED
        BY <1>2, <3>1, <3>2, <4>1, <4>3 DEF SourceInv
    <3> QED
      BY <3>3, <3>4
  <2> QED
    BY <1>2, <2>1, <2>2, InvPartsNext
<1> QED
  BY <1>2, <1>4, <1>5

\* The bytes that are not queued are those after the ones handed on.
LEMMA UnqueuedIs ==
    ASSUME RecvTypes, SharedTypes, BufInv, NEW s \in Source
    PROVE  \E u \in Seq(Number), h \in Nat, g \in Nat :
              /\ u = Unqueued(s) /\ h = Handed(s) /\ g = got[s] /\ Len(u) = g - h
              /\ \A i \in 1 .. Len(u) : u[i] = h + i
<1>1. got[s] \in Nat
  BY DEF SharedTypes
<1>2. CASE s \in Port
  BY <1>1, <1>2, HandedIs DEF Tail2
<1>3. CASE s \notin Port
  <2>1. PICK u \in Seq(Number) : u = <<>> /\ Len(u) = 0
    <3>1. <<>> \in Seq(Number) /\ Len(<<>>) = 0
      OBVIOUS
    <3> QED
      BY <3>1, Zenon
  <2>2. u = Unqueued(s) /\ Handed(s) = got[s]
    BY <1>1, <1>3, <2>1, HandedElse
  <2>3. \A i \in 1 .. Len(u) : u[i] = got[s] + i
    BY <2>1
  <2>4. Len(u) = got[s] - got[s]
    BY <1>1, <2>1
  <2> QED
    BY <1>1, <2>2, <2>3, <2>4
<1> QED
  BY <1>2, <1>3

LEMMA IngestInvInit == Init => IngestInv
<1> SUFFICES ASSUME Init PROVE IngestInv
  OBVIOUS
<1>1. /\ rpc = "poll" /\ turn = 1 /\ fresh = <<>> /\ freshZero = FALSE
      /\ buf = [p \in Port |-> <<>>] /\ noise = [p \in Port |-> TRUE]
      /\ late = [p \in Port |-> FALSE] /\ sub = NoSub
      /\ wpc = "wait" /\ msg = <<>> /\ logs = [s \in Source |-> <<>>]
      /\ fifo = <<>> /\ frameId \in FirstIds /\ stop = FALSE
      /\ got = [s \in Source |-> 0] /\ lost = {}
  BY DEF Init
<1>2. \A S : <<>> \in Seq(S)
  OBVIOUS
<1>3. Len(<<>>) = 0 /\ DOMAIN <<>> = {}
  OBVIOUS
<1>4. RecvTypes
  <2>1. turn \in 1 .. Len(Ports)
    BY <1>1, Bounds
  <2>2. sub \in [off : Nat, id : 0 .. MaxId, part : Nat,
                 reason : {"none", "timeout", "max_len", "flush"}]
    BY <1>1, Bounds DEF NoSub
  <2>3. fresh \in Seq(Number) /\ buf \in [Port -> Seq(Number)]
    BY <1>1, <1>2
  <2> QED
    BY <1>1, <2>1, <2>2, <2>3 DEF RecvTypes
<1>5. SharedTypes
  <2>1. fifo \in Seq(Message) /\ logs \in [Source -> Seq(Message)]
    BY <1>1, <1>2
  <2>2. Len(fifo) <= Slots
    BY <1>1, <1>3, Bounds
  <2>3. frameId \in 0 .. MaxId
    BY <1>1, Bounds
  <2>4. got \in [Source -> Nat]
    BY <1>1
  <2> QED
    BY <1>1, <2>1, <2>2, <2>3, <2>4 DEF SharedTypes
<1>6. Cur \in Port /\ Port \subseteq Source
  BY <1>4, CurIsPort, Bounds DEF RecvTypes
<1>7. BufInv
  <2>1. \A n : Follows(<<>>, n)
    BY <1>3 DEF Follows
  <2>2. ASSUME NEW p \in Port
        PROVE  LET end == got[p] - (IF p = Cur THEN Len(fresh) ELSE 0)
               IN  Len(buf[p]) <= end /\ Follows(buf[p], end - Len(buf[p]))
    <3>1. got[p] = 0 /\ buf[p] = <<>>
      BY <1>1, <1>6
    <3>2. PICK end : end = got[p] - (IF p = Cur THEN Len(fresh) ELSE 0) /\ end = 0
      BY <1>1, <1>3, <3>1
    <3>3. Len(buf[p]) = 0
      BY <1>3, <3>1
    <3> QED
      BY <2>1, <3>1, <3>2, <3>3
  <2>3. Follows(fresh, got[Cur] - Len(fresh))
    BY <1>1, <2>1
  <2> QED
    BY <1>1, <2>2, <2>3 DEF BufInv
<1>8. MessageInv
  <2>1. \A s \in Source : DOMAIN logs[s] = {}
    BY <1>1, <1>3
  <2>2. DOMAIN fifo = {}
    BY <1>1, <1>3
  <2> QED
    BY <1>1, <2>1, <2>2 DEF MessageInv
<1>9. ASSUME NEW s \in Source PROVE SourceInv(s)
  <2>1. Len(logs[s]) = 0 /\ Len(fifo) = 0
    BY <1>1, <1>3
  <2>2. \A x : ~Piece(s, x)
    BY <1>1, <2>1 DEF Piece
  <2>3. Queued(s) = {}
    BY <1>5, <2>2, QueuedIs
  <2>4. Handed(s) = 0
    <3>1. got[s] = 0
      BY <1>1
    <3>2. CASE s \in Port
      <4>1. buf[s] = <<>>
        BY <1>1, <3>2
      <4>2. Len(buf[s]) = 0 /\ FreshOf(s) = 0 /\ PushedOf(s) = 0
        BY <1>1, <1>3, <4>1 DEF FreshOf, PushedOf
      <4>3. Handed(s) = got[s] - FreshOf(s) - Len(buf[s]) + PushedOf(s)
        BY <1>4, <1>5, <1>7, <3>2, HandedIs DEF Tail2
      <4> QED
        BY <3>1, <4>2, <4>3
    <3>3. CASE s \notin Port
      BY <3>1, <3>3, HandedElse
    <3> QED
      BY <3>2, <3>3
  <2>5. Ordered({}, 0)
    BY DEF Ordered
  <2>6. Account(s, {}, 0, {})
    BY DEF Account
  <2> QED
    BY <1>1, <2>3, <2>4, <2>5, <2>6 DEF SourceInv
<1> QED
  BY <1>4, <1>5, <1>7, <1>8, <1>9, InvParts

LEMMA IngestInvStep == IngestInv /\ [Next]_vars => IngestInv'
<1> SUFFICES ASSUME IngestInv, [Next]_vars PROVE IngestInv'
  OBVIOUS
<1>1. RecvTypes /\ SharedTypes /\ BufInv
  BY InvParts
<1>2. CASE Receive
  <2>1. Received
    BY <1>1, <1>2, ReceivedBytes
  <2>2. Moved
    BY <2>1, Bounds DEF Received, Moved
  <2> QED
    BY <2>2, MovedInv
<1>3. CASE Take
  BY <1>3, TakeInv
<1>4. CASE WriteLine
  BY <1>4, WriteInv
<1>5. CASE WriterStops \/ HandleSignal \/ \E p \in Port : FrameTimesOut(p)
  <2>1. Moved
    BY <1>1, <1>5, QuietMoves
  <2> QED
    BY <2>1, MovedInv
<1>6. CASE \E s \in Pushers : Push(s)
  <2>1. Moved
    BY <1>1, <1>6, PushMoves
  <2> QED
    BY <2>1, MovedInv
<1>7. CASE UNCHANGED vars
  <2>1. UNCHANGED <<rpc, turn, fresh, freshZero, buf, noise, late, sub, wpc, msg, logs,
                    fifo, frameId, stop, got, lost>>
    BY <1>7 DEF vars, recvVars, writeVars
  <2>2. RecvTypes' /\ SharedTypes'
    BY <1>1, <2>1 DEF RecvTypes, SharedTypes
  <2>3. BufInv' /\ \A s : Handed(s)' = Handed(s)
    BY <1>1, <2>1, SameBuffers
  <2>4. MessageInv /\ \A s \in Source : SourceInv(s)
    BY InvParts
  <2>5. MessageInv'
    BY <2>1, <2>4 DEF MessageInv
  <2>6. ASSUME NEW s \in Source PROVE SourceInv(s)'
    <3>1. Queued(s)' = Queued(s)
      BY <2>1 DEF Queued, OnTheWriter, InFifo
    <3> QED
      BY <2>1, <2>3, <2>4, <3>1 DEF SourceInv
  <2> QED
    BY <2>2, <2>3, <2>5, <2>6, InvPartsNext
<1> QED
  BY <1>2, <1>3, <1>4, <1>5, <1>6, <1>7 DEF Next, Writer

-----------------------------------------------------------------------------
\* The invariant holds in every state, for any number of ports, sources and bytes, and
\* any lengths of reads, frames, messages and fifo.
THEOREM IngestInvHolds == Spec => []IngestInv
<1>1. Init => IngestInv
  BY IngestInvInit
<1>2. IngestInv /\ [Next]_vars => IngestInv'
  BY IngestInvStep
<1> QED
  BY <1>1, <1>2, PTL DEF Spec

\* Every variable of the receive, write and push threads keeps its type; the fifo never
\* holds more than it has room for.
THEOREM IngestTypeCorrect == Spec => []TypeOK
<1>1. IngestInv => TypeOK
  BY DEF IngestInv
<1> QED
  BY <1>1, IngestInvHolds, PTL

\* The bytes of a source pass through its buffers, the fifo and the writer into its log
\* in the order they came in, none of them twice.
THEOREM StreamStaysInOrder == Spec => []StreamsInOrder
<1>1. IngestInv => StreamsInOrder
  <2> SUFFICES ASSUME IngestInv, NEW s \in Source
               PROVE  /\ Increasing(Unqueued(s))
                      /\ \A a \in Queued(s) :
                            /\ Increasing(a.data) /\ Before(a.data, Unqueued(s))
                            /\ \A b \in Queued(s) : a.at < b.at => Before(a.data, b.data)
    BY DEF StreamsInOrder
  <2>1. RecvTypes /\ SharedTypes /\ BufInv /\ MessageInv /\ SourceInv(s)
    BY InvParts
  <2>2. PICK u \in Seq(Number), h \in Nat :
           u = Unqueued(s) /\ h = Handed(s) /\ \A i \in 1 .. Len(u) : u[i] = h + i
    BY <2>1, UnqueuedIs
  <2>3. Increasing(u)
    <3>1. ASSUME NEW i \in 1 .. Len(u) - 1 PROVE u[i] < u[i + 1]
      <4>1. i \in 1 .. Len(u) /\ i + 1 \in 1 .. Len(u)
        OBVIOUS
      <4>2. u[i] = h + i /\ u[i + 1] = h + (i + 1)
        BY <2>2, <4>1
      <4> QED
        BY <4>2
    <3> QED
      BY <3>1 DEF Increasing
  <2>4. ASSUME NEW a \in Queued(s) PROVE Increasing(a.data)
    <3>1. \E m \in Message : Sound(m) /\ m.data = a.data
      <4>1. Piece(s, a)
        BY <2>1, QueuedIs
      <4>2. CASE \E i \in 1 .. Len(logs[s]) : a = [at |-> i, data |-> logs[s][i].data]
        <5>1. PICK i \in 1 .. Len(logs[s]) : a = [at |-> i, data |-> logs[s][i].data]
          BY <4>2
        <5>2. logs[s][i] \in Message /\ Sound(logs[s][i])
          BY <2>1 DEF SharedTypes, MessageInv
        <5> QED
          BY <5>1, <5>2
      <4>3. CASE msg # <<>> /\ msg.src = s
                    /\ a = [at |-> Len(logs[s]) + 1, data |-> msg.data]
        BY <2>1, <4>3 DEF SharedTypes, MessageInv
      <4>4. CASE \E i \in 1 .. Len(fifo) :
                    fifo[i].src = s /\ a = [at |-> Len(logs[s]) + 1 + i, data |-> fifo[i].data]
        <5>1. PICK i \in 1 .. Len(fifo) :
                 fifo[i].src = s /\ a = [at |-> Len(logs[s]) + 1 + i, data |-> fifo[i].data]
          BY <4>4
        <5>2. fifo[i] \in Message /\ Sound(fifo[i])
          BY <2>1 DEF SharedTypes, MessageInv
        <5> QED
          BY <5>1, <5>2
      <4> QED
        BY <4>1, <4>2, <4>3, <4>4 DEF Piece
    <3>2. PICK m \in Message : Sound(m) /\ m.data = a.data
      BY <3>1
    <3>3. PICK d \in Seq(Number) : d = a.data /\ d # <<>> /\ Follows(d, d[1] - 1)
      BY <3>2, MessageIs DEF Sound
    <3>4. PICK l \in Nat \ {0}, f \in Nat : l = Len(d) /\ f = d[1]
      <4>1. Len(d) \in Nat \ {0}
        BY <3>3
      <4>2. d[1] \in Nat
        BY <4>1 DEF Number
      <4> QED
        BY <4>1, <4>2
    <3>5. \A i \in 1 .. l : d[i] = f - 1 + i
      <4>1. DOMAIN d = 1 .. l
        BY <3>4
      <4> QED
        BY <3>3, <3>4, <4>1 DEF Follows
    <3>6. ASSUME NEW i \in 1 .. Len(d) - 1 PROVE d[i] < d[i + 1]
      <4>1. i \in 1 .. l /\ i + 1 \in 1 .. l
        BY <3>4
      <4>2. d[i] = f - 1 + i /\ d[i + 1] = f - 1 + (i + 1)
        BY <3>5, <4>1
      <4> QED
        BY <4>2
    <3> QED
      BY <3>3, <3>6 DEF Increasing
  <2>5. ASSUME NEW a \in Queued(s) PROVE Before(a.data, u)
    <3>1. a.data \in Seq(Number) /\ \A n \in Range(a.data) : n <= h
      BY <2>1, <2>2, QueuedIs DEF Pieces, SourceInv, Ordered
    <3>2. ASSUME NEW i \in DOMAIN a.data, NEW j \in DOMAIN u PROVE a.data[i] < u[j]
      <4>1. PICK x \in Nat : x = a.data[i] /\ x <= h
        BY <3>1, RangeIs DEF Number
      <4>2. j \in 1 .. Len(u) /\ u[j] = h + j
        BY <2>2
      <4> QED
        BY <4>1, <4>2
    <3> QED
      BY <3>2 DEF Before
  <2>6. \A a, b \in Queued(s) : a.at < b.at => Before(a.data, b.data)
    BY <2>1 DEF SourceInv, Ordered
  <2> QED
    BY <2>2, <2>3, <2>4, <2>5, <2>6
<1> QED
  BY <1>1, IngestInvHolds, PTL

\* A byte that a source delivered is in its buffers, in the fifo, at the writer or in its
\* log unless it was given up, and then it is in none of these.
THEOREM BytesAccounted == Spec => []NoByteForgotten
<1>1. IngestInv => NoByteForgotten
  <2> SUFFICES ASSUME IngestInv, NEW s \in Source, NEW n \in 1 .. got[s]
               PROVE  (<<s, n>> \in lost)
                         <=> ~(\/ n \in Range(Unqueued(s))
                               \/ \E a \in Queued(s) : n \in Range(a.data))
    BY DEF NoByteForgotten
  <2>1. RecvTypes /\ SharedTypes /\ BufInv /\ SourceInv(s)
    BY InvParts
  <2>2. PICK u \in Seq(Number), h \in Nat, g \in Nat :
           /\ u = Unqueued(s) /\ h = Handed(s) /\ g = got[s] /\ Len(u) = g - h
           /\ \A i \in 1 .. Len(u) : u[i] = h + i
    BY <2>1, UnqueuedIs
  <2>3. Account(s, Queued(s), h, lost) /\ Ordered(Queued(s), h)
    BY <2>1, <2>2 DEF SourceInv
  <2>4. CASE n <= h
    <3>1. n \in 1 .. h
      BY <2>2, <2>4
    <3>2. (<<s, n>> \in lost) <=> ~(\E a \in Queued(s) : n \in Range(a.data))
      BY <2>3, <3>1 DEF Account
    <3>3. n \notin Range(u)
      <4>1. ASSUME NEW i \in DOMAIN u, n = u[i] PROVE FALSE
        <5>1. i \in 1 .. Len(u)
          OBVIOUS
        <5>2. n = h + i
          BY <2>2, <4>1, <5>1
        <5> QED
          BY <2>4, <3>1, <5>1, <5>2
      <4> QED
        BY <4>1, RangeIs
    <3> QED
      BY <2>2, <3>2, <3>3
  <2>5. CASE ~(n <= h)
    <3>1. n \in Range(u)
      <4>1. PICK i \in 1 .. Len(u) : n = h + i
        <5>1. n - h \in 1 .. Len(u) /\ n = h + (n - h)
          BY <2>2, <2>5
        <5> QED
          BY <5>1
      <4>2. u[i] = n /\ i \in DOMAIN u
        BY <2>2, <4>1
      <4> QED
        BY <4>2, RangeIs
    <3>2. <<s, n>> \notin lost
      <4>1. ASSUME <<s, n>> \in lost PROVE n \in 1 .. h
        BY <2>3, <4>1 DEF Account
      <4> QED
        BY <2>5, <4>1
    <3> QED
      BY <2>2, <3>1, <3>2
  <2> QED
    BY <2>4, <2>5
<1> QED
  BY <1>1, IngestInvHolds, PTL

\* A line of a log says which part of which frame its bytes are, as process_serial_data
\* and submit_frame cut it.
THEOREM PartsAreTold == Spec => []PartsFit
<1>1. IngestInv => PartsFit
  BY DEF IngestInv, MessageInv, PartsFit
<1> QED
  BY <1>1, IngestInvHolds, PTL

-----------------------------------------------------------------------------
(* Frame ids.  They start again at 1 after MaxId, so they tell frames apart *)
(* only as long as not all of them have been issued.                        *)

VARIABLE issued   \* how many ids were issued since the start

\* The specification with a count of the ids that log_next_frame_id issued.
Counting == issued' = issued + (IF frameId' = frameId THEN 0 ELSE 1)
CountedSpec == Init /\ issued = 0 /\ [][Next /\ Counting]_<<vars, issued>>

\* The messages of a source, in its log and on their way there.
Held(s, m) ==
    \/ \E i \in 1 .. Len(logs[s]) : m = logs[s][i]
    \/ msg # <<>> /\ msg.src = s /\ m = msg
    \/ \E i \in 1 .. Len(fifo) : fifo[i].src = s /\ m = fifo[i]

\* The ids of a source, each with the frame it names.
Labels(s) ==
    {<<m.id, m.frame>> : m \in {n \in Message : n.id # 0 /\ Held(s, n)}}
    \cup {<<sub.id, buf[p][1]>> : p \in {q \in {s} : rpc = "push" /\ q = Cur}}

\* How long ago an id was issued, counted in ids.
Age(id) == IF id <= frameId THEN frameId - id ELSE frameId + MaxId - id

\* Only what the other threads queue has no id, up to its line in the log.
UnlabelledInv ==
    /\ \A s \in Source : \A i \in 1 .. Len(logs[s]) : logs[s][i].id # 0
    /\ msg # <<>> => (msg.id = 0 <=> msg.src \notin Port)
    /\ \A i \in 1 .. Len(fifo) : fifo[i].id = 0 <=> fifo[i].src \notin Port

LabelInv ==
    \A s \in Source : \A l \in Labels(s) :
        /\ l[1] \in 1 .. MaxId /\ Age(l[1]) < issued
        /\ \A k \in Labels(s) : (l[1] = k[1]) <=> (l[2] = k[2])

IdInv == UnlabelledInv /\ issued \in Nat /\ (issued <= MaxId => LabelInv)

\* What a step makes of the labels of a source.
Relabelled(s) ==
    \/ Labels(s)' \subseteq Labels(s)
    \/ /\ frameId' = NextId(frameId)
       /\ \E f : /\ Labels(s)' \subseteq Labels(s) \cup {<<frameId', f>>}
                 /\ \A l \in Labels(s) : l[2] # f

\* A new id is not among the last ones issued.
LEMMA NewId ==
    ASSUME MaxId > 1, NEW f \in 0 .. MaxId, NEW i \in 1 .. MaxId, NEW n \in Nat, n < MaxId,
           (IF i <= f THEN f - i ELSE f + MaxId - i) < n
    PROVE  LET g == NextId(f) IN
           /\ g \in 1 .. MaxId /\ g # f /\ g # i
           /\ (IF i <= g THEN g - i ELSE g + MaxId - i) < n + 1
           /\ (IF g <= g THEN g - g ELSE g + MaxId - g) < n + 1
<1>1. PICK m \in Nat \ {0} : m = MaxId
  BY Bounds
<1>2. PICK g : g = NextId(f)
  OBVIOUS
<1>3. CASE f = m
  <2>1. g = 1
    BY <1>1, <1>2, <1>3 DEF NextId
  <2> QED
    BY <1>1, <1>2, <1>3, <2>1
<1>4. CASE f # m
  <2>1. g = f + 1
    BY <1>1, <1>2, <1>4 DEF NextId
  <2> QED
    BY <1>1, <1>2, <1>4, <2>1
<1> QED
  BY <1>3, <1>4

LEMMA RelabelledInv ==
    ASSUME MaxId > 1, SharedTypes, IdInv, Counting, UnlabelledInv',
           frameId' = frameId \/ frameId' = NextId(frameId),
           \A s \in Source : Relabelled(s)
    PROVE  IdInv'
<1>1. PICK f \in 0 .. MaxId, n \in Nat : f = frameId /\ n = issued
  BY DEF SharedTypes, IdInv
<1>2. NextId(f) # f /\ NextId(f) \in 1 .. MaxId
  <2>1. NextId(f) \in 1 .. MaxId
    BY NextIdRange
  <2>2. MaxId \in Nat
    BY Bounds
  <2> QED
    BY <2>1, <2>2 DEF NextId
<1>3. issued' \in Nat /\ issued' >= n /\ (frameId' # f => issued' = n + 1)
  BY <1>1 DEF Counting
<1>4. MaxId \in Nat
  BY Bounds
<1>5. ASSUME issued' <= MaxId PROVE LabelInv'
  <2>1. LabelInv /\ n <= MaxId
    BY <1>1, <1>3, <1>4, <1>5 DEF IdInv
  <2>2. ASSUME NEW s \in Source, NEW l \in Labels(s)
        PROVE  /\ l[1] \in 1 .. MaxId /\ Age(l[1])' < issued'
               /\ frameId' # frameId => l[1] # frameId'
    <3>1. l[1] \in 1 .. MaxId /\ Age(l[1]) < n
      BY <1>1, <2>1, <2>2 DEF LabelInv
    <3>2. CASE frameId' = f
      <4>1. Age(l[1])' = Age(l[1])
        BY <1>1, <3>2 DEF Age
      <4>2. issued' = n
        BY <1>1, <3>2 DEF Counting
      <4> QED
        BY <1>1, <3>1, <3>2, <4>1, <4>2
    <3>3. CASE frameId' # f
      <4>1. frameId' = NextId(f) /\ issued' = n + 1 /\ n < MaxId
        BY <1>1, <1>3, <1>4, <1>5, <3>3
      <4>2. PICK i \in 1 .. MaxId : i = l[1]
        BY <3>1
      <4>3. (IF i <= f THEN f - i ELSE f + MaxId - i) < n
        BY <1>1, <3>1, <4>2 DEF Age
      <4>4. LET g == NextId(f) IN g # i /\ (IF i <= g THEN g - i ELSE g + MaxId - i) < n + 1
        BY <4>1, <4>3, NewId
      <4> QED
        BY <3>1, <4>1, <4>2, <4>4 DEF Age
    <3> QED
      BY <3>2, <3>3
  <2>3. ASSUME NEW s \in Source
        PROVE  \A l \in Labels(s)' :
                  /\ l[1] \in 1 .. MaxId /\ Age(l[1])' < issued'
                  /\ \A k \in Labels(s)' : (l[1] = k[1]) <=> (l[2] = k[2])
    <3>1. \A l, k \in Labels(s) : (l[1] = k[1]) <=> (l[2] = k[2])
      BY <2>1 DEF LabelInv
    <3>2. CASE Labels(s)' \subseteq Labels(s)
      BY <2>2, <3>1, <3>2
    <3>3. CASE ~(Labels(s)' \subseteq Labels(s))
      <4>1. PICK e : /\ frameId' = NextId(f)
                     /\ Labels(s)' \subseteq Labels(s) \cup {<<frameId', e>>}
                     /\ \A l \in Labels(s) : l[2] # e
        BY <1>1, <3>3 DEF Relabelled
      <4>2. frameId' # frameId /\ frameId' \in 1 .. MaxId /\ issued' = n + 1
        BY <1>1, <1>2, <1>3, <4>1
      <4>3. PICK g \in 1 .. MaxId : g = frameId'
        BY <4>2
      <4>4. Age(g)' < issued'
        <5>1. Age(g)' = g - g
          BY <1>4, <4>3 DEF Age
        <5> QED
          BY <1>4, <4>2, <5>1
      <4>5. PICK N : N = <<g, e>>
        OBVIOUS
      <4>6. ASSUME NEW l \in Labels(s)' PROVE l \in Labels(s) \/ l = N
        BY <4>1, <4>3, <4>5
      <4>7. ASSUME NEW l \in Labels(s) PROVE l[1] # N[1] /\ l[2] # N[2]
        BY <2>2, <4>1, <4>2, <4>3, <4>5
      <4>8. ASSUME NEW l \in Labels(s)', NEW k \in Labels(s)'
            PROVE  (l[1] = k[1]) <=> (l[2] = k[2])
        BY <3>1, <4>6, <4>7
      <4>9. ASSUME NEW l \in Labels(s)' PROVE l[1] \in 1 .. MaxId /\ Age(l[1])' < issued'
        BY <2>2, <4>2, <4>3, <4>4, <4>5, <4>6
      <4> QED
        BY <4>8, <4>9
    <3> QED
      BY <3>2, <3>3
  <2> QED
    BY <2>3 DEF LabelInv
<1> QED
  BY <1>3, <1>5 DEF IdInv

LEMMA InvPartsTold == IngestInv' => RecvTypes' /\ SharedTypes' /\ BufInv' /\ MessageInv'
<1>1. (IngestInv <=> /\ RecvTypes /\ SharedTypes /\ BufInv /\ MessageInv
                     /\ \A s \in Source : SourceInv(s))'
  BY InvParts, PTL
<1> QED
  BY <1>1

\* The labels, once the messages have their types.
LEMMA LabelsAre ==
    SharedTypes =>
      \A s \in Source :
        /\ \A m : Held(s, m) => m \in Message
        /\ \A x : x \in Labels(s) <=>
              \/ \E m : Held(s, m) /\ m.id # 0 /\ x = <<m.id, m.frame>>
              \/ rpc = "push" /\ s = Cur /\ x = <<sub.id, buf[s][1]>>
<1> SUFFICES ASSUME SharedTypes, NEW s \in Source
             PROVE  /\ \A m : Held(s, m) => m \in Message
                    /\ \A x : x \in Labels(s) <=>
                          \/ \E m : Held(s, m) /\ m.id # 0 /\ x = <<m.id, m.frame>>
                          \/ rpc = "push" /\ s = Cur /\ x = <<sub.id, buf[s][1]>>
  OBVIOUS
<1>1. ASSUME NEW m, Held(s, m) PROVE m \in Message
  BY <1>1 DEF Held, SharedTypes
<1> QED
  BY <1>1 DEF Labels

LEMMA LabelsNext ==
    SharedTypes' =>
      \A s \in Source :
        /\ \A m : Held(s, m)' => m \in Message
        /\ \A x : x \in Labels(s)' <=>
              \/ \E m : Held(s, m)' /\ m.id # 0 /\ x = <<m.id, m.frame>>
              \/ rpc' = "push" /\ s = Cur' /\ x = <<sub'.id, buf'[s][1]>>
<1>1. (SharedTypes =>
         \A s \in Source :
           /\ \A m : Held(s, m) => m \in Message
           /\ \A x : x \in Labels(s) <=>
                 \/ \E m : Held(s, m) /\ m.id # 0 /\ x = <<m.id, m.frame>>
                 \/ rpc = "push" /\ s = Cur /\ x = <<sub.id, buf[s][1]>>)'
  BY LabelsAre, PTL
<1> QED
  BY <1>1

\* A message begins at or behind the first byte of its frame.
LEMMA FrameBegins ==
    ASSUME NEW m \in Message, Sound(m)
    PROVE  /\ 1 \in DOMAIN m.data /\ m.data[1] \in Number /\ m.frame <= m.data[1]
           /\ m.id = 0 => m.frame = m.data[1]
<1>1. m.data \in Seq(Number) /\ m.frame \in Number /\ m.part \in Nat /\ m.data # <<>>
  BY MessageIs DEF Sound
<1>2. 1 \in DOMAIN m.data /\ m.data[1] \in Number
  BY <1>1
<1>3. CASE m.id = 0
  BY <1>1, <1>2, <1>3 DEF Sound, Number
<1>4. CASE m.id # 0
  <2>1. m.data[1] = m.frame + m.part * DataLen
    BY <1>4 DEF Sound, Fits
  <2>2. m.part * DataLen \in Nat
    BY <1>1, Bounds
  <2>3. PICK f \in Nat, k \in Nat : f = m.frame /\ k = m.part * DataLen
    BY <1>1, <2>2 DEF Number
  <2> QED
    BY <1>2, <1>4, <2>1, <2>3
<1> QED
  BY <1>3, <1>4

\* A frame that is going to be queued begins behind all that was queued before it.
LEMMA FrameAhead ==
    IngestInv /\ rpc = "push" /\ sub.off = 0
        => \A m : Held(Cur, m) => m.frame # buf[Cur][1]
<1> SUFFICES ASSUME IngestInv, rpc = "push", sub.off = 0, NEW m, Held(Cur, m)
             PROVE  m.frame # buf[Cur][1]
  OBVIOUS
<1>1. /\ RecvTypes /\ SharedTypes /\ BufInv /\ MessageInv
      /\ \A s \in Source : SourceInv(s)
  BY InvParts
<1>2. PICK c \in Source : c = Cur /\ c \in Port
  BY <1>1, PortIs
<1>3. m \in Message
  BY <1>1, <1>2, LabelsAre
<1>4. PICK a : Piece(c, a) /\ a.data = m.data
  <2>1. CASE \E i \in 1 .. Len(logs[c]) : m = logs[c][i]
    <3>1. PICK i \in 1 .. Len(logs[c]) : m = logs[c][i]
      BY <2>1
    <3>2. Piece(c, [at |-> i, data |-> m.data])
      BY <3>1 DEF Piece
    <3> QED
      BY <3>2
  <2>2. CASE msg # <<>> /\ msg.src = c /\ m = msg
    <3>1. Piece(c, [at |-> Len(logs[c]) + 1, data |-> m.data])
      BY <2>2 DEF Piece
    <3> QED
      BY <3>1
  <2>3. CASE \E i \in 1 .. Len(fifo) : fifo[i].src = c /\ m = fifo[i]
    <3>1. PICK i \in 1 .. Len(fifo) : fifo[i].src = c /\ m = fifo[i]
      BY <2>3
    <3>2. Piece(c, [at |-> Len(logs[c]) + 1 + i, data |-> m.data])
      BY <3>1 DEF Piece
    <3> QED
      BY <3>2
  <2> QED
    BY <1>2, <2>1, <2>2, <2>3 DEF Held
<1>5. Sound(m)
  <2>1. \A s \in Source : DOMAIN logs[s] = 1 .. Len(logs[s])
    BY <1>1 DEF SharedTypes
  <2>2. DOMAIN fifo = 1 .. Len(fifo)
    BY <1>1 DEF SharedTypes
  <2> QED
    BY <1>1, <1>2, <2>1, <2>2 DEF Held, MessageInv
<1>6. a \in Queued(c)
  BY <1>1, <1>4, QueuedIs
<1>7. PICK h \in Nat : h = Handed(c)
  BY <1>1, HandedRange
<1>8. m.frame <= m.data[1] /\ m.data[1] \in Number /\ m.data[1] <= h /\ m.frame \in Number
  <2>1. m.data[1] \in Range(a.data)
    BY <1>3, <1>4, <1>5, FrameBegins, MessageIs, RangeIs
  <2>2. m.data[1] <= h
    BY <1>1, <1>2, <1>6, <1>7, <2>1 DEF SourceInv, Ordered
  <2> QED
    BY <1>3, <1>5, <2>2, FrameBegins, MessageIs
<1>9. buf[c][1] = h + 1
  <2>1. /\ Follows(buf[c], got[c] - Len(fresh) - Len(buf[c]))
        /\ h = got[c] - Len(fresh) - Len(buf[c]) + 0
        /\ buf[c] \in Seq(Number) /\ 0 < Len(buf[c])
        /\ got[c] \in Nat /\ Len(fresh) \in Nat /\ Len(buf[c]) \in Nat
    <3>1. sub.off < Len(buf[Cur])
      BY <1>1 DEF BufInv
    <3> QED
      BY <1>1, <1>2, <1>7, <3>1, PortIs
  <2>2. 1 \in DOMAIN buf[c]
    BY <2>1
  <2>3. buf[c][1] = got[c] - Len(fresh) - Len(buf[c]) + 1
    BY <2>1, <2>2 DEF Follows
  <2> QED
    BY <2>1, <2>3
<1> QED
  BY <1>2, <1>8, <1>9 DEF Number

LEMMA FrameAheadNext ==
    IngestInv' /\ rpc' = "push" /\ sub'.off = 0
        => \A m : Held(Cur, m)' => m.frame # buf'[Cur'][1]
<1>1. (IngestInv /\ rpc = "push" /\ sub.off = 0
           => \A m : Held(Cur, m) => m.frame # buf[Cur][1])'
  BY FrameAhead, PTL
<1> QED
  BY <1>1

\* The steps of the threads that queue nothing and log nothing.
LEMMA QuietLabels ==
    ASSUME SharedTypes, SharedTypes', UnlabelledInv, UNCHANGED <<msg, logs, fifo>>,
           rpc' # "push" \/ UNCHANGED <<rpc, turn, sub, buf>>
    PROVE  UnlabelledInv' /\ \A s \in Source : Relabelled(s)
<1>1. UnlabelledInv'
  BY DEF UnlabelledInv
<1>2. \A s \in Source : \A m : Held(s, m)' <=> Held(s, m)
  BY DEF Held
<1>3. ASSUME NEW s \in Source, NEW x \in Labels(s)' PROVE x \in Labels(s)
  <2>1. CASE \E m : Held(s, m)' /\ m.id # 0 /\ x = <<m.id, m.frame>>
    BY <1>2, <2>1, LabelsAre
  <2>2. CASE rpc' = "push" /\ s = Cur' /\ x = <<sub'.id, buf'[s][1]>>
    <3>1. Cur' = Cur
      BY <2>2 DEF Cur
    <3> QED
      BY <2>2, <3>1, LabelsAre
  <2> QED
    BY <1>3, <2>1, <2>2, LabelsNext
<1> QED
  BY <1>1, <1>3 DEF Relabelled

\* A frame begins to be queued.
LEMMA FrameLabels ==
    ASSUME IngestInv, IngestInv', UnlabelledInv, UNCHANGED <<msg, logs, fifo>>,
           rpc' = "push", turn' = turn, sub'.id = frameId', sub'.off = 0,
           frameId' = NextId(frameId), rpc # "push"
    PROVE  UnlabelledInv' /\ \A s \in Source : Relabelled(s)
<1>1. SharedTypes /\ SharedTypes' /\ RecvTypes
  BY InvParts, InvPartsTold
<1>2. UnlabelledInv'
  BY DEF UnlabelledInv
<1>3. \A s \in Source : \A m : Held(s, m)' <=> Held(s, m)
  BY DEF Held
<1>4. Cur' = Cur /\ Cur \in Source
  BY <1>1, CurIsPort DEF Cur, RecvTypes
<1>5. ASSUME NEW s \in Source PROVE Relabelled(s)
  <2>1. CASE s # Cur
    <3>1. ASSUME NEW x \in Labels(s)' PROVE x \in Labels(s)
      BY <1>1, <1>3, <1>4, <2>1, <3>1, LabelsAre, LabelsNext
    <3> QED
      BY <3>1 DEF Relabelled
  <2>2. CASE s = Cur
    <3>1. PICK f : f = buf'[s][1]
      OBVIOUS
    <3>2. ASSUME NEW x \in Labels(s)' PROVE x \in Labels(s) \cup {<<frameId', f>>}
      BY <1>1, <1>3, <3>1, <3>2, LabelsAre, LabelsNext
    <3>3. ASSUME NEW x \in Labels(s) PROVE x[2] # f
      <4>1. PICK m : Held(s, m) /\ x = <<m.id, m.frame>>
        BY <1>1, <3>3, LabelsAre
      <4>2. m.frame # buf'[Cur'][1]
        BY <1>3, <1>4, <2>2, <4>1, FrameAheadNext
      <4> QED
        BY <1>4, <2>2, <3>1, <4>1, <4>2
    <3> QED
      BY <3>2, <3>3 DEF Relabelled
  <2> QED
    BY <2>1, <2>2
<1> QED
  BY <1>2, <1>5

\* submit_frame issues an id exactly when it begins to queue a frame.
IdIssued ==
    \/ rpc' # "push" /\ frameId' = frameId
    \/ /\ rpc' = "push" /\ turn' = turn
       /\ sub'.id = frameId' /\ sub'.off = 0 /\ frameId' = NextId(frameId)

LEMMA SubmitIssues ==
    ASSUME turn \in 1 .. Len(Ports), NEW frame, NEW zero, NEW r \in Reasons,
           Submit(frame, zero, r)
    PROVE  IdIssued
<1>1. CASE zero
  <2>1. AfterSubmit(r) /\ frameId' = frameId
    BY <1>1 DEF Submit
  <2> QED
    BY <2>1, AfterSubmitIs DEF IdIssued
<1>2. CASE ~zero
  BY <1>2 DEF Submit, IdIssued
<1> QED
  BY <1>1, <1>2

LEMMA AddDataIssues ==
    ASSUME turn \in 1 .. Len(Ports), NEW data, NEW zero, AddData(data, zero)
    PROVE  IdIssued
<1>1. CASE data # <<>> /\ Len(buf[Cur] \o data) >= MaxLogLen
  <2>1. Submit(buf[Cur] \o data, noise[Cur] /\ (data = <<>> \/ zero), "max_len")
    BY <1>1 DEF AddData
  <2> QED
    BY <2>1, SubmitIssues DEF Reasons
<1>2. CASE ~(data # <<>> /\ Len(buf[Cur] \o data) >= MaxLogLen)
  <2>1. NextPort /\ frameId' = frameId
    BY <1>2 DEF AddData
  <2> QED
    BY <2>1, NextPortIs DEF IdIssued
<1> QED
  BY <1>1, <1>2

\* The steps of receive_thread but the queueing of a part.
LEMMA ReadLabels ==
    ASSUME IngestInv, IngestInv', UnlabelledInv, Poll \/ Read \/ AddFresh \/ Flush
    PROVE  /\ frameId' = frameId \/ frameId' = NextId(frameId)
           /\ UnlabelledInv' /\ \A s \in Source : Relabelled(s)
<1>1. turn \in 1 .. Len(Ports) /\ SharedTypes /\ SharedTypes'
  BY InvParts, InvPartsTold DEF RecvTypes
<1>2. rpc # "push" /\ UNCHANGED <<msg, logs, fifo>>
  BY DEF Poll, Read, AddFresh, Flush, writeVars
<1>3. IdIssued
  <2>1. CASE Poll
    BY <2>1 DEF Poll, IdIssued
  <2>2. CASE Read
    <3>1. PICK data, zero : \/ Submit(buf[Cur], noise[Cur], "timeout")
                            \/ AddData(data, zero)
      BY <2>2 DEF Read
    <3> QED
      BY <1>1, <3>1, SubmitIssues, AddDataIssues DEF Reasons
  <2>3. CASE AddFresh
    <3>1. AddData(fresh, freshZero)
      BY <2>3 DEF AddFresh
    <3> QED
      BY <1>1, <3>1, AddDataIssues
  <2>4. CASE Flush
    <3>1. \/ Submit(buf[Cur], noise[Cur], "flush")
          \/ AfterSubmit("flush") /\ frameId' = frameId
      BY <2>4 DEF Flush
    <3>2. "flush" \in Reasons
      BY DEF Reasons
    <3>3. AfterSubmit("flush") => rpc' # "push"
      BY <1>1, <3>2, AfterSubmitIs
    <3> QED
      BY <1>1, <3>1, <3>2, <3>3, SubmitIssues DEF IdIssued
  <2> QED
    BY <2>1, <2>2, <2>3, <2>4
<1>4. CASE rpc' # "push" /\ frameId' = frameId
  BY <1>1, <1>2, <1>4, QuietLabels
<1>5. CASE /\ rpc' = "push" /\ turn' = turn
           /\ sub'.id = frameId' /\ sub'.off = 0 /\ frameId' = NextId(frameId)
  BY <1>2, <1>5, FrameLabels
<1> QED
  BY <1>3, <1>4, <1>5 DEF IdIssued

\* A message is queued: the labels do not tell it from what is being queued.
LEMMA AppendLabels ==
    ASSUME SharedTypes, SharedTypes', UnlabelledInv, NEW m \in Message,
           fifo' = Append(fifo, m), UNCHANGED <<msg, logs>>,
           m.id = 0 <=> m.src \notin Port,
           m.id # 0 => rpc = "push" /\ m.src = Cur /\ m.id = sub.id
                                    /\ m.frame = buf[Cur][1],
           rpc' = "push" => rpc = "push" /\ turn' = turn /\ sub'.id = sub.id /\ buf' = buf
    PROVE  UnlabelledInv' /\ \A s \in Source : Relabelled(s)
<1>1. PICK l \in Nat : l = Len(fifo)
  BY DEF SharedTypes
<1>2. /\ Len(fifo') = l + 1 /\ fifo'[l + 1] = m
      /\ \A i \in 1 .. l : fifo'[i] = fifo[i]
  BY <1>1, AppendIs DEF SharedTypes
<1>3. \A i : i \in 1 .. l + 1 <=> i \in 1 .. l \/ i = l + 1
  OBVIOUS
<1>4. UnlabelledInv'
  BY <1>1, <1>2, <1>3 DEF UnlabelledInv
<1>5. \A s \in Source : \A x : Held(s, x)' => Held(s, x) \/ (s = m.src /\ x = m)
  BY <1>1, <1>2, <1>3 DEF Held
<1>6. ASSUME NEW s \in Source, NEW x \in Labels(s)' PROVE x \in Labels(s)
  <2>1. CASE \E n : Held(s, n)' /\ n.id # 0 /\ x = <<n.id, n.frame>>
    <3>1. PICK n : Held(s, n)' /\ n.id # 0 /\ x = <<n.id, n.frame>>
      BY <2>1
    <3>2. CASE Held(s, n)
      BY <3>1, <3>2, LabelsAre
    <3>3. CASE s = m.src /\ n = m
      BY <3>1, <3>3, LabelsAre
    <3> QED
      BY <1>5, <3>1, <3>2, <3>3
  <2>2. CASE rpc' = "push" /\ s = Cur' /\ x = <<sub'.id, buf'[s][1]>>
    <3>1. Cur' = Cur
      BY <2>2 DEF Cur
    <3> QED
      BY <2>2, <3>1, LabelsAre
  <2> QED
    BY <1>6, <2>1, <2>2, LabelsNext
<1> QED
  BY <1>4, <1>6 DEF Relabelled

LEMMA PartLabels ==
    ASSUME IngestInv, IngestInv', UnlabelledInv, PushPart
    PROVE  frameId' = frameId /\ UnlabelledInv' /\ \A s \in Source : Relabelled(s)
<1>1. RecvTypes /\ SharedTypes /\ SharedTypes' /\ BufInv
  BY InvParts, InvPartsTold
<1>2. Cur \in Port /\ turn \in 1 .. Len(Ports) /\ rpc = "push"
  BY <1>1, CurIsPort DEF PushPart, RecvTypes
<1>3. sub.id # 0 /\ sub.reason \in Reasons
  BY <1>1, <1>2 DEF BufInv, RecvTypes, Reasons
<1>4. AfterSubmit(sub.reason) => rpc' # "push"
  BY <1>2, <1>3, AfterSubmitIs
<1>5. UNCHANGED <<msg, logs, frameId>>
  BY DEF PushPart, writeVars
<1>6. CASE Len(fifo) = Slots /\ AfterSubmit(sub.reason) /\ UNCHANGED fifo
  BY <1>1, <1>4, <1>5, <1>6, QuietLabels
<1>7. CASE ~(Len(fifo) = Slots /\ AfterSubmit(sub.reason) /\ UNCHANGED fifo)
  <2>1. PICK m : /\ fifo' = Append(fifo, m)
                 /\ m.src = Cur /\ m.id = sub.id /\ m.frame = buf[Cur][1]
    BY <1>7 DEF PushPart
  <2>2. \/ /\ sub' = [sub EXCEPT !.off = @ + DataLen, !.part = @ + 1]
           /\ UNCHANGED <<rpc, turn, buf>>
        \/ AfterSubmit(sub.reason)
    BY <1>7 DEF PushPart
  <2>3. m \in Message
    <3>1. PICK l \in Nat : l = Len(fifo)
      BY <1>1 DEF SharedTypes
    <3>2. Len(fifo') = l + 1 /\ fifo'[l + 1] = m
      BY <1>1, <2>1, <3>1 DEF SharedTypes
    <3>3. fifo' \in Seq(Message)
      BY <1>1 DEF SharedTypes
    <3> QED
      BY <3>1, <3>2, <3>3
  <2>4. rpc' = "push" => rpc = "push" /\ turn' = turn /\ sub'.id = sub.id /\ buf' = buf
    <3>1. sub \in [off : Nat, id : 0 .. MaxId, part : Nat,
                   reason : {"none", "timeout", "max_len", "flush"}]
      BY <1>1 DEF RecvTypes
    <3> QED
      BY <1>2, <1>4, <2>2, <3>1
  <2> QED
    BY <1>1, <1>2, <1>3, <1>5, <2>1, <2>3, <2>4, AppendLabels
<1> QED
  BY <1>6, <1>7

LEMMA PushLabels ==
    ASSUME IngestInv, IngestInv', UnlabelledInv, NEW s \in Pushers, Push(s)
    PROVE  frameId' = frameId /\ UnlabelledInv' /\ \A t \in Source : Relabelled(t)
<1>1. SharedTypes /\ SharedTypes'
  BY InvParts, InvPartsTold
<1>2. s \in Source /\ s \notin Port
  BY Bounds DEF Source
<1>3. UNCHANGED <<rpc, turn, sub, buf, msg, logs, frameId>>
  BY DEF Push, recvVars, writeVars
<1>4. CASE UNCHANGED fifo
  BY <1>1, <1>3, <1>4, QuietLabels
<1>5. CASE ~UNCHANGED fifo
  <2>1. PICK m : fifo' = Append(fifo, m) /\ m.src = s /\ m.id = 0
    BY <1>5 DEF Push
  <2>2. m \in Message
    <3>1. PICK l \in Nat : l = Len(fifo)
      BY <1>1 DEF SharedTypes
    <3>2. Len(fifo') = l + 1 /\ fifo'[l + 1] = m
      BY <1>1, <2>1, <3>1 DEF SharedTypes
    <3>3. fifo' \in Seq(Message)
      BY <1>1 DEF SharedTypes
    <3> QED
      BY <3>1, <3>2, <3>3
  <2> QED
    BY <1>1, <1>2, <1>3, <2>1, <2>2, AppendLabels
<1> QED
  BY <1>4, <1>5

LEMMA TakeLabels ==
    ASSUME IngestInv, IngestInv', UnlabelledInv, Take
    PROVE  frameId' = frameId /\ UnlabelledInv' /\ \A s \in Source : Relabelled(s)
<1>1. SharedTypes /\ SharedTypes'
  BY InvParts, InvPartsTold
<1>2. PICK l \in Nat \ {0} : l = Len(fifo)
  <2>1. fifo \in Seq(Message) /\ fifo # <<>>
    BY <1>1 DEF Take, SharedTypes
  <2> QED
    BY <2>1
<1>3. /\ msg' = fifo[1] /\ Len(fifo') = l - 1 /\ fifo[1] \in Message
      /\ \A i \in 1 .. l - 1 : fifo'[i] = fifo[i + 1]
  BY <1>1, <1>2 DEF Take, SharedTypes
<1>4. \A i \in 1 .. l - 1 : i + 1 \in 1 .. l
  OBVIOUS
<1>5. UNCHANGED <<rpc, turn, sub, buf, logs, frameId>> /\ Cur' = Cur
  BY DEF Take, recvVars, Cur
<1>6. UnlabelledInv'
  <2>1. 1 \in 1 .. Len(fifo) /\ Len(fifo') = l - 1
    BY <1>2, <1>3
  <2>2. msg'.id = 0 <=> msg'.src \notin Port
    BY <1>3, <2>1 DEF UnlabelledInv
  <2>3. ASSUME NEW i \in 1 .. Len(fifo') PROVE fifo'[i].id = 0 <=> fifo'[i].src \notin Port
    <3>1. i \in 1 .. l - 1 /\ i + 1 \in 1 .. Len(fifo)
      BY <1>2, <1>3
    <3> QED
      BY <1>3, <3>1 DEF UnlabelledInv
  <2> QED
    BY <1>5, <2>2, <2>3 DEF UnlabelledInv
<1>7. ASSUME NEW s \in Source, NEW m, Held(s, m)' PROVE Held(s, m)
  <2>1. CASE msg'.src = s /\ m = msg'
    <3>1. 1 \in 1 .. Len(fifo)
      BY <1>2
    <3> QED
      BY <1>3, <2>1, <3>1 DEF Held
  <2>2. CASE \E i \in 1 .. Len(fifo') : fifo'[i].src = s /\ m = fifo'[i]
    <3>1. PICK i \in 1 .. l - 1 : fifo'[i].src = s /\ m = fifo'[i]
      BY <1>3, <2>2
    <3>2. i + 1 \in 1 .. Len(fifo) /\ fifo[i + 1].src = s /\ m = fifo[i + 1]
      BY <1>2, <1>3, <1>4, <3>1
    <3> QED
      BY <3>2 DEF Held
  <2> QED
    BY <1>5, <1>7, <2>1, <2>2 DEF Held
<1>8. ASSUME NEW s \in Source, NEW x \in Labels(s)' PROVE x \in Labels(s)
  BY <1>1, <1>5, <1>7, <1>8, LabelsAre, LabelsNext
<1> QED
  BY <1>5, <1>6, <1>8 DEF Relabelled

\* The frame of a message that gets its id at the writer is not in the log yet.
LEMMA WriterAhead ==
    ASSUME IngestInv, UnlabelledInv, msg # <<>>, msg.id = 0, NEW m, Held(msg.src, m), m.id # 0
    PROVE  m.frame # msg.frame
<1>1. /\ RecvTypes /\ SharedTypes /\ BufInv /\ MessageInv
      /\ \A t \in Source : SourceInv(t)
  BY InvParts
<1>2. PICK s \in Source : s = msg.src /\ msg \in Message /\ s \notin Port
  BY <1>1, MessageIs DEF SharedTypes, UnlabelledInv
<1>3. PICK i \in 1 .. Len(logs[s]) : m = logs[s][i]
  BY <1>2 DEF Held, UnlabelledInv
<1>4. m \in Message /\ Sound(m) /\ Sound(msg)
  BY <1>1, <1>2, <1>3 DEF SharedTypes, MessageInv
<1>5. PICK l \in Nat : l = Len(logs[s]) /\ i \in 1 .. l
  <2>1. logs[s] \in Seq(Message)
    BY <1>1 DEF SharedTypes
  <2>2. Len(logs[s]) \in Nat
    BY <2>1
  <2> QED
    BY <1>3, <2>2
<1>6. PICK a, b : a = [at |-> i, data |-> m.data] /\ b = [at |-> l + 1, data |-> msg.data]
  OBVIOUS
<1>7. a \in Queued(s) /\ b \in Queued(s) /\ a.at < b.at
  <2>1. Piece(s, a) /\ Piece(s, b)
    BY <1>2, <1>3, <1>5, <1>6 DEF Piece
  <2>2. a.at < b.at
    BY <1>5, <1>6
  <2> QED
    BY <1>1, <2>1, <2>2, QueuedIs
<1>8. Before(m.data, msg.data)
  BY <1>1, <1>6, <1>7 DEF SourceInv, Ordered
<1>9. m.data[1] < msg.data[1]
  <2>1. 1 \in DOMAIN m.data /\ 1 \in DOMAIN msg.data
    BY <1>2, <1>4, FrameBegins
  <2> QED
    BY <1>8, <2>1 DEF Before
<1> QED
  BY <1>2, <1>4, <1>9, FrameBegins, MessageIs DEF Number

LEMMA WriteLabels ==
    ASSUME IngestInv, IngestInv', UnlabelledInv, WriteLine
    PROVE  /\ frameId' = frameId \/ frameId' = NextId(frameId)
           /\ UnlabelledInv' /\ \A s \in Source : Relabelled(s)
<1>1. SharedTypes /\ SharedTypes' /\ RecvTypes
  BY InvParts, InvPartsTold
<1>2. msg # <<>> /\ msg \in Message /\ msg.src \in Source
  BY <1>1, MessageIs DEF WriteLine, SharedTypes
<1>3. /\ UNCHANGED <<rpc, turn, sub, buf, fifo>> /\ msg' = <<>>
      /\ Cur' = Cur /\ Cur \in Port
      /\ frameId' = IF msg.id = 0 THEN NextId(frameId) ELSE frameId
  BY <1>1, CurIsPort DEF WriteLine, recvVars, Cur, RecvTypes
<1>4. frameId' # 0 \/ msg.id # 0
  <2>1. NextId(frameId) \in 1 .. MaxId
    BY <1>1, NextIdRange DEF SharedTypes
  <2> QED
    BY <1>3, <2>1
<1>5. PICK e : /\ e = LogLine(msg) /\ e.id = (IF msg.id = 0 THEN frameId' ELSE msg.id)
               /\ e.frame = msg.frame
  <2>1. CASE msg.id = 0
    <3>1. LogLine(msg) = [msg EXCEPT !.id = frameId', !.part = 0, !.parts = 1]
      BY <2>1 DEF LogLine
    <3>2. /\ [msg EXCEPT !.id = frameId', !.part = 0, !.parts = 1].id = frameId'
          /\ [msg EXCEPT !.id = frameId', !.part = 0, !.parts = 1].frame = msg.frame
      BY <1>2 DEF Message
    <3> QED
      BY <2>1, <3>1, <3>2
  <2>2. CASE msg.id # 0
    BY <2>2 DEF LogLine
  <2> QED
    BY <2>1, <2>2
<1>6. logs' = logs \/ logs' = [logs EXCEPT ![msg.src] = Append(@, e)]
  BY <1>5 DEF WriteLine
<1>7. ASSUME NEW s \in Source, NEW i \in 1 .. Len(logs'[s])
      PROVE  (i \in 1 .. Len(logs[s]) /\ logs'[s][i] = logs[s][i])
                \/ (s = msg.src /\ logs'[s][i] = e)
  <2>1. CASE logs' = logs
    BY <2>1
  <2>2. CASE logs' # logs /\ s # msg.src
    <3>1. logs'[s] = logs[s]
      BY <1>1, <1>6, <2>2 DEF SharedTypes
    <3> QED
      BY <3>1
  <2>3. CASE logs' # logs /\ s = msg.src
    <3>1. logs'[s] = Append(logs[s], e) /\ logs[s] \in Seq(Message)
      BY <1>1, <1>6, <2>3 DEF SharedTypes
    <3>2. PICK l \in Nat : l = Len(logs[s])
      BY <3>1
    <3>3. /\ Len(logs'[s]) = l + 1 /\ logs'[s][l + 1] = e
          /\ \A j \in 1 .. l : logs'[s][j] = logs[s][j]
      BY <3>1, <3>2
    <3>4. i \in 1 .. l \/ i = l + 1
      BY <3>3
    <3> QED
      BY <2>3, <3>2, <3>3, <3>4
  <2> QED
    BY <2>1, <2>2, <2>3
<1>8. UnlabelledInv'
  BY <1>3, <1>4, <1>5, <1>7 DEF UnlabelledInv
<1>9. ASSUME NEW s \in Source, NEW m, Held(s, m)'
      PROVE  Held(s, m) \/ (s = msg.src /\ m = e)
  BY <1>3, <1>7, <1>9 DEF Held
<1>10. ASSUME NEW s \in Source PROVE Relabelled(s)
  <2>1. ASSUME NEW x \in Labels(s)'
        PROVE  x \in Labels(s) \/ (s = msg.src /\ e.id # 0 /\ x = <<e.id, e.frame>>)
    BY <1>1, <1>3, <1>9, <2>1, LabelsAre, LabelsNext
  <2>2. CASE msg.id # 0 \/ s # msg.src
    <3>1. msg.id # 0 /\ s = msg.src => <<e.id, e.frame>> \in Labels(s)
      <4>1. Held(msg.src, msg)
        BY <1>2 DEF Held
      <4> QED
        BY <1>1, <1>5, <4>1, LabelsAre
    <3>2. Labels(s)' \subseteq Labels(s)
      BY <2>1, <2>2, <3>1
    <3> QED
      BY <3>2 DEF Relabelled
  <2>3. CASE msg.id = 0 /\ s = msg.src
    <3>1. s # Cur
      BY <1>2, <1>3, <2>3 DEF UnlabelledInv
    <3>2. PICK f : f = msg.frame
      OBVIOUS
    <3>3. Labels(s)' \subseteq Labels(s) \cup {<<frameId', f>>}
      BY <1>5, <2>1, <2>3, <3>2
    <3>4. ASSUME NEW x \in Labels(s) PROVE x[2] # f
      <4>1. PICK m : Held(s, m) /\ m.id # 0 /\ x = <<m.id, m.frame>>
        BY <1>1, <3>1, <3>4, LabelsAre
      <4>2. m.frame # f
        BY <1>2, <2>3, <3>2, <4>1, WriterAhead
      <4> QED
        BY <4>1, <4>2
    <3> QED
      BY <1>3, <2>3, <3>3, <3>4 DEF Relabelled
  <2> QED
    BY <2>2, <2>3
<1> QED
  BY <1>3, <1>8, <1>10

LEMMA IdStep ==
    ASSUME MaxId > 1, IngestInv, IdInv, Next, Counting PROVE IngestInv' /\ IdInv'
<1>1. IngestInv'
  BY IngestInvStep
<1>2. UnlabelledInv /\ SharedTypes /\ SharedTypes'
  BY <1>1, InvParts, InvPartsTold DEF IdInv
<1>3. /\ frameId' = frameId \/ frameId' = NextId(frameId)
      /\ UnlabelledInv' /\ \A s \in Source : Relabelled(s)
  <2>1. CASE Poll \/ Read \/ AddFresh \/ Flush
    BY <1>1, <1>2, <2>1, ReadLabels
  <2>2. CASE PushPart
    BY <1>1, <1>2, <2>2, PartLabels
  <2>3. CASE \E s \in Pushers : Push(s)
    BY <1>1, <1>2, <2>3, PushLabels
  <2>4. CASE Take
    BY <1>1, <1>2, <2>4, TakeLabels
  <2>5. CASE WriteLine
    BY <1>1, <1>2, <2>5, WriteLabels
  <2>6. CASE WriterStops \/ HandleSignal \/ \E p \in Port : FrameTimesOut(p)
    <3>1. UNCHANGED <<rpc, turn, sub, buf, msg, logs, fifo, frameId>>
      BY <2>6 DEF WriterStops, HandleSignal, FrameTimesOut, recvVars, writeVars
    <3> QED
      BY <1>2, <3>1, QuietLabels
  <2> QED
    BY <2>1, <2>2, <2>3, <2>4, <2>5, <2>6 DEF Next, Receive, Writer
<1> QED
  BY <1>1, <1>2, <1>3, RelabelledInv

LEMMA IdStutter ==
    ASSUME IngestInv, IdInv, UNCHANGED <<vars, issued>> PROVE IngestInv' /\ IdInv'
<1>1. IngestInv'
  BY IngestInvStep
<1>2. /\ UNCHANGED <<rpc, turn, sub, buf, msg, logs, fifo, frameId, issued>> /\ Cur' = Cur
  BY DEF vars, recvVars, writeVars, Cur
<1>3. UnlabelledInv'
  BY <1>2 DEF UnlabelledInv, IdInv
<1>4. \A s : Labels(s)' = Labels(s)
  BY <1>2 DEF Labels, Held
<1>5. LabelInv => LabelInv'
  BY <1>2, <1>4 DEF LabelInv, Age
<1> QED
  BY <1>1, <1>2, <1>3, <1>5 DEF IdInv

LEMMA IdInit == Init /\ issued = 0 => IdInv
<1> SUFFICES ASSUME Init, issued = 0 PROVE IdInv
  OBVIOUS
<1>1. /\ rpc = "poll" /\ msg = <<>> /\ fifo = <<>> /\ logs = [s \in Source |-> <<>>]
  BY DEF Init
<1>2. Len(fifo) = 0 /\ \A s \in Source : Len(logs[s]) = 0
  BY <1>1
<1>3. UnlabelledInv
  BY <1>1, <1>2 DEF UnlabelledInv
<1>4. \A s \in Source : \A m : ~Held(s, m)
  BY <1>1, <1>2 DEF Held
<1>5. \A s \in Source : Labels(s) = {}
  BY <1>1, <1>4 DEF Labels
<1> QED
  BY <1>3, <1>5 DEF IdInv, LabelInv

\* Neighbouring lines of a log have the same id exactly when they are parts of one frame,
\* whoever issued the ids in between: log_next_frame_id gives them to receive_thread and to
\* the writer in turn.  This holds until more than MaxId of them have been issued since the
\* start, when they come again.
THEOREM IdsTellFramesApart ==
    ASSUME MaxId > 1
    PROVE  CountedSpec => [](issued <= MaxId => IdsTellFrames)
<1>1. Init /\ issued = 0 => IngestInv /\ IdInv
  BY IngestInvInit, IdInit
<1>2. IngestInv /\ IdInv /\ [Next /\ Counting]_<<vars, issued>> => (IngestInv /\ IdInv)'
  <2>1. ASSUME IngestInv, IdInv, Next /\ Counting PROVE (IngestInv /\ IdInv)'
    BY <2>1, IdStep
  <2>2. ASSUME IngestInv, IdInv, UNCHANGED <<vars, issued>> PROVE (IngestInv /\ IdInv)'
    BY <2>2, IdStutter
  <2> QED
    BY <2>1, <2>2
<1>3. IngestInv /\ IdInv => (issued <= MaxId => IdsTellFrames)
  <2> SUFFICES ASSUME IngestInv, IdInv, issued <= MaxId,
                      NEW s \in Source, NEW i \in 1 .. Len(logs[s]) - 1
               PROVE  (logs[s][i].id = logs[s][i + 1].id)
                         <=> (logs[s][i].frame = logs[s][i + 1].frame)
    BY DEF IdsTellFrames
  <2>1. SharedTypes /\ LabelInv /\ UnlabelledInv
    BY InvParts DEF IdInv
  <2>2. PICK l \in Nat : l = Len(logs[s])
    BY <2>1 DEF SharedTypes
  <2>3. i \in 1 .. l /\ i + 1 \in 1 .. l
    BY <2>2
  <2>4. PICK a, b : a = logs[s][i] /\ b = logs[s][i + 1]
    OBVIOUS
  <2>5. Held(s, a) /\ Held(s, b) /\ a.id # 0 /\ b.id # 0
    BY <2>1, <2>2, <2>3, <2>4 DEF Held, UnlabelledInv
  <2>6. PICK x \in Labels(s), y \in Labels(s) : x = <<a.id, a.frame>> /\ y = <<b.id, b.frame>>
    BY <2>1, <2>5, LabelsAre
  <2>7. (x[1] = y[1]) <=> (x[2] = y[2])
    BY <2>1 DEF LabelInv
  <2> QED
    BY <2>4, <2>6, <2>7
<1> QED
  BY <1>1, <1>2, <1>3, PTL DEF CountedSpec

=============================================================================
