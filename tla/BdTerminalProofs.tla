-------------------------- MODULE BdTerminalProofs --------------------------
(***************************************************************************)
(* Proofs about BdTerminal, for any numbers of packets, any length of the  *)
(* DEBUG queue and any number of failures before a power-down.             *)
(***************************************************************************)
EXTENDS BdTerminal, Integers, TLAPS

-----------------------------------------------------------------------------
(* The positions of the queue.                                              *)

LEMMA ModSmall ==
    ASSUME NEW m \in Nat \ {0}, NEW r \in 0 .. m - 1 PROVE r % m = r
OBVIOUS

LEMMA ModRange ==
    ASSUME NEW a \in Int, NEW m \in Nat \ {0} PROVE a % m \in 0 .. m - 1
OBVIOUS

LEMMA ModOnce ==
    ASSUME NEW m \in Nat \ {0}, NEW r \in 0 .. m - 1 PROVE (m + r) % m = r
OBVIOUS

\* A slot at most one turn on.
LEMMA Turn ==
    ASSUME NEW m \in Nat \ {0}, NEW a \in 0 .. m - 1, NEW b \in 0 .. m
    PROVE  (a + b) % m = IF a + b < m THEN a + b ELSE a + b - m
<1>1. CASE a + b < m
  BY <1>1, ModSmall
<1>2. CASE a + b >= m
  <2>1. a + b - m \in 0 .. m - 1 /\ a + b = m + (a + b - m)
    BY <1>2
  <2> QED
    BY <1>2, <2>1, ModOnce
<1> QED
  BY <1>1, <1>2

LEMMA Bounds ==
    /\ MaxPackets \in Nat /\ MaxDebug \in Nat
    /\ MaxPend \in Nat \ {0} /\ Depth \in Nat \ {0} /\ BdFailMax \in Nat \ {0}
BY BdAssumption DEF BdAssumption

\* The slot j after slot h.
Slot(h, j) == (h + j) % Depth

\* What the i-th packet of a queue of k, from slot h, is.
Nth(r, h, i) == r[(h + i - 1) % Depth]

\* The k packets from slot h are the k that entered after packet n.
Holds(r, h, k, n) == \A i \in 1 .. k : Nth(r, h, i) = n + i

\* The queue as a function, and as a statement on each of its packets.
LEMMA QueuedIs ==
    Queued = [i \in 1 .. count |-> dbgTaken + i]
        <=> Holds(ring, head, count, dbgTaken)
<1>1. Queued = [i \in 1 .. count |-> Nth(ring, head, i)]
  BY DEF Queued, Nth
<1> QED
  BY <1>1 DEF Holds

\* A packet that leaves at the head leaves the rest in its order.
LEMMA RingPop ==
    ASSUME NEW m \in Nat \ {0}, NEW r,
           NEW h \in 0 .. m - 1, NEW k \in 1 .. m, NEW n \in Nat, m = Depth,
           Holds(r, h, k, n)
    PROVE  /\ Nth(r, h, 1) = n + 1
           /\ Slot(h, 1) \in 0 .. m - 1
           /\ Slot(h, k) = Slot(Slot(h, 1), k - 1)
           /\ Holds(r, Slot(h, 1), k - 1, n + 1)
<1>1. (h + 1) % m = IF h + 1 < m THEN h + 1 ELSE h + 1 - m
  BY Turn, 1 \in 0 .. m
<1>2. Nth(r, h, 1) = n + 1
  BY 1 \in 1 .. k DEF Holds
<1>3. (h + 1) % m \in 0 .. m - 1
  BY <1>1
<1>4. ASSUME NEW j \in 0 .. m - 1
      PROVE  (((h + 1) % m) + j) % m = (h + (j + 1)) % m
  <2>1. (((h + 1) % m) + j) % m
            = IF ((h + 1) % m) + j < m THEN ((h + 1) % m) + j ELSE ((h + 1) % m) + j - m
    <3> DEFINE g == (h + 1) % m
    <3>1. g \in 0 .. m - 1 /\ j \in 0 .. m
      BY <1>3
    <3> HIDE DEF g
    <3>2. (g + j) % m = IF g + j < m THEN g + j ELSE g + j - m
      BY <3>1, Turn
    <3> QED
      BY <3>2 DEF g
  <2>2. (h + (j + 1)) % m = IF h + (j + 1) < m THEN h + (j + 1) ELSE h + (j + 1) - m
    <3>1. j + 1 \in 0 .. m
      OBVIOUS
    <3> QED
      BY <3>1, Turn
  <2>3. CASE h + 1 < m
    BY <1>1, <2>1, <2>2, <2>3
  <2>4. CASE h + 1 = m
    <3>1. (h + 1) % m = 0
      BY <1>1, <2>4
    <3>2. h + (j + 1) = m + j
      BY <2>4
    <3> QED
      BY <2>1, <2>2, <3>1, <3>2
  <2> QED
    BY <2>3, <2>4
<1>5. (h + k) % m = (((h + 1) % m) + (k - 1)) % m
  <2>1. k - 1 \in 0 .. m - 1 /\ (k - 1) + 1 = k
    OBVIOUS
  <2> QED
    BY <1>4, <2>1
<1>6. ASSUME NEW i \in 1 .. k - 1
      PROVE  Nth(r, (h + 1) % m, i) = (n + 1) + i
  <2>1. i - 1 \in 0 .. m - 1 /\ (i - 1) + 1 = i /\ i + 1 \in 1 .. k
    OBVIOUS
  <2>2. (((h + 1) % m) + (i - 1)) % m = (h + i) % m
    BY <1>4, <2>1
  <2>3. ((h + 1) % m) + i - 1 = ((h + 1) % m) + (i - 1) /\ h + (i + 1) - 1 = h + i
    BY <1>3
  <2>4. Nth(r, (h + 1) % m, i) = Nth(r, h, i + 1)
    BY <2>2, <2>3 DEF Nth
  <2>5. n + (i + 1) = (n + 1) + i
    OBVIOUS
  <2> QED
    BY <2>1, <2>4, <2>5 DEF Holds
<1> QED
  BY <1>2, <1>3, <1>5, <1>6 DEF Holds, Slot

\* The slot after the slot k after slot h is the slot k + 1 after it.
LEMMA NextSlot ==
    ASSUME NEW m \in Nat \ {0}, NEW h \in 0 .. m - 1, NEW k \in 0 .. m - 1, m = Depth
    PROVE  /\ Slot(h, k) = IF h + k < m THEN h + k ELSE h + k - m
           /\ Slot(Slot(h, k), 1) \in 0 .. m - 1
           /\ Slot(Slot(h, k), 1) = Slot(h, k + 1)
<1>1. PICK t : t = Slot(h, k)
  OBVIOUS
<1>2. t = IF h + k < m THEN h + k ELSE h + k - m
  BY <1>1, Turn, k \in 0 .. m DEF Slot
<1>3. t \in 0 .. m - 1
  BY <1>2
<1>4. (t + 1) % m = IF t + 1 < m THEN t + 1 ELSE t + 1 - m
  BY <1>3, Turn, 1 \in 0 .. m
<1>5. (h + (k + 1)) % m = IF h + (k + 1) < m THEN h + (k + 1) ELSE h + (k + 1) - m
  BY Turn, k + 1 \in 0 .. m
<1>6. (t + 1) % m \in 0 .. m - 1
  <2>1. t + 1 \in Int
    BY <1>3
  <2> QED
    BY <2>1, ModRange
<1>7. (t + 1) % m = (h + (k + 1)) % m
  <2>1. CASE h + k < m
    <3>1. t = h + k /\ h + (k + 1) = t + 1
      BY <1>2, <2>1
    <3> QED
      BY <1>4, <1>5, <3>1
  <2>2. CASE h + k >= m
    <3>1. t = h + k - m /\ t + 1 < m
      BY <1>2, <2>2
    <3> QED
      BY <1>4, <1>5, <2>2, <3>1
  <2> QED
    BY <2>1, <2>2
<1> QED
  BY <1>1, <1>2, <1>6, <1>7 DEF Slot

\* A packet that enters behind the last one overwrites none of them.
LEMMA RingPush ==
    ASSUME NEW m \in Nat \ {0}, NEW r \in [0 .. m - 1 -> Nat],
           NEW h \in 0 .. m - 1, NEW k \in 0 .. m - 1, NEW n \in Nat, m = Depth,
           NEW t \in 0 .. m - 1, Holds(r, h, k, n), t = Slot(h, k)
    PROVE  Holds([r EXCEPT ![t] = n + k + 1], h, k + 1, n)
<1>1. t = IF h + k < m THEN h + k ELSE h + k - m
  BY NextSlot
<1>2. t \in 0 .. m - 1
  OBVIOUS
<1>7. ASSUME NEW i \in 1 .. k + 1
      PROVE  Nth([r EXCEPT ![t] = n + k + 1], h, i) = n + i
  <2>1. h + i - 1 = h + (i - 1) /\ i - 1 \in 0 .. m
    OBVIOUS
  <2>2. (h + (i - 1)) % m
            = IF h + (i - 1) < m THEN h + (i - 1) ELSE h + (i - 1) - m
    BY <2>1, Turn
  <2>3. CASE i = k + 1
    <3>1. (h + i - 1) % m = t /\ n + k + 1 = n + i
      BY <2>1, <2>3 DEF Slot
    <3> QED
      BY <1>2, <3>1 DEF Nth
  <2>4. CASE i \in 1 .. k
    <3>1. (h + (i - 1)) % m # t
      <4>1. CASE h + k < m
        BY <1>1, <2>2, <2>4, <4>1
      <4>2. CASE h + k >= m
        <5>1. t = h + k - m
          BY <1>1, <4>2
        <5>2. t < h + (i - 1)
          BY <2>4, <5>1
        <5>3. t > h + (i - 1) - m
          BY <2>4, <5>1
        <5> QED
          BY <2>2, <5>2, <5>3
      <4> QED
        BY <4>1, <4>2
    <3>2. Nth([r EXCEPT ![t] = n + k + 1], h, i) = Nth(r, h, i)
      <4>1. (h + (i - 1)) % m \in 0 .. m - 1
        BY <2>1, <2>2
      <4> QED
        BY <2>1, <3>1, <4>1 DEF Nth
    <3> QED
      BY <2>4, <3>2 DEF Holds
  <2> QED
    BY <2>3, <2>4
<1> QED
  BY <1>7 DEF Holds

-----------------------------------------------------------------------------
(* Types.                                                                   *)

LEMMA TypesInit == Init => TypeOK /\ AttemptHasPacket
BY Bounds DEF Init, TypeOK, AttemptHasPacket, Packets

LEMMA TermTypes ==
    ASSUME TypeOK, AttemptHasPacket, Terminal PROVE TypeOK' /\ AttemptHasPacket'
<1>1. CASE Ready
  BY <1>1, Bounds DEF TypeOK, AttemptHasPacket, Ready, powerVars, sendVars, btVars, queueVars, dbgHist
<1>2. ASSUME NEW ok \in BOOLEAN, Settle(ok)
      PROVE  pend' \in Seq(0 .. MaxPackets) /\ Len(pend') <= MaxPend /\ taken' \in BOOLEAN
  BY <1>2, Bounds DEF TypeOK, Settle
<1>3. ASSUME NEW ok \in BOOLEAN, Verdict(ok) PROVE TypeOK' /\ AttemptHasPacket'
  BY <1>2, <1>3 DEF TypeOK, AttemptHasPacket, Verdict, Settle, powerVars, sendVars, btVars, queueVars, dbgHist
<1>4. ASSUME NEW ok \in BOOLEAN, VerdictLost(ok) PROVE TypeOK' /\ AttemptHasPacket'
  BY <1>2, <1>4 DEF TypeOK, AttemptHasPacket, VerdictLost, Settle, powerVars, statusVars, sendVars, btVars, queueVars, dbgHist
<1> QED
  BY <1>1, <1>3, <1>4 DEF Terminal

\* A packet is received only while there is room for it.
LEMMA ReceiveTypes ==
    ASSUME pend \in Seq(0 .. MaxPackets), Len(pend) <= MaxPend,
           NEW p \in 0 .. MaxPackets, Receive(p)
    PROVE  pend' \in Seq(0 .. MaxPackets) /\ Len(pend') <= MaxPend
<1>1. CASE booted /\ Len(pend) < MaxPend
  <2>1. pend' = Append(pend, p)
    BY <1>1 DEF Receive
  <2>2. Append(pend, p) \in Seq(0 .. MaxPackets)
            /\ Len(Append(pend, p)) = Len(pend) + 1
    OBVIOUS
  <2> QED
    BY <1>1, <2>1, <2>2, Bounds
<1>2. CASE ~(booted /\ Len(pend) < MaxPend)
  BY <1>2 DEF Receive
<1> QED
  BY <1>1, <1>2

LEMMA SenderTypes ==
    ASSUME TypeOK, AttemptHasPacket, Sender PROVE TypeOK' /\ AttemptHasPacket'
<1> USE Bounds DEF TypeOK, AttemptHasPacket, Packets, powerVars, termVars, statusVars,
                   senderOnly, btVars, queueVars, dbgHist
<1>1. CASE IdleEmpty
  BY <1>1 DEF IdleEmpty, GoTo
<1>2. CASE IdleToBd
  BY <1>2 DEF IdleToBd, GoTo
<1>3. CASE BdModemOff
  BY <1>3 DEF BdModemOff, EgPowerOff, GoTo
<1>4. CASE BdEnsure
  BY <1>4 DEF BdEnsure, GoTo
<1>5. CASE BdReset
  BY <1>5 DEF BdReset, bd_status_reset, GoTo
<1>6. CASE BdSwitch
  BY <1>6 DEF BdSwitch, BdPowerOn, GoTo
<1>7. CASE BdIsReady
  BY <1>7, ZenonT(30) DEF BdIsReady, GoTo
<1>8. CASE BdNotReady
  BY <1>8 DEF BdNotReady, BdFails
<1>9. CASE BdSend
  <2>1. pend' \in Seq(0 .. MaxPackets) /\ Len(pend') <= MaxPend
    <3>1. packet \in 0 .. MaxPackets /\ pend \in Seq(0 .. MaxPackets)
              /\ Len(pend) <= MaxPend /\ Receive(packet)
      BY <1>9 DEF BdSend
    <3> QED
      BY <3>1, ReceiveTypes
  <2> QED
    BY <1>9, <2>1 DEF BdSend, Receive, GoTo
<1>10. CASE BdShortWrite
  <2>1. bdFail' \in 0 .. BdFailMax
    BY <1>10, SMTT(30) DEF BdShortWrite, BdFails
  <2>2. crossed' \in BOOLEAN
    BY <1>10 DEF BdShortWrite
  <2> QED
    BY <1>10, <2>1, <2>2 DEF BdShortWrite, BdFails
<1>11. CASE BdConfirmed
  <2>1. packet' \in 1 .. MaxPackets + 1 /\ packet' = packet + 1
    BY <1>11 DEF BdConfirmed
  <2>2. {taken', crossed', bdGap', hold'} \subseteq BOOLEAN
    BY <1>11 DEF BdConfirmed
  <2> QED
    BY <1>11, <2>1, <2>2, BdFailMax \in Nat DEF BdConfirmed
<1>12. CASE BdUnconfirmed
  <2>1. bdFail' \in 0 .. BdFailMax
    <3>1. BdFails
      BY <1>12 DEF BdUnconfirmed
    <3> QED
      BY <3>1 DEF BdFails
  <2>2. crossed' \in BOOLEAN
    BY <1>12 DEF BdUnconfirmed
  <2> QED
    BY <1>12, <2>1, <2>2 DEF BdUnconfirmed, BdFails
<1>13. CASE BdWaited
  BY <1>13 DEF BdWaited, GoTo
<1>14. CASE DownHeld
  BY <1>14 DEF DownHeld, GoTo
<1>15. CASE DownModem
  BY <1>15 DEF DownModem, EgPowerOff
<1>16. CASE DownTerminal
  <2>1. {bdOn', egOn', booted'} \subseteq BOOLEAN
    BY <1>16 DEF DownTerminal, BdPowerOff, PowerCut
  <2>2. pend' \in Seq(0 .. MaxPackets) /\ Len(pend') <= MaxPend
    BY <1>16 DEF DownTerminal, PowerCut
  <2> QED
    BY <1>16, <2>1, <2>2 DEF DownTerminal, BdPowerOff, PowerCut
<1>17. ASSUME NEW l \in {"idle", "bdleg", "down"}, IdleTry4g(l)
       PROVE  TypeOK' /\ AttemptHasPacket'
  <2>1. packet' \in 1 .. MaxPackets + 1 /\ (l # "idle" => packet' \in Packets)
    BY <1>17, SMTT(30) DEF IdleTry4g
  <2>2. {bdOn', egOn', taken'} \subseteq BOOLEAN
    BY <1>17 DEF IdleTry4g, EgPowerOn
  <2> QED
    BY <1>17, <2>1, <2>2 DEF IdleTry4g, EgPowerOn
<1> QED
  BY <1>1, <1>2, <1>3, <1>4, <1>5, <1>6, <1>7, <1>8, <1>9, <1>10, <1>11, <1>12, <1>13, <1>14, <1>15, <1>16, <1>17 DEF Sender

LEMMA OtherTypes ==
    ASSUME TypeOK, AttemptHasPacket,
           BtRead \/ BtBdOn \/ BtEgOn \/ BtLeave \/ Clock \/ handle_signal \/ main
              \/ UNCHANGED vars
    PROVE  TypeOK' /\ AttemptHasPacket'
<1> USE Bounds DEF TypeOK, AttemptHasPacket, powerVars, termVars, statusVars, sendVars,
                   btOnly, btVars, queueVars, dbgHist
<1>1. CASE BtRead
  BY <1>1 DEF BtRead
<1>2. CASE BtBdOn
  BY <1>2 DEF BtBdOn, BdPowerOn
<1>3. CASE BtEgOn
  BY <1>3 DEF BtEgOn, EgPowerOn
<1>4. CASE BtLeave
  BY <1>4 DEF BtLeave
<1>5. CASE Clock
  BY <1>5, ZenonT(30) DEF Clock
<1>6. CASE handle_signal
  BY <1>6 DEF handle_signal
<1>7. CASE main
  <2>1. {bdOn', egOn', booted'} \subseteq BOOLEAN
    BY <1>7 DEF main, PowerCut
  <2>2. pend' \in Seq(0 .. MaxPackets) /\ Len(pend') <= MaxPend
    BY <1>7 DEF main, PowerCut
  <2> QED
    BY <1>7, <2>1, <2>2 DEF main, PowerCut
<1>8. CASE UNCHANGED vars
  BY <1>8 DEF vars
<1> QED
  BY <1>1, <1>2, <1>3, <1>4, <1>5, <1>6, <1>7, <1>8

-----------------------------------------------------------------------------
(* The DEBUG queue.                                                         *)

\* What is in the queue, said of each slot.
RingHolds ==
    /\ Holds(ring, head, count, dbgTaken)
    /\ dbgNext = dbgTaken + count + 1
    /\ RingIsWhole

LEMMA RingHoldsIs == RingHolds <=> DebugInOrder /\ RingIsWhole
BY QueuedIs DEF RingHolds, DebugInOrder

\* A step that leaves the queue and its history alone leaves its order.
LEMMA RingSame ==
    ASSUME RingHolds, UNCHANGED <<queueVars, dbgHist>> PROVE RingHolds'
BY DEF RingHolds, RingIsWhole, Holds, Nth, queueVars, dbgHist

LEMMA PopStep ==
    ASSUME TypeOK, RingHolds, count > 0, Pop, UNCHANGED <<ring, dbgNext>>
    PROVE  /\ RingHolds'
           /\ head' \in 0 .. Depth - 1 /\ tail' \in 0 .. Depth - 1
           /\ count' \in 0 .. Depth /\ dbgTaken' \in 0 .. MaxDebug
<1>1. PICK m \in Nat \ {0} : m = Depth
  BY Bounds
<1>2. PICK h \in 0 .. m - 1 : h = head
  BY <1>1 DEF TypeOK
<1>3. PICK k \in 1 .. m : k = count
  BY <1>1 DEF TypeOK
<1>4. PICK n \in Nat : n = dbgTaken
  BY Bounds DEF TypeOK
<1>5. /\ h \in 0 .. m - 1 /\ k \in 1 .. m /\ n \in Nat
      /\ ring \in [0 .. m - 1 -> 0 .. MaxDebug] /\ tail \in 0 .. m - 1
  BY <1>1, <1>2, <1>3, <1>4, Bounds DEF TypeOK
<1>6. /\ Holds(ring, h, k, n)
      /\ dbgNext = n + k + 1 /\ tail = Slot(h, k)
  BY <1>1, <1>2, <1>3, <1>4 DEF RingHolds, RingIsWhole, Slot
<1>7. /\ Nth(ring, h, 1) = n + 1
      /\ Slot(h, 1) \in 0 .. m - 1
      /\ Slot(h, k) = Slot(Slot(h, 1), k - 1)
      /\ Holds(ring, Slot(h, 1), k - 1, n + 1)
  <2>1. Holds(ring, h, k, n)
    BY <1>6
  <2> QED
    BY <1>1, <1>2, <1>3, <1>4, <2>1, RingPop
<1>8. /\ dbgTaken' = ring[h] /\ head' = Slot(h, 1) /\ count' = k - 1
      /\ tail' = tail /\ ring' = ring /\ dbgNext' = dbgNext
  BY <1>1, <1>2, <1>3 DEF Pop, Slot
<1>9. dbgTaken' = n + 1 /\ n + k + 1 = (n + 1) + (k - 1) + 1
  <2>1. h + 1 - 1 = h /\ h % m = h
    BY <1>5, ModSmall
  <2>2. ring[h] = n + 1
    BY <1>1, <1>7, <2>1 DEF Nth
  <2> QED
    BY <1>5, <1>8, <2>2
<1>10. dbgNext' = dbgTaken' + count' + 1
  BY <1>6, <1>8, <1>9
<1>11. tail' = Slot(head', count')
  BY <1>6, <1>7, <1>8
<1>12. Holds(ring', head', count', dbgTaken')
  BY <1>7, <1>8, <1>9
<1>13. RingHolds'
  BY <1>1, <1>10, <1>11, <1>12 DEF RingHolds, RingIsWhole, Holds, Nth, Slot
<1> QED
  BY <1>1, <1>5, <1>7, <1>8, <1>13

LEMMA EnqueueStep ==
    ASSUME TypeOK, RingHolds, debug_bt_bd_enqueue
    PROVE  /\ RingHolds'
           /\ head' = head /\ tail' \in 0 .. Depth - 1 /\ count' \in 0 .. Depth
           /\ ring' \in [0 .. Depth - 1 -> 0 .. MaxDebug]
           /\ dbgNext' \in 1 .. MaxDebug + 1 /\ dbgTaken' = dbgTaken
<1>1. PICK m \in Nat \ {0} : m = Depth
  BY Bounds
<1>2. PICK h \in 0 .. m - 1 : h = head
  BY <1>1 DEF TypeOK
<1>3. PICK k \in 0 .. m - 1 : k = count
  BY <1>1 DEF TypeOK, debug_bt_bd_enqueue, QueueFull
<1>4. PICK n \in Nat : n = dbgTaken
  BY Bounds DEF TypeOK
<1>5. /\ h \in 0 .. m - 1 /\ k \in 0 .. m - 1 /\ n \in Nat
      /\ ring \in [0 .. m - 1 -> 0 .. MaxDebug] /\ tail \in 0 .. m - 1
      /\ dbgNext \in 1 .. MaxDebug
  BY <1>1, <1>2, <1>3, <1>4, Bounds DEF TypeOK, debug_bt_bd_enqueue, QueueFull
<1>6. /\ Holds(ring, h, k, n)
      /\ dbgNext = n + k + 1 /\ tail = Slot(h, k)
  BY <1>1, <1>2, <1>3, <1>4 DEF RingHolds, RingIsWhole, Slot
<1>7. /\ Slot(tail, 1) \in 0 .. m - 1
      /\ Slot(tail, 1) = Slot(h, k + 1)
      /\ Holds([ring EXCEPT ![tail] = n + k + 1], h, k + 1, n)
  <2>1. PICK r \in [0 .. m - 1 -> Nat] : r = ring
    BY <1>5
  <2>2. PICK t \in 0 .. m - 1 : t = tail
    BY <1>5
  <2>3. Holds(r, h, k, n) /\ t = Slot(h, k)
    BY <1>6, <2>1, <2>2
  <2>4. Slot(t, 1) \in 0 .. m - 1 /\ Slot(t, 1) = Slot(h, k + 1)
    BY <1>1, <1>2, <1>3, <2>3, NextSlot
  <2>5. Holds([r EXCEPT ![t] = n + k + 1], h, k + 1, n)
    BY <1>1, <1>2, <1>3, <1>4, <2>1, <2>2, <2>3, RingPush
  <2> QED
    BY <2>1, <2>2, <2>4, <2>5
<1>8. /\ ring' = [ring EXCEPT ![tail] = n + k + 1]
      /\ tail' = Slot(tail, 1) /\ count' = k + 1 /\ dbgNext' = n + k + 1 + 1
      /\ head' = h /\ dbgTaken' = n
  BY <1>1, <1>2, <1>3, <1>4, <1>6 DEF debug_bt_bd_enqueue, Slot
<1>9. n + k + 1 + 1 = n + (k + 1) + 1
  BY <1>5
<1>10. RingHolds'
  BY <1>1, <1>7, <1>8, <1>9 DEF RingHolds, RingIsWhole, Holds, Nth, Slot
<1>11. ring' \in [0 .. m - 1 -> 0 .. MaxDebug]
  <2>1. n + k + 1 \in 0 .. MaxDebug
    BY <1>5, <1>6, Bounds
  <2> QED
    BY <1>5, <1>8, <2>1
<1>12. dbgNext' \in 1 .. MaxDebug + 1
  BY <1>5, <1>6, <1>8, Bounds
<1> QED
  BY <1>1, <1>2, <1>4, <1>5, <1>7, <1>8, <1>10, <1>11, <1>12

LEMMA FlushStep ==
    ASSUME TypeOK, AttemptHasPacket, RingHolds, BtFlush
    PROVE  TypeOK' /\ AttemptHasPacket' /\ RingHolds'
<1>1. /\ RingHolds'
      /\ head' \in 0 .. Depth - 1 /\ tail' \in 0 .. Depth - 1
      /\ count' \in 0 .. Depth /\ dbgTaken' \in 0 .. MaxDebug
  BY PopStep DEF BtFlush
<1>2. pend' \in Seq(0 .. MaxPackets) /\ Len(pend') <= MaxPend
  <2>1. CASE Receive(DebugPacket)
    <3>1. DebugPacket \in 0 .. MaxPackets
      BY Bounds DEF DebugPacket
    <3> QED
      BY <2>1, <3>1, ReceiveTypes DEF TypeOK
  <2>2. CASE UNCHANGED termVars
    BY <2>2 DEF TypeOK, termVars
  <2> QED
    BY <2>1, <2>2 DEF BtFlush
<1>3. UNCHANGED <<reliable, booted, taken>>
  BY DEF BtFlush, Receive, termVars
<1>4. crossed' \in BOOLEAN /\ dbgGap' \in BOOLEAN
  BY DEF BtFlush, TypeOK
<1>5. TypeOK'
  BY <1>1, <1>2, <1>3, <1>4
     DEF TypeOK, BtFlush, btOnly, powerVars, statusVars, sendVars
<1>6. AttemptHasPacket'
  BY DEF AttemptHasPacket, BtFlush, btOnly, sendVars, Packets
<1> QED
  BY <1>1, <1>5, <1>6

LEMMA LineStep ==
    ASSUME TypeOK, AttemptHasPacket, RingHolds, BtLine
    PROVE  TypeOK' /\ AttemptHasPacket' /\ RingHolds'
<1>1. /\ RingHolds'
      /\ head' \in 0 .. Depth - 1 /\ tail' \in 0 .. Depth - 1
      /\ count' \in 0 .. Depth
      /\ ring' \in [0 .. Depth - 1 -> 0 .. MaxDebug]
      /\ dbgNext' \in 1 .. MaxDebug + 1 /\ dbgTaken' \in 0 .. MaxDebug
  <2>1. CASE debug_bt_bd_enqueue
    BY <2>1, EnqueueStep DEF TypeOK
  <2>2. CASE UNCHANGED <<queueVars, dbgHist>>
    BY <2>2, RingSame DEF TypeOK, queueVars, dbgHist
  <2> QED
    BY <2>1, <2>2 DEF BtLine
<1>2. TypeOK'
  BY <1>1 DEF TypeOK, BtLine, btOnly, powerVars, termVars, statusVars, sendVars
<1>3. AttemptHasPacket'
  BY DEF AttemptHasPacket, BtLine, btOnly, sendVars, Packets
<1> QED
  BY <1>1, <1>2, <1>3

-----------------------------------------------------------------------------
(* The ready flag and the verdicts.                                         *)

\* The steps that end or begin the terminal's power, its boot or the ready flag are
\* few; the rest leave all of them, and never enter the reset.
LEMMA ReadyStep ==
    ASSUME TypeOK, ReadyIsHonest, ResetHolds, [Next]_vars
    PROVE  ReadyIsHonest' /\ ResetHolds'
<1> USE DEF ReadyIsHonest, ResetHolds, powerVars, termVars, statusVars, sendVars,
            senderOnly, btOnly, btVars, queueVars, dbgHist
<1>1. CASE Terminal
  BY <1>1 DEF Terminal, Ready, Verdict, VerdictLost, Settle
<1>2. CASE Sender
  <2>1. CASE BdReset
    BY <2>1 DEF BdReset, bd_status_reset, GoTo
  <2>2. CASE BdSwitch
    BY <2>2 DEF BdSwitch, BdPowerOn, GoTo
  <2>3. CASE DownTerminal
    BY <2>3 DEF DownTerminal, BdPowerOff, PowerCut
  <2>4. CASE IdleEmpty \/ IdleToBd \/ DownHeld \/ BdWaited \/ BdEnsure
    BY <2>4 DEF IdleEmpty, IdleToBd, DownHeld, BdWaited, BdEnsure, GoTo
  <2>5. ASSUME NEW l \in {"idle", "bdleg", "down"}, IdleTry4g(l)
        PROVE  ReadyIsHonest' /\ ResetHolds'
    BY <2>5 DEF IdleTry4g, EgPowerOn
  <2>6. CASE BdModemOff \/ DownModem
    BY <2>6 DEF BdModemOff, DownModem, EgPowerOff, GoTo
  <2>7. CASE BdIsReady \/ BdSend \/ BdConfirmed
    <3>1. UNCHANGED <<bdOn, ready, booted, staleReady>> /\ pc' # "switch"
      BY <2>7 DEF BdIsReady, BdSend, BdConfirmed, Receive, GoTo
    <3> QED
      BY <3>1
  <2>8. CASE BdNotReady \/ BdShortWrite \/ BdUnconfirmed
    BY <2>8 DEF BdNotReady, BdShortWrite, BdUnconfirmed, BdFails
  <2> QED
    BY <1>2, <2>1, <2>2, <2>3, <2>4, <2>5, <2>6, <2>7, <2>8 DEF Sender
<1>3. CASE BtRead \/ BtThread
  <2>1. CASE BtBdOn
    BY <2>1 DEF BtBdOn, BdPowerOn
  <2>2. CASE BtRead \/ BtFlush \/ BtEgOn \/ BtLine \/ BtLeave
    <3>1. UNCHANGED <<bdOn, ready, booted, staleReady, pc>>
      BY <2>2 DEF BtRead, BtFlush, BtEgOn, BtLine, BtLeave, EgPowerOn, Receive
    <3> QED
      BY <3>1
  <2> QED
    BY <1>3, <2>1, <2>2 DEF BtThread
<1>4. CASE Clock \/ handle_signal
  BY <1>4 DEF Clock, handle_signal
<1>5. CASE main
  BY <1>5 DEF main, PowerCut
<1>6. CASE UNCHANGED vars
  BY <1>6 DEF vars
<1> QED
  BY <1>1, <1>2, <1>3, <1>4, <1>5, <1>6 DEF Next, Gone

\* A wait begins with no packet of anybody else's in the terminal, or is crossed;
\* the Bluetooth thread's packet crosses it; and what the terminal answers in an
\* uncrossed wait is the sender's packet.
LEMMA VerdictStep ==
    ASSUME TypeOK, OwnVerdicts, [Next]_vars PROVE OwnVerdicts'
<1> USE DEF powerVars, termVars, statusVars, sendVars,
            senderOnly, btOnly, btVars, queueVars, dbgHist
<1>1. ASSUME NEW ok \in BOOLEAN, Settle(ok), UNCHANGED <<pc, packet, crossed>>,
             pc \in {"send", "tcq"}, ~crossed
      PROVE  /\ \A i \in DOMAIN pend' : pend'[i] = packet
             /\ (taken \/ ok) => taken'
  <2>1. \A i \in DOMAIN pend : pend[i] = packet
    BY <1>1 DEF OwnVerdicts
  <2>2. pend \in Seq(0 .. MaxPackets) /\ pend # <<>>
    BY <1>1 DEF TypeOK, Settle
  <2>3. Head(pend) = packet
    BY <2>1, <2>2
  <2>4. ASSUME NEW i \in DOMAIN Tail(pend) PROVE Tail(pend)[i] = packet
    <3>1. i + 1 \in DOMAIN pend /\ Tail(pend)[i] = pend[i + 1]
      BY <2>2
    <3> QED
      BY <2>1, <3>1
  <2> QED
    BY <1>1, <2>3, <2>4 DEF Settle
<1>2. CASE Terminal
  <2>1. CASE Ready
    BY <2>1 DEF Ready, OwnVerdicts, TcqSuccess
  <2>2. ASSUME NEW ok \in BOOLEAN, Verdict(ok) PROVE OwnVerdicts'
    BY <1>1, <2>2 DEF Verdict, OwnVerdicts, TcqSuccess
  <2>3. ASSUME NEW ok \in BOOLEAN, VerdictLost(ok) PROVE OwnVerdicts'
    BY <1>1, <2>3 DEF VerdictLost, OwnVerdicts, TcqSuccess
  <2> QED
    BY <1>2, <2>1, <2>2, <2>3 DEF Terminal
<1>3. ASSUME pc' \notin {"send", "tcq"} PROVE OwnVerdicts'
  BY <1>3 DEF OwnVerdicts
<1>4. CASE Sender
  <2>1. CASE BdIsReady
    BY <2>1 DEF BdIsReady, GoTo, OwnVerdicts, TcqSuccess
  <2>2. CASE BdSend
    <3>1. SUFFICES ASSUME ~crossed PROVE OwnVerdicts'
      BY <2>2 DEF BdSend, OwnVerdicts
    <3>2. \A i \in DOMAIN pend : pend[i] = packet
      BY <2>2, <3>1 DEF BdSend, OwnVerdicts
    <3>3. \A i \in DOMAIN Append(pend, packet) : Append(pend, packet)[i] = packet
      <4>1. pend \in Seq(0 .. MaxPackets)
        BY DEF TypeOK
      <4> QED
        BY <3>2, <4>1
    <3>4. \A i \in DOMAIN pend' : pend'[i] = packet
      BY <2>2, <3>2, <3>3 DEF BdSend, Receive
    <3>5. TcqSuccess' => taken'
      BY <2>2, <3>1 DEF BdSend, Receive, OwnVerdicts, TcqSuccess
    <3> QED
      BY <2>2, <3>4, <3>5 DEF BdSend, GoTo, OwnVerdicts
  <2>3. ASSUME ~(BdIsReady \/ BdSend) PROVE pc' \notin {"send", "tcq"}
    <3>1. CASE BdReset
      BY <3>1 DEF BdReset, GoTo
    <3>2. CASE BdSwitch
      BY <3>2 DEF BdSwitch, GoTo
    <3>3. CASE DownTerminal
      BY <3>3 DEF DownTerminal
    <3>4. CASE IdleEmpty \/ IdleToBd \/ DownHeld \/ BdWaited \/ BdEnsure
      BY <3>4 DEF IdleEmpty, IdleToBd, DownHeld, BdWaited, BdEnsure, GoTo
    <3>5. ASSUME NEW l \in {"idle", "bdleg", "down"}, IdleTry4g(l)
          PROVE  pc' \notin {"send", "tcq"}
      BY <3>5 DEF IdleTry4g
    <3>6. CASE BdModemOff \/ DownModem
      BY <3>6 DEF BdModemOff, DownModem, GoTo
    <3>7. CASE BdConfirmed
      BY <3>7 DEF BdConfirmed
    <3>8. CASE BdNotReady \/ BdShortWrite \/ BdUnconfirmed
      BY <3>8 DEF BdNotReady, BdShortWrite, BdUnconfirmed, BdFails
    <3> QED
      BY <1>4, <2>3, <3>1, <3>2, <3>3, <3>4, <3>5, <3>6, <3>7, <3>8 DEF Sender
  <2> QED
    BY <1>3, <2>1, <2>2, <2>3
<1>5. CASE BtFlush
  <2>1. pc' = pc /\ (pc \in {"send", "tcq"} => crossed')
    BY <1>5 DEF BtFlush
  <2> QED
    BY <2>1 DEF OwnVerdicts
<1>6. CASE BtRead \/ BtBdOn \/ BtEgOn \/ BtLine \/ BtLeave
  BY <1>6 DEF BtRead, BtBdOn, BtEgOn, BtLine, BtLeave, OwnVerdicts, TcqSuccess
<1>7. CASE Clock \/ handle_signal
  BY <1>7 DEF Clock, handle_signal, OwnVerdicts, TcqSuccess
<1>8. CASE main
  BY <1>3, <1>8 DEF main
<1>9. CASE UNCHANGED vars
  BY <1>9 DEF vars, OwnVerdicts, TcqSuccess
<1> QED
  BY <1>2, <1>4, <1>5, <1>6, <1>7, <1>8, <1>9 DEF Next, BtThread, Gone

-----------------------------------------------------------------------------
(* The invariant and what it shows.                                         *)

LEMMA BdInvInit == Init => BdInv
<1> SUFFICES ASSUME Init PROVE BdInv
  OBVIOUS
<1>1. TypeOK /\ AttemptHasPacket
  BY TypesInit
<1>2. ReadyIsHonest /\ ResetHolds /\ OwnVerdicts
  BY DEF Init, ReadyIsHonest, ResetHolds, OwnVerdicts
<1>3. Holds(ring, head, count, dbgTaken) /\ dbgNext = dbgTaken + count + 1
  BY DEF Init, Holds
<1>4. RingIsWhole
  <2>1. tail = 0 /\ head = 0 /\ count = 0 /\ 0 \in 0 .. Depth - 1
    BY Bounds DEF Init
  <2>2. 0 + 0 = 0 /\ 0 % Depth = 0
    BY <2>1, Bounds, ModSmall
  <2> QED
    BY <2>1, <2>2 DEF RingIsWhole
<1> QED
  BY <1>1, <1>2, <1>3, <1>4, RingHoldsIs DEF BdInv, RingHolds

LEMMA BdInvStep == BdInv /\ [Next]_vars => BdInv'
<1> SUFFICES ASSUME BdInv, [Next]_vars PROVE BdInv'
  OBVIOUS
<1>1. TypeOK /\ AttemptHasPacket /\ ReadyIsHonest /\ ResetHolds /\ OwnVerdicts
  BY DEF BdInv
<1>2. RingHolds
  BY RingHoldsIs DEF BdInv
<1>3. TypeOK' /\ AttemptHasPacket' /\ RingHolds'
  <2>1. CASE Terminal
    <3>1. UNCHANGED <<queueVars, dbgHist>>
      BY <2>1 DEF Terminal, Ready, Verdict, VerdictLost, btVars
    <3> QED
      BY <1>1, <1>2, <2>1, <3>1, TermTypes, RingSame
  <2>2. CASE Sender
    <3>1. UNCHANGED <<queueVars, dbgHist>>
      BY <2>2 DEF Sender, IdleEmpty, IdleToBd, IdleTry4g, BdModemOff, BdEnsure, BdReset,
             BdSwitch, BdIsReady, BdNotReady, BdSend, BdShortWrite, BdConfirmed,
             BdUnconfirmed, BdWaited, DownHeld, DownModem, DownTerminal, senderOnly, btVars
    <3> QED
      BY <1>1, <1>2, <2>2, <3>1, SenderTypes, RingSame
  <2>3. CASE BtFlush
    BY <1>1, <1>2, <2>3, FlushStep
  <2>4. CASE BtLine
    BY <1>1, <1>2, <2>4, LineStep
  <2>5. CASE \/ BtRead \/ BtBdOn \/ BtEgOn \/ BtLeave \/ Clock \/ handle_signal \/ main
             \/ UNCHANGED vars
    <3>1. UNCHANGED <<queueVars, dbgHist>>
      BY <2>5 DEF BtRead, BtBdOn, BtEgOn, BtLeave, Clock, handle_signal, main, vars, btVars
    <3> QED
      BY <1>1, <1>2, <2>5, <3>1, OtherTypes, RingSame
  <2> QED
    BY <2>1, <2>2, <2>3, <2>4, <2>5 DEF Next, BtThread, Gone
<1>4. ReadyIsHonest' /\ ResetHolds'
  BY <1>1, ReadyStep
<1>5. OwnVerdicts'
  BY <1>1, VerdictStep
<1>6. DebugInOrder' /\ RingIsWhole'
  <2>1. RingHolds' <=> DebugInOrder' /\ RingIsWhole'
    BY RingHoldsIs, PTL
  <2> QED
    BY <1>3, <2>1
<1> QED
  BY <1>3, <1>4, <1>5, <1>6 DEF BdInv

\* The terminal, its power and the three threads keep the whole invariant.
THEOREM BdInvHolds == Spec => []BdInv
BY BdInvInit, BdInvStep, PTL DEF Spec

\* Every variable keeps its type: the failures stay within BD_FAIL_MAX, the queue
\* within its depth, and an attempt always has a packet.
THEOREM BdTypeCorrect == Spec => []TypeOK
<1>1. BdInv => TypeOK
  BY DEF BdInv
<1> QED
  BY <1>1, BdInvHolds, PTL

\* The ready flag of a powered terminal is the flag of this power cycle, but for the
\* one way round bd_status_reset: rf_power_on from the Bluetooth thread.
THEOREM ReadyFlagIsHonest == Spec => []ReadyIsHonest
<1>1. BdInv => ReadyIsHonest
  BY DEF BdInv
<1> QED
  BY <1>1, BdInvHolds, PTL

\* The ring of DEBUG packets is a queue, whatever its length.
THEOREM DebugQueueInOrder == Spec => []DebugInOrder
<1>1. BdInv => DebugInOrder
  BY DEF BdInv
<1> QED
  BY <1>1, BdInvHolds, PTL

\* The offsets advance past a packet only after the terminal has taken it, unless a
\* verdict on another packet may have reached the wait.
THEOREM ConfirmedIsTaken == Spec => ConfirmedOrCrossed
<1>1. BdInv => (BdConfirmed => taken \/ crossed)
  BY DEF BdInv, OwnVerdicts, BdConfirmed, TypeOK
<1>2. BdInv /\ [Next]_vars => [BdConfirmed => taken \/ crossed]_vars
  BY <1>1
<1> QED
  BY <1>2, BdInvHolds, PTL DEF Spec, ConfirmedOrCrossed

=============================================================================
