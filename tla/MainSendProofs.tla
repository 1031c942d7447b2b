--------------------------- MODULE MainSendProofs ---------------------------
(***************************************************************************)
(* Proofs about MainSend, for any number of log files, any packet sizes    *)
(* and any number of lines and restarts, and the proof that it implements  *)
(* StoreAndForward under the mapping of MainSendRefinement.                *)
(***************************************************************************)
EXTENDS MainSendRefinement, LogFileProofs

-----------------------------------------------------------------------------
(* Type correctness.                                                       *)

LEMMA ConstantTypes ==
    /\ NPaths \in Nat /\ NPaths >= 1
    /\ EgFailMax \in Nat /\ EgFailMax >= 1
    /\ BdFailMax \in Nat /\ BdFailMax >= 1
<1>1. NPaths \in Nat \ {0}
  BY PackingAssumption DEF PackingAssumption
<1>2. EgFailMax \in Nat \ {0} /\ BdFailMax \in Nat \ {0}
  BY SendAssumption DEF SendAssumption
<1> QED
  BY <1>1, <1>2

LEMMA FirstValues ==
    1 \in Path /\ 0 \in 0..EgFailMax /\ 0 \in 0..BdFailMax
  BY ConstantTypes DEF Path

LEMMA NextPathType ==
    ASSUME cp \in Path, NextPath PROVE cp' \in Path /\ pc' \in Pcs
<1>1. CASE cp < NPaths
  <2>1. cp' = cp + 1 /\ pc' = "copy"
    BY <1>1 DEF NextPath
  <2>2. cp + 1 \in Path
    BY <1>1, ConstantTypes DEF Path
  <2> QED
    BY <2>1, <2>2 DEF Pcs
<1>2. CASE ~(cp < NPaths)
  <2>1. cp' = 1 /\ pc' = "save"
    BY <1>2 DEF NextPath
  <2> QED
    BY <2>1, FirstValues DEF Pcs
<1> QED
  BY <1>1, <1>2

LEMMA TypeInit == Init => TypeOK
<1> SUFFICES ASSUME Init PROVE TypeOK
  OBVIOUS
<1>1. FlagsOK
  BY DEF Init, FlagsOK
<1>2. Zero \in [Path -> Nat] /\ NoTmp \in [lines : Seq(Line), off : Nat]
  BY DEF Zero, NoTmp
<1>3. log \in [Path -> Seq(Line)] /\ cp \in Path
  BY ConstantTypes DEF Init, Path
<1>4. egFail \in 0..EgFailMax /\ bdFail \in 0..BdFailMax
  BY ConstantTypes DEF Init
<1>5. IsFiniteSet({})
  BY FS_EmptySet
<1>6. DataOK
  BY <1>2, <1>3, <1>4, <1>5 DEF Init, DataOK, Pcs, States
<1> QED
  BY <1>1, <1>6 DEF TypeOK

LEMMA FlagsStep ==
    ASSUME FlagsOK, [Next]_vars PROVE FlagsOK'
<1> USE DEF FlagsOK, fileVars, batchVars, failVars, radioVars, timerVars,
        compVars, localVars, sharedVars, linkVars, histVars
<1>1. CASE SetSendPath
  BY <1>1 DEF SetSendPath
<1>2. CASE SetMesh
  BY <1>2 DEF SetMesh
<1>3. CASE BtPowerOn
  BY <1>3 DEF BtPowerOn
<1>4. CASE HandleSignal
  BY <1>4 DEF HandleSignal
<1>5. CASE Link4GChanges
  BY <1>5 DEF Link4GChanges
<1>6. CASE LinkBDChanges
  BY <1>6 DEF LinkBDChanges
<1>7. CASE CoolDownEnds
  BY <1>7 DEF CoolDownEnds, Untimed
<1>8. CASE HoldEnds
  BY <1>8 DEF HoldEnds, Untimed
<1>9. CASE BdGapEnds
  BY <1>9 DEF BdGapEnds, Untimed
<1>10. CASE Try4GCoolingDown
  BY <1>10 DEF Try4GCoolingDown, Forget, Zero, After4G
<1>11. CASE Try4GNotReady
  BY <1>11 DEF Try4GNotReady, Forget, Zero, After4G, OpenBatch
<1>12. CASE Try4GSendFails
  BY <1>12 DEF Try4GSendFails, Forget, Zero, After4G, OpenBatch
<1>13. CASE Try4GSent
  BY <1>13 DEF Try4GSent, Forget, Zero
<1>14. CASE BdSendFails
  BY <1>14 DEF BdSendFails, Forget, Zero
<1>15. CASE BdSent
  BY <1>15 DEF BdSent, BdAdvances, Forget, Zero
<1>16. CASE BdWait
  BY <1>16 DEF BdWait
<1>17. CASE PowerDown
  BY <1>17 DEF PowerDown
<1>18. CASE CompactSkipped
  BY <1>18 DEF CompactSkipped, NextPath, Compacting
<1>19. CASE SaveOpen
  BY <1>19 DEF SaveOpen, Saving
<1>20. CASE SaveWrite
  BY <1>20 DEF SaveWrite, Saving, SaveReturns
<1>21. CASE SaveFails
  BY <1>21 DEF SaveFails, Saving, SaveReturns
<1>22. CASE Exit
  BY <1>22 DEF Exit
<1>23. CASE Restart
  BY <1>23 DEF Restart, Start, Zero, NoTmp
<1>24. CASE Crash
  BY <1>24 DEF Crash, Start, Zero, NoTmp
<1>25. CASE NodePass
  BY <1>25 DEF NodePass
<1>26. CASE Idle
  BY <1>26 DEF Idle
<1>27. CASE TryBD
  BY <1>27 DEF TryBD
<1>28. CASE CompactCopy
  BY <1>28 DEF CompactCopy, Compacting
<1>29. CASE CompactRename
  BY <1>29 DEF CompactRename, NextPath
<1>30. CASE \E p \in Path, len \in Lens : Write(p, len)
  BY <1>30 DEF Write, AppendLine
<1>31. CASE UNCHANGED vars
  BY <1>31 DEF vars
<1> QED
  BY <1>1, <1>2, <1>3, <1>4, <1>5, <1>6, <1>7, <1>8, <1>9, <1>10, <1>11, <1>12, <1>13, <1>14, <1>15, <1>16, <1>17, <1>18, <1>19, <1>20, <1>21, <1>22, <1>23, <1>24, <1>25, <1>26, <1>27, <1>28, <1>29, <1>30, <1>31
     DEF Next, MainStep, Environment, Clock

LEMMA DataStep ==
    ASSUME DataOK, [Next]_vars PROVE DataOK'
<1> USE DEF DataOK, Pcs, States, Path, fileVars, batchVars, failVars, radioVars, timerVars,
        compVars, localVars, sharedVars, linkVars, histVars
<1>1. ASSUME SetSendPath PROVE DataOK'
  BY <1>1 DEF SetSendPath
<1>2. ASSUME SetMesh PROVE DataOK'
  BY <1>2 DEF SetMesh
<1>3. ASSUME BtPowerOn PROVE DataOK'
  BY <1>3 DEF BtPowerOn
<1>4. ASSUME HandleSignal PROVE DataOK'
  <2>1. restarts' \in Nat
    BY <1>4 DEF HandleSignal
  <2> QED
    BY <1>4, <2>1 DEF HandleSignal
<1>5. ASSUME Link4GChanges PROVE DataOK'
  BY <1>5 DEF Link4GChanges
<1>6. ASSUME LinkBDChanges PROVE DataOK'
  BY <1>6 DEF LinkBDChanges
<1>7. ASSUME CoolDownEnds PROVE DataOK'
  BY <1>7 DEF CoolDownEnds, Untimed
<1>8. ASSUME HoldEnds PROVE DataOK'
  BY <1>8 DEF HoldEnds, Untimed
<1>9. ASSUME BdGapEnds PROVE DataOK'
  BY <1>9 DEF BdGapEnds, Untimed
<1>10. ASSUME Try4GCoolingDown PROVE DataOK'
  BY <1>10 DEF Try4GCoolingDown, Forget, Zero, After4G
<1>11. ASSUME Try4GNotReady PROVE DataOK'
  <2>1. egFail' \in 0..EgFailMax
    BY ConstantTypes, <1>11 DEF Try4GNotReady
  <2>2. state' \in States
    BY <1>11 DEF Try4GNotReady, After4G
  <2>3. batchEnd' \in [Path -> Nat] /\ pending' \in [Path -> Nat]
    BY <1>11 DEF Try4GNotReady, Forget, Zero, OpenBatch
  <2> QED
    BY <1>11, <2>1, <2>2, <2>3 DEF Try4GNotReady, Forget
<1>12. ASSUME Try4GSendFails PROVE DataOK'
  <2>1. egFail' \in 0..EgFailMax
    BY FirstValues, <1>12 DEF Try4GSendFails
  <2>2. state' \in States
    BY <1>12 DEF Try4GSendFails, After4G
  <2>3. batchEnd' \in [Path -> Nat] /\ pending' \in [Path -> Nat]
    BY <1>12 DEF Try4GSendFails, Forget, Zero, OpenBatch
  <2> QED
    BY <1>12, <2>1, <2>2, <2>3 DEF Try4GSendFails, Forget
<1>13. ASSUME Try4GSent PROVE DataOK'
  <2>1. egFail' \in 0..EgFailMax /\ cp' \in Path
    BY FirstValues, <1>13 DEF Try4GSent
  <2> QED
    BY <1>13, <2>1 DEF Try4GSent, Forget, Zero
<1>14. ASSUME BdSendFails PROVE DataOK'
  <2>1. bdFail' \in 0..BdFailMax
    BY ConstantTypes, <1>14 DEF BdSendFails
  <2>2. state' \in States
    BY <1>14 DEF BdSendFails
  <2> QED
    BY <1>14, <2>1, <2>2 DEF BdSendFails, Forget, Zero
<1>15. ASSUME BdSent PROVE DataOK'
  <2>1. bdFail' \in 0..BdFailMax /\ state' \in States
    BY FirstValues, <1>15 DEF BdSent, BdAdvances
  <2>2. acked' \subseteq Line
    BY <1>15 DEF BdSent, BdAdvances
  <2> QED
    BY <1>15, <2>1, <2>2 DEF BdSent, BdAdvances, Forget, Zero
<1>16. ASSUME BdWait PROVE DataOK'
  BY <1>16 DEF BdWait
<1>17. ASSUME PowerDown PROVE DataOK'
  <2>1. /\ bdFail' \in 0..BdFailMax /\ egFail' \in 0..EgFailMax
        /\ eg' \in {"raw", "initialized", "connected"}
    BY FirstValues, <1>17 DEF PowerDown
  <2> QED
    BY <1>17, <2>1 DEF PowerDown
<1>18. ASSUME CompactSkipped PROVE DataOK'
  <2>1. cp' \in Path /\ pc' \in Pcs
    BY NextPathType, <1>18 DEF CompactSkipped
  <2> QED
    BY <1>18, <2>1 DEF CompactSkipped, Compacting
<1>19. ASSUME SaveOpen PROVE DataOK'
  BY <1>19 DEF SaveOpen, Saving
<1>20. ASSUME SaveWrite PROVE DataOK'
  BY <1>20 DEF SaveWrite, Saving, SaveReturns
<1>21. ASSUME SaveFails PROVE DataOK'
  BY <1>21 DEF SaveFails, Saving, SaveReturns
<1>22. ASSUME Exit PROVE DataOK'
  BY <1>22 DEF Exit
<1>23. ASSUME Start, restarts' \in Nat PROVE DataOK'
  <2>1. egFail' \in 0..EgFailMax /\ bdFail' \in 0..BdFailMax /\ cp' \in Path
    BY FirstValues, <1>23 DEF Start
  <2>2. offsets' \in [Path -> Nat] /\ pending' \in [Path -> Nat] /\ batchEnd' \in [Path -> Nat]
    BY <1>23 DEF Start, Zero
  <2>3. tmp' \in [lines : Seq(Line), off : Nat]
    BY <1>23 DEF Start, NoTmp
  <2> QED
    BY <1>23, <2>1, <2>2, <2>3 DEF Start
<1>24. ASSUME Restart \/ Crash PROVE DataOK'
  <2>1. restarts' \in Nat /\ Start
    BY <1>24 DEF Restart, Crash
  <2> QED
    BY <1>23, <2>1
<1>w. ASSUME NEW p \in Path, NEW len \in Lens, Write(p, len) PROVE DataOK'
  <2> DEFINE earlier == {l \in logged : l.path = p}
             no == 1 + Cardinality(earlier)
             LineOf(f) == [path |-> p, no |-> no, frame |-> f, len |-> len]
  <2>1. no \in Nat \ {0}
    <3>1. IsFiniteSet(earlier)
      BY FS_Subset
    <3> QED
      BY <3>1, FS_CardinalityType
  <2> HIDE DEF no
  <2>2. PICK f : AppendLine(p, LineOf(f)) /\ f \in Nat \ {0} /\ frame' \in Nat
    <3>1. CASE frame' = frame + 1 /\ AppendLine(p, LineOf(frame + 1))
      <4>1. frame + 1 \in Nat \ {0}
        OBVIOUS
      <4> QED
        BY <3>1, <4>1
    <3>2. CASE /\ log[p] # <<>>
               /\ frame' = frame /\ AppendLine(p, LineOf(Last(log[p]).frame))
      <4>1. log[p][Len(log[p])] \in Line
        BY <3>2
      <4>2. Last(log[p]).frame \in Nat \ {0}
        BY <4>1 DEF Last, Line
      <4> QED
        BY <3>2, <4>2
    <3> QED
      BY <1>w, <3>1, <3>2 DEF Write, no
  <2>3. LineOf(f) \in Line
    BY <2>1, <2>2 DEF Line
  <2> HIDE DEF LineOf
  <2>4. log' \in [Path -> Seq(Line)]
    <3>1. Append(log[p], LineOf(f)) \in Seq(Line)
      BY <2>3
    <3> QED
      BY <2>2, <3>1 DEF AppendLine
  <2>5. logged' \subseteq Line /\ IsFiniteSet(logged') /\ raced' \subseteq Line
    BY <2>2, <2>3, FS_AddElement DEF AppendLine
  <2> QED
    BY <2>2, <2>4, <2>5 DEF AppendLine
<1>n. ASSUME NodePass PROVE DataOK'
  <2>1. offsets' \in [Path -> Nat]
    BY <1>n DEF NodePass, EndOffset
  <2>2. skipped' \subseteq Line
    <3>1. \A p \in Path : Unsent(p) \subseteq Line
      BY DEF Unsent
    <3> QED
      BY <1>n, <3>1 DEF NodePass
  <2> QED
    BY <1>n, <2>1, <2>2 DEF NodePass
<1>i. ASSUME Idle PROVE DataOK'
  <2>1. PICK to \in Packings4G(log, offsets) :
          \/ UNCHANGED <<state, pending, packet, sendPath, fallback>>
          \/ /\ fallback' = FALSE /\ state' = "POWER_DOWN"
             /\ UNCHANGED <<pending, packet, sendPath>>
          \/ /\ sendPath' = gPath /\ fallback' = fallback
             /\ \/ state' = "TRY_BD" /\ UNCHANGED <<pending, packet>>
                \/ /\ state' = "TRY_4G" /\ pending' = to
                   /\ packet' = PacketLines(log, offsets, to)
    BY <1>i DEF Idle
  <2>2. /\ to \in [Path -> Nat]
        /\ \A p \in Path : to[p] = offsets[p] \/ to[p] \in offsets[p]..Len(log[p])
    <3>1. \A p \in Path : Len(log[p]) \in Nat
      OBVIOUS
    <3> QED
      BY <3>1, Packing4GBounds
  <2>3. PacketLines(log, offsets, to) \subseteq Line
    BY <2>2, PacketType
  <2> QED
    BY <1>i, <2>1, <2>2, <2>3 DEF Idle
<1>b. ASSUME TryBD PROVE DataOK'
  <2>1. PICK to \in PackingsBD(log, offsets, batchEnd) :
          \/ /\ fallback' = FALSE /\ bdFail' = 0 /\ state' = "IDLE"
             /\ UNCHANGED <<pc, pending, packet, bdOn>>
          \/ /\ fallback' = TRUE /\ state' = "BD_WAIT"
             /\ UNCHANGED <<pc, pending, packet, bdOn, bdFail>>
          \/ /\ fallback' = TRUE /\ pc' = "bdsend" /\ bdOn' = TRUE
             /\ pending' = to /\ packet' = PacketLines(log, offsets, to)
             /\ UNCHANGED <<state, bdFail>>
    BY <1>b DEF TryBD
  <2>2. /\ to \in [Path -> Nat]
        /\ \A p \in Path : to[p] = offsets[p] \/ to[p] \in offsets[p]..Len(log[p])
    <3>1. \A p \in Path : Len(log[p]) \in Nat
      OBVIOUS
    <3> QED
      BY <3>1, PackingBDBounds
  <2>3. PacketLines(log, offsets, to) \subseteq Line
    BY <2>2, PacketType
  <2> QED
    BY FirstValues, <1>b, <2>1, <2>2, <2>3 DEF TryBD
<1>c. ASSUME CompactCopy PROVE DataOK'
  <2>1. tmp' \in Compactions(log[cp], offsets[cp])
    BY <1>c DEF CompactCopy
  <2>2. tmp' \in [lines : Seq(Line), off : Nat]
    BY <2>1, CompactionShape
  <2> QED
    BY <1>c, <2>2 DEF CompactCopy, Compacting
<1>r. ASSUME CompactRename PROVE DataOK'
  <2>1. tmp.lines \in Seq(Line) /\ tmp.off \in Nat
    OBVIOUS
  <2>2. cp' \in Path /\ pc' \in Pcs
    BY NextPathType, <1>r DEF CompactRename
  <2>3. log' \in [Path -> Seq(Line)] /\ offsets' \in [Path -> Nat]
    BY <1>r, <2>1 DEF CompactRename
  <2>4. tmp' \in [lines : Seq(Line), off : Nat]
    BY <1>r DEF CompactRename, NoTmp
  <2> QED
    BY <1>r, <2>2, <2>3, <2>4 DEF CompactRename
<1>u. ASSUME UNCHANGED vars PROVE DataOK'
  BY <1>u DEF vars
<1> QED
  BY <1>1, <1>2, <1>3, <1>4, <1>5, <1>6, <1>7, <1>8, <1>9, <1>10, <1>11, <1>12, <1>13, <1>14, <1>15, <1>16, <1>17, <1>18, <1>19, <1>20, <1>21, <1>22, <1>23, <1>24,
     <1>w, <1>n, <1>i, <1>b, <1>c, <1>r, <1>u DEF Next, MainStep, Environment, Clock

\* Every variable keeps its type, whatever the number of paths and the sizes
\* of the packets.
THEOREM TypeCorrect == Spec => []TypeOK
<1>1. TypeOK /\ [Next]_vars => TypeOK'
  BY DataStep, FlagsStep DEF TypeOK
<1> QED
  BY <1>1, TypeInit, PTL DEF Spec

\* In every reachable state there is exactly one 4G packing and one BeiDou packing: a pass
\* of the sender is never stopped for want of a packing, and never has a choice.
THEOREM PackersAreDeterministic ==
    Spec => []( /\ \E to : Packings4G(log, offsets) = {to}
                /\ \E to : PackingsBD(log, offsets, batchEnd) = {to} )
<1>1. ASSUME TypeOK
      PROVE  /\ \E to : Packings4G(log, offsets) = {to}
             /\ \E to : PackingsBD(log, offsets, batchEnd) = {to}
  <2>1. log \in [Path -> Seq(Line)]
    BY <1>1 DEF TypeOK, DataOK
  <2>2. offsets \in [Path -> Nat] /\ batchEnd \in [Path -> Nat]
    BY <1>1 DEF TypeOK, DataOK
  <2>3. \A line \in Line : line.len \in Nat
    BY SendAssumption DEF SendAssumption, Line
  <2>4. Readable(log)
    <3> SUFFICES ASSUME NEW p \in Path
                 PROVE  /\ Len(log[p]) \in Nat
                        /\ \A i \in 1..Len(log[p]) : log[p][i].len \in Nat
      BY DEF Readable
    <3>1. log[p] \in Seq(Line)
      BY <2>1
    <3>2. Len(log[p]) \in Nat /\ \A i \in 1..Len(log[p]) : log[p][i] \in Line
      BY <3>1
    <3> QED
      BY <2>3, <3>2
  <2> QED
    BY <2>2, <2>4, OnePacking4G, OnePackingBD
<1> QED
  BY <1>1, TypeCorrect, PTL

-----------------------------------------------------------------------------
(* The safety invariant.                                                   *)

\* A settled line stays settled.
LEMMA SettledStays ==
    ASSUME acked \subseteq acked', skipped \subseteq skipped', NEW line, Settled(line)
    PROVE  Settled(line)'
BY DEF Settled, Valid

\* Steps that move no line and no offset, and build no packet.
LEMMA QuietStep ==
    ASSUME SafetyInv, PassOK',
           UNCHANGED <<log, saved, offsets, logged, acked, skipped, raced, stale,
                       staleCrash>>,
           Carrying' => Carrying /\ UNCHANGED <<pending, packet>>,
           pc' = "rename" => pc = "rename" /\ UNCHANGED <<cp, tmp>>
    PROVE  SafetyInv'
<1> SUFFICES ASSUME ~staleCrash
             PROVE  (OffsetsInside /\ BehindSettled /\ PacketCovers
                      /\ TmpFaithful /\ SavedSettled /\ Accounted)'
  BY DEF SafetyInv
<1>0. OffsetsInside /\ BehindSettled /\ PacketCovers
        /\ TmpFaithful /\ SavedSettled /\ Accounted
  BY DEF SafetyInv
<1>1. OffsetsInside'
  BY <1>0 DEF OffsetsInside
<1>2. BehindSettled'
  BY <1>0 DEF BehindSettled, Settled
<1>3. PacketCovers'
  BY <1>0 DEF PacketCovers, Settled
<1>4. TmpFaithful'
  BY <1>0 DEF TmpFaithful, Settled
<1>5. SavedSettled'
  BY <1>0 DEF SavedSettled, Settled
<1>6. Accounted'
  BY <1>0 DEF Accounted, Settled, Unsent
<1> QED
  BY <1>1, <1>2, <1>3, <1>4, <1>5, <1>6

\* Steps that build a packet of the unsent lines.
LEMMA PackStep ==
    ASSUME DataOK, SafetyInv, PassOK', pc' # "rename",
           UNCHANGED <<log, saved, offsets, logged, acked, skipped, raced, stale,
                       staleCrash>>,
           pending' \in [Path -> Nat],
           \A p \in Path : \/ pending'[p] = offsets[p]
                           \/ pending'[p] \in offsets[p]..Len(log[p]),
           packet' = PacketLines(log, offsets, pending')
    PROVE  SafetyInv'
<1> SUFFICES ASSUME ~staleCrash
             PROVE  (OffsetsInside /\ BehindSettled /\ PacketCovers
                      /\ TmpFaithful /\ SavedSettled /\ Accounted)'
  BY DEF SafetyInv
<1>0. OffsetsInside /\ BehindSettled /\ SavedSettled /\ Accounted
  BY DEF SafetyInv
<1>t. \A p \in Path : offsets[p] \in Nat /\ Len(log[p]) \in Nat
  BY DEF DataOK
<1>1. OffsetsInside'
  BY <1>0, <1>t DEF OffsetsInside
<1>2. BehindSettled'
  BY <1>0 DEF BehindSettled, Settled
<1>3. PacketCovers'
  <2> SUFFICES ASSUME NEW p \in Path, NEW i \in 1..pending'[p]
               PROVE  Settled(log[p][i]) \/ log[p][i] \in packet'
    BY DEF PacketCovers, Settled
  <2>1. CASE i <= offsets[p]
    BY <1>0, <1>t, <2>1 DEF BehindSettled
  <2>2. CASE i > offsets[p]
    <3>1. i \in offsets[p] + 1 .. pending'[p]
      BY <1>t, <2>2
    <3>2. CASE Valid(log[p][i])
      <4>1. offsets \in [Path -> Nat]
        BY DEF DataOK
      <4> QED
        BY <3>1, <3>2, <4>1, PacketContents
    <3>3. CASE ~Valid(log[p][i])
      BY <3>3 DEF Settled
    <3> QED
      BY <3>2, <3>3
  <2> QED
    BY <1>t, <2>1, <2>2
<1>4. TmpFaithful'
  BY DEF TmpFaithful
<1>5. SavedSettled'
  BY <1>0 DEF SavedSettled, Settled
<1>6. Accounted'
  BY <1>0 DEF Accounted, Settled, Unsent
<1> QED
  BY <1>1, <1>2, <1>3, <1>4, <1>5, <1>6

LEMMA PassStep ==
    ASSUME PassOK, [Next]_vars PROVE PassOK'
<1> USE DEF PassOK, fileVars, batchVars, failVars, radioVars, timerVars,
        compVars, localVars, sharedVars, linkVars, histVars
<1>1. CASE \/ SetSendPath \/ SetMesh \/ BtPowerOn \/ HandleSignal
           \/ Link4GChanges \/ LinkBDChanges
  BY <1>1 DEF SetSendPath, SetMesh, BtPowerOn, HandleSignal, Link4GChanges, LinkBDChanges
<1>2. CASE Clock
  BY <1>2 DEF Clock, CoolDownEnds, HoldEnds, BdGapEnds, Untimed
<1>3. CASE Try4GCoolingDown \/ Try4GNotReady \/ Try4GSendFails
  BY <1>3 DEF AtState, Try4GCoolingDown, Try4GNotReady, Try4GSendFails
<1>4. CASE Try4GSent \/ BdSendFails \/ BdSent
  BY <1>4 DEF AtState, Try4GSent, BdSendFails, BdSent, BdAdvances
<1>5. CASE BdWait \/ PowerDown \/ NodePass \/ Exit
  BY <1>5 DEF AtState, BdWait, PowerDown, NodePass, Exit
<1>6. CASE Idle
  BY <1>6 DEF AtState, Idle
<1>7. CASE TryBD
  BY <1>7 DEF AtState, TryBD
<1>8. CASE CompactCopy \/ CompactSkipped \/ CompactRename
  <2>1. CASE CompactCopy
    BY <2>1 DEF CompactCopy, Compacting
  <2>2. CASE CompactSkipped
    BY <2>2 DEF CompactSkipped, NextPath, Compacting
  <2>3. CASE CompactRename
    BY <2>3 DEF CompactRename, NextPath
  <2> QED
    BY <1>8, <2>1, <2>2, <2>3
<1>9. CASE SaveOpen \/ SaveWrite \/ SaveFails
  BY <1>9 DEF SaveOpen, SaveWrite, SaveFails, Saving, SaveReturns
<1>10. CASE Restart \/ Crash
  BY <1>10 DEF Restart, Crash, Start
<1>11. CASE \E p \in Path, len \in Lens : Write(p, len)
  BY <1>11 DEF Write, AppendLine
<1>12. CASE UNCHANGED vars
  BY <1>12 DEF vars
<1> QED
  BY <1>1, <1>2, <1>3, <1>4, <1>5, <1>6, <1>7, <1>8, <1>9, <1>10, <1>11, <1>12
     DEF Next, MainStep, Environment

\* An acknowledged packet settles the lines before its offsets.
LEMMA SentStep ==
    ASSUME DataOK, SafetyInv, PassOK', Carrying, ~Carrying', pc' # "rename",
           UNCHANGED <<log, saved, logged, skipped, raced, stale, staleCrash>>,
           offsets' = pending, acked' = acked \cup packet
    PROVE  SafetyInv'
<1> SUFFICES ASSUME ~staleCrash
             PROVE  (OffsetsInside /\ BehindSettled /\ PacketCovers
                      /\ TmpFaithful /\ SavedSettled /\ Accounted)'
  BY DEF SafetyInv
<1>0. OffsetsInside /\ BehindSettled /\ PacketCovers /\ SavedSettled /\ Accounted
  BY DEF SafetyInv
<1>t. \A p \in Path : pending[p] \in Nat /\ offsets[p] \in Nat /\ Len(log[p]) \in Nat
  BY DEF DataOK
<1>s. \A line : Settled(line) => Settled(line)'
  BY DEF Settled
<1>p. \A p \in Path : \A i \in 1..pending[p] : Settled(log[p][i])'
  BY <1>0 DEF PacketCovers, Settled
<1>1. OffsetsInside'
  BY <1>0 DEF OffsetsInside
<1>2. BehindSettled'
  BY <1>p DEF BehindSettled, Settled
<1>3. PacketCovers'
  BY DEF PacketCovers
<1>4. TmpFaithful'
  BY DEF TmpFaithful
<1>5. SavedSettled'
  BY <1>0, <1>s DEF SavedSettled, Settled
<1>6. Accounted'
  <2> SUFFICES ASSUME NEW line \in logged, ~Settled(line)', line \notin raced
               PROVE  line \in Unsent(line.path)'
    BY DEF Accounted
  <2>1. line.path \in Path
    BY DEF DataOK, Line
  <2>2. PICK i \in offsets[line.path] + 1 .. Len(log[line.path]) : line = log[line.path][i]
    BY <1>0, <1>s DEF Accounted, Unsent
  <2>3. i \notin 1..pending[line.path]
    BY <1>p, <2>1, <2>2 DEF Settled
  <2>4. i \in pending[line.path] + 1 .. Len(log[line.path])
    BY <1>t, <2>1, <2>2, <2>3
  <2> QED
    BY <2>2, <2>4 DEF Unsent
<1> QED
  BY <1>1, <1>2, <1>3, <1>4, <1>5, <1>6

\* A node gives up what waits in the files.
LEMMA NodeStep ==
    ASSUME DataOK, SafetyInv, PassOK', NodePass PROVE SafetyInv'
<1> USE DEF NodePass, EndOffset, fileVars, batchVars, failVars, timerVars, compVars, sharedVars,
            linkVars
<1> SUFFICES ASSUME ~staleCrash
             PROVE  (OffsetsInside /\ BehindSettled /\ PacketCovers
                      /\ TmpFaithful /\ SavedSettled /\ Accounted)'
  BY DEF SafetyInv
<1>0. OffsetsInside /\ BehindSettled /\ PacketCovers /\ SavedSettled /\ Accounted
  BY DEF SafetyInv
<1>t. \A p \in Path : offsets[p] \in Nat /\ Len(log[p]) \in Nat
  BY DEF DataOK
<1>o. \A p \in Path : offsets'[p] = IF log[p] = <<>> THEN offsets[p] ELSE Len(log[p])
  OBVIOUS
<1>s. \A line : Settled(line) => Settled(line)'
  BY DEF Settled
<1>u. \A p \in Path : \A line \in Unsent(p) : Settled(line)'
  BY DEF Settled
<1>c. Carrying' => Carrying
  BY DEF Carrying
<1>1. OffsetsInside'
  BY <1>0, <1>t, <1>o, <1>c DEF OffsetsInside
<1>2. BehindSettled'
  <2> SUFFICES ASSUME NEW p \in Path, NEW i \in 1..offsets'[p] PROVE Settled(log[p][i])'
    BY DEF BehindSettled
  <2>1. CASE i \in 1..offsets[p]
    BY <1>0, <1>s, <2>1 DEF BehindSettled
  <2>2. CASE i \notin 1..offsets[p]
    <3>1. i \in offsets[p] + 1 .. Len(log[p])
      BY <1>t, <1>o, <2>2
    <3> QED
      BY <1>u, <3>1 DEF Unsent
  <2> QED
    BY <2>1, <2>2
<1>3. PacketCovers'
  BY <1>0, <1>c, <1>s DEF PacketCovers, Settled
<1>4. TmpFaithful'
  BY DEF TmpFaithful
<1>5. SavedSettled'
  BY <1>0, <1>s DEF SavedSettled, Settled
<1>6. Accounted'
  <2> SUFFICES ASSUME NEW line \in logged PROVE Settled(line)' \/ line \in raced
    BY DEF Accounted
  <2>1. line.path \in Path
    BY DEF DataOK, Line
  <2> QED
    BY <1>0, <1>s, <1>u, <2>1 DEF Accounted
<1> QED
  BY <1>1, <1>2, <1>3, <1>4, <1>5, <1>6

\* A line appended to a file waits behind the offset; one appended while the
\* file is being replaced is raced.
LEMMA WriteStep ==
    ASSUME DataOK, SafetyInv, PassOK', NEW q \in Path, NEW line, line.path = q,
           AppendLine(q, line)
    PROVE  SafetyInv'
<1>v. /\ UNCHANGED <<saved, pc, state, offsets, pending, packet, cp, tmp, stale, staleCrash,
                     acked, skipped>>
      /\ logged' = logged \cup {line}
      /\ raced' = IF pc = "rename" /\ cp = q THEN raced \cup {line} ELSE raced
  BY DEF AppendLine, localVars, batchVars, failVars, timerVars, compVars
<1> SUFFICES ASSUME ~staleCrash
             PROVE  (OffsetsInside /\ BehindSettled /\ PacketCovers
                      /\ TmpFaithful /\ SavedSettled /\ Accounted)'
  BY <1>v DEF SafetyInv
<1>0. /\ OffsetsInside /\ BehindSettled /\ PacketCovers /\ TmpFaithful
      /\ SavedSettled /\ Accounted
  BY DEF SafetyInv
<1>s. \A x : Settled(x)' <=> Settled(x)
  BY <1>v DEF Settled
<1>t. \A p \in Path : /\ log[p] \in Seq(Line) /\ Len(log[p]) \in Nat
                      /\ offsets[p] \in Nat /\ pending[p] \in Nat
  BY DEF DataOK
<1>l. \A p \in Path : log'[p] = IF p = q THEN Append(log[p], line) ELSE log[p]
  BY DEF DataOK, AppendLine
<1>k. \A p \in Path : /\ Len(log'[p]) >= Len(log[p])
                      /\ Len(log'[p]) \in Nat
                      /\ \A i \in 1..Len(log[p]) : log'[p][i] = log[p][i]
                      /\ \A i \in Len(log[p]) + 1 .. Len(log'[p]) :
                            p = q /\ log'[p][i] = line
  <2> SUFFICES ASSUME NEW p \in Path
               PROVE  /\ Len(log'[p]) >= Len(log[p])
                      /\ Len(log'[p]) \in Nat
                      /\ \A i \in 1..Len(log[p]) : log'[p][i] = log[p][i]
                      /\ \A i \in Len(log[p]) + 1 .. Len(log'[p]) :
                            p = q /\ log'[p][i] = line
    OBVIOUS
  <2>1. CASE p = q
    <3>1. /\ Len(Append(log[p], line)) = Len(log[p]) + 1
          /\ \A i \in 1..Len(log[p]) : Append(log[p], line)[i] = log[p][i]
          /\ Append(log[p], line)[Len(log[p]) + 1] = line
      BY <1>t
    <3>2. log'[p] = Append(log[p], line)
      BY <1>l, <2>1
    <3>3. Len(log[p]) \in Nat
      BY <1>t
    <3>4. \A i \in Len(log[p]) + 1 .. Len(log[p]) + 1 : i = Len(log[p]) + 1
      BY <3>3
    <3> QED
      BY <2>1, <3>1, <3>2, <3>3, <3>4
  <2>2. CASE p # q
    <3>1. log'[p] = log[p]
      BY <1>l, <2>2
    <3>2. Len(log[p]) \in Nat
      BY <1>t
    <3> QED
      BY <3>1, <3>2
  <2> QED
    BY <2>1, <2>2
<1>c. Carrying' <=> Carrying
  BY <1>v DEF Carrying
<1>1. OffsetsInside'
  BY <1>0, <1>c, <1>k, <1>t, <1>v DEF OffsetsInside
<1>2. BehindSettled'
  <2> SUFFICES ASSUME NEW p \in Path, NEW i \in 1..offsets[p]
               PROVE  Settled(log[p][i])'
    BY <1>v DEF BehindSettled, Settled
  <2>1. i \in 1..Len(log[p])
    BY <1>0, <1>t DEF OffsetsInside
  <2> QED
    BY <1>0, <1>k, <1>v, <2>1 DEF BehindSettled, Settled
<1>3. PacketCovers'
  <2> SUFFICES ASSUME Carrying, NEW p \in Path, NEW i \in 1..pending[p]
               PROVE  Settled(log[p][i])' \/ log'[p][i] \in packet
    BY <1>c, <1>v DEF PacketCovers, Settled
  <2>1. i \in 1..Len(log[p])
    BY <1>0, <1>t DEF OffsetsInside
  <2> QED
    BY <1>0, <1>k, <1>v, <2>1 DEF PacketCovers, Settled
<1>4. TmpFaithful'
  <2> SUFFICES ASSUME pc = "rename"
               PROVE  /\ tmp.off <= Len(tmp.lines)
                      /\ \A i \in 1..tmp.off : Settled(tmp.lines[i])'
                      /\ \A i \in offsets[cp] + 1 .. Len(log'[cp]) :
                            \/ log'[cp][i] \in raced'
                            \/ \E j \in tmp.off + 1 .. Len(tmp.lines) :
                                  tmp.lines[j] = log'[cp][i]
    BY <1>v DEF TmpFaithful, Settled
  <2>1. tmp.off <= Len(tmp.lines) /\ \A i \in 1..tmp.off : Settled(tmp.lines[i])'
    BY <1>0, <1>v DEF TmpFaithful, Settled
  <2>2. ASSUME NEW i \in offsets[cp] + 1 .. Len(log'[cp])
        PROVE  \/ log'[cp][i] \in raced'
               \/ \E j \in tmp.off + 1 .. Len(tmp.lines) : tmp.lines[j] = log'[cp][i]
    <3>1. cp \in Path
      BY DEF DataOK
    <3>2. CASE i <= Len(log[cp])
      <4>1. i \in offsets[cp] + 1 .. Len(log[cp]) /\ i \in 1..Len(log[cp])
        BY <1>k, <1>t, <3>1, <3>2
      <4>2. log'[cp][i] = log[cp][i]
        BY <1>k, <3>1, <4>1
      <4> QED
        BY <1>0, <1>v, <4>1, <4>2 DEF TmpFaithful
    <3>3. CASE i > Len(log[cp])
      <4>1. i \in Len(log[cp]) + 1 .. Len(log'[cp])
        BY <1>k, <1>t, <3>1, <3>3
      <4>2. cp = q /\ log'[cp][i] = line
        BY <1>k, <3>1, <4>1
      <4> QED
        BY <1>v, <4>2
    <3> QED
      BY <1>t, <3>1, <3>2, <3>3
  <2> QED
    BY <2>1, <2>2
<1>5. SavedSettled'
  <2> SUFFICES ASSUME saved # <<>>, ~stale, NEW p \in Path
               PROVE  /\ saved[p] <= Len(log'[p])
                      /\ \A i \in 1..saved[p] : Settled(log[p][i])'
    BY <1>v DEF SavedSettled, Settled
  <2>1. saved[p] \in Nat
    BY DEF DataOK
  <2>2. saved[p] <= Len(log[p]) /\ \A i \in 1..saved[p] : Settled(log[p][i])
    BY <1>0 DEF SavedSettled
  <2>3. Len(log'[p]) \in Nat /\ Len(log[p]) \in Nat /\ Len(log[p]) <= Len(log'[p])
    BY <1>k, <1>t
  <2>4. ASSUME NEW i \in 1..saved[p] PROVE Settled(log[p][i])'
    <3>1. i \in 1..Len(log[p])
      BY <2>1, <2>2, <2>3
    <3> QED
      BY <1>k, <1>v, <2>2, <3>1 DEF Settled
  <2> QED
    BY <2>1, <2>2, <2>3, <2>4
<1>6. Accounted'
  <2> SUFFICES ASSUME NEW x \in logged', ~Settled(x)', x \notin raced'
               PROVE  x \in Unsent(x.path)'
    BY DEF Accounted
  <2>1. CASE x \in logged
    <3>1. x.path \in Path
      BY <2>1 DEF DataOK, Line
    <3>2. PICK i \in offsets[x.path] + 1 .. Len(log[x.path]) : x = log[x.path][i]
      BY <1>0, <1>s, <1>v, <2>1 DEF Accounted, Unsent
    <3>3. i \in offsets[x.path] + 1 .. Len(log'[x.path]) /\ i \in 1..Len(log[x.path])
      BY <1>k, <1>t, <3>1, <3>2
    <3>4. log'[x.path][i] = x
      BY <1>k, <3>1, <3>2, <3>3
    <3> QED
      BY <1>v, <3>3, <3>4 DEF Unsent
  <2>2. CASE x = line
    <3> DEFINE i == Len(log'[q])
    <3>1. Len(log'[q]) = Len(log[q]) + 1 /\ Len(log[q]) \in Nat
      <4>1. log'[q] = Append(log[q], line) /\ log[q] \in Seq(Line)
        BY <1>l, <1>t
      <4>2. Len(Append(log[q], line)) = Len(log[q]) + 1 /\ Len(log[q]) \in Nat
        BY <4>1
      <4> QED
        BY <4>1, <4>2
    <3>2. i \in Len(log[q]) + 1 .. Len(log'[q]) /\ i \in offsets[q] + 1 .. Len(log'[q])
      BY <1>0, <1>t, <3>1 DEF OffsetsInside
    <3>3. log'[q][i] = line
      BY <1>k, <3>2
    <3> QED
      BY <1>v, <2>2, <3>2, <3>3 DEF Unsent
  <2> QED
    BY <1>v, <2>1, <2>2
<1> QED
  BY <1>1, <1>2, <1>3, <1>4, <1>5, <1>6

\* The copy holds what the compaction keeps and every unsent line.
LEMMA CopyStep ==
    ASSUME DataOK, SafetyInv, PassOK', CompactCopy
    PROVE  SafetyInv'
<1>v. /\ UNCHANGED <<log, saved, state, offsets, pending, packet, cp, stale, staleCrash,
                     logged, acked, skipped, raced>>
      /\ pc = "copy" /\ pc' = "rename"
      /\ tmp' \in Compactions(log[cp], offsets[cp])
  BY DEF CompactCopy, Compacting
<1> SUFFICES ASSUME ~staleCrash
             PROVE  (OffsetsInside /\ BehindSettled /\ PacketCovers
                      /\ TmpFaithful /\ SavedSettled /\ Accounted)'
  BY <1>v DEF SafetyInv
<1>0. /\ OffsetsInside /\ BehindSettled /\ PacketCovers /\ SavedSettled /\ Accounted
  BY DEF SafetyInv
<1>c. ~Carrying'
  BY <1>v DEF Carrying, PassOK
<1>t. /\ cp \in Path /\ log[cp] \in Seq(Line) /\ Len(log[cp]) \in Nat
      /\ offsets[cp] \in Nat /\ offsets[cp] <= Len(log[cp])
  BY <1>0 DEF DataOK, OffsetsInside
<1>n. SentCount(log[cp], offsets[cp]) = offsets[cp]
  BY <1>t DEF SentCount
<1>k. /\ tmp' \in [lines : Seq(Line), off : Nat]
      /\ Len(tmp'.lines) = tmp'.off + Len(log[cp]) - offsets[cp]
      /\ \A i \in 1..tmp'.off : \E j \in 1..offsets[cp] : tmp'.lines[i] = log[cp][j]
      /\ \A i \in offsets[cp] + 1 .. Len(log[cp]) :
            tmp'.lines[i - offsets[cp] + tmp'.off] = log[cp][i]
  <2> DEFINE lines == log[cp]
             off == offsets[cp]
             n == SentCount(lines, off)
  <2>0. lines \in Seq(Line) /\ off \in Nat
    BY <1>t
  <2>1. PICK t \in Compactions(lines, off) : t = tmp'
    BY <1>v
  <2> HIDE DEF lines, off
  <2>2. /\ t \in [lines : Seq(Line), off : Nat]
        /\ Len(t.lines) = t.off + Len(lines) - n
        /\ \A i \in 1..t.off : \E j \in 1..n : t.lines[i] = lines[j]
        /\ \A i \in n + 1 .. Len(lines) : t.lines[i - n + t.off] = lines[i]
    BY <2>0, CompactionShape
  <2> QED
    BY <1>n, <2>1, <2>2 DEF lines, off
<1>1. OffsetsInside'
  BY <1>0, <1>c, <1>v DEF OffsetsInside
<1>2. BehindSettled'
  BY <1>0, <1>v DEF BehindSettled, Settled
<1>3. PacketCovers'
  BY <1>c DEF PacketCovers
<1>4. TmpFaithful'
  <2>1. tmp'.off \in Nat /\ tmp'.off <= Len(tmp'.lines)
    BY <1>k, <1>t
  <2>2. ASSUME NEW i \in 1..tmp'.off PROVE Settled(tmp.lines[i])'
    BY <1>0, <1>k, <1>t, <1>v DEF BehindSettled, Settled
  <2>3. ASSUME NEW i \in offsets[cp] + 1 .. Len(log[cp])
        PROVE  \E j \in tmp'.off + 1 .. Len(tmp'.lines) : tmp'.lines[j] = log[cp][i]
    <3> DEFINE j == i - offsets[cp] + tmp'.off
    <3>1. j \in tmp'.off + 1 .. Len(tmp'.lines)
      BY <1>k, <1>t
    <3> QED
      BY <1>k, <3>1
  <2> QED
    BY <1>v, <2>1, <2>2, <2>3 DEF TmpFaithful, Settled
<1>5. SavedSettled'
  BY <1>0, <1>v DEF SavedSettled, Settled
<1>6. Accounted'
  BY <1>0, <1>v DEF Accounted, Settled, Unsent
<1> QED
  BY <1>1, <1>2, <1>3, <1>4, <1>5, <1>6

\* The copy takes the place of the file, and its offset that of the file's.
LEMMA RenameStep ==
    ASSUME DataOK, SafetyInv, PassOK', CompactRename
    PROVE  SafetyInv'
<1>v. /\ UNCHANGED <<saved, state, pending, packet, staleCrash,
                     logged, acked, skipped, raced>>
      /\ pc = "rename" /\ pc' # "rename" /\ pc' # "bdsend"
      /\ stale' = (stale \/ (saved # <<>> /\ saved[cp] > tmp.off))
      /\ log' = [log EXCEPT ![cp] = tmp.lines]
      /\ offsets' = [offsets EXCEPT ![cp] = tmp.off]
  BY DEF CompactRename, NextPath
<1> SUFFICES ASSUME ~staleCrash
             PROVE  (OffsetsInside /\ BehindSettled /\ PacketCovers
                      /\ TmpFaithful /\ SavedSettled /\ Accounted)'
  BY <1>v DEF SafetyInv
<1>0. /\ OffsetsInside /\ BehindSettled /\ TmpFaithful /\ SavedSettled /\ Accounted
  BY DEF SafetyInv
<1>c. ~Carrying'
  BY <1>v DEF Carrying, SafetyInv, PassOK
<1>t. /\ tmp.off \in Nat /\ Len(tmp.lines) \in Nat /\ cp \in Path
      /\ tmp.off <= Len(tmp.lines)
      /\ saved # <<>> => \A p \in Path : saved[p] \in Nat
  BY <1>0, <1>v DEF DataOK, TmpFaithful
<1>k. \A p \in Path : /\ log'[p] = IF p = cp THEN tmp.lines ELSE log[p]
                      /\ offsets'[p] = IF p = cp THEN tmp.off ELSE offsets[p]
  BY <1>v DEF DataOK
<1>f. /\ \A i \in 1..tmp.off : Settled(tmp.lines[i])
      /\ \A i \in offsets[cp] + 1 .. Len(log[cp]) :
            \/ log[cp][i] \in raced
            \/ \E j \in tmp.off + 1 .. Len(tmp.lines) : tmp.lines[j] = log[cp][i]
  BY <1>0, <1>v DEF TmpFaithful
<1>1. OffsetsInside'
  BY <1>0, <1>c, <1>k, <1>t DEF OffsetsInside
<1>2. BehindSettled'
  <2> SUFFICES ASSUME NEW p \in Path, NEW i \in 1..offsets'[p] PROVE Settled(log[p][i])'
    BY DEF BehindSettled
  <2>1. CASE p = cp
    BY <1>f, <1>k, <1>v, <2>1 DEF Settled
  <2>2. CASE p # cp
    BY <1>0, <1>k, <1>v, <2>2 DEF BehindSettled, Settled
  <2> QED
    BY <2>1, <2>2
<1>3. PacketCovers'
  BY <1>c DEF PacketCovers
<1>4. TmpFaithful'
  BY <1>v DEF TmpFaithful
<1>5. SavedSettled'
  <2> SUFFICES ASSUME saved # <<>>, ~stale', NEW p \in Path
               PROVE  /\ saved[p] <= Len(log'[p])
                      /\ \A i \in 1..saved[p] : Settled(log[p][i])'
    BY <1>v DEF SavedSettled, Settled
  <2>1. ~stale /\ ~(saved[cp] > tmp.off)
    BY <1>v
  <2>2. CASE p = cp
    <3>1. saved[cp] <= tmp.off
      BY <1>t, <2>1
    <3> QED
      BY <1>f, <1>k, <1>t, <1>v, <2>2, <3>1 DEF Settled
  <2>3. CASE p # cp
    BY <1>0, <1>k, <1>v, <2>1, <2>3 DEF SavedSettled, Settled
  <2> QED
    BY <2>2, <2>3
<1>6. Accounted'
  <2> SUFFICES ASSUME NEW x \in logged, ~Settled(x), x \notin raced
               PROVE  x \in Unsent(x.path)'
    BY <1>v DEF Accounted, Settled
  <2>1. x.path \in Path
    BY DEF DataOK, Line
  <2>2. PICK i \in offsets[x.path] + 1 .. Len(log[x.path]) : x = log[x.path][i]
    BY <1>0 DEF Accounted, Unsent
  <2>3. CASE x.path = cp
    <3>1. PICK j \in tmp.off + 1 .. Len(tmp.lines) : tmp.lines[j] = x
      BY <1>f, <2>2, <2>3
    <3>2. log'[cp] = tmp.lines /\ offsets'[cp] = tmp.off
      BY <1>k, <1>t
    <3> QED
      BY <2>3, <3>1, <3>2 DEF Unsent
  <2>4. CASE x.path # cp
    BY <1>k, <2>1, <2>2, <2>4 DEF Unsent
  <2> QED
    BY <2>3, <2>4
<1> QED
  BY <1>1, <1>2, <1>3, <1>4, <1>5, <1>6

\* The offsets are written.
LEMMA SaveStep ==
    ASSUME DataOK, SafetyInv, PassOK', SaveOpen \/ SaveWrite
    PROVE  SafetyInv'
<1>v. /\ UNCHANGED <<log, state, offsets, pending, packet, staleCrash,
                     logged, acked, skipped, raced>>
      /\ pc \in {"save", "write"} /\ pc' \in {"write", "copy", "loop"}
      /\ saved' = <<>> \/ saved' = offsets
  BY DEF SaveOpen, SaveWrite, Saving, SaveReturns
<1> SUFFICES ASSUME ~staleCrash
             PROVE  (OffsetsInside /\ BehindSettled /\ PacketCovers
                      /\ TmpFaithful /\ SavedSettled /\ Accounted)'
  BY <1>v DEF SafetyInv
<1>0. OffsetsInside /\ BehindSettled /\ PacketCovers /\ Accounted
  BY DEF SafetyInv
<1>c. Carrying' => Carrying
  BY <1>v DEF Carrying
<1>1. OffsetsInside'
  BY <1>0, <1>c, <1>v DEF OffsetsInside
<1>2. BehindSettled'
  BY <1>0, <1>v DEF BehindSettled, Settled
<1>3. PacketCovers'
  BY <1>0, <1>c, <1>v DEF PacketCovers, Settled
<1>4. TmpFaithful'
  BY <1>v DEF TmpFaithful
<1>5. SavedSettled'
  <2>1. CASE saved' = <<>>
    BY <2>1 DEF SavedSettled
  <2>2. CASE saved' = offsets
    BY <1>0, <1>v, <2>2 DEF SavedSettled, OffsetsInside, BehindSettled, Settled
  <2> QED
    BY <1>v, <2>1, <2>2
<1>6. Accounted'
  BY <1>0, <1>v DEF Accounted, Settled, Unsent
<1> QED
  BY <1>1, <1>2, <1>3, <1>4, <1>5, <1>6

\* A start takes the saved offsets.
LEMMA StartStep ==
    ASSUME DataOK, SafetyInv, PassOK', Start
    PROVE  SafetyInv'
<1>v. /\ UNCHANGED <<log, saved, logged, acked, skipped, raced, stale>>
      /\ offsets' = IF saved = <<>> THEN Zero ELSE saved
      /\ staleCrash' = (staleCrash \/ stale)
      /\ pc' = "loop" /\ state' = "IDLE"
  BY DEF Start, fileVars
<1> SUFFICES ASSUME ~staleCrash, ~stale
             PROVE  (OffsetsInside /\ BehindSettled /\ PacketCovers
                      /\ TmpFaithful /\ SavedSettled /\ Accounted)'
  BY <1>v DEF SafetyInv
<1>0. OffsetsInside /\ BehindSettled /\ SavedSettled /\ Accounted
  BY DEF SafetyInv
<1>t. \A p \in Path : Len(log[p]) \in Nat /\ offsets[p] \in Nat
  BY DEF DataOK
<1>o. \A p \in Path : /\ offsets'[p] \in Nat /\ offsets'[p] <= Len(log[p])
                      /\ \A i \in 1..offsets'[p] : Settled(log[p][i])
  <2>1. CASE saved = <<>>
    BY <1>t, <1>v, <2>1 DEF Zero
  <2>2. CASE saved # <<>>
    BY <1>0, <1>v, <2>2 DEF SavedSettled, DataOK
  <2> QED
    BY <2>1, <2>2
<1>1. OffsetsInside'
  BY <1>o, <1>v DEF OffsetsInside, Carrying
<1>2. BehindSettled'
  BY <1>o, <1>v DEF BehindSettled, Settled
<1>3. PacketCovers'
  BY <1>v DEF PacketCovers, Carrying
<1>4. TmpFaithful'
  BY <1>v DEF TmpFaithful
<1>5. SavedSettled'
  BY <1>0, <1>v DEF SavedSettled, Settled
<1>6. Accounted'
  <2> SUFFICES ASSUME NEW x \in logged, ~Settled(x), x \notin raced
               PROVE  x \in Unsent(x.path)'
    BY <1>v DEF Accounted, Settled
  <2>1. x.path \in Path
    BY DEF DataOK, Line
  <2>2. PICK i \in offsets[x.path] + 1 .. Len(log[x.path]) : x = log[x.path][i]
    BY <1>0 DEF Accounted, Unsent
  <2>3. i \notin 1..offsets'[x.path]
    BY <1>o, <2>1, <2>2
  <2>4. i \in offsets'[x.path] + 1 .. Len(log[x.path])
    BY <1>o, <1>t, <2>1, <2>2, <2>3
  <2> QED
    BY <1>v, <2>2, <2>4 DEF Unsent
<1> QED
  BY <1>1, <1>2, <1>3, <1>4, <1>5, <1>6

LEMMA SafetyInit == Init => SafetyInv
<1> SUFFICES ASSUME Init PROVE SafetyInv
  OBVIOUS
<1>1. /\ \A p \in Path : log[p] = <<>> /\ offsets[p] = 0 /\ saved[p] = 0
      /\ pc = "loop" /\ state = "IDLE" /\ batchDone = FALSE /\ logged = {}
  BY DEF Init, Zero
<1>2. OffsetsInside /\ BehindSettled /\ SavedSettled
  BY <1>1 DEF OffsetsInside, BehindSettled, SavedSettled, Carrying
<1>3. PassOK /\ PacketCovers /\ TmpFaithful /\ Accounted
  BY <1>1 DEF PassOK, PacketCovers, TmpFaithful, Accounted, Carrying
<1> QED
  BY <1>2, <1>3 DEF SafetyInv

LEMMA SafetyStep ==
    ASSUME DataOK, DataOK', SafetyInv, [Next]_vars PROVE SafetyInv'
<1>p. PassOK /\ PassOK'
  BY PassStep DEF SafetyInv
<1>t. /\ offsets \in [Path -> Nat] /\ batchEnd \in [Path -> Nat]
      /\ \A p \in Path : Len(log[p]) \in Nat
  <2>1. offsets \in [Path -> Nat] /\ batchEnd \in [Path -> Nat] /\ log \in [Path -> Seq(Line)]
    BY DEF DataOK
  <2> QED
    BY <2>1
<1>u. pending' \in [Path -> Nat]
  BY DEF DataOK
<1> DEFINE Quiet ==
      /\ UNCHANGED <<log, saved, offsets, logged, acked, skipped, raced, stale,
                     staleCrash>>
      /\ Carrying' => Carrying /\ UNCHANGED <<pending, packet>>
      /\ pc' = "rename" => pc = "rename" /\ UNCHANGED <<cp, tmp>>
<1>q. Quiet => SafetyInv'
  BY <1>p, QuietStep
<1> USE DEF fileVars, batchVars, failVars, radioVars, timerVars,
        compVars, localVars, sharedVars, linkVars, histVars
<1>1. CASE \/ SetSendPath \/ SetMesh \/ BtPowerOn \/ HandleSignal
           \/ Link4GChanges \/ LinkBDChanges
  <2>1. Quiet
    BY <1>1 DEF SetSendPath, SetMesh, BtPowerOn, HandleSignal, Link4GChanges,
                LinkBDChanges, Carrying
  <2> QED
    BY <1>q, <2>1
<1>2. CASE Clock
  <2>1. Quiet
    BY <1>2 DEF Clock, CoolDownEnds, HoldEnds, BdGapEnds, Untimed, Carrying
  <2> QED
    BY <1>q, <2>1
<1>3. CASE Try4GCoolingDown \/ Try4GNotReady \/ Try4GSendFails
  <2>1. Quiet
    BY <1>3 DEF AtState, Try4GCoolingDown, Try4GNotReady, Try4GSendFails, After4G, Carrying
  <2> QED
    BY <1>q, <2>1
<1>4. CASE BdSendFails \/ BdWait \/ PowerDown \/ Exit
  <2>1. Quiet
    BY <1>4 DEF AtState, BdSendFails, BdWait, PowerDown, Exit, Carrying
  <2> QED
    BY <1>q, <2>1
<1>5. CASE CompactSkipped \/ SaveFails
  <2>1. Quiet
    BY <1>5, <1>p DEF CompactSkipped, SaveFails, NextPath, Compacting, Saving, SaveReturns,
                      Carrying, PassOK
  <2> QED
    BY <1>q, <2>1
<1>6. CASE UNCHANGED vars
  <2>1. Quiet
    BY <1>6 DEF vars, Carrying
  <2> QED
    BY <1>q, <2>1
<1>7. CASE Try4GSent
  BY <1>7, <1>p, SentStep DEF Try4GSent, AtState, Carrying
<1>8. CASE BdSent
  BY <1>8, <1>p, SentStep DEF BdSent, BdAdvances, Carrying
<1>9. CASE Idle
  <2>1. PICK to \in Packings4G(log, offsets) :
          \/ state' # "TRY_4G"
          \/ UNCHANGED <<state, pending, packet>>
          \/ pending' = to /\ packet' = PacketLines(log, offsets, to)
    BY <1>9 DEF Idle
  <2>2. /\ UNCHANGED <<log, saved, pc, offsets, logged, acked, skipped, raced, stale,
                       staleCrash>>
        /\ pc = "loop" /\ state = "IDLE"
    BY <1>9 DEF Idle, AtState
  <2>3. CASE state' # "TRY_4G"
    <3>1. Quiet
      BY <2>2, <2>3 DEF Carrying
    <3> QED
      BY <1>q, <3>1
  <2>4. CASE UNCHANGED <<state, pending, packet>>
    <3>1. Quiet
      BY <2>2, <2>4 DEF Carrying
    <3> QED
      BY <1>q, <3>1
  <2>5. CASE pending' = to /\ packet' = PacketLines(log, offsets, to)
    <3>1. \A p \in Path : to[p] = offsets[p] \/ to[p] \in offsets[p]..Len(log[p])
      BY <1>t, Packing4GBounds
    <3> QED
      BY <1>p, <1>u, <2>2, <2>5, <3>1, PackStep
  <2> QED
    BY <2>1, <2>3, <2>4, <2>5
<1>10. CASE TryBD
  <2>1. PICK to \in PackingsBD(log, offsets, batchEnd) :
          \/ pc' = pc /\ state' # "TRY_BD"
          \/ pending' = to /\ packet' = PacketLines(log, offsets, to) /\ pc' = "bdsend"
    BY <1>10 DEF TryBD
  <2>2. /\ UNCHANGED <<log, saved, offsets, logged, acked, skipped, raced, stale,
                       staleCrash>>
        /\ pc = "loop" /\ state = "TRY_BD" /\ state' \in {"TRY_BD", "IDLE", "BD_WAIT"}
    BY <1>10 DEF TryBD, AtState
  <2>3. CASE pc' = pc /\ state' # "TRY_BD"
    <3>1. Quiet
      BY <2>2, <2>3 DEF Carrying
    <3> QED
      BY <1>q, <3>1
  <2>4. CASE pending' = to /\ packet' = PacketLines(log, offsets, to) /\ pc' = "bdsend"
    <3>1. \A p \in Path : to[p] = offsets[p] \/ to[p] \in offsets[p]..Len(log[p])
      BY <1>t, PackingBDBounds
    <3> QED
      BY <1>p, <1>u, <2>2, <2>4, <3>1, PackStep
  <2> QED
    BY <2>1, <2>3, <2>4
<1>11. CASE NodePass
  BY <1>11, <1>p, NodeStep
<1>12. CASE CompactCopy
  BY <1>12, <1>p, CopyStep
<1>13. CASE CompactRename
  BY <1>13, <1>p, RenameStep
<1>14. CASE SaveOpen \/ SaveWrite
  BY <1>14, <1>p, SaveStep
<1>15. CASE Restart \/ Crash
  BY <1>15, <1>p, StartStep DEF Restart, Crash
<1>16. CASE \E p \in Path, len \in Lens : Write(p, len)
  <2>1. PICK p \in Path, len \in Lens : Write(p, len)
    BY <1>16
  <2>2. PICK line : line.path = p /\ AppendLine(p, line)
    BY <2>1 DEF Write
  <2> QED
    BY <1>p, <2>2, WriteStep
<1> QED
  BY <1>1, <1>2, <1>3, <1>4, <1>5, <1>6, <1>7, <1>8, <1>9, <1>10, <1>11, <1>12, <1>13,
     <1>14, <1>15, <1>16 DEF Next, MainStep, Environment

LEMMA SafetyHolds == Spec => [](DataOK /\ SafetyInv)
<1>1. Init => DataOK /\ SafetyInv
  BY TypeInit, SafetyInit DEF TypeOK
<1>2. DataOK /\ SafetyInv /\ [Next]_vars => (DataOK /\ SafetyInv)'
  <2> SUFFICES ASSUME DataOK, SafetyInv, [Next]_vars PROVE (DataOK /\ SafetyInv)'
    OBVIOUS
  <2>1. DataOK'
    BY DataStep
  <2> QED
    BY <2>1, SafetyStep
<1> QED
  BY <1>1, <1>2, PTL DEF Spec

\* The sender never leaves an unsettled line behind its offset, whatever the
\* sizes, the number of files, the links, the operator and the crashes do,
\* but for a crash between the replacement of a file and the save.
THEOREM NothingIsSkipped == Spec => []NothingSkipped
<1>1. DataOK /\ SafetyInv => NothingSkipped
  <2> SUFFICES ASSUME DataOK, BehindSettled, NEW p \in Path,
                      NEW i \in 1..SentCount(log[p], offsets[p])
               PROVE  Settled(log[p][i])
    BY DEF SafetyInv, NothingSkipped
  <2>1. offsets[p] \in Nat /\ Len(log[p]) \in Nat
    BY DEF DataOK
  <2>2. i \in 1..offsets[p]
    BY <2>1 DEF SentCount
  <2> QED
    BY <2>2 DEF BehindSettled
<1> QED
  BY <1>1, SafetyHolds, PTL

\* A line that is not settled is still in its file behind the offset, or was
\* appended while the file was being replaced.
THEOREM NothingEverVanishes == Spec => []NothingVanishes
<1>1. DataOK /\ SafetyInv => NothingVanishes
  BY DEF SafetyInv, NothingVanishes
<1> QED
  BY <1>1, SafetyHolds, PTL

\* At any moment the offset file can be started from.
THEOREM SavedIsAlwaysSafe == Spec => []SavedIsSafe
<1>1. DataOK /\ SafetyInv => SavedIsSafe
  <2> SUFFICES ASSUME DataOK, SavedSettled, saved # <<>>, ~stale, NEW p \in Path,
                      NEW i \in 1..SentCount(log[p], saved[p])
               PROVE  Settled(log[p][i])
    BY DEF SafetyInv, SavedIsSafe
  <2>1. saved[p] \in Nat /\ Len(log[p]) \in Nat
    BY DEF DataOK
  <2>2. i \in 1..saved[p]
    BY <2>1 DEF SentCount
  <2> QED
    BY <2>2 DEF SavedSettled
<1> QED
  BY <1>1, SafetyHolds, PTL

-----------------------------------------------------------------------------
(* The order of delivery, and that nothing is delivered twice before the   *)
(* first restart.  Both rest on OrderInv, and OrderInv on the safety       *)
(* invariant above.                                                        *)


\* Steps that move no line and no offset, and build no packet.
LEMMA OrderQuietStep ==
    ASSUME OrderInv,
           UNCHANGED <<log, offsets, logged, acked, skipped, raced>>,
           staleCrash => staleCrash',
           restarts' = 0 => restarts = 0 /\ ~stop' /\ state' # "EXITED",
           Carrying' => Carrying /\ UNCHANGED <<pending, packet>>,
           pc' = "rename" => pc = "rename" /\ UNCHANGED <<cp, tmp>>
    PROVE  OrderInv'
<1>0. /\ FilesInOrder /\ OnlyLoggedKnown /\ PacketInFiles /\ AheadUnsent
      /\ DeliveredInOrder /\ NothingResent
  BY DEF OrderInv
<1>1. FilesInOrder'
  BY <1>0 DEF FilesInOrder, InLogOrder
<1>2. OnlyLoggedKnown'
  BY <1>0 DEF OnlyLoggedKnown
<1>3. PacketInFiles'
  BY <1>0 DEF PacketInFiles
<1>4. AheadUnsent'
  BY <1>0 DEF AheadUnsent, UnsentBehind
<1>5. DeliveredInOrder'
  BY <1>0 DEF DeliveredInOrder, Settled, Valid
<1>6. NothingResent'
  BY <1>0 DEF NothingResent, Carrying
<1> QED
  BY <1>1, <1>2, <1>3, <1>4, <1>5, <1>6 DEF OrderInv

\* A packet consists of lines between the two offsets.
LEMMA PacketOrigin ==
    ASSUME NEW logs \in [Path -> Seq(Line)],
           NEW from \in [Path -> Nat], NEW to \in [Path -> Nat],
           \A p \in Path : to[p] = from[p] \/ to[p] \in from[p]..Len(logs[p]),
           NEW line \in PacketLines(logs, from, to)
    PROVE  \E p \in Path : \E i \in DOMAIN logs[p] :
              from[p] < i /\ i <= to[p] /\ logs[p][i] = line
<1>1. PICK e \in Entries(logs, from, to, NPaths) : line = logs[e[1]][e[2]]
  BY DEF PacketLines
<1>2. PICK q \in 1..NPaths : e \in {q} \X (from[q] + 1 .. to[q])
  BY <1>1 DEF Entries
<1>3. q \in Path /\ e[1] = q /\ e[2] \in from[q] + 1 .. to[q]
  BY <1>2 DEF Path
<1>4. /\ logs[q] \in Seq(Line) /\ from[q] \in Nat /\ to[q] \in Nat
      /\ to[q] = from[q] \/ to[q] \in from[q]..Len(logs[q])
  BY <1>3
<1>5. e[2] \in DOMAIN logs[q] /\ from[q] < e[2] /\ e[2] <= to[q]
  BY <1>3, <1>4
<1> QED
  BY <1>1, <1>3, <1>5

\* Steps that build a packet of the unsent lines.
LEMMA OrderPackStep ==
    ASSUME DataOK, OrderInv, pc' # "rename",
           UNCHANGED <<log, offsets, logged, acked, skipped, raced>>,
           staleCrash' = staleCrash, restarts' = restarts, stop' = stop,
           state' # "EXITED",
           pending' \in [Path -> Nat],
           \A p \in Path : \/ pending'[p] = offsets[p]
                           \/ pending'[p] \in offsets[p]..Len(log[p]),
           packet' = PacketLines(log, offsets, pending')
    PROVE  OrderInv'
<1>0. FilesInOrder /\ OnlyLoggedKnown /\ AheadUnsent /\ DeliveredInOrder
  BY DEF OrderInv
<1>t. /\ log \in [Path -> Seq(Line)] /\ offsets \in [Path -> Nat]
  BY DEF DataOK
<1>p. ASSUME NEW line \in packet'
      PROVE  \E p \in Path : \E i \in DOMAIN log[p] :
                /\ offsets[p] < i /\ i <= pending'[p] /\ log[p][i] = line
                /\ p = line.path
  <2>1. PICK p \in Path : \E i \in DOMAIN log[p] :
           offsets[p] < i /\ i <= pending'[p] /\ log[p][i] = line
    <3> DEFINE to == pending'
    <3>1. line \in PacketLines(log, offsets, to)
      BY <1>p
    <3>2. to \in [Path -> Nat]
      OBVIOUS
    <3>3. \A p \in Path : to[p] = offsets[p] \/ to[p] \in offsets[p]..Len(log[p])
      OBVIOUS
    <3> HIDE DEF to
    <3>4. \E p \in Path : \E i \in DOMAIN log[p] :
              offsets[p] < i /\ i <= to[p] /\ log[p][i] = line
      BY <1>t, <3>1, <3>2, <3>3, PacketOrigin, ZenonT(30)
    <3> QED
      BY <3>4 DEF to
  <2>2. PICK i \in DOMAIN log[p] :
           offsets[p] < i /\ i <= pending'[p] /\ log[p][i] = line
    BY <2>1
  <2>3. log[p][i].path = p
    BY <1>0 DEF FilesInOrder, InLogOrder
  <2> QED
    BY <2>2, <2>3
<1>1. FilesInOrder'
  BY <1>0 DEF FilesInOrder, InLogOrder
<1>2. OnlyLoggedKnown'
  BY <1>0 DEF OnlyLoggedKnown
<1>3. PacketInFiles'
  BY <1>p DEF PacketInFiles
<1>4. AheadUnsent'
  <2> SUFFICES ASSUME restarts = 0
               PROVE  /\ ~stop' /\ state' # "EXITED"
                      /\ \A p \in Path : UnsentBehind(log[p], offsets[p])
                      /\ \A p \in Path : UnsentBehind(log[p], pending'[p])
    BY DEF AheadUnsent, UnsentBehind
  <2>1. ~stop /\ \A p \in Path : UnsentBehind(log[p], offsets[p])
    BY <1>0 DEF AheadUnsent
  <2>2. ASSUME NEW p \in Path PROVE UnsentBehind(log[p], pending'[p])
    <3>1. pending'[p] >= offsets[p] /\ pending'[p] \in Nat /\ offsets[p] \in Nat
      BY <1>t
    <3>2. \A i \in DOMAIN log[p] : i > pending'[p] => i > offsets[p]
      BY <1>t, <3>1
    <3> QED
      BY <2>1, <3>2 DEF UnsentBehind
  <2> QED
    BY <2>1, <2>2
<1>5. DeliveredInOrder'
  BY <1>0 DEF DeliveredInOrder, Settled, Valid
<1>6. NothingResent'
  <2> SUFFICES ASSUME restarts = 0, NEW line \in packet' PROVE line \notin acked
    BY DEF NothingResent
  <2>0. PICK p \in Path : \E i \in DOMAIN log[p] :
           offsets[p] < i /\ log[p][i] = line
    BY <1>p
  <2>1. PICK i \in DOMAIN log[p] : offsets[p] < i /\ log[p][i] = line
    BY <2>0
  <2>2. UnsentBehind(log[p], offsets[p])
    BY <1>0 DEF AheadUnsent
  <2>3. offsets[p] \in Nat /\ i \in Nat
    BY <1>t
  <2> QED
    BY <2>1, <2>2, <2>3 DEF UnsentBehind
<1> QED
  BY <1>1, <1>2, <1>3, <1>4, <1>5, <1>6 DEF OrderInv

\* Lines of one file stand in the order of their numbers.
LEMMA NumberOrder ==
    ASSUME DataOK, FilesInOrder, NEW p \in Path,
           NEW i \in DOMAIN log[p], NEW j \in DOMAIN log[p]
    PROVE  /\ log[p][i].no \in Nat /\ log[p][j].no \in Nat
           /\ log[p][i].no < log[p][j].no => i < j
           /\ log[p][i] = log[p][j] => i = j
<1>1. i \in Nat /\ j \in Nat /\ log[p][i] \in Line /\ log[p][j] \in Line
  BY DEF DataOK
<1>2. log[p][i].no \in Nat /\ log[p][j].no \in Nat
  BY <1>1 DEF Line
<1>3. i < j => log[p][i].no < log[p][j].no
  BY DEF FilesInOrder, InLogOrder
<1>4. j < i => log[p][j].no < log[p][i].no
  BY DEF FilesInOrder, InLogOrder
<1> QED
  BY <1>1, <1>2, <1>3, <1>4

\* The packet is acknowledged: an older line of the same source stood before
\* the packet's offsets as well.
LEMMA OrderSentStep ==
    ASSUME DataOK, SafetyInv, OrderInv, Carrying, ~Carrying', pc' # "rename",
           UNCHANGED <<log, logged, skipped, raced, staleCrash, restarts, stop>>,
           state' # "EXITED",
           offsets' = pending, acked' = acked \cup packet
    PROVE  OrderInv'
<1>0. /\ FilesInOrder /\ OnlyLoggedKnown /\ PacketInFiles /\ AheadUnsent
      /\ DeliveredInOrder
  BY DEF OrderInv
<1>t. /\ log \in [Path -> Seq(Line)] /\ offsets \in [Path -> Nat]
      /\ pending \in [Path -> Nat]
      /\ \A line \in packet : line.path \in Path
      /\ \A line \in logged : line.path \in Path
  BY DEF DataOK, Line
<1>p. ASSUME NEW line \in packet
      PROVE  /\ line.path \in Path
             /\ \E i \in DOMAIN log[line.path] :
                   i <= pending[line.path] /\ log[line.path][i] = line
  BY <1>0, <1>t DEF PacketInFiles
<1>1. FilesInOrder'
  BY <1>0 DEF FilesInOrder, InLogOrder
<1>2. OnlyLoggedKnown'
  <2>1. packet \subseteq logged
    BY <1>0, <1>p DEF FilesInOrder, InLogOrder
  <2> QED
    BY <1>0, <2>1 DEF OnlyLoggedKnown
<1>3. PacketInFiles'
  BY DEF PacketInFiles
<1>4. AheadUnsent'
  <2> SUFFICES ASSUME restarts = 0, NEW p \in Path, NEW i \in DOMAIN log[p],
                      i > pending[p]
               PROVE  log[p][i] \notin acked \cup packet
    BY <1>0 DEF AheadUnsent, UnsentBehind
  <2>1. log[p][i] \notin acked
    BY <1>0 DEF AheadUnsent, UnsentBehind
  <2>2. ASSUME log[p][i] \in packet PROVE FALSE
    <3>1. log[p][i].path = p
      BY <1>0 DEF FilesInOrder, InLogOrder
    <3>2. PICK j \in DOMAIN log[p] : j <= pending[p] /\ log[p][j] = log[p][i]
      BY <1>p, <2>2, <3>1
    <3>3. i = j
      BY <1>0, <3>2, NumberOrder
    <3>4. i \in Nat /\ pending[p] \in Nat
      BY <1>t
    <3> QED
      BY <3>2, <3>3, <3>4
  <2> QED
    BY <2>1, <2>2
<1>5. DeliveredInOrder'
  <2> SUFFICES ASSUME ~staleCrash, NEW a \in logged, NEW b \in logged,
                      a.path = b.path, a.no < b.no, b \in acked \cup packet,
                      ~Settled(a), a \notin raced
               PROVE  a \in packet
    BY DEF DeliveredInOrder, Settled
  <2>1. b \in packet
    BY <1>0 DEF DeliveredInOrder
  <2> DEFINE p == a.path
  <2>2. p \in Path
    BY <1>t
  <2>3. PICK i \in offsets[p] + 1 .. Len(log[p]) : a = log[p][i]
    BY DEF SafetyInv, Accounted, Unsent
  <2>4. PICK j \in DOMAIN log[p] : j <= pending[p] /\ log[p][j] = b
    BY <1>p, <2>1
  <2>5. i \in DOMAIN log[p] /\ i \in Nat /\ j \in Nat /\ i >= 1 /\ pending[p] \in Nat
    BY <1>t, <2>2, <2>3
  <2>6. i < j
    BY <1>0, <2>2, <2>3, <2>4, <2>5, NumberOrder
  <2>7. i \in 1..pending[p]
    BY <2>4, <2>5, <2>6
  <2> QED
    BY <2>2, <2>3, <2>7 DEF SafetyInv, PacketCovers
<1>6. NothingResent'
  BY DEF NothingResent, Carrying
<1> QED
  BY <1>1, <1>2, <1>3, <1>4, <1>5, <1>6 DEF OrderInv

\* A node gives up what waits in the files; the packet it may still carry
\* stays as it is.
LEMMA OrderNodeStep ==
    ASSUME DataOK, OrderInv, NodePass PROVE OrderInv'
<1>v. /\ UNCHANGED <<log, state, pending, packet, stop, logged, acked, raced, staleCrash,
                     restarts>>
      /\ pc = "loop" /\ pc' = "save"
      /\ skipped' = skipped \cup UNION {Unsent(p) : p \in Path}
      /\ \A p \in Path : offsets'[p] = EndOffset(p)
  BY DEF NodePass, fileVars, sharedVars
<1>0. /\ FilesInOrder /\ OnlyLoggedKnown /\ PacketInFiles /\ AheadUnsent
      /\ DeliveredInOrder /\ NothingResent
  BY DEF OrderInv
<1>t. \A p \in Path : DOMAIN log[p] = 1..Len(log[p]) /\ Len(log[p]) \in Nat /\ offsets[p] \in Nat
  BY DEF DataOK
<1>c. Carrying' => Carrying
  BY <1>v DEF Carrying
<1>1. FilesInOrder'
  BY <1>0, <1>v DEF FilesInOrder, InLogOrder
<1>2. OnlyLoggedKnown'
  <2>1. ASSUME NEW p \in Path PROVE Unsent(p) \subseteq logged
    BY <1>0, <1>t DEF FilesInOrder, InLogOrder, Unsent
  <2> QED
    BY <1>0, <1>v, <2>1 DEF OnlyLoggedKnown
<1>3. PacketInFiles'
  BY <1>0, <1>c, <1>v DEF PacketInFiles
<1>4. AheadUnsent'
  <2> SUFFICES ASSUME restarts = 0, NEW p \in Path, NEW i \in DOMAIN log[p],
                      i > offsets'[p]
               PROVE  log[p][i] \notin acked
    BY <1>0, <1>c, <1>v DEF AheadUnsent, UnsentBehind
  <2> QED
    BY <1>t, <1>v DEF EndOffset
<1>5. DeliveredInOrder'
  BY <1>0, <1>v DEF DeliveredInOrder, Settled, Valid
<1>6. NothingResent'
  BY <1>0, <1>v DEF NothingResent
<1> QED
  BY <1>1, <1>2, <1>3, <1>4, <1>5, <1>6 DEF OrderInv

LEMMA AppendShape ==
    ASSUME NEW S, NEW s \in Seq(S), NEW x \in S
    PROVE  /\ DOMAIN s = 1..Len(s) /\ Len(s) \in Nat
           /\ DOMAIN Append(s, x) = 1 .. Len(s) + 1
           /\ \A i \in 1..Len(s) : Append(s, x)[i] = s[i]
           /\ Append(s, x)[Len(s) + 1] = x
OBVIOUS

\* The number of a new line is greater than those of its source's lines.
LEMMA NewLineIsYoungest ==
    ASSUME DataOK, OnlyLoggedKnown, NEW q \in Path, NEW line \in Line, line.path = q,
           line.no = 1 + Cardinality({l \in logged : l.path = q})
    PROVE  /\ \A l \in logged : l.path = q => l.no \in Nat /\ l.no < line.no
           /\ line \notin logged /\ line.no \in Nat
<1> DEFINE Of(p) == {l \in logged : l.path = p}
           N(p) == Cardinality(Of(p))
<1>n. \A p \in Path : IsFiniteSet(Of(p)) /\ N(p) \in Nat
  <2> SUFFICES ASSUME NEW p \in Path PROVE IsFiniteSet(Of(p)) /\ N(p) \in Nat
    OBVIOUS
  <2>1. IsFiniteSet(logged) /\ Of(p) \subseteq logged
    BY DEF DataOK
  <2>2. IsFiniteSet(Of(p))
    BY <2>1, FS_Subset
  <2> QED
    BY <2>2, FS_CardinalityType
<1>y. \A l \in logged : l.path = q => l.no \in Nat /\ l.no < line.no
  <2> SUFFICES ASSUME NEW l \in logged, l.path = q PROVE l.no \in Nat /\ l.no < line.no
    OBVIOUS
  <2>1. l.no \in Nat /\ N(q) \in Nat
    BY <1>n DEF DataOK, Line
  <2>2. l.no <= N(q)
    BY DEF OnlyLoggedKnown
  <2>3. line.no = 1 + N(q)
    OBVIOUS
  <2> QED
    BY <2>1, <2>2, <2>3
<1>w. line \notin logged /\ line.no \in Nat
  BY <1>y DEF Line
<1> QED
  BY <1>w, <1>y

\* A new line is younger than all there is.
LEMMA OrderWriteStep ==
    ASSUME DataOK, OrderInv, NEW q \in Path, NEW line \in Line, line.path = q,
           line.no = 1 + Cardinality({l \in logged : l.path = q}),
           AppendLine(q, line)
    PROVE  OrderInv'
<1>v. /\ UNCHANGED <<pc, state, offsets, pending, packet, cp, tmp, staleCrash, stop,
                     acked, skipped, restarts>>
      /\ logged' = logged \cup {line}
      /\ raced' = IF pc = "rename" /\ cp = q THEN raced \cup {line} ELSE raced
  BY DEF AppendLine, localVars, batchVars, failVars, timerVars, compVars
<1>0. /\ FilesInOrder /\ OnlyLoggedKnown /\ PacketInFiles /\ AheadUnsent
      /\ DeliveredInOrder /\ NothingResent
  BY DEF OrderInv
<1> DEFINE Of(p) == {l \in logged : l.path = p}
           N(p) == Cardinality(Of(p))
<1>n. \A p \in Path : IsFiniteSet(Of(p)) /\ N(p) \in Nat
  <2> SUFFICES ASSUME NEW p \in Path PROVE IsFiniteSet(Of(p)) /\ N(p) \in Nat
    OBVIOUS
  <2>1. IsFiniteSet(logged) /\ Of(p) \subseteq logged
    BY DEF DataOK
  <2>2. IsFiniteSet(Of(p))
    BY <2>1, FS_Subset
  <2> QED
    BY <2>2, FS_CardinalityType
<1>y. \A l \in logged : l.path = q => l.no \in Nat /\ l.no < line.no
  BY <1>0, NewLineIsYoungest
<1>w. line \notin logged /\ line.no \in Nat
  BY <1>0, NewLineIsYoungest
<1>a. line \notin acked
  BY <1>0, <1>w DEF OnlyLoggedKnown
<1>c. Carrying' <=> Carrying
  BY <1>v DEF Carrying
<1>l. \A p \in Path : /\ log'[p] = IF p = q THEN Append(log[p], line) ELSE log[p]
                      /\ log[p] \in Seq(Line)
  BY DEF DataOK, AppendLine
<1>k. \A p \in Path : \A i \in DOMAIN log'[p] :
         \/ i \in DOMAIN log[p] /\ log'[p][i] = log[p][i]
         \/ p = q /\ i = Len(log[p]) + 1 /\ log'[p][i] = line
  <2> SUFFICES ASSUME NEW p \in Path, NEW i \in DOMAIN log'[p]
               PROVE  \/ i \in DOMAIN log[p] /\ log'[p][i] = log[p][i]
                      \/ p = q /\ i = Len(log[p]) + 1 /\ log'[p][i] = line
    OBVIOUS
  <2>0. /\ DOMAIN log[p] = 1..Len(log[p]) /\ Len(log[p]) \in Nat
        /\ DOMAIN Append(log[p], line) = 1 .. Len(log[p]) + 1
        /\ \A k \in 1..Len(log[p]) : Append(log[p], line)[k] = log[p][k]
        /\ Append(log[p], line)[Len(log[p]) + 1] = line
    BY <1>l, AppendShape
  <2>1. CASE p = q
    <3>1. log'[p] = Append(log[p], line)
      BY <1>l, <2>1
    <3>2. i \in 1..Len(log[p]) \/ i = Len(log[p]) + 1
      BY <2>0, <3>1
    <3> QED
      BY <2>0, <2>1, <3>1, <3>2
  <2>2. CASE p # q
    BY <1>l, <2>2
  <2> QED
    BY <2>1, <2>2
<1>m. \A p \in Path : \A i \in DOMAIN log[p] : i \in DOMAIN log'[p] /\ log'[p][i] = log[p][i]
  <2> SUFFICES ASSUME NEW p \in Path, NEW i \in DOMAIN log[p]
               PROVE  i \in DOMAIN log'[p] /\ log'[p][i] = log[p][i]
    OBVIOUS
  <2>0. /\ DOMAIN log[p] = 1..Len(log[p]) /\ Len(log[p]) \in Nat
        /\ DOMAIN Append(log[p], line) = 1 .. Len(log[p]) + 1
        /\ \A k \in 1..Len(log[p]) : Append(log[p], line)[k] = log[p][k]
        /\ Append(log[p], line)[Len(log[p]) + 1] = line
    BY <1>l, AppendShape
  <2>1. CASE p = q
    <3>1. log'[p] = Append(log[p], line)
      BY <1>l, <2>1
    <3>2. i \in 1..Len(log[p]) \/ i = Len(log[p]) + 1
      BY <2>0, <3>1
    <3> QED
      BY <2>0, <2>1, <3>1, <3>2
  <2>2. CASE p # q
    BY <1>l, <2>2
  <2> QED
    BY <2>1, <2>2
<1>1. FilesInOrder'
  <2>1. ASSUME NEW p \in Path, NEW i \in DOMAIN log'[p]
        PROVE  log'[p][i] \in logged' /\ log'[p][i].path = p
    BY <1>0, <1>k, <1>v DEF FilesInOrder, InLogOrder
  <2>2. ASSUME NEW p \in Path, NEW i \in DOMAIN log'[p], NEW j \in DOMAIN log'[p], i < j
        PROVE  log'[p][i].no < log'[p][j].no
    <3>1. \A k \in DOMAIN log[p] : k \in Nat /\ k < Len(log[p]) + 1
      BY <1>l
    <3>2. CASE j \in DOMAIN log[p] /\ log'[p][j] = log[p][j]
      <4>1. Len(log[p]) \in Nat
        BY <1>l
      <4>2. i # Len(log[p]) + 1
        BY <2>2, <3>1, <3>2, <4>1
      <4>3. i \in DOMAIN log[p] /\ log'[p][i] = log[p][i]
        BY <1>k, <4>2
      <4> QED
        BY <1>0, <2>2, <3>2, <4>3 DEF FilesInOrder, InLogOrder
    <3>3. CASE p = q /\ j = Len(log[p]) + 1 /\ log'[p][j] = line
      <4>1. Len(log[p]) \in Nat
        BY <1>l
      <4>2. i # Len(log[p]) + 1
        BY <2>2, <3>3, <4>1
      <4>3. i \in DOMAIN log[p] /\ log'[p][i] = log[p][i]
        BY <1>k, <4>2
      <4>4. log[p][i] \in logged /\ log[p][i].path = q
        BY <1>0, <3>3, <4>3 DEF FilesInOrder, InLogOrder
      <4> QED
        BY <1>y, <3>3, <4>3, <4>4
    <3> QED
      BY <1>k, <3>2, <3>3
  <2>3. ASSUME pc' = "rename" PROVE InLogOrder(tmp.lines, cp)'
    <3>1. InLogOrder(tmp.lines, cp)
      BY <1>0, <1>v, <2>3 DEF FilesInOrder
    <3> QED
      BY <1>v, <3>1 DEF InLogOrder
  <2> QED
    BY <2>1, <2>2, <2>3 DEF FilesInOrder, InLogOrder
<1>2. OnlyLoggedKnown'
  <2>1. acked' \cup skipped' \cup raced' \subseteq logged'
    BY <1>0, <1>v DEF OnlyLoggedKnown
  <2>2. ASSUME NEW l \in logged'
        PROVE  l.no <= Cardinality({x \in logged' : x.path = l.path})
    <3>1. CASE l.path = q
      <4>1. {x \in logged' : x.path = q} = Of(q) \cup {line}
        BY <1>v
      <4>2. line \notin Of(q) /\ IsFiniteSet(Of(q))
        BY <1>n, <1>w
      <4>3. Cardinality(Of(q) \cup {line}) = N(q) + 1
        BY <4>2, FS_AddElement
      <4>4. l.no <= N(q) + 1
        <5>1. N(q) \in Nat /\ line.no = N(q) + 1
          BY <1>n
        <5>2. l = line \/ (l \in logged /\ l.no \in Nat /\ l.no < line.no)
          BY <1>v, <1>y, <3>1
        <5> QED
          BY <5>1, <5>2
      <4> QED
        BY <3>1, <4>1, <4>3, <4>4
    <3>2. CASE l.path # q
      <4>1. {x \in logged' : x.path = l.path} = Of(l.path) /\ l \in logged
        BY <1>v, <3>2
      <4> QED
        BY <1>0, <4>1 DEF OnlyLoggedKnown
    <3> QED
      BY <3>1, <3>2
  <2> QED
    BY <2>1, <2>2 DEF OnlyLoggedKnown
<1>3. PacketInFiles'
  <2>1. \A l \in packet : l.path \in Path
    BY DEF DataOK, Line
  <2> QED
    BY <1>0, <1>c, <1>m, <1>v, <2>1 DEF PacketInFiles
<1>4. AheadUnsent'
  <2> SUFFICES ASSUME restarts = 0
               PROVE  /\ ~stop /\ state # "EXITED"
                      /\ \A p \in Path : UnsentBehind(log'[p], offsets[p])
                      /\ Carrying => \A p \in Path : UnsentBehind(log'[p], pending[p])
                      /\ pc = "rename" => UnsentBehind(tmp.lines, tmp.off)
    BY <1>c, <1>v DEF AheadUnsent, UnsentBehind
  <2>1. \A p \in Path : UnsentBehind(log'[p], offsets[p])
    BY <1>0, <1>a, <1>k DEF AheadUnsent, UnsentBehind
  <2>2. Carrying => \A p \in Path : UnsentBehind(log'[p], pending[p])
    BY <1>0, <1>a, <1>k DEF AheadUnsent, UnsentBehind
  <2> QED
    BY <1>0, <2>1, <2>2 DEF AheadUnsent
<1>5. DeliveredInOrder'
  <2> SUFFICES ASSUME ~staleCrash, NEW a \in logged', NEW b \in logged',
                      a.path = b.path, a.no < b.no, b \in acked
               PROVE  Settled(a) \/ a \in raced'
    BY <1>v DEF DeliveredInOrder, Settled, Valid
  <2>1. b \in logged
    BY <1>0 DEF OnlyLoggedKnown
  <2>2. a \in logged
    <3>1. b.path = q => b.no \in Nat /\ b.no < line.no
      BY <1>y, <2>1
    <3> QED
      BY <1>v, <1>w, <3>1
  <2> QED
    BY <1>0, <1>v, <2>1, <2>2 DEF DeliveredInOrder
<1>6. NothingResent'
  BY <1>0, <1>v DEF NothingResent
<1> QED
  BY <1>1, <1>2, <1>3, <1>4, <1>5, <1>6 DEF OrderInv

\* What the compaction copies was logged, in this order, and what it puts
\* behind its offset was not delivered.
LEMMA OrderCopyStep ==
    ASSUME DataOK, SafetyInv, OrderInv, CompactCopy PROVE OrderInv'
<1>v. /\ UNCHANGED <<log, state, offsets, pending, packet, cp, stop, staleCrash,
                     logged, acked, skipped, raced, restarts>>
      /\ pc = "copy" /\ pc' = "rename"
      /\ tmp' \in Compactions(log[cp], offsets[cp])
  BY DEF CompactCopy, Compacting, sharedVars
<1>0. /\ FilesInOrder /\ OnlyLoggedKnown /\ AheadUnsent /\ DeliveredInOrder
  BY DEF OrderInv
<1>c. ~Carrying'
  BY <1>v DEF Carrying, SafetyInv, PassOK
<1>t. /\ cp \in Path /\ log[cp] \in Seq(Line) /\ offsets[cp] \in Nat
      /\ \A i \in DOMAIN log[cp] : i \in Nat
  BY DEF DataOK
<1>k. /\ \A i \in DOMAIN tmp'.lines : \E a \in DOMAIN log[cp] :
            tmp'.lines[i] = log[cp][a] /\ (i > tmp'.off => a > offsets[cp])
      /\ \A i, j \in DOMAIN tmp'.lines : i < j =>
            \E a, b \in DOMAIN log[cp] :
               tmp'.lines[i] = log[cp][a] /\ tmp'.lines[j] = log[cp][b] /\ a < b
  <2>1. PICK f \in Seq(Line), o \in Nat :
           f = log[cp] /\ o = offsets[cp] /\ tmp' \in Compactions(f, o)
    BY <1>t, <1>v
  <2>2. PICK t \in Compactions(f, o) : t = tmp'
    BY <2>1
  <2>3. \A i \in DOMAIN t.lines : \E a \in DOMAIN f :
           t.lines[i] = f[a] /\ (i > t.off => a > o)
    BY CompactionOrder
  <2>4. \A i, j \in DOMAIN t.lines : i < j =>
           \E a, b \in DOMAIN f : t.lines[i] = f[a] /\ t.lines[j] = f[b] /\ a < b
    BY CompactionOrder
  <2> QED
    BY <2>1, <2>2, <2>3, <2>4
<1>f. InLogOrder(log[cp], cp)
  BY <1>0, <1>t DEF FilesInOrder
<1>1. FilesInOrder'
  <2>1. \A i \in DOMAIN tmp'.lines : tmp'.lines[i] \in logged /\ tmp'.lines[i].path = cp
    BY <1>f, <1>k DEF InLogOrder
  <2>2. \A i, j \in DOMAIN tmp'.lines : i < j => tmp'.lines[i].no < tmp'.lines[j].no
    BY <1>f, <1>k DEF InLogOrder
  <2> QED
    BY <1>0, <1>v, <2>1, <2>2 DEF FilesInOrder, InLogOrder
<1>2. OnlyLoggedKnown'
  BY <1>0, <1>v DEF OnlyLoggedKnown
<1>3. PacketInFiles'
  BY <1>c DEF PacketInFiles
<1>4. AheadUnsent'
  <2>1. ASSUME restarts = 0, NEW i \in DOMAIN tmp'.lines, i > tmp'.off
        PROVE  tmp'.lines[i] \notin acked
    BY <1>0, <1>k, <1>t, <2>1 DEF AheadUnsent, UnsentBehind
  <2> QED
    BY <1>0, <1>c, <1>v, <2>1 DEF AheadUnsent, UnsentBehind
<1>5. DeliveredInOrder'
  BY <1>0, <1>v DEF DeliveredInOrder, Settled, Valid
<1>6. NothingResent'
  BY <1>c DEF NothingResent, Carrying
<1> QED
  BY <1>1, <1>2, <1>3, <1>4, <1>5, <1>6 DEF OrderInv

\* The copy takes the place of the file.
LEMMA OrderRenameStep ==
    ASSUME DataOK, SafetyInv, OrderInv, CompactRename PROVE OrderInv'
<1>v. /\ UNCHANGED <<state, pending, packet, stop, staleCrash,
                     logged, acked, skipped, raced, restarts>>
      /\ pc = "rename" /\ pc' # "rename" /\ pc' # "bdsend"
      /\ log' = [log EXCEPT ![cp] = tmp.lines]
      /\ offsets' = [offsets EXCEPT ![cp] = tmp.off]
  BY DEF CompactRename, NextPath, sharedVars
<1>0. /\ FilesInOrder /\ OnlyLoggedKnown /\ AheadUnsent /\ DeliveredInOrder
  BY DEF OrderInv
<1>c. ~Carrying'
  BY <1>v DEF Carrying, SafetyInv, PassOK
<1>k. \A p \in Path : /\ log'[p] = IF p = cp THEN tmp.lines ELSE log[p]
                      /\ offsets'[p] = IF p = cp THEN tmp.off ELSE offsets[p]
  BY <1>v DEF DataOK
<1>1. FilesInOrder'
  <2> SUFFICES ASSUME NEW p \in Path PROVE InLogOrder(log[p], p)'
    BY <1>v DEF FilesInOrder
  <2>1. InLogOrder(log[p], p) /\ InLogOrder(tmp.lines, cp)
    BY <1>0, <1>v DEF FilesInOrder
  <2> QED
    BY <1>k, <1>v, <2>1 DEF InLogOrder
<1>2. OnlyLoggedKnown'
  BY <1>0, <1>v DEF OnlyLoggedKnown
<1>3. PacketInFiles'
  BY <1>c DEF PacketInFiles
<1>4. AheadUnsent'
  BY <1>0, <1>c, <1>k, <1>v DEF AheadUnsent, UnsentBehind
<1>5. DeliveredInOrder'
  BY <1>0, <1>v DEF DeliveredInOrder, Settled, Valid
<1>6. NothingResent'
  BY <1>c DEF NothingResent, Carrying
<1> QED
  BY <1>1, <1>2, <1>3, <1>4, <1>5, <1>6 DEF OrderInv

\* After a stop or a crash nothing is said of what is sent again.
LEMMA OrderStartStep ==
    ASSUME DataOK, OrderInv, Restart \/ Crash PROVE OrderInv'
<1>v. /\ UNCHANGED <<log, logged, acked, skipped, raced>>
      /\ staleCrash' = (staleCrash \/ stale)
      /\ pc' = "loop" /\ state' = "IDLE"
  BY DEF Restart, Crash, Start, fileVars
<1>0. FilesInOrder /\ OnlyLoggedKnown /\ AheadUnsent /\ DeliveredInOrder
  BY DEF OrderInv
<1>r. restarts' # 0
  <2>1. CASE Restart
    BY <1>0, <2>1 DEF Restart, AheadUnsent
  <2>2. CASE Crash
    BY <2>2 DEF Crash, DataOK
  <2> QED
    BY <2>1, <2>2
<1>1. FilesInOrder'
  BY <1>0, <1>v DEF FilesInOrder, InLogOrder
<1>2. OnlyLoggedKnown'
  BY <1>0, <1>v DEF OnlyLoggedKnown
<1>3. PacketInFiles'
  BY <1>v DEF PacketInFiles, Carrying
<1>4. AheadUnsent'
  BY <1>r DEF AheadUnsent
<1>5. DeliveredInOrder'
  BY <1>0, <1>v DEF DeliveredInOrder, Settled, Valid
<1>6. NothingResent'
  BY <1>r DEF NothingResent
<1> QED
  BY <1>1, <1>2, <1>3, <1>4, <1>5, <1>6 DEF OrderInv

LEMMA OrderInit == Init => OrderInv
<1> SUFFICES ASSUME Init PROVE OrderInv
  OBVIOUS
<1>1. /\ \A p \in Path : log[p] = <<>>
      /\ pc = "loop" /\ state = "IDLE" /\ stop = FALSE
      /\ logged = {} /\ acked = {} /\ skipped = {} /\ raced = {}
  BY DEF Init
<1>2. FilesInOrder /\ OnlyLoggedKnown /\ PacketInFiles
  BY <1>1 DEF FilesInOrder, InLogOrder, OnlyLoggedKnown, PacketInFiles, Carrying
<1>3. AheadUnsent /\ DeliveredInOrder /\ NothingResent
  BY <1>1 DEF AheadUnsent, UnsentBehind, DeliveredInOrder, NothingResent, Carrying
<1> QED
  BY <1>2, <1>3 DEF OrderInv

LEMMA OrderStep ==
    ASSUME DataOK, DataOK', SafetyInv, OrderInv, [Next]_vars PROVE OrderInv'
<1>p. PassOK
  BY DEF SafetyInv
<1>t. /\ offsets \in [Path -> Nat] /\ batchEnd \in [Path -> Nat]
      /\ \A p \in Path : Len(log[p]) \in Nat
  <2>1. offsets \in [Path -> Nat] /\ batchEnd \in [Path -> Nat] /\ log \in [Path -> Seq(Line)]
    BY DEF DataOK
  <2> QED
    BY <2>1
<1>u. pending' \in [Path -> Nat] /\ restarts \in Nat
  BY DEF DataOK
<1>r. restarts = 0 => ~stop /\ state # "EXITED"
  BY DEF OrderInv, AheadUnsent
<1> DEFINE Quiet ==
      /\ UNCHANGED <<log, offsets, logged, acked, skipped, raced>>
      /\ staleCrash => staleCrash'
      /\ restarts' = 0 => restarts = 0 /\ ~stop' /\ state' # "EXITED"
      /\ Carrying' => Carrying /\ UNCHANGED <<pending, packet>>
      /\ pc' = "rename" => pc = "rename" /\ UNCHANGED <<cp, tmp>>
<1>q. Quiet => OrderInv'
  BY OrderQuietStep
<1> USE DEF fileVars, batchVars, failVars, radioVars, timerVars,
        compVars, localVars, sharedVars, linkVars, histVars
<1>1. CASE SetSendPath \/ SetMesh \/ BtPowerOn \/ Link4GChanges \/ LinkBDChanges
  <2>1. Quiet
    BY <1>1, <1>r DEF SetSendPath, SetMesh, BtPowerOn, Link4GChanges, LinkBDChanges, Carrying
  <2> QED
    BY <1>q, <2>1
<1>2. CASE HandleSignal
  <2>1. restarts' # 0
    BY <1>2, <1>u DEF HandleSignal
  <2>2. Quiet
    BY <1>2, <2>1 DEF HandleSignal, Carrying
  <2> QED
    BY <1>q, <2>2
<1>3. CASE Clock
  <2>1. Quiet
    BY <1>3, <1>r DEF Clock, CoolDownEnds, HoldEnds, BdGapEnds, Untimed, Carrying
  <2> QED
    BY <1>q, <2>1
<1>4. CASE Try4GCoolingDown \/ Try4GNotReady \/ Try4GSendFails
  <2>1. Quiet
    BY <1>4, <1>r DEF AtState, Try4GCoolingDown, Try4GNotReady, Try4GSendFails, After4G,
                      Carrying
  <2> QED
    BY <1>q, <2>1
<1>5. CASE BdSendFails \/ BdWait \/ PowerDown \/ Exit
  <2>1. Quiet
    BY <1>5, <1>r DEF AtState, BdSendFails, BdWait, PowerDown, Exit, Carrying
  <2> QED
    BY <1>q, <2>1
<1>6. CASE CompactSkipped \/ SaveOpen \/ SaveWrite \/ SaveFails
  <2>1. Quiet
    BY <1>6, <1>p, <1>r DEF CompactSkipped, SaveOpen, SaveWrite, SaveFails, NextPath,
                            Compacting, Saving, SaveReturns, Carrying, PassOK
  <2> QED
    BY <1>q, <2>1
<1>7. CASE UNCHANGED vars
  <2>1. Quiet
    BY <1>7, <1>r DEF vars, Carrying
  <2> QED
    BY <1>q, <2>1
<1>8. CASE Try4GSent
  BY <1>8, OrderSentStep DEF Try4GSent, AtState, Carrying
<1>9. CASE BdSent
  BY <1>9, <1>p, OrderSentStep DEF BdSent, BdAdvances, Carrying
<1>10. CASE Idle
  <2>1. PICK to \in Packings4G(log, offsets) :
          \/ state' # "TRY_4G" /\ state' # "EXITED"
          \/ UNCHANGED <<state, pending, packet>>
          \/ pending' = to /\ packet' = PacketLines(log, offsets, to) /\ state' = "TRY_4G"
    BY <1>10 DEF Idle, AtState
  <2>2. /\ UNCHANGED <<log, pc, offsets, logged, acked, skipped, raced, staleCrash, restarts,
                       stop>>
        /\ pc = "loop" /\ state = "IDLE"
    BY <1>10 DEF Idle, AtState
  <2>3. CASE state' # "TRY_4G" /\ state' # "EXITED"
    <3>1. Quiet
      BY <1>r, <2>2, <2>3 DEF Carrying
    <3> QED
      BY <1>q, <3>1
  <2>4. CASE UNCHANGED <<state, pending, packet>>
    <3>1. Quiet
      BY <1>r, <2>2, <2>4 DEF Carrying
    <3> QED
      BY <1>q, <3>1
  <2>5. CASE pending' = to /\ packet' = PacketLines(log, offsets, to) /\ state' = "TRY_4G"
    <3>1. \A p \in Path : to[p] = offsets[p] \/ to[p] \in offsets[p]..Len(log[p])
      BY <1>t, Packing4GBounds
    <3> QED
      BY <1>u, <2>2, <2>5, <3>1, OrderPackStep
  <2> QED
    BY <2>1, <2>3, <2>4, <2>5
<1>11. CASE TryBD
  <2>1. PICK to \in PackingsBD(log, offsets, batchEnd) :
          \/ pc' = pc /\ state' # "TRY_BD"
          \/ pending' = to /\ packet' = PacketLines(log, offsets, to) /\ pc' = "bdsend"
    BY <1>11 DEF TryBD
  <2>2. /\ UNCHANGED <<log, offsets, logged, acked, skipped, raced, staleCrash, restarts, stop>>
        /\ pc = "loop" /\ state = "TRY_BD" /\ state' \in {"TRY_BD", "IDLE", "BD_WAIT"}
    BY <1>11 DEF TryBD, AtState
  <2>3. CASE pc' = pc /\ state' # "TRY_BD"
    <3>1. Quiet
      BY <1>r, <2>2, <2>3 DEF Carrying
    <3> QED
      BY <1>q, <3>1
  <2>4. CASE pending' = to /\ packet' = PacketLines(log, offsets, to) /\ pc' = "bdsend"
    <3>1. \A p \in Path : to[p] = offsets[p] \/ to[p] \in offsets[p]..Len(log[p])
      BY <1>t, PackingBDBounds
    <3> QED
      BY <1>u, <2>2, <2>4, <3>1, OrderPackStep
  <2> QED
    BY <2>1, <2>3, <2>4
<1>12. CASE NodePass
  BY <1>12, OrderNodeStep
<1>13. CASE CompactCopy
  BY <1>13, OrderCopyStep
<1>14. CASE CompactRename
  BY <1>14, OrderRenameStep
<1>15. CASE Restart \/ Crash
  BY <1>15, OrderStartStep
<1>16. CASE \E p \in Path, len \in Lens : Write(p, len)
  <2>1. PICK p \in Path, len \in Lens : Write(p, len)
    BY <1>16
  <2> DEFINE no == 1 + Cardinality({l \in logged : l.path = p})
             LineOf(f) == [path |-> p, no |-> no, frame |-> f, len |-> len]
  <2>2. PICK f : AppendLine(p, LineOf(f))
    BY <2>1 DEF Write
  <2> DEFINE line == LineOf(f)
  <2>3. line \in Line
    <3>1. line \in logged' /\ logged' \subseteq Line
      BY <2>2 DEF AppendLine, DataOK
    <3> QED
      BY <3>1
  <2>4. line.path = p /\ line.no = no
    OBVIOUS
  <2> HIDE DEF line
  <2> QED
    BY <2>2, <2>3, <2>4, OrderWriteStep DEF line
<1> QED
  BY <1>1, <1>2, <1>3, <1>4, <1>5, <1>6, <1>7, <1>8, <1>9, <1>10, <1>11, <1>12, <1>13,
     <1>14, <1>15, <1>16 DEF Next, MainStep, Environment

LEMMA OrderHolds == Spec => []OrderInv
<1>1. Init => OrderInv
  BY OrderInit
<1>2. (DataOK /\ SafetyInv) /\ (DataOK /\ SafetyInv)' /\ OrderInv /\ [Next]_vars => OrderInv'
  BY OrderStep
<1> QED
  BY <1>1, <1>2, SafetyHolds, PTL DEF Spec

\* A source's lines are delivered in the order they were logged, whatever the
\* packers take, the fallbacks do and the compactions move: when one is
\* acknowledged, every older one of its file is settled.
THEOREM DeliveryIsInOrder == Spec => []DeliveredInOrder
<1>1. OrderInv => DeliveredInOrder
  BY DEF OrderInv
<1> QED
  BY <1>1, OrderHolds, PTL

\* Until the first stop or crash no line is acknowledged and sent again.
THEOREM NothingIsResent == Spec => []NothingResent
<1>1. OrderInv => NothingResent
  BY DEF OrderInv
<1> QED
  BY <1>1, OrderHolds, PTL

-----------------------------------------------------------------------------
(* MainSend implements StoreAndForward.                                     *)

(* Sequences of lines in the order of their numbers.                       *)

\* In the order of their numbers.
Ordered(s) == \A i, j \in DOMAIN s : i < j => s[i].no < s[j].no

LinesOf(s) == {s[i] : i \in DOMAIN s}

\* The numbers by which lines are compared are numbers.
LEMMA LineNumbers ==
    ASSUME NEW s \in Seq(Line)
    PROVE  /\ DOMAIN s = 1..Len(s) /\ Len(s) \in Nat
           /\ \A i \in DOMAIN s : s[i] \in Line /\ s[i].no \in Nat
<1>1. DOMAIN s = 1..Len(s) /\ Len(s) \in Nat /\ \A i \in DOMAIN s : s[i] \in Line
  OBVIOUS
<1>2. \A line \in Line : line.no \in Nat
  BY DEF Line
<1> QED
  BY <1>1, <1>2

\* One of two sequences in order of the same lines agrees with the other.
LEMMA OrderedAgree ==
    ASSUME NEW s \in Seq(Line), NEW t \in Seq(Line), Ordered(s), Ordered(t),
           LinesOf(s) = LinesOf(t)
    PROVE  \A k \in DOMAIN s : k \in DOMAIN t /\ s[k] = t[k]
<1> DEFINE T == {k \in DOMAIN s : ~(k \in DOMAIN t /\ s[k] = t[k])}
<1>1. /\ DOMAIN s = 1..Len(s) /\ DOMAIN t = 1..Len(t) /\ Len(s) \in Nat /\ Len(t) \in Nat
      /\ \A i \in DOMAIN s : s[i].no \in Nat
      /\ \A i \in DOMAIN t : t[i].no \in Nat
  BY LineNumbers
<1> SUFFICES ASSUME T # {} PROVE FALSE
  OBVIOUS
<1>2. T \subseteq Nat
  BY <1>1
<1>3. PICK k \in T : \A y \in T : k <= y
  BY <1>2, LeastNumber
<1>4. \A i \in DOMAIN s : i < k => i \in DOMAIN t /\ s[i] = t[i]
  BY <1>1, <1>3
<1>5. PICK m \in DOMAIN t : s[k] = t[m]
  BY <1>3 DEF LinesOf
<1>6. ~(m < k)
  <2> SUFFICES ASSUME m < k PROVE FALSE
    OBVIOUS
  <2>1. m \in DOMAIN s /\ s[m] = t[m]
    BY <1>1, <1>3, <1>4
  <2>2. s[m].no < s[k].no
    BY <1>3, <2>1 DEF Ordered
  <2> QED
    BY <1>1, <1>3, <1>5, <2>1, <2>2
<1>7. k \in DOMAIN t
  BY <1>1, <1>3, <1>6
<1>8. PICK l \in DOMAIN s : t[k] = s[l]
  BY <1>7 DEF LinesOf
<1>9. ~(l < k)
  <2> SUFFICES ASSUME l < k PROVE FALSE
    OBVIOUS
  <2>1. l \in DOMAIN t /\ s[l] = t[l]
    BY <1>4
  <2>2. t[l].no < t[k].no
    BY <1>7, <2>1 DEF Ordered
  <2> QED
    BY <1>1, <1>7, <1>8, <2>1, <2>2
<1>10. m # k
  BY <1>3, <1>5, <1>7
<1>11. t[k].no < t[m].no
  BY <1>1, <1>3, <1>6, <1>7, <1>10 DEF Ordered
<1>12. l = k \/ s[k].no < s[l].no
  BY <1>1, <1>3, <1>9 DEF Ordered
<1> QED
  BY <1>1, <1>3, <1>5, <1>7, <1>8, <1>11, <1>12

\* A sequence in order is determined by its lines.
LEMMA OrderedUnique ==
    ASSUME NEW s \in Seq(Line), NEW t \in Seq(Line), Ordered(s), Ordered(t),
           LinesOf(s) = LinesOf(t)
    PROVE  s = t
<1>1. \A k \in DOMAIN s : k \in DOMAIN t /\ s[k] = t[k]
  BY OrderedAgree
<1>2. \A k \in DOMAIN t : k \in DOMAIN s /\ t[k] = s[k]
  BY OrderedAgree
<1>3. /\ s = [k \in DOMAIN s |-> s[k]] /\ t = [k \in DOMAIN t |-> t[k]]
  <2>1. s = [k \in 1..Len(s) |-> s[k]] /\ DOMAIN s = 1..Len(s)
    OBVIOUS
  <2>2. t = [k \in 1..Len(t) |-> t[k]] /\ DOMAIN t = 1..Len(t)
    OBVIOUS
  <2> QED
    BY <2>1, <2>2
<1>4. DOMAIN s = DOMAIN t
  BY <1>1, <1>2
<1> QED
  BY <1>1, <1>3, <1>4

\* The lines at some positions of an ordered sequence, put in order.
LEMMA LinesAtIs ==
    ASSUME NEW lines \in Seq(Line), Ordered(lines), NEW U, U \subseteq DOMAIN lines
    PROVE  /\ LinesAt(lines, U) \in Seq(Line)
           /\ Ordered(LinesAt(lines, U))
           /\ LinesOf(LinesAt(lines, U)) = {lines[i] : i \in U}
<1>1. DOMAIN lines = 1..Len(lines) /\ Len(lines) \in Nat /\ \A i \in DOMAIN lines : lines[i] \in Line
  BY LineNumbers
<1>2. IsFiniteSet(U) /\ U \subseteq Nat
  <2>1. IsFiniteSet(1..Len(lines))
    BY <1>1, FS_Interval
  <2> QED
    BY <1>1, <2>1, FS_Subset
<1> DEFINE c == Cardinality(U)
           f == CHOOSE f \in InOrder(U) : TRUE
<1>3. c \in Nat
  BY <1>2, FS_CardinalityType
<1>4. f \in InOrder(U)
  BY <1>2, InOrderExists
<1> HIDE DEF f
<1>5. f \in [1..c -> U] /\ \A i, j \in 1..c : i < j => f[i] < f[j]
  BY <1>4 DEF InOrder
<1>6. LinesAt(lines, U) = [i \in 1..c |-> lines[f[i]]]
  BY DEF LinesAt, f
<1> HIDE DEF c
<1>7. \A i \in 1..c : f[i] \in U /\ lines[f[i]] \in Line /\ f[i] \in Nat
  BY <1>1, <1>2, <1>5
<1>8. LinesAt(lines, U) \in Seq(Line) /\ DOMAIN LinesAt(lines, U) = 1..c
  BY <1>3, <1>6, <1>7
<1>9. Ordered(LinesAt(lines, U))
  <2> SUFFICES ASSUME NEW i \in 1..c, NEW j \in 1..c, i < j
               PROVE  lines[f[i]].no < lines[f[j]].no
    BY <1>6, <1>8 DEF Ordered
  <2>1. f[i] < f[j] /\ f[i] \in DOMAIN lines /\ f[j] \in DOMAIN lines
    BY <1>5, <1>7
  <2> QED
    BY <2>1 DEF Ordered
<1>10. f \in Surjection(1..c, U)
  <2>1. f \in Injection(1..c, U)
    <3> SUFFICES ASSUME NEW i \in 1..c, NEW j \in 1..c, f[i] = f[j] PROVE i = j
      BY <1>5 DEF Injection, IsInjective
    <3>1. ~(i < j) /\ ~(j < i)
      BY <1>3, <1>5, <1>7
    <3> QED
      BY <1>3, <3>1
  <2>2. Cardinality(1..c) = c
    BY <1>3, FS_Interval
  <2>3. Cardinality(U) = c
    BY DEF c
  <2> QED
    BY <1>2, <2>1, <2>2, <2>3, FS_Injection
<1>11. LinesOf(LinesAt(lines, U)) = {lines[i] : i \in U}
  <2>1. ASSUME NEW x \in LinesOf(LinesAt(lines, U)) PROVE x \in {lines[i] : i \in U}
    BY <1>6, <1>7, <1>8, <2>1 DEF LinesOf
  <2>2. ASSUME NEW i \in U PROVE lines[i] \in LinesOf(LinesAt(lines, U))
    <3>1. PICK k \in 1..c : f[k] = i
      BY <1>10 DEF Surjection
    <3>2. LinesAt(lines, U)[k] = lines[i]
      BY <1>6, <3>1
    <3> QED
      BY <1>8, <3>2 DEF LinesOf
  <2> QED
    BY <2>1, <2>2
<1> QED
  BY <1>8, <1>9, <1>11

\* A part of a sequence in order.
LEMMA PartInOrder ==
    ASSUME NEW s \in Seq(Line), Ordered(s), NEW a \in Nat, NEW b \in Nat,
           1 <= a, b <= Len(s)
    PROVE  /\ SubSeq(s, a, b) \in Seq(Line)
           /\ Ordered(SubSeq(s, a, b))
           /\ LinesOf(SubSeq(s, a, b)) = {s[i] : i \in a..b}
<1>1. DOMAIN s = 1..Len(s) /\ Len(s) \in Nat /\ \A i \in DOMAIN s : s[i] \in Line
  BY LineNumbers
<1> DEFINE r == SubSeq(s, a, b)
           l == IF a <= b THEN b - a + 1 ELSE 0
<1>2. /\ r \in Seq(Line) /\ DOMAIN r = 1..l /\ l \in Nat
      /\ \A i \in 1..l : r[i] = s[a + i - 1] /\ a + i - 1 \in a..b
  BY <1>1
<1> HIDE DEF r, l
<1>3. Ordered(r)
  <2> SUFFICES ASSUME NEW i \in 1..l, NEW j \in 1..l, i < j PROVE r[i].no < r[j].no
    BY <1>2 DEF Ordered
  <2>1. /\ a + i - 1 < a + j - 1 /\ a + i - 1 \in DOMAIN s /\ a + j - 1 \in DOMAIN s
    BY <1>1, <1>2
  <2>2. s[a + i - 1].no < s[a + j - 1].no
    BY <2>1 DEF Ordered
  <2> QED
    BY <1>2, <2>2
<1>4. LinesOf(r) = {s[i] : i \in a..b}
  <2>1. ASSUME NEW x \in LinesOf(r) PROVE x \in {s[i] : i \in a..b}
    BY <1>2, <2>1 DEF LinesOf
  <2>2. ASSUME NEW i \in a..b PROVE s[i] \in LinesOf(r)
    <3>1. i - a + 1 \in 1..l /\ a + (i - a + 1) - 1 = i
      BY DEF l
    <3>2. r[i - a + 1] = s[i]
      BY <1>2, <3>1
    <3> QED
      BY <1>2, <3>1, <3>2 DEF LinesOf
  <2> QED
    BY <2>1, <2>2
<1> QED
  BY <1>2, <1>3, <1>4 DEF r

\* Taking the oldest lines away leaves an end of the sequence.
LEMMA OldestGone ==
    ASSUME NEW s \in Seq(Line), NEW t \in Seq(Line), Ordered(s), Ordered(t),
           LinesOf(t) \subseteq LinesOf(s),
           \A a \in LinesOf(s) \ LinesOf(t), b \in LinesOf(t) : a.no < b.no
    PROVE  /\ Len(s) - Len(t) \in 0..Len(s)
           /\ t = SubSeq(s, Len(s) - Len(t) + 1, Len(s))
           /\ LinesOf(s) \ LinesOf(t) = {s[i] : i \in 1 .. Len(s) - Len(t)}
<1>1. /\ DOMAIN s = 1..Len(s) /\ Len(s) \in Nat /\ \A i \in DOMAIN s : s[i].no \in Nat
      /\ DOMAIN t = 1..Len(t) /\ Len(t) \in Nat
  BY LineNumbers
<1> DEFINE Kept == {i \in DOMAIN s : s[i] \in LinesOf(t)}
<1>2. \E k \in 0..Len(s) : /\ \A i \in 1..k : s[i] \notin LinesOf(t)
                          /\ \A i \in k + 1 .. Len(s) : s[i] \in LinesOf(t)
  <2>1. CASE Kept = {}
    BY <1>1, <2>1
  <2>2. CASE Kept # {}
    <3>1. Kept \subseteq Nat
      BY <1>1
    <3>2. PICK m \in Kept : \A i \in Kept : m <= i
      BY <2>2, <3>1, LeastNumber
    <3>3. m - 1 \in 0..Len(s) /\ m \in 1..Len(s)
      BY <1>1, <3>2
    <3>4. \A i \in 1 .. m - 1 : s[i] \notin LinesOf(t)
      <4> SUFFICES ASSUME NEW i \in 1 .. m - 1 PROVE s[i] \notin LinesOf(t)
        OBVIOUS
      <4>1. i \in DOMAIN s /\ ~(m <= i)
        BY <1>1, <3>3
      <4> QED
        BY <3>2, <4>1
    <3>5. ASSUME NEW i \in m - 1 + 1 .. Len(s), s[i] \notin LinesOf(t) PROVE FALSE
      <4>1. i \in DOMAIN s /\ m <= i /\ m \in DOMAIN s /\ s[m] \in LinesOf(t)
        BY <1>1, <3>2, <3>3
      <4>2. m < i
        BY <1>1, <3>5, <4>1
      <4>3. s[m].no < s[i].no
        BY <4>1, <4>2 DEF Ordered
      <4>4. s[i] \in LinesOf(s)
        BY <4>1 DEF LinesOf
      <4>5. s[i].no < s[m].no
        BY <3>5, <4>1, <4>4
      <4>6. s[i].no \in Nat /\ s[m].no \in Nat
        BY <1>1, <4>1
      <4> QED
        BY <4>3, <4>5, <4>6
    <3> QED
      BY <3>3, <3>4, <3>5
  <2> QED
    BY <2>1, <2>2
<1>3. PICK k \in 0..Len(s) : /\ \A i \in 1..k : s[i] \notin LinesOf(t)
                            /\ \A i \in k + 1 .. Len(s) : s[i] \in LinesOf(t)
  BY <1>2
<1> DEFINE r == SubSeq(s, k + 1, Len(s))
<1>4. r \in Seq(Line) /\ Ordered(r) /\ LinesOf(r) = {s[i] : i \in k + 1 .. Len(s)}
  BY <1>1, PartInOrder
<1>5. Len(r) = Len(s) - k
  <2>1. Len(r) = IF k + 1 <= Len(s) THEN Len(s) - (k + 1) + 1 ELSE 0
    BY <1>1
  <2>2. k \in Int /\ Len(s) \in Int /\ k <= Len(s)
    BY <1>1, <1>3
  <2> HIDE DEF r
  <2> QED
    BY <2>1, <2>2
<1> HIDE DEF r
<1>6. LinesOf(r) = LinesOf(t)
  <2>1. ASSUME NEW x \in LinesOf(t) PROVE x \in {s[i] : i \in k + 1 .. Len(s)}
    <3>1. PICK i \in DOMAIN s : x = s[i]
      BY <2>1 DEF LinesOf
    <3> QED
      BY <1>1, <1>3, <2>1, <3>1
  <2> QED
    BY <1>3, <1>4, <2>1
<1>7. r = t
  BY <1>4, <1>6, OrderedUnique
<1>8. Len(s) - Len(t) = k
  <2>1. Len(t) = Len(s) - k /\ k \in Int
    BY <1>5, <1>7
  <2> QED
    BY <1>1, <2>1
<1>9. LinesOf(s) \ LinesOf(t) = {s[i] : i \in 1..k}
  <2>1. ASSUME NEW x \in LinesOf(s), x \notin LinesOf(t) PROVE x \in {s[i] : i \in 1..k}
    <3>1. PICK i \in DOMAIN s : x = s[i]
      BY <2>1 DEF LinesOf
    <3> QED
      BY <1>1, <1>3, <2>1, <3>1
  <2>2. ASSUME NEW i \in 1..k PROVE s[i] \in LinesOf(s)
    BY <1>1 DEF LinesOf
  <2> QED
    BY <1>3, <2>1, <2>2
<1> QED
  BY <1>7, <1>8, <1>9 DEF r

\* Taking the youngest lines away leaves a beginning of the sequence.
LEMMA YoungestGone ==
    ASSUME NEW s \in Seq(Line), NEW t \in Seq(Line), Ordered(s), Ordered(t),
           LinesOf(t) \subseteq LinesOf(s),
           \A a \in LinesOf(s) \ LinesOf(t), b \in LinesOf(t) : b.no < a.no
    PROVE  /\ Len(t) \in 0..Len(s)
           /\ t = SubSeq(s, 1, Len(t))
<1>1. /\ DOMAIN s = 1..Len(s) /\ Len(s) \in Nat /\ \A i \in DOMAIN s : s[i].no \in Nat
      /\ DOMAIN t = 1..Len(t) /\ Len(t) \in Nat
  BY LineNumbers
<1> DEFINE Lost == {i \in DOMAIN s : s[i] \notin LinesOf(t)}
<1>2. \E k \in 0..Len(s) : /\ \A i \in 1..k : s[i] \in LinesOf(t)
                          /\ \A i \in k + 1 .. Len(s) : s[i] \notin LinesOf(t)
  <2>1. CASE Lost = {}
    BY <1>1, <2>1
  <2>2. CASE Lost # {}
    <3>1. Lost \subseteq Nat
      BY <1>1
    <3>2. PICK m \in Lost : \A i \in Lost : m <= i
      BY <2>2, <3>1, LeastNumber
    <3>3. m - 1 \in 0..Len(s) /\ m \in 1..Len(s)
      BY <1>1, <3>2
    <3>4. \A i \in 1 .. m - 1 : s[i] \in LinesOf(t)
      <4> SUFFICES ASSUME NEW i \in 1 .. m - 1 PROVE s[i] \in LinesOf(t)
        OBVIOUS
      <4>1. i \in DOMAIN s /\ ~(m <= i)
        BY <1>1, <3>3
      <4> QED
        BY <3>2, <4>1
    <3>5. ASSUME NEW i \in m - 1 + 1 .. Len(s), s[i] \in LinesOf(t) PROVE FALSE
      <4>1. i \in DOMAIN s /\ m <= i /\ m \in DOMAIN s /\ s[m] \notin LinesOf(t)
        BY <1>1, <3>2, <3>3
      <4>2. m < i
        BY <1>1, <3>5, <4>1
      <4>3. s[m].no < s[i].no
        BY <4>1, <4>2 DEF Ordered
      <4>4. s[m] \in LinesOf(s)
        BY <4>1 DEF LinesOf
      <4>5. s[i].no < s[m].no
        BY <3>5, <4>1, <4>4
      <4>6. s[i].no \in Nat /\ s[m].no \in Nat
        BY <1>1, <4>1
      <4> QED
        BY <4>3, <4>5, <4>6
    <3> QED
      BY <3>3, <3>4, <3>5
  <2> QED
    BY <2>1, <2>2
<1>3. PICK k \in 0..Len(s) : /\ \A i \in 1..k : s[i] \in LinesOf(t)
                            /\ \A i \in k + 1 .. Len(s) : s[i] \notin LinesOf(t)
  BY <1>2
<1> DEFINE r == SubSeq(s, 1, k)
<1>4. r \in Seq(Line) /\ Ordered(r) /\ LinesOf(r) = {s[i] : i \in 1..k}
  BY <1>1, PartInOrder
<1>5. Len(r) = k
  BY <1>1
<1> HIDE DEF r
<1>6. LinesOf(r) = LinesOf(t)
  <2>1. ASSUME NEW x \in LinesOf(t) PROVE x \in {s[i] : i \in 1..k}
    <3>1. PICK i \in DOMAIN s : x = s[i]
      BY <2>1 DEF LinesOf
    <3> QED
      BY <1>1, <1>3, <2>1, <3>1
  <2> QED
    BY <1>3, <1>4, <2>1
<1>7. r = t
  BY <1>4, <1>6, OrderedUnique
<1> QED
  BY <1>5, <1>7 DEF r

\* A line younger than all of them goes to the end.
LEMMA YoungestLast ==
    ASSUME NEW s \in Seq(Line), NEW t \in Seq(Line), Ordered(s), Ordered(t),
           NEW line \in Line, LinesOf(t) = LinesOf(s) \cup {line},
           \A a \in LinesOf(s) : a.no < line.no
    PROVE  /\ t = Append(s, line) /\ t # <<>> /\ t[Len(t)] = line
<1>1. DOMAIN s = 1..Len(s) /\ Len(s) \in Nat
  BY LineNumbers
<1> DEFINE r == Append(s, line)
<1>2. /\ r \in Seq(Line) /\ DOMAIN r = 1 .. Len(s) + 1 /\ Len(r) = Len(s) + 1
      /\ \A i \in 1..Len(s) : r[i] = s[i]
      /\ r[Len(s) + 1] = line
  OBVIOUS
<1> HIDE DEF r
<1>3. Ordered(r)
  <2> SUFFICES ASSUME NEW i \in 1 .. Len(s) + 1, NEW j \in 1 .. Len(s) + 1, i < j
               PROVE  r[i].no < r[j].no
    BY <1>2 DEF Ordered
  <2>1. i \in 1..Len(s) /\ r[i] = s[i]
    BY <1>1, <1>2
  <2>2. CASE j \in 1..Len(s)
    <3>1. s[i].no < s[j].no
      BY <1>1, <2>1, <2>2 DEF Ordered
    <3> QED
      BY <1>2, <2>1, <2>2, <3>1
  <2>3. CASE j = Len(s) + 1
    <3>1. s[i] \in LinesOf(s)
      BY <1>1, <2>1 DEF LinesOf
    <3> QED
      BY <1>2, <2>1, <2>3, <3>1
  <2> QED
    BY <1>1, <2>2, <2>3
<1>4. LinesOf(r) = LinesOf(s) \cup {line}
  <2>1. ASSUME NEW x \in LinesOf(r) PROVE x \in LinesOf(s) \cup {line}
    BY <1>1, <1>2, <2>1 DEF LinesOf
  <2>2. ASSUME NEW x \in LinesOf(s) PROVE x \in LinesOf(r)
    <3>1. PICK i \in 1..Len(s) : x = s[i]
      BY <1>1, <2>2 DEF LinesOf
    <3>2. i \in DOMAIN r /\ r[i] = x
      BY <1>1, <1>2, <3>1
    <3> QED
      BY <3>2 DEF LinesOf
  <2>3. line \in LinesOf(r)
    <3>1. Len(s) + 1 \in DOMAIN r
      BY <1>1, <1>2
    <3> QED
      BY <1>2, <3>1 DEF LinesOf
  <2> QED
    BY <2>1, <2>2, <2>3
<1>5. r = t
  BY <1>2, <1>3, <1>4, OrderedUnique
<1> QED
  BY <1>1, <1>2, <1>5 DEF r

-----------------------------------------------------------------------------
(* The queues of the store.                                                *)

\* The lines of a file that are not settled: what its queue holds.
Open(p) == {log[p][i] : i \in Unsettled(p)}

LEMMA WaitingIs ==
    ASSUME DataOK, FilesInOrder, NEW p \in Path
    PROVE  Waiting(p) \in Seq(Line) /\ Ordered(Waiting(p)) /\ LinesOf(Waiting(p)) = Open(p)
<1>1. log[p] \in Seq(Line)
  BY DEF DataOK
<1>2. Ordered(log[p])
  BY DEF FilesInOrder, InLogOrder, Ordered
<1>3. Unsettled(p) \subseteq DOMAIN log[p]
  BY DEF Unsettled
<1> QED
  BY <1>1, <1>2, <1>3, LinesAtIs DEF Waiting, Open

LEMMA WaitingNextIs ==
    ASSUME DataOK', FilesInOrder', NEW p \in Path
    PROVE  (Waiting(p) \in Seq(Line) /\ Ordered(Waiting(p)) /\ LinesOf(Waiting(p)) = Open(p))'
<1> DEFINE file == log'[p]
           U == Unsettled(p)'
<1>1. file \in Seq(Line)
  BY DEF DataOK
<1>2. Ordered(file)
  BY DEF FilesInOrder, InLogOrder, Ordered
<1>3. U \subseteq DOMAIN file
  BY DEF Unsettled
<1>4. /\ LinesAt(file, U) \in Seq(Line) /\ Ordered(LinesAt(file, U))
      /\ LinesOf(LinesAt(file, U)) = {file[i] : i \in U}
  <2> HIDE DEF file, U
  <2> QED
    BY <1>1, <1>2, <1>3, LinesAtIs
<1> QED
  BY <1>4 DEF Waiting, Open

\* A queue stays as it is when its lines do.
LEMMA WaitingSame ==
    ASSUME DataOK, DataOK', FilesInOrder, FilesInOrder', NEW p \in Path,
           Open(p)' = Open(p)
    PROVE  Waiting(p)' = Waiting(p)
<1> DEFINE s == Waiting(p)
           t == Waiting(p)'
<1>1. s \in Seq(Line) /\ Ordered(s) /\ LinesOf(s) = Open(p)
  BY WaitingIs
<1>2. t \in Seq(Line) /\ Ordered(t) /\ LinesOf(t) = Open(p)
  BY WaitingNextIs DEF Ordered, LinesOf
<1> HIDE DEF s, t
<1>3. s = t
  BY <1>1, <1>2, OrderedUnique
<1> QED
  BY <1>3 DEF s, t

\* The mapped variables while the store is not broken.
LEMMA Unbroken ==
    ASSUME ~staleCrash, ~staleCrash'
    PROVE  /\ Queues = [p \in Path |-> Waiting(p)]
           /\ Queues' = [p \in Path |-> Waiting(p)']
           /\ Delivered = acked /\ Delivered' = acked'
           /\ Abandoned = {line \in skipped \ acked : Valid(line)}
           /\ Abandoned' = {line \in skipped' \ acked' : Valid(line)}
  BY DEF Queues, Delivered, Abandoned, Valid

\* Steps that change no file and settle no line.
LEMMA QuietMap ==
    ASSUME UNCHANGED <<log, acked, skipped, staleCrash>>
    PROVE  UNCHANGED Store!vars
<1>1. \A p \in Path : Waiting(p)' = Waiting(p)
  BY DEF Waiting, Unsettled, Settled, Valid
<1>2. UNCHANGED Queues
  BY <1>1 DEF Queues
<1>3. UNCHANGED <<Delivered, Abandoned>>
  BY DEF Delivered, Abandoned, Valid
<1> QED
  BY <1>2, <1>3 DEF Store!vars

\* The packet is acknowledged: the oldest lines are delivered.
LEMMA SentMap ==
    ASSUME DataOK, DataOK', SafetyInv, OrderInv, OrderInv', PacketValid, Carrying,
           ~staleCrash, UNCHANGED <<log, skipped, staleCrash>>, acked' = acked \cup packet
    PROVE  Store!Next
<1>f. FilesInOrder /\ FilesInOrder' /\ PacketInFiles /\ PacketCovers
  BY DEF OrderInv, SafetyInv
<1>t. \A line \in packet : line.path \in Path
  BY DEF DataOK, Line
<1>1. \A p \in Path : Open(p)' = Open(p) \ packet
  BY DEF Open, Unsettled, Settled, Valid
<1>2. ASSUME NEW line \in packet
      PROVE  \/ \E p \in Path : line \in Open(p)
             \/ line \in acked
             \/ line \in Abandoned
  <2>1. PICK i \in DOMAIN log[line.path] : log[line.path][i] = line
    BY <1>f, <1>t DEF PacketInFiles
  <2>2. Valid(line)
    BY DEF PacketValid
  <2> QED
    BY <1>t, <2>1, <2>2 DEF Open, Unsettled, Settled, Abandoned
<1>3. ASSUME NEW p \in Path, NEW a \in Open(p) \ (Open(p)'), NEW b \in Open(p)'
      PROVE  a.no < b.no
  <2>1. a \in packet
    BY <1>1, <1>3
  <2>2. b \in Open(p) /\ b \notin packet
    BY <1>1, <1>3
  <2>3. PICK j \in DOMAIN log[p] : log[p][j] = b /\ ~Settled(b)
    BY <2>2 DEF Open, Unsettled
  <2>4. PICK k \in DOMAIN log[p] : log[p][k] = a
    BY <1>3 DEF Open, Unsettled
  <2>5. a.path = p
    BY <1>f, <2>4 DEF FilesInOrder, InLogOrder
  <2>6. PICK i \in DOMAIN log[p] : i <= pending[p] /\ log[p][i] = a
    BY <1>f, <2>1, <2>5 DEF PacketInFiles
  <2>7. ~(j \in 1..pending[p])
    BY <1>f, <2>2, <2>3 DEF PacketCovers
  <2>8. pending[p] \in Nat /\ i \in Nat /\ j \in Nat /\ j >= 1
    <3>1. pending[p] \in Nat /\ log[p] \in Seq(Line)
      BY DEF DataOK
    <3> QED
      BY <3>1
  <2>9. i < j
    BY <2>6, <2>7, <2>8
  <2> QED
    BY <1>f, <2>3, <2>6, <2>9 DEF FilesInOrder, InLogOrder
<1> DEFINE n == [p \in Path |-> Len(Waiting(p)) - Len(Waiting(p)')]
           late == packet \cap Abandoned
<1>4. ASSUME NEW p \in Path
      PROVE  /\ n[p] \in 0..Len(Waiting(p))
             /\ Waiting(p)' = SubSeq(Waiting(p), n[p] + 1, Len(Waiting(p)))
             /\ Open(p) \cap packet = {Waiting(p)[i] : i \in 1..n[p]}
  <2> DEFINE s == Waiting(p)
             t == Waiting(p)'
             O == Open(p)
             O1 == Open(p)'
  <2>1. s \in Seq(Line) /\ Ordered(s) /\ LinesOf(s) = O
    BY <1>f, WaitingIs
  <2>2. t \in Seq(Line) /\ Ordered(t) /\ LinesOf(t) = O1
    BY <1>f, WaitingNextIs DEF Ordered, LinesOf
  <2>3. O1 \subseteq O /\ O \ O1 = O \cap packet
    BY <1>1
  <2>4. \A a \in O \ O1, b \in O1 : a.no < b.no
    BY <1>3
  <2> HIDE DEF s, t, O, O1
  <2>5. /\ Len(s) - Len(t) \in 0..Len(s)
        /\ t = SubSeq(s, Len(s) - Len(t) + 1, Len(s))
        /\ LinesOf(s) \ LinesOf(t) = {s[i] : i \in 1 .. Len(s) - Len(t)}
    BY <2>1, <2>2, <2>3, <2>4, OldestGone
  <2>6. n[p] = Len(s) - Len(t)
    BY DEF s, t
  <2> HIDE DEF n
  <2>7. /\ n[p] \in 0..Len(s)
        /\ t = SubSeq(s, n[p] + 1, Len(s))
        /\ O \cap packet = {s[i] : i \in 1..n[p]}
    BY <2>1, <2>2, <2>3, <2>5, <2>6
  <2> QED
    BY <2>7 DEF s, t, O
<1>u. /\ Queues = [p \in Path |-> Waiting(p)]
      /\ Queues' = [p \in Path |-> Waiting(p)']
      /\ Delivered = acked /\ Delivered' = acked'
      /\ Abandoned = {line \in skipped \ acked : Valid(line)}
      /\ Abandoned' = {line \in skipped' \ acked' : Valid(line)}
  BY Unbroken
<1>5. n \in [Path -> {Len(Queues[s]) - Len(Queues'[s]) : s \in Path}]
  BY <1>u
<1> HIDE DEF n
<1>6. Queues' = [s \in Path |-> SubSeq(Queues[s], n[s] + 1, Len(Queues[s]))]
  BY <1>4, <1>u
<1>7. \A s \in Path : n[s] \in 0 .. Len(Queues[s])
  BY <1>4, <1>u
<1> DEFINE oldest == UNION {{Queues[s][i] : i \in 1 .. n[s]} : s \in Path}
<1>8. Delivered' = Delivered \cup oldest \cup late
  <2>1. oldest = UNION {Open(p) \cap packet : p \in Path}
    <3>1. \A s \in Path : {Queues[s][i] : i \in 1 .. n[s]} = Open(s) \cap packet
      BY <1>4, <1>u
    <3> QED
      BY <3>1
  <2> DEFINE taken == UNION {Open(p) \cap packet : p \in Path}
  <2>2. ASSUME NEW line \in packet PROVE line \in acked \cup taken \cup late
    <3>1. (\E p \in Path : line \in Open(p)) => line \in taken
      OBVIOUS
    <3> QED
      BY <1>2, <3>1
  <2>3. taken \subseteq packet /\ late \subseteq packet
    OBVIOUS
  <2> HIDE DEF taken, late
  <2>4. acked \cup packet = acked \cup taken \cup late
    BY <2>2, <2>3
  <2>5. oldest = taken
    BY <2>1 DEF taken
  <2> HIDE DEF oldest
  <2> QED
    BY <1>u, <2>4, <2>5
<1>9. Abandoned' = Abandoned \ late
  BY <1>u
<1>10. late \in SUBSET Abandoned
  OBVIOUS
<1> HIDE DEF late
<1>11. Store!Deliver(n, late)
  <2>1. oldest = Store!Oldest(n)
    BY DEF Store!Oldest
  <2> HIDE DEF oldest
  <2>2. Delivered' = Delivered \cup Store!Oldest(n) \cup late
    BY <1>8, <2>1
  <2> QED
    BY <1>6, <1>7, <1>9, <1>10, <2>2 DEF Store!Deliver
<1> QED
  BY <1>5, <1>10, <1>11 DEF Store!Next

\* As a LoRa node the gateway gives up every line that waits.
LEMMA NodeMap ==
    ASSUME DataOK, DataOK', SafetyInv, OrderInv, OrderInv', NodePass, ~staleCrash
    PROVE  Store!Next
<1>f. FilesInOrder /\ FilesInOrder' /\ BehindSettled
  BY DEF OrderInv, SafetyInv
<1>v. /\ UNCHANGED <<log, acked, staleCrash>>
      /\ skipped' = skipped \cup UNION {Unsent(p) : p \in Path}
  BY DEF NodePass, fileVars
<1>t. \A p \in Path : /\ DOMAIN log[p] = 1..Len(log[p]) /\ Len(log[p]) \in Nat
                      /\ offsets[p] \in Nat
  BY DEF DataOK
<1>1. ASSUME NEW p \in Path, NEW i \in DOMAIN log[p]
      PROVE  Settled(log[p][i]) \/ log[p][i] \in Unsent(p)
  <2>1. i \in 1..offsets[p] \/ i \in offsets[p] + 1 .. Len(log[p])
    BY <1>t
  <2> QED
    BY <1>f, <2>1 DEF BehindSettled, Unsent
<1>2. ASSUME NEW p \in Path PROVE Waiting(p)' = <<>>
  <2>1. Open(p)' = {}
    BY <1>1, <1>v DEF Open, Unsettled, Settled, Valid
  <2> DEFINE t == Waiting(p)'
  <2>2. t \in Seq(Line) /\ LinesOf(t) = {}
    BY <1>f, <2>1, WaitingNextIs DEF LinesOf
  <2> HIDE DEF t
  <2>3. DOMAIN t = {} /\ DOMAIN t = 1..Len(t) /\ Len(t) \in Nat
    <3>1. \A i \in DOMAIN t : t[i] \in LinesOf(t)
      BY DEF LinesOf
    <3> QED
      BY <2>2, <3>1, LineNumbers
  <2>4. Len(t) = 0
    BY <2>3
  <2>5. t = <<>>
    BY <2>2, <2>4
  <2> QED
    BY <2>5 DEF t
<1>u. /\ Queues = [p \in Path |-> Waiting(p)]
      /\ Queues' = [p \in Path |-> Waiting(p)']
      /\ Delivered = acked /\ Delivered' = acked'
      /\ Abandoned = {line \in skipped \ acked : Valid(line)}
      /\ Abandoned' = {line \in skipped' \ acked' : Valid(line)}
  BY <1>v, Unbroken
<1>3. Queues' = Store!Empty
  BY <1>2, <1>u DEF Store!Empty
<1>4. \A p \in Path : Store!Range(Queues[p]) = Open(p)
  <2> SUFFICES ASSUME NEW p \in Path PROVE Store!Range(Queues[p]) = Open(p)
    OBVIOUS
  <2>1. LinesOf(Waiting(p)) = Open(p)
    BY <1>f, WaitingIs
  <2> QED
    BY <1>u, <2>1 DEF Store!Range, LinesOf
<1> DEFINE given == UNION {Store!Range(Queues[p]) : p \in Path}
<1>5. given = UNION {Open(p) : p \in Path}
  BY <1>4
<1>6. ASSUME NEW line \in Abandoned' PROVE line \in Abandoned \cup given
  <2>1. line \notin acked /\ Valid(line)
    BY <1>6, <1>u, <1>v
  <2>2. CASE line \in skipped
    BY <1>u, <2>1, <2>2
  <2>3. CASE line \notin skipped
    <3>1. PICK p \in Path : line \in Unsent(p)
      BY <1>6, <1>u, <1>v, <2>3
    <3>2. PICK i \in offsets[p] + 1 .. Len(log[p]) : line = log[p][i]
      BY <3>1 DEF Unsent
    <3>3. i \in DOMAIN log[p]
      BY <1>t, <3>2
    <3>4. line \in Open(p)
      BY <2>1, <2>3, <3>2, <3>3 DEF Open, Unsettled, Settled
    <3> QED
      BY <1>5, <3>4
  <2> QED
    BY <2>2, <2>3
<1>7. ASSUME NEW p \in Path, NEW line \in Open(p) PROVE line \in Abandoned'
  <2>1. PICK i \in DOMAIN log[p] : line = log[p][i] /\ ~Settled(line)
    BY <1>7 DEF Open, Unsettled
  <2>2. line \in Unsent(p) /\ line \notin acked /\ Valid(line)
    BY <1>1, <2>1 DEF Settled
  <2> QED
    BY <1>u, <1>v, <2>2
<1>8. Abandoned \subseteq Abandoned'
  BY <1>u, <1>v
<1> HIDE DEF given
<1>9. Abandoned' = Abandoned \cup given
  <2>1. given \subseteq Abandoned'
    BY <1>5, <1>7
  <2> QED
    BY <1>6, <1>8, <2>1
<1>10. Store!Abandon
  <2>1. given = UNION {Store!Range(Queues[p]) : p \in Path}
    BY DEF given
  <2> QED
    BY <1>3, <1>9, <1>u, <1>v, <2>1 DEF Store!Abandon
<1> QED
  BY <1>10, <1>v DEF Store!Next

\* A line of two bytes or more is accepted; a shorter one never was a line to send.
LEMMA WriteMap ==
    ASSUME DataOK, DataOK', OrderInv, OrderInv', ~staleCrash,
           NEW q \in Path, NEW line \in Line, line.path = q,
           line.no = 1 + Cardinality({l \in logged : l.path = q}),
           AppendLine(q, line)
    PROVE  Store!Next \/ UNCHANGED Store!vars
<1>f. FilesInOrder /\ FilesInOrder' /\ OnlyLoggedKnown
  BY DEF OrderInv
<1>v. UNCHANGED <<acked, skipped, staleCrash>>
  BY DEF AppendLine
<1>y. /\ \A l \in logged : l.path = q => l.no < line.no
      /\ line \notin logged
  BY <1>f, NewLineIsYoungest
<1>n. line \notin acked /\ line \notin skipped
  BY <1>f, <1>y DEF OnlyLoggedKnown
<1>l. \A p \in Path : /\ log'[p] = IF p = q THEN Append(log[p], line) ELSE log[p]
                      /\ log[p] \in Seq(Line)
  BY DEF DataOK, AppendLine
<1>o. \A p \in Path : Open(p) \subseteq logged /\ \A a \in Open(p) : a.path = p
  BY <1>f DEF Open, Unsettled, FilesInOrder, InLogOrder
<1>u. /\ Queues = [p \in Path |-> Waiting(p)]
      /\ Queues' = [p \in Path |-> Waiting(p)']
      /\ Delivered = acked /\ Delivered' = acked'
      /\ Abandoned = {l \in skipped \ acked : Valid(l)}
      /\ Abandoned' = {l \in skipped' \ acked' : Valid(l)}
  BY <1>v, Unbroken
<1>e. \A x : Settled(x)' <=> Settled(x)
  BY <1>v DEF Settled, Valid
<1>1. ASSUME NEW p \in Path, p # q PROVE Waiting(p)' = Waiting(p)
  <2>1. log'[p] = log[p]
    BY <1>1, <1>l
  <2> QED
    BY <1>v, <2>1 DEF Waiting, Unsettled, Settled, Valid
<1>2. Open(q)' = IF Valid(line) THEN Open(q) \cup {line} ELSE Open(q)
  <2> DEFINE file == log[q]
             longer == Append(file, line)
  <2>1. /\ DOMAIN file = 1..Len(file) /\ Len(file) \in Nat
        /\ DOMAIN longer = 1 .. Len(file) + 1
        /\ \A i \in 1..Len(file) : longer[i] = file[i]
        /\ longer[Len(file) + 1] = line
    BY <1>l, AppendShape
  <2>2. log'[q] = longer
    BY <1>l
  <2> HIDE DEF longer, file
  <2>3. Open(q)' = {longer[i] : i \in {i \in DOMAIN longer : ~Settled(longer[i])}}
    BY <1>v, <2>2 DEF Open, Unsettled, Settled, Valid
  <2>4. Open(q) = {file[i] : i \in {i \in DOMAIN file : ~Settled(file[i])}}
    BY DEF Open, Unsettled, file
  <2>5. Settled(line) <=> ~Valid(line)
    BY <1>n DEF Settled
  <2>6. ASSUME NEW x \in Open(q)' PROVE x \in Open(q) \/ (x = line /\ Valid(line))
    <3>1. PICK i \in DOMAIN longer : x = longer[i] /\ ~Settled(longer[i])
      BY <2>3, <2>6
    <3>2. CASE i \in 1..Len(file)
      <4>1. i \in DOMAIN file /\ x = file[i] /\ ~Settled(file[i])
        BY <2>1, <3>1, <3>2
      <4> QED
        BY <2>4, <4>1
    <3>3. CASE i = Len(file) + 1
      BY <2>1, <2>5, <3>1, <3>3
    <3> QED
      BY <2>1, <3>2, <3>3
  <2>7. ASSUME NEW x \in Open(q) PROVE x \in Open(q)'
    <3>1. PICK i \in DOMAIN file : x = file[i] /\ ~Settled(file[i])
      BY <2>4, <2>7
    <3>2. i \in DOMAIN longer /\ longer[i] = x
      BY <2>1, <3>1
    <3> QED
      BY <2>3, <3>1, <3>2
  <2>8. Valid(line) => line \in Open(q)'
    <3>1. Len(file) + 1 \in DOMAIN longer
      BY <2>1
    <3> QED
      BY <2>1, <2>3, <2>5, <3>1
  <2> QED
    BY <2>6, <2>7, <2>8
<1>3. CASE ~Valid(line)
  <2>1. Open(q)' = Open(q)
    BY <1>2, <1>3
  <2>2. Waiting(q)' = Waiting(q)
    BY <1>f, <2>1, WaitingSame
  <2>3. Queues' = Queues
    BY <1>1, <1>u, <2>2
  <2> QED
    BY <1>u, <1>v, <2>3 DEF Store!vars
<1>4. CASE Valid(line)
  <2> DEFINE s == Waiting(q)
             t == Waiting(q)'
             O == Open(q)
             O1 == Open(q)'
  <2>1. s \in Seq(Line) /\ Ordered(s) /\ LinesOf(s) = O
    BY <1>f, WaitingIs
  <2>2. t \in Seq(Line) /\ Ordered(t) /\ LinesOf(t) = O1
    BY <1>f, WaitingNextIs DEF Ordered, LinesOf
  <2>3. O1 = O \cup {line}
    BY <1>2, <1>4
  <2>4. \A a \in O : a.no < line.no
    BY <1>o, <1>y
  <2> HIDE DEF s, t, O, O1
  <2>5. t = Append(s, line) /\ t # <<>> /\ t[Len(t)] = line
    BY <2>1, <2>2, <2>3, <2>4, YoungestLast
  <2>6. Queues'[q] = t /\ Queues[q] = s
    BY <1>u DEF s, t
  <2>7. Store!Last(Queues'[q]) = line
    BY <2>5, <2>6 DEF Store!Last
  <2>8. Queues' = [Queues EXCEPT ![q] = Append(@, line)]
    BY <1>1, <1>u, <2>5 DEF s, t
  <2>9. Store!Known \subseteq logged
    <3>1. ASSUME NEW p \in Path PROVE Store!Range(Queues[p]) \subseteq logged
      <4>1. LinesOf(Waiting(p)) \subseteq logged
        BY <1>f, <1>o, WaitingIs
      <4> QED
        BY <1>u, <4>1 DEF Store!Range, LinesOf
    <3>2. Delivered \subseteq logged /\ Abandoned \subseteq logged
      BY <1>f, <1>u DEF OnlyLoggedKnown
    <3> QED
      BY <3>1, <3>2 DEF Store!Known
  <2>10. line \in Line \ Store!Known
    BY <1>y, <2>9
  <2>11. Store!Accept(q)
    BY <1>u, <1>v, <2>5, <2>6, <2>7, <2>8, <2>10 DEF Store!Accept
  <2> QED
    BY <1>v, <2>11 DEF Store!Next
<1> QED
  BY <1>3, <1>4

\* What the rename of the temporary file loses was written last.
LEMMA RenameMap ==
    ASSUME DataOK, DataOK', SafetyInv, OrderInv, OrderInv', TmpExact, CompactRename,
           ~staleCrash
    PROVE  Store!Next \/ UNCHANGED Store!vars
<1>f. FilesInOrder /\ FilesInOrder' /\ BehindSettled /\ TmpFaithful
  BY DEF OrderInv, SafetyInv
<1>v. /\ UNCHANGED <<acked, skipped, staleCrash>> /\ pc = "rename"
      /\ log' = [log EXCEPT ![cp] = tmp.lines]
  BY DEF CompactRename
<1>t. /\ cp \in Path /\ log \in [Path -> Seq(Line)] /\ offsets[cp] \in Nat
      /\ tmp.lines \in Seq(Line) /\ tmp.off \in Nat
  BY DEF DataOK
<1> DEFINE file == log[cp]
           lines == tmp.lines
           m == Len(lines) - tmp.off
<1>d. /\ DOMAIN file = 1..Len(file) /\ Len(file) \in Nat
      /\ DOMAIN lines = 1..Len(lines) /\ Len(lines) \in Nat
  BY <1>t
<1>m. /\ m \in Nat /\ offsets[cp] + m <= Len(file)
      /\ \A j \in 1..m : lines[tmp.off + j] = file[offsets[cp] + j]
      /\ \A i \in 1..tmp.off : Settled(lines[i])
      /\ \A i \in 1..offsets[cp] : Settled(file[i])
  <2>1. tmp.off <= Len(lines)
    BY <1>f, <1>v DEF TmpFaithful
  <2>2. m \in Nat
    BY <1>d, <1>t, <2>1
  <2> QED
    BY <1>f, <1>t, <1>v, <2>2 DEF TmpFaithful, TmpExact, BehindSettled
<1>l. \A p \in Path : log'[p] = IF p = cp THEN lines ELSE log[p]
  BY <1>t, <1>v
<1>1. ASSUME NEW p \in Path, p # cp PROVE Waiting(p)' = Waiting(p)
  <2>1. log'[p] = log[p]
    BY <1>1, <1>l
  <2> QED
    BY <1>v, <2>1 DEF Waiting, Unsettled, Settled, Valid
<1> DEFINE s == Waiting(cp)
           t == LinesAt(lines, {i \in DOMAIN lines : ~Settled(lines[i])})
           O == Open(cp)
           O1 == {lines[i] : i \in {i \in DOMAIN lines : ~Settled(lines[i])}}
<1>2. \A p \in Path : Waiting(p)' = IF p = cp THEN t ELSE Waiting(p)
  <2>1. ASSUME NEW p \in Path, p = cp PROVE Waiting(p)' = t
    <3>1. log'[p] = lines
      BY <1>l, <2>1
    <3> QED
      BY <1>v, <3>1 DEF Waiting, Unsettled, Settled, Valid
  <2> QED
    BY <1>1, <2>1
<1> HIDE DEF m
<1>3. O1 \subseteq O /\ \A b \in O1 :
         \E i \in DOMAIN file : i <= offsets[cp] + m /\ file[i] = b
  <2> SUFFICES ASSUME NEW b \in O1
               PROVE  b \in O /\ \E i \in DOMAIN file : i <= offsets[cp] + m /\ file[i] = b
    OBVIOUS
  <2>1. PICK k \in DOMAIN lines : b = lines[k] /\ ~Settled(lines[k])
    OBVIOUS
  <2>2. k - tmp.off \in 1..m /\ tmp.off + (k - tmp.off) = k
    <3>1. k \in 1..Len(lines) /\ ~(k \in 1..tmp.off)
      BY <1>d, <1>m, <2>1
    <3>2. Len(lines) \in Int /\ tmp.off \in Int
      BY <1>d, <1>t
    <3> QED
      BY <3>1, <3>2 DEF m
  <2>3. b = file[offsets[cp] + (k - tmp.off)]
    BY <1>m, <2>1, <2>2
  <2>4. /\ offsets[cp] + (k - tmp.off) \in DOMAIN file
        /\ offsets[cp] + (k - tmp.off) <= offsets[cp] + m
    <3>1. offsets[cp] \in Nat /\ offsets[cp] + m <= Len(file) /\ m \in Nat /\ Len(file) \in Nat
      BY <1>d, <1>m, <1>t
    <3> HIDE DEF file
    <3>2. /\ offsets[cp] + (k - tmp.off) \in 1..Len(file)
          /\ offsets[cp] + (k - tmp.off) <= offsets[cp] + m
      BY <2>2, <3>1
    <3> QED
      BY <1>d, <3>2
  <2> QED
    BY <2>1, <2>3, <2>4 DEF Open, Unsettled
<1>4. ASSUME NEW a \in O \ O1, NEW b \in O1 PROVE b.no < a.no
  <2>1. PICK k \in DOMAIN file : a = file[k] /\ ~Settled(a)
    BY <1>4 DEF Open, Unsettled
  <2>2. PICK i \in DOMAIN file : i <= offsets[cp] + m /\ file[i] = b
    BY <1>3, <1>4
  <2>3. k > offsets[cp]
    BY <1>d, <1>m, <1>t, <2>1
  <2>4. ~(k <= offsets[cp] + m)
    <3> SUFFICES ASSUME k <= offsets[cp] + m PROVE FALSE
      OBVIOUS
    <3>1. k - offsets[cp] \in 1..m /\ offsets[cp] + (k - offsets[cp]) = k
      BY <1>d, <1>m, <1>t, <2>3, SMTT(30)
    <3>2. lines[tmp.off + (k - offsets[cp])] = a
      BY <1>m, <2>1, <3>1
    <3>3. tmp.off + (k - offsets[cp]) \in DOMAIN lines
      BY <1>d, <1>t, <3>1, SMTT(30) DEF m
    <3> QED
      BY <1>4, <2>1, <3>2, <3>3
  <2>5. i < k
    BY <1>d, <1>m, <1>t, <2>2, <2>4
  <2> QED
    BY <1>f, <1>t, <2>1, <2>2, <2>5 DEF FilesInOrder, InLogOrder
<1>5. s \in Seq(Line) /\ Ordered(s) /\ LinesOf(s) = O
  BY <1>f, <1>t, WaitingIs
<1>6. t \in Seq(Line) /\ Ordered(t) /\ LinesOf(t) = O1
  <2> DEFINE U == {i \in DOMAIN lines : ~Settled(lines[i])}
  <2>1. Ordered(lines)
    BY <1>f, <1>v DEF FilesInOrder, InLogOrder, Ordered
  <2>2. U \subseteq DOMAIN lines
    OBVIOUS
  <2> HIDE DEF U
  <2>3. /\ LinesAt(lines, U) \in Seq(Line) /\ Ordered(LinesAt(lines, U))
        /\ LinesOf(LinesAt(lines, U)) = {lines[i] : i \in U}
    BY <1>t, <2>1, <2>2, LinesAtIs
  <2> QED
    BY <2>3 DEF U
<1> HIDE DEF s, t, O, O1
<1>7. Len(t) \in 0..Len(s) /\ t = SubSeq(s, 1, Len(t))
  BY <1>3, <1>4, <1>5, <1>6, YoungestGone
<1>8. Len(s) \in Nat
  BY <1>5
<1>u. /\ Queues = [p \in Path |-> Waiting(p)]
      /\ Queues' = [p \in Path |-> Waiting(p)']
      /\ Delivered = acked /\ Delivered' = acked'
      /\ Abandoned = {l \in skipped \ acked : Valid(l)}
      /\ Abandoned' = {l \in skipped' \ acked' : Valid(l)}
  BY <1>v, Unbroken
<1>9. Queues[cp] = s
  BY <1>t, <1>u DEF s
<1>10. Queues' = [Queues EXCEPT ![cp] = t]
  BY <1>2, <1>u
<1>11. CASE Len(t) = Len(s)
  <2>1. t = s
    <3>1. SubSeq(s, 1, Len(s)) = s
      BY <1>5
    <3> QED
      BY <1>7, <1>11, <3>1
  <2>2. Queues' = Queues
    BY <1>9, <1>10, <1>u, <2>1
  <2> QED
    BY <1>u, <1>v, <2>2 DEF Store!vars
<1>12. CASE Len(t) # Len(s)
  <2> DEFINE n == Len(t)
  <2>1. n \in 0 .. Len(Queues[cp]) - 1 /\ n < Len(Queues[cp])
    BY <1>7, <1>8, <1>9, <1>12
  <2>2. t = SubSeq(Queues[cp], 1, n)
    BY <1>7, <1>9
  <2> HIDE DEF n
  <2>3. Queues' = [Queues EXCEPT ![cp] = SubSeq(@, 1, n)]
    BY <1>10, <2>2
  <2>4. Store!Lose(cp, n)
    BY <1>u, <1>v, <2>1, <2>3 DEF Store!Lose
  <2> QED
    BY <1>t, <1>v, <2>1, <2>4 DEF Store!Next
<1> QED
  BY <1>11, <1>12

\* A start from offsets that no longer go with their files breaks the store.
LEMMA BrokenMap ==
    ASSUME FlagsOK', staleCrash' PROVE Store!Next
<1>1. staleCrash' = TRUE
  BY DEF FlagsOK
<1> QED
  BY <1>1 DEF Store!Next, Store!Break

-----------------------------------------------------------------------------
(* The two invariants the mapping needs.                                   *)

\* A packet has only valid lines.
LEMMA PacketLinesValid ==
    ASSUME NEW logs, NEW from, NEW to, NEW line \in PacketLines(logs, from, to)
    PROVE  Valid(line)
  BY DEF PacketLines, Entries

LEMMA PacketValidStep ==
    ASSUME PassOK, PacketValid, [Next]_vars PROVE PacketValid'
<1> DEFINE Quiet == Carrying' => Carrying /\ UNCHANGED packet
<1>q. Quiet => PacketValid'
  BY DEF PacketValid, Valid
<1> USE DEF fileVars, batchVars, failVars, radioVars, timerVars,
        compVars, localVars, sharedVars, linkVars, histVars
<1>1. CASE Environment
  <2>1. Quiet
    BY <1>1, ZenonT(30) DEF Environment, Write, AppendLine, SetSendPath, SetMesh, BtPowerOn,
                HandleSignal, Link4GChanges, LinkBDChanges, Crash, Start, Carrying
  <2> QED
    BY <1>q, <2>1
<1>2. CASE Clock
  <2>1. Quiet
    BY <1>2 DEF Clock, CoolDownEnds, HoldEnds, BdGapEnds, Untimed, Carrying
  <2> QED
    BY <1>q, <2>1
<1>3. CASE Try4GCoolingDown \/ Try4GNotReady \/ Try4GSendFails \/ Try4GSent
  <2>1. Quiet
    BY <1>3 DEF AtState, Try4GCoolingDown, Try4GNotReady, Try4GSendFails, Try4GSent,
                After4G, Carrying
  <2> QED
    BY <1>q, <2>1
<1>4. CASE NodePass \/ BdSendFails \/ BdSent \/ BdWait \/ PowerDown \/ Exit \/ Restart
  <2>1. Quiet
    BY <1>4 DEF AtState, NodePass, BdSendFails, BdSent, BdAdvances, BdWait, PowerDown, Exit,
                Restart, Start, Carrying
  <2> QED
    BY <1>q, <2>1
<1>5. CASE \/ CompactCopy \/ CompactSkipped \/ CompactRename
           \/ SaveOpen \/ SaveWrite \/ SaveFails
  <2>1. Quiet
    BY <1>5 DEF CompactCopy, CompactSkipped, CompactRename, SaveOpen, SaveWrite, SaveFails,
                NextPath, Compacting, Saving, SaveReturns, Carrying, PassOK
  <2> QED
    BY <1>q, <2>1
<1>6. CASE UNCHANGED vars
  <2>1. Quiet
    BY <1>6 DEF vars, Carrying
  <2> QED
    BY <1>q, <2>1
<1>7. CASE Idle
  <2>1. PICK to \in Packings4G(log, offsets) :
          \/ state' # "TRY_4G"
          \/ UNCHANGED <<state, packet>>
          \/ packet' = PacketLines(log, offsets, to)
    BY <1>7 DEF Idle
  <2>2. pc = "loop" /\ pc' = "loop"
    BY <1>7 DEF Idle, AtState
  <2>3. CASE packet' = PacketLines(log, offsets, to)
    <3>1. \A line \in packet' : Valid(line)
      BY <2>3, PacketLinesValid
    <3> QED
      BY <3>1 DEF PacketValid, Valid
  <2> QED
    BY <1>q, <2>1, <2>2, <2>3 DEF Carrying
<1>8. CASE TryBD
  <2>1. PICK to \in PackingsBD(log, offsets, batchEnd) :
          \/ pc' = pc /\ state' # "TRY_4G"
          \/ packet' = PacketLines(log, offsets, to)
    BY <1>8 DEF TryBD, AtState
  <2>2. pc = "loop"
    BY <1>8 DEF TryBD, AtState
  <2>3. CASE packet' = PacketLines(log, offsets, to)
    <3>1. \A line \in packet' : Valid(line)
      BY <2>3, PacketLinesValid
    <3> QED
      BY <3>1 DEF PacketValid, Valid
  <2> QED
    BY <1>q, <2>1, <2>2, <2>3 DEF Carrying
<1> QED
  BY <1>1, <1>2, <1>3, <1>4, <1>5, <1>6, <1>7, <1>8 DEF Next, MainStep

\* The two passes of the copy leave no gap.
LEMMA ExactCopyStep ==
    ASSUME DataOK, SafetyInv, CompactCopy PROVE TmpExact'
<1> SUFFICES ASSUME ~staleCrash
             PROVE  LET m == Len(tmp'.lines) - tmp'.off
                    IN  /\ offsets[cp] + m <= Len(log[cp])
                        /\ \A j \in 1..m : tmp'.lines[tmp'.off + j] = log[cp][offsets[cp] + j]
  <2>1. UNCHANGED <<log, offsets, cp, staleCrash>>
    BY DEF CompactCopy, Compacting
  <2> QED
    BY <2>1 DEF TmpExact
<1> DEFINE file == log[cp]
           n == offsets[cp]
<1>0. PICK t \in Compactions(file, n) : t = tmp'
  BY DEF CompactCopy
<1>1. file \in Seq(Line) /\ n \in Nat /\ Len(file) \in Nat
  <2>1. cp \in Path /\ log \in [Path -> Seq(Line)] /\ offsets \in [Path -> Nat]
    BY DEF DataOK
  <2> QED
    BY <2>1
<1>2. n <= Len(file)
  BY DEF SafetyInv, OffsetsInside, DataOK
<1> HIDE DEF file, n
<1>3. SentCount(file, n) = n
  BY <1>1, <1>2 DEF SentCount
<1>4. /\ t \in [lines : Seq(Line), off : Nat]
      /\ Len(t.lines) = t.off + Len(file) - n
      /\ \A i \in n + 1 .. Len(file) : t.lines[i - n + t.off] = file[i]
  <2>1. /\ t \in [lines : Seq(Line), off : Nat]
        /\ Len(t.lines) = t.off + Len(file) - SentCount(file, n)
        /\ \A i \in SentCount(file, n) + 1 .. Len(file) :
              t.lines[i - SentCount(file, n) + t.off] = file[i]
    BY <1>1, CompactionShape
  <2> QED
    BY <1>3, <2>1
<1> DEFINE m == Len(t.lines) - t.off
<1>5. t.off \in Nat /\ m = Len(file) - n
  <2>1. t.off \in Nat
    BY <1>4
  <2> QED
    BY <1>1, <1>4, <2>1
<1> HIDE DEF m
<1>6. n + m <= Len(file)
  BY <1>1, <1>5
<1>7. ASSUME NEW j \in 1..m PROVE t.lines[t.off + j] = file[n + j]
  <2>1. n + j \in n + 1 .. Len(file) /\ (n + j) - n + t.off = t.off + j
    BY <1>1, <1>5
  <2> QED
    BY <1>4, <2>1
<1> QED
  BY <1>0, <1>6, <1>7 DEF m, file, n

\* What is appended to the log file afterwards changes nothing of that.
LEMMA ExactWriteStep ==
    ASSUME DataOK, TmpExact, NEW q \in Path, NEW line \in Line, AppendLine(q, line)
    PROVE  TmpExact'
<1>v. UNCHANGED <<pc, offsets, cp, tmp, staleCrash>>
  BY DEF AppendLine, localVars, compVars
<1> SUFFICES ASSUME pc = "rename", ~staleCrash
             PROVE  LET m == Len(tmp.lines) - tmp.off
                    IN  /\ offsets[cp] + m <= Len(log'[cp])
                        /\ \A j \in 1..m : tmp.lines[tmp.off + j] = log'[cp][offsets[cp] + j]
  BY <1>v DEF TmpExact
<1> DEFINE m == Len(tmp.lines) - tmp.off
           n == offsets[cp]
           file == log[cp]
           longer == log'[cp]
<1>1. n + m <= Len(file) /\ \A j \in 1..m : tmp.lines[tmp.off + j] = file[n + j]
  BY DEF TmpExact
<1>2. cp \in Path /\ file \in Seq(Line) /\ n \in Nat /\ m \in Int
  <2>1. cp \in Path /\ log \in [Path -> Seq(Line)] /\ offsets \in [Path -> Nat]
    BY DEF DataOK
  <2>2. tmp.lines \in Seq(Line) /\ tmp.off \in Nat
    BY DEF DataOK
  <2>3. Len(tmp.lines) \in Nat
    BY <2>2
  <2> QED
    BY <2>1, <2>2, <2>3
<1>3. longer = file \/ longer = Append(file, line)
  BY <1>2 DEF AppendLine, DataOK
<1> HIDE DEF m, n, file, longer
<1>4. /\ Len(file) \in Nat /\ Len(longer) \in Nat /\ Len(file) <= Len(longer)
      /\ \A i \in 1..Len(file) : longer[i] = file[i]
  BY <1>2, <1>3
<1>5. n + m <= Len(longer)
  BY <1>1, <1>2, <1>4
<1>6. ASSUME NEW j \in 1..m PROVE tmp.lines[tmp.off + j] = longer[n + j]
  <2>1. n + j \in 1..Len(file)
    BY <1>1, <1>2, <1>4
  <2> QED
    BY <1>1, <1>4, <2>1
<1> QED
  BY <1>5, <1>6 DEF m, n, longer

LEMMA TmpExactStep ==
    ASSUME DataOK, DataOK', SafetyInv, TmpExact, [Next]_vars PROVE TmpExact'
<1>p. PassOK
  BY DEF SafetyInv
<1> DEFINE Quiet ==
      /\ pc' = "rename" => pc = "rename" /\ UNCHANGED <<log, offsets, cp, tmp>>
      /\ staleCrash => staleCrash'
<1>q. Quiet => TmpExact'
  BY DEF TmpExact
<1> USE DEF fileVars, batchVars, failVars, radioVars, timerVars,
        compVars, localVars, sharedVars, linkVars, histVars
<1>1. CASE SetSendPath \/ SetMesh \/ BtPowerOn \/ HandleSignal \/ Link4GChanges \/ LinkBDChanges
  <2>1. Quiet
    BY <1>1 DEF SetSendPath, SetMesh, BtPowerOn, HandleSignal, Link4GChanges, LinkBDChanges
  <2> QED
    BY <1>q, <2>1
<1>2. CASE Clock
  <2>1. Quiet
    BY <1>2 DEF Clock, CoolDownEnds, HoldEnds, BdGapEnds, Untimed
  <2> QED
    BY <1>q, <2>1
<1>3. CASE Try4GCoolingDown \/ Try4GNotReady \/ Try4GSendFails \/ Try4GSent \/ NodePass
  <2>1. Quiet
    BY <1>3 DEF AtState, Try4GCoolingDown, Try4GNotReady, Try4GSendFails, Try4GSent, NodePass
  <2> QED
    BY <1>q, <2>1
<1>4. CASE BdSendFails \/ BdSent \/ BdWait \/ PowerDown \/ Exit
  <2>1. Quiet
    BY <1>4 DEF AtState, BdSendFails, BdSent, BdAdvances, BdWait, PowerDown, Exit
  <2> QED
    BY <1>q, <2>1
<1>11. CASE Restart \/ Crash
  <2>1. pc' = "loop" /\ staleCrash' = (staleCrash \/ stale)
    BY <1>11 DEF Restart, Crash, Start
  <2> QED
    BY <1>q, <2>1
<1>5. CASE CompactSkipped \/ CompactRename \/ SaveOpen \/ SaveWrite \/ SaveFails
  <2>1. Quiet
    BY <1>5 DEF CompactSkipped, CompactRename, SaveOpen, SaveWrite, SaveFails,
                NextPath, Compacting, Saving, SaveReturns
  <2> QED
    BY <1>q, <2>1
<1>6. CASE UNCHANGED vars
  <2>1. Quiet
    BY <1>6 DEF vars
  <2> QED
    BY <1>q, <2>1
<1>7. CASE Idle
  <2>1. Quiet
    BY <1>7 DEF Idle, AtState
  <2> QED
    BY <1>q, <2>1
<1>8. CASE TryBD
  <2>1. Quiet
    BY <1>8 DEF TryBD, AtState
  <2> QED
    BY <1>q, <2>1
<1>9. CASE CompactCopy
  BY <1>9, ExactCopyStep
<1>10. CASE \E p \in Path, len \in Lens : Write(p, len)
  <2>1. PICK p \in Path, len \in Lens : Write(p, len)
    BY <1>10
  <2>2. PICK line : AppendLine(p, line)
    BY <2>1 DEF Write
  <2>3. line \in Line
    BY <2>2 DEF AppendLine, DataOK
  <2> QED
    BY <2>2, <2>3, ExactWriteStep
<1> QED
  BY <1>1, <1>2, <1>3, <1>4, <1>5, <1>6, <1>7, <1>8, <1>9, <1>10, <1>11
     DEF Next, MainStep, Environment

LEMMA RefinementInvHolds == Spec => []RefinementInv
<1>1. Init => RefinementInv
  BY DEF Init, RefinementInv, PacketValid, TmpExact, Carrying
<1>2. ASSUME DataOK, DataOK', SafetyInv, RefinementInv, [Next]_vars PROVE RefinementInv'
  <2>1. PassOK
    BY <1>2 DEF SafetyInv
  <2> QED
    BY <1>2, <2>1, PacketValidStep, TmpExactStep DEF RefinementInv
<1>3. (DataOK /\ SafetyInv) /\ (DataOK /\ SafetyInv)' /\ RefinementInv /\ [Next]_vars
        => RefinementInv'
  BY <1>2
<1> QED
  BY <1>1, <1>3, SafetyHolds, PTL DEF Spec

-----------------------------------------------------------------------------
(* MainSend implements StoreAndForward.                                    *)

LEMMA StoreInit == Init => Store!Init
<1> SUFFICES ASSUME Init PROVE Store!Init
  OBVIOUS
<1>1. /\ \A p \in Path : log[p] = <<>>
      /\ acked = {} /\ skipped = {} /\ staleCrash = FALSE
  BY DEF Init
<1>2. ASSUME NEW p \in Path PROVE Waiting(p) = <<>>
  <2>1. Unsettled(p) = {}
    BY <1>1 DEF Unsettled
  <2>2. Cardinality({}) = 0
    BY FS_EmptySet
  <2>3. Waiting(p) = LinesAt(<<>>, {})
    BY <1>1, <2>1 DEF Waiting
  <2> QED
    BY <2>2, <2>3 DEF LinesAt
<1>3. Queues = Store!Empty
  BY <1>1, <1>2 DEF Queues, Store!Empty
<1>4. Delivered = {} /\ Abandoned = {}
  BY <1>1 DEF Delivered, Abandoned
<1> QED
  BY <1>1, <1>3, <1>4 DEF Store!Init

\* Every step of the uplink is a step of the store or leaves it as it is.
LEMMA StoreStep ==
    ASSUME DataOK, DataOK', FlagsOK, FlagsOK', SafetyInv, OrderInv, OrderInv',
           RefinementInv, [Next]_vars
    PROVE  [Store!Next]_(Store!vars)
<1>p. PacketValid /\ TmpExact /\ PassOK
  BY DEF RefinementInv, SafetyInv
<1>b. CASE staleCrash'
  BY <1>b, BrokenMap
<1> SUFFICES ASSUME ~staleCrash' PROVE [Store!Next]_(Store!vars)
  BY <1>b
<1> DEFINE Quiet == UNCHANGED <<log, acked, skipped, staleCrash>>
<1>q. Quiet => [Store!Next]_(Store!vars)
  BY QuietMap
<1> USE DEF fileVars, batchVars, failVars, radioVars, timerVars,
        compVars, localVars, sharedVars, linkVars, histVars
<1>1. CASE SetSendPath \/ SetMesh \/ BtPowerOn \/ HandleSignal \/ Link4GChanges \/ LinkBDChanges
  <2>1. Quiet
    BY <1>1 DEF SetSendPath, SetMesh, BtPowerOn, HandleSignal, Link4GChanges, LinkBDChanges
  <2> QED
    BY <1>q, <2>1
<1>2. CASE Clock
  <2>1. Quiet
    BY <1>2 DEF Clock, CoolDownEnds, HoldEnds, BdGapEnds, Untimed
  <2> QED
    BY <1>q, <2>1
<1>3. CASE Try4GCoolingDown \/ Try4GNotReady \/ Try4GSendFails \/ BdSendFails
  <2>1. Quiet
    BY <1>3 DEF Try4GCoolingDown, Try4GNotReady, Try4GSendFails, BdSendFails
  <2> QED
    BY <1>q, <2>1
<1>4. CASE Idle \/ TryBD \/ BdWait \/ PowerDown \/ Exit
  <2>1. Quiet
    BY <1>4 DEF Idle, TryBD, BdWait, PowerDown, Exit
  <2> QED
    BY <1>q, <2>1
<1>5. CASE CompactCopy \/ CompactSkipped \/ SaveOpen \/ SaveWrite \/ SaveFails
  <2>1. Quiet
    BY <1>5 DEF CompactCopy, CompactSkipped, SaveOpen, SaveWrite, SaveFails, Compacting, Saving
  <2> QED
    BY <1>q, <2>1
<1>6. CASE Restart \/ Crash
  <2>1. UNCHANGED <<log, acked, skipped>> /\ staleCrash' = (staleCrash \/ stale)
    BY <1>6 DEF Restart, Crash, Start
  <2>2. staleCrash' = staleCrash
    BY <2>1 DEF FlagsOK
  <2> QED
    BY <1>q, <2>1, <2>2
<1>7. CASE UNCHANGED vars
  <2>1. Quiet
    BY <1>7 DEF vars
  <2> QED
    BY <1>q, <2>1
<1>8. CASE Try4GSent
  <2>1. /\ Carrying /\ UNCHANGED <<log, skipped, staleCrash>> /\ acked' = acked \cup packet
    BY <1>8 DEF Try4GSent, AtState, Carrying
  <2> QED
    BY <1>p, <2>1, SentMap
<1>9. CASE BdSent
  <2>1. /\ Carrying /\ UNCHANGED <<log, skipped, staleCrash>> /\ acked' = acked \cup packet
    BY <1>9 DEF BdSent, BdAdvances, Carrying
  <2> QED
    BY <1>p, <2>1, SentMap
<1>10. CASE NodePass
  <2>1. ~staleCrash
    BY <1>10 DEF NodePass
  <2> QED
    BY <1>10, <2>1, NodeMap
<1>11. CASE CompactRename
  <2>1. ~staleCrash
    BY <1>11 DEF CompactRename
  <2> QED
    BY <1>11, <1>p, <2>1, RenameMap
<1>12. CASE \E p \in Path, len \in Lens : Write(p, len)
  <2>1. PICK p \in Path, len \in Lens : Write(p, len)
    BY <1>12
  <2> DEFINE no == 1 + Cardinality({l \in logged : l.path = p})
             LineOf(f) == [path |-> p, no |-> no, frame |-> f, len |-> len]
  <2>2. PICK f : AppendLine(p, LineOf(f))
    BY <2>1 DEF Write
  <2> DEFINE line == LineOf(f)
  <2>3. line \in Line
    <3>1. line \in logged' /\ logged' \subseteq Line
      BY <2>2 DEF AppendLine, DataOK
    <3> QED
      BY <3>1
  <2>4. line.path = p /\ line.no = no
    OBVIOUS
  <2> HIDE DEF line
  <2>5. AppendLine(p, line) /\ ~staleCrash
    BY <2>2 DEF AppendLine, line
  <2> QED
    BY <2>3, <2>4, <2>5, WriteMap
<1> QED
  BY <1>1, <1>2, <1>3, <1>4, <1>5, <1>6, <1>7, <1>8, <1>9, <1>10, <1>11, <1>12
     DEF Next, MainStep, Environment

\* The log files, their offsets and main_send_thread are a store that forwards:
\* for any number of sources, any packet sizes and any links, each step of the
\* uplink accepts a line, delivers the oldest ones, gives all up to the LoRa
\* role, loses the youngest of a file being replaced, or changes no queue,
\* until a crash falls between a rename and the save of its offset.
THEOREM StoreForwards == Spec => IsStoreAndForward
<1>1. Init => Store!Init
  BY StoreInit
<1>2. /\ DataOK /\ SafetyInv /\ TypeOK /\ OrderInv /\ RefinementInv
      /\ DataOK' /\ TypeOK' /\ OrderInv' /\ [Next]_vars
      => [Store!Next]_(Store!vars)
  BY StoreStep DEF TypeOK
<1> QED
  BY <1>1, <1>2, TypeCorrect, SafetyHolds, OrderHolds, RefinementInvHolds, PTL
     DEF Spec, IsStoreAndForward, Store!Spec
=============================================================================
