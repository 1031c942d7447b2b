--------------------------- MODULE LoraUplinkProofs ---------------------------
(***************************************************************************)
(* Proofs about LoraUplink, for any send paths, any files and any lengths  *)
(* of lines and packets: what an operator set over Bluetooth outlives the  *)
(* process, whatever the LoRa and uplink threads do meanwhile.             *)
(***************************************************************************)
EXTENDS LoraUplink, LogFileProofs

\* The path bt_load_send_path finds in a file.
FoundIn(file) == IF file = "empty" THEN "AUTO" ELSE file

\* What is in force is what a start would load, but for a change that is being saved or
\* whose save failed.
SettingsInv ==
    /\ SettingsTypeOK
    /\ ~refused /\ btPc # "save" => cfg = ini
    /\ ~spoiled /\ btPc # "write" => owed = FoundIn(pathFile)

LEMMA PathsAre == /\ "AUTO" \in AllPaths /\ \A p \in AllPaths : FoundIn(p) = p
                  /\ \A f \in AllPaths \cup {"empty"} : FoundIn(f) \in AllPaths
BY PathsAssumption DEF PathsAssumption, AllPaths, FoundIn

LEMMA SettingsInvInit == SettingsInit => SettingsInv
<1> SUFFICES ASSUME SettingsInit PROVE SettingsInv
  OBVIOUS
<1>1. Default \in [mesh : Meshes, root : Roots]
  BY DEF Default, Meshes, Roots
<1>2. SettingsTypeOK
  BY <1>1, PathsAre DEF SettingsInit, SettingsTypeOK
<1> QED
  BY <1>2 DEF SettingsInit, SettingsInv, FoundIn

\* A step of bt_comm_thread.
LEMMA SettingsInvBluetooth ==
    ASSUME SettingsInv, Bluetooth \/ Operator PROVE SettingsInv'
<1>1. SettingsTypeOK
  BY DEF SettingsInv
<1>2. CASE LoadPath
  <2>1. path' = FoundIn(pathFile) /\ path' \in AllPaths
    BY <1>1, <1>2, PathsAre DEF LoadPath, FoundIn, SettingsTypeOK
  <2>2. SettingsTypeOK'
    BY <1>1, <1>2, <2>1 DEF LoadPath, SettingsTypeOK
  <2> QED
    BY <1>2, <2>1, <2>2 DEF LoadPath, SettingsInv
<1>3. CASE SaveLora
  <2>1. SettingsTypeOK'
    BY <1>1, <1>3 DEF SaveLora, SettingsTypeOK
  <2> QED
    BY <1>3, <2>1 DEF SaveLora, SettingsInv
<1>4. CASE SaveLoraFails
  <2>1. SettingsTypeOK'
    BY <1>1, <1>4 DEF SaveLoraFails, SettingsTypeOK
  <2> QED
    BY <1>4, <2>1 DEF SaveLoraFails, SettingsInv
<1>5. CASE OpenPath
  <2>1. SettingsTypeOK'
    BY <1>1, <1>5 DEF OpenPath, SettingsTypeOK
  <2> QED
    BY <1>5, <2>1 DEF OpenPath, SettingsInv
<1>6. CASE WritePath
  <2>1. SettingsTypeOK'
    BY <1>1, <1>6 DEF WritePath, SettingsTypeOK
  <2>2. owed' = FoundIn(pathFile')
    BY <1>1, <1>6, PathsAre DEF WritePath, SettingsTypeOK
  <2> QED
    BY <1>6, <2>1, <2>2 DEF WritePath, SettingsInv
<1>7. CASE SavePathFails
  <2>1. SettingsTypeOK'
    BY <1>1, <1>7 DEF SavePathFails, SettingsTypeOK
  <2> QED
    BY <1>7, <2>1 DEF SavePathFails, SettingsInv
<1>8. CASE SetLoraCommand
  <2>1. PICK c \in [mesh : Meshes, root : Roots] : SetLora(c)
    <3>1. cfg \in [mesh : Meshes, root : Roots]
      BY <1>1 DEF SettingsTypeOK
    <3>2. /\ \A m \in Meshes : [cfg EXCEPT !.mesh = m] \in [mesh : Meshes, root : Roots]
          /\ \A r \in Roots : [cfg EXCEPT !.root = r] \in [mesh : Meshes, root : Roots]
      BY <3>1
    <3> QED
      BY <1>8, <3>2 DEF SetLoraCommand
  <2>2. SettingsTypeOK'
    BY <1>1, <2>1 DEF SetLora, SettingsTypeOK
  <2> QED
    BY <2>1, <2>2 DEF SetLora, SettingsInv
<1>9. CASE \E p \in AllPaths : SetPath(p)
  <2>1. PICK p \in AllPaths : SetPath(p)
    BY <1>9
  <2>2. SettingsTypeOK'
    BY <1>1, <2>1 DEF SetPath, SettingsTypeOK
  <2> QED
    BY <2>1, <2>2 DEF SetPath, SettingsInv
<1> QED
  BY <1>2, <1>3, <1>4, <1>5, <1>6, <1>7, <1>8, <1>9 DEF Bluetooth, Operator

LEMMA SettingsInvRestart == ASSUME SettingsInv, SettingsRestart PROVE SettingsInv'
<1>1. SettingsTypeOK'
  BY PathsAre DEF SettingsInv, SettingsTypeOK, SettingsRestart
<1> QED
  BY <1>1 DEF SettingsInv, SettingsRestart

\* The other threads leave the settings alone.
LEMMA SettingsInvStep == SettingsInv /\ [Next]_vars => SettingsInv'
<1> SUFFICES ASSUME SettingsInv, [Next]_vars PROVE SettingsInv'
  OBVIOUS
<1>1. CASE UNCHANGED settingVars
  BY <1>1 DEF settingVars, SettingsInv, SettingsTypeOK
<1>2. \/ UNCHANGED settingVars \/ Bluetooth \/ Operator \/ SettingsRestart
  BY DEF Next, vars, LogLine, Transform, MainPass, Compacts, MainSends, Restart
<1> QED
  BY <1>1, <1>2, SettingsInvBluetooth, SettingsInvRestart

-----------------------------------------------------------------------------
\* What is in force is what a start would load, except while it is saved and after a
\* save that failed.
THEOREM SettingsInvHolds == Spec => []SettingsInv
<1>1. Init => SettingsInv
  BY SettingsInvInit DEF Init
<1>2. SettingsInv /\ [Next]_vars => SettingsInv'
  BY SettingsInvStep
<1> QED
  BY <1>1, <1>2, PTL DEF Spec

\* A restart finds the LoRa configuration that was in force, and bt_load_send_path the
\* send path acknowledged last, unless its save failed or was cut off.
THEOREM SettingsOutlive == Spec => SettingsSurvive
<1>1. SettingsInv =>
         [/\ SettingsRestart => cfg' = cfg \/ refused \/ btPc = "save"
          /\ LoadPath => path' = owed \/ spoiled]_settingVars
  BY DEF SettingsInv, SettingsRestart, LoadPath, FoundIn
<1> QED
  BY <1>1, SettingsInvHolds, PTL DEF SettingsSurvive

-----------------------------------------------------------------------------
(* Bytes and lines of a file.                                               *)

\* SizeOf is the sum it looks like: a function that satisfies its recursive equation
\* exists, because one exists up to every number and any two agree as far as both reach.
LEMMA SizeSteps ==
    ASSUME NEW f
    PROVE  /\ SizeOf(f, 0) = 0
           /\ \A k \in Nat : SizeOf(f, k + 1) = SizeOf(f, k) + Stamp + f[k + 1].len
<1> DEFINE Next1(h, k) == IF k = 0 THEN 0 ELSE h[k - 1] + Stamp + f[k].len
           Solves(h, n) == \A k \in 0..n : h[k] = Next1(h, k)
<1>1. ASSUME NEW g, NEW h, NEW m \in Nat, NEW n \in Nat, Solves(g, m), Solves(h, n)
      PROVE  \A k \in Nat : k <= m /\ k <= n => g[k] = h[k]
  <2> DEFINE Bad == {k \in Nat : k <= m /\ k <= n /\ g[k] # h[k]}
  <2> SUFFICES ASSUME Bad # {} PROVE FALSE
    OBVIOUS
  <2>1. PICK k \in Bad : \A y \in Bad : k <= y
    BY LeastNumber
  <2>2. k \in 0..m /\ k \in 0..n /\ k \in Nat /\ g[k] # h[k]
    BY <2>1
  <2>3. g[k] = Next1(g, k) /\ h[k] = Next1(h, k)
    BY <1>1, <2>2
  <2>4. CASE k = 0
    BY <2>2, <2>3, <2>4
  <2>5. CASE k # 0
    <3>1. k - 1 \in Nat /\ k - 1 < k /\ k - 1 <= m /\ k - 1 <= n
      BY <2>2, <2>5
    <3>2. k - 1 \notin Bad
      BY <2>1, <2>2, <3>1
    <3>3. g[k - 1] = h[k - 1]
      BY <3>1, <3>2
    <3> QED
      BY <2>2, <2>3, <2>5, <3>3
  <2> QED
    BY <2>4, <2>5
<1>2. ASSUME NEW n \in Nat PROVE \E h : Solves(h, n)
  <2> DEFINE Bad == {m \in Nat : ~ \E h : Solves(h, m)}
  <2>1. Bad = {}
    <3> SUFFICES ASSUME Bad # {} PROVE FALSE
      OBVIOUS
    <3>1. PICK m \in Bad : \A y \in Bad : m <= y
      BY LeastNumber
    <3>2. m \in Nat
      BY <3>1
    <3>3. CASE m = 0
      <4> DEFINE h == [k \in Nat |-> 0]
      <4>1. \A k \in 0..0 : k = 0 /\ k \in Nat /\ h[k] = 0
        OBVIOUS
      <4>2. Solves(h, 0)
        BY <4>1
      <4> QED
        BY <3>1, <3>3, <4>2
    <3>4. CASE m # 0
      <4>1. m - 1 \in Nat /\ m - 1 < m
        BY <3>2, <3>4
      <4>2. m - 1 \notin Bad
        <5> HIDE DEF Bad
        <5> QED
          BY <3>1, <3>2, <4>1
      <4>3. PICK g : Solves(g, m - 1)
        <5> HIDE DEF Solves
        <5> QED
          BY <4>1, <4>2
      <4> DEFINE h == [k \in Nat |-> IF k = m THEN g[m - 1] + Stamp + f[m].len ELSE g[k]]
      <4>4. ASSUME NEW k \in 0..m PROVE h[k] = Next1(h, k)
        <5>1. CASE k = m
          <6>1. h[m] = g[m - 1] + Stamp + f[m].len /\ h[m - 1] = g[m - 1]
            BY <3>2, <4>1
          <6> QED
            BY <3>4, <5>1, <6>1
        <5>2. CASE k # m
          <6>1. k \in 0..m - 1 /\ k \in Nat
            BY <3>2, <5>2
          <6>2. h[k] = g[k] /\ g[k] = Next1(g, k)
            BY <4>3, <5>2, <6>1
          <6>3. ASSUME k # 0 PROVE h[k - 1] = g[k - 1]
            <7>1. k - 1 \in Nat /\ k - 1 # m
              BY <3>2, <6>1, <6>3
            <7> QED
              BY <7>1
          <6> QED
            BY <6>2, <6>3
        <5> QED
          BY <5>1, <5>2
      <4>5. Solves(h, m)
        BY <4>4
      <4> QED
        BY <3>1, <4>5
    <3> QED
      BY <3>3, <3>4
  <2> QED
    BY <2>1
<1> DEFINE W(n) == CHOOSE h : Solves(h, n)
           F == [k \in Nat |-> W(k)[k]]
<1>3. \A n \in Nat : Solves(W(n), n)
  BY <1>2
<1>4. ASSUME NEW k \in Nat PROVE F[k] = Next1(F, k)
  <2>1. Solves(W(k), k) /\ F[k] = W(k)[k]
    BY <1>3
  <2>2. k \in 0..k
    OBVIOUS
  <2>3. W(k)[k] = Next1(W(k), k)
    BY <2>1, <2>2
  <2>4. CASE k = 0
    BY <2>1, <2>3, <2>4
  <2>5. CASE k # 0
    <3>1. k - 1 \in Nat /\ k - 1 <= k /\ k - 1 <= k - 1
      BY <2>5
    <3>2. Solves(W(k - 1), k - 1)
      BY <1>3, <3>1
    <3> HIDE DEF Solves, W
    <3>3. W(k)[k - 1] = W(k - 1)[k - 1]
      BY <1>1, <2>1, <3>1, <3>2
    <3>4. F[k - 1] = W(k - 1)[k - 1]
      BY <3>1
    <3> QED
      BY <2>1, <2>3, <2>5, <3>3, <3>4
  <2> QED
    BY <2>4, <2>5
<1> HIDE DEF Solves, W
<1> DEFINE H == CHOOSE s : s = [k \in Nat |-> IF k = 0 THEN 0 ELSE s[k - 1] + Stamp + f[k].len]
<1>5. F = [k \in Nat |-> IF k = 0 THEN 0 ELSE F[k - 1] + Stamp + f[k].len]
  <2>1. F = [k \in Nat |-> F[k]]
    OBVIOUS
  <2> HIDE DEF F
  <2> QED
    BY <1>4, <2>1
<1> HIDE DEF F
<1>6. H = [k \in Nat |-> IF k = 0 THEN 0 ELSE H[k - 1] + Stamp + f[k].len]
  BY <1>5
<1>7. \A n : SizeOf(f, n) = H[n]
  BY DEF SizeOf
<1> HIDE DEF H
<1>8. H[0] = 0
  BY <1>6
<1>9. ASSUME NEW k \in Nat PROVE H[k + 1] = H[k] + Stamp + f[k + 1].len
  <2>1. k + 1 \in Nat /\ k + 1 # 0 /\ (k + 1) - 1 = k
    OBVIOUS
  <2> QED
    BY <1>6, <2>1
<1> QED
  BY <1>7, <1>8, <1>9

LEMMA LineIs ==
    ASSUME NEW f \in Seq(Line)
    PROVE  /\ Len(f) \in Nat /\ DOMAIN f = 1..Len(f)
           /\ \A i \in 1..Len(f) : f[i] \in Line /\ f[i].no \in 1..MaxLines /\ f[i].len \in Nat
<1>1. Len(f) \in Nat /\ DOMAIN f = 1..Len(f) /\ \A i \in 1..Len(f) : f[i] \in Line
  OBVIOUS
<1>2. \A l \in Line : l.no \in 1..MaxLines /\ l.len \in Lens
  BY DEF Line
<1>3. Lens \subseteq Nat
  BY LoraUplinkAssumption DEF LoraUplinkAssumption
<1> QED
  BY <1>1, <1>2, <1>3

LEMMA SizeType ==
    ASSUME NEW f \in Seq(Line), NEW n \in 0..Len(f) PROVE SizeOf(f, n) \in Nat
<1> DEFINE Bad == {k \in Nat : k <= Len(f) /\ SizeOf(f, k) \notin Nat}
<1>1. Bad = {}
  <2> SUFFICES ASSUME Bad # {} PROVE FALSE
    OBVIOUS
  <2>1. PICK k \in Bad : \A y \in Bad : k <= y
    BY LeastNumber
  <2>2. k \in Nat /\ k <= Len(f) /\ SizeOf(f, k) \notin Nat
    BY <2>1
  <2>3. k # 0
    BY <2>2, SizeSteps
  <2>4. k - 1 \in Nat /\ k - 1 <= Len(f) /\ (k - 1) + 1 = k /\ k \in 1..Len(f)
    BY <2>2, <2>3, LineIs
  <2>5. k - 1 \notin Bad
    <3> HIDE DEF Bad
    <3> QED
      BY <2>1, <2>2, <2>4
  <2>6. SizeOf(f, k - 1) \in Nat
    BY <2>4, <2>5
  <2>7. SizeOf(f, k) = SizeOf(f, k - 1) + Stamp + f[k].len
    BY <2>4, SizeSteps
  <2> QED
    BY <2>2, <2>4, <2>6, <2>7, LineIs, LoraUplinkAssumption DEF LoraUplinkAssumption
<1>2. n \in Nat /\ n <= Len(f)
  BY LineIs
<1> QED
  BY <1>1, <1>2

LEMMA SizeStep ==
    ASSUME NEW f \in Seq(Line), NEW n \in 1..Len(f)
    PROVE  SizeOf(f, n) = SizeOf(f, n - 1) + Stamp + f[n].len
<1>1. n - 1 \in Nat /\ (n - 1) + 1 = n
  BY LineIs
<1> QED
  BY <1>1, SizeSteps

\* A line has as many bytes as its stamp at least.
LEMMA SizeGrows ==
    ASSUME NEW f \in Seq(Line), NEW i \in 0..Len(f), NEW j \in 0..Len(f), i < j
    PROVE  SizeOf(f, i) + Stamp <= SizeOf(f, j)
<1> DEFINE Bad == {k \in Nat : k <= Len(f) /\ i < k /\ ~(SizeOf(f, i) + Stamp <= SizeOf(f, k))}
<1>0. SizeOf(f, i) \in Nat /\ Stamp \in Nat /\ i \in Nat
  BY SizeType, LineIs, LoraUplinkAssumption DEF LoraUplinkAssumption
<1>1. Bad = {}
  <2> SUFFICES ASSUME Bad # {} PROVE FALSE
    OBVIOUS
  <2>1. PICK k \in Bad : \A y \in Bad : k <= y
    BY LeastNumber
  <2>2. k \in Nat /\ k <= Len(f) /\ i < k /\ ~(SizeOf(f, i) + Stamp <= SizeOf(f, k))
    BY <2>1
  <2>3. k - 1 \in Nat /\ k \in 1..Len(f) /\ k - 1 \in 0..Len(f) /\ k - 1 <= Len(f)
    BY <1>0, <2>2, LineIs
  <2>4. k - 1 \notin Bad
    <3> HIDE DEF Bad
    <3> QED
      BY <2>1, <2>2, <2>3
  <2>5. i = k - 1 \/ SizeOf(f, i) + Stamp <= SizeOf(f, k - 1)
    BY <1>0, <2>2, <2>3, <2>4
  <2>6. SizeOf(f, k) = SizeOf(f, k - 1) + Stamp + f[k].len /\ f[k].len \in Nat
    BY <2>3, SizeStep, LineIs
  <2>7. SizeOf(f, k - 1) \in Nat
    BY <2>3, SizeType
  <2>8. SizeOf(f, i) + Stamp <= SizeOf(f, k)
    <3>1. i = k - 1 => SizeOf(f, i) = SizeOf(f, k - 1)
      OBVIOUS
    <3> HIDE DEF Bad
    <3> QED
      BY <1>0, <2>5, <2>6, <2>7, <3>1
  <2> QED
    BY <2>2, <2>8
<1>2. j \in Nat /\ j <= Len(f)
  BY LineIs
<1> QED
  BY <1>1, <1>2

\* Files that begin alike have the same bytes there.
LEMMA SizeOfPrefix ==
    ASSUME NEW f, NEW g, NEW n \in Nat, \A i \in 1..n : f[i] = g[i]
    PROVE  \A k \in 0..n : SizeOf(f, k) = SizeOf(g, k)
<1> DEFINE Bad == {k \in Nat : k <= n /\ SizeOf(f, k) # SizeOf(g, k)}
<1>1. Bad = {}
  <2> SUFFICES ASSUME Bad # {} PROVE FALSE
    OBVIOUS
  <2>1. PICK k \in Bad : \A y \in Bad : k <= y
    BY LeastNumber
  <2>2. k \in Nat /\ k <= n /\ SizeOf(f, k) # SizeOf(g, k)
    BY <2>1
  <2>3. k # 0
    BY <2>2, SizeSteps
  <2>4. k - 1 \in Nat /\ k - 1 <= n /\ (k - 1) + 1 = k /\ k \in 1..n
    BY <2>2, <2>3
  <2>5. k - 1 \notin Bad
    <3> HIDE DEF Bad
    <3> QED
      BY <2>1, <2>2, <2>4
  <2>6. SizeOf(f, k - 1) = SizeOf(g, k - 1)
    BY <2>4, <2>5
  <2>7. /\ SizeOf(f, k) = SizeOf(f, k - 1) + Stamp + f[k].len
        /\ SizeOf(g, k) = SizeOf(g, k - 1) + Stamp + g[k].len
    BY <2>4, SizeSteps
  <2> QED
    BY <2>2, <2>4, <2>6, <2>7
<1> QED
  BY <1>1

\* A line that other lines are taken away from in front of moves to the front.
LEMMA SizeOfKept ==
    ASSUME NEW f \in Seq(Line), NEW g \in Seq(Line), NEW place \in [1..Len(g) -> 1..Len(f)],
           \A i \in 1..Len(g) : g[i] = f[place[i]],
           \A i, j \in 1..Len(g) : i < j => place[i] < place[j],
           NEW n \in 1..Len(g)
    PROVE  SizeOf(g, n - 1) <= SizeOf(f, place[n] - 1)
<1> DEFINE Bad == {k \in Nat : k \in 1..Len(g) /\ ~(SizeOf(g, k - 1) <= SizeOf(f, place[k] - 1))}
<1>0. /\ Len(f) \in Nat /\ Len(g) \in Nat
      /\ \A k \in 1..Len(g) : place[k] \in 1..Len(f) /\ place[k] - 1 \in 0..Len(f)
  <2>1. Len(f) \in Nat /\ Len(g) \in Nat
    BY LineIs
  <2>2. \A k \in 1..Len(g) : place[k] \in 1..Len(f)
    OBVIOUS
  <2>3. \A x \in 1..Len(f) : x - 1 \in 0..Len(f)
    BY <2>1
  <2> QED
    BY <2>1, <2>2, <2>3
<1>1. Bad = {}
  <2> SUFFICES ASSUME Bad # {} PROVE FALSE
    OBVIOUS
  <2>1. PICK k \in Bad : \A y \in Bad : k <= y
    BY LeastNumber
  <2>2. k \in Nat /\ k \in 1..Len(g) /\ ~(SizeOf(g, k - 1) <= SizeOf(f, place[k] - 1))
    BY <2>1
  <2>3. SizeOf(f, place[k] - 1) \in Nat
    BY <1>0, <2>2, SizeType
  <2>4. k # 1
    BY <2>2, <2>3, SizeSteps
  <2>5. k - 1 \in 1..Len(g) /\ k - 1 \in Nat /\ (k - 1) - 1 \in 0..Len(g) /\ k - 1 < k
    BY <1>0, <2>2, <2>4
  <2>6. k - 1 \notin Bad
    <3> HIDE DEF Bad
    <3> QED
      BY <2>1, <2>2, <2>5
  <2>7. SizeOf(g, (k - 1) - 1) <= SizeOf(f, place[k - 1] - 1)
    BY <2>5, <2>6
  <2> HIDE DEF Bad
  <2>8. /\ SizeOf(g, k - 1) = SizeOf(g, (k - 1) - 1) + Stamp + g[k - 1].len
        /\ SizeOf(f, place[k - 1]) = SizeOf(f, place[k - 1] - 1) + Stamp + f[place[k - 1]].len
    BY <1>0, <2>5, SizeStep
  <2>9. g[k - 1] = f[place[k - 1]] /\ g[k - 1].len \in Nat /\ place[k - 1] < place[k]
    BY <2>2, <2>5, LineIs
  <2>10. SizeOf(f, place[k - 1]) <= SizeOf(f, place[k] - 1)
    <3>1. /\ place[k - 1] \in 0..Len(f) /\ place[k] - 1 \in 0..Len(f)
          /\ place[k - 1] = place[k] - 1 \/ place[k - 1] < place[k] - 1
      <4>1. /\ place[k - 1] \in 1..Len(f) /\ place[k] \in 1..Len(f)
            /\ place[k] - 1 \in 0..Len(f)
        BY <1>0, <2>2, <2>5
      <4>2. \A a, b \in 1..Len(f) : a < b => a \in 0..Len(f) /\ (a = b - 1 \/ a < b - 1)
        BY <1>0
      <4> QED
        BY <2>9, <4>1, <4>2
    <3>2. SizeOf(f, place[k - 1]) \in Nat /\ Stamp \in Nat
      BY <3>1, SizeType, LoraUplinkAssumption DEF LoraUplinkAssumption
    <3>3. place[k - 1] < place[k] - 1 => SizeOf(f, place[k - 1]) + Stamp <= SizeOf(f, place[k] - 1)
      BY <3>1, SizeGrows
    <3> QED
      BY <2>3, <3>1, <3>2, <3>3
  <2>11. /\ SizeOf(g, (k - 1) - 1) \in Nat /\ SizeOf(f, place[k - 1] - 1) \in Nat
         /\ SizeOf(f, place[k - 1]) \in Nat /\ SizeOf(g, k - 1) \in Nat
    <3>1. /\ place[k - 1] - 1 \in 0..Len(f) /\ place[k - 1] \in 0..Len(f)
          /\ k - 1 \in 0..Len(g)
      BY <1>0, <2>5
    <3> QED
      BY <2>5, <3>1, SizeType
  <2>12. Stamp \in Nat
    BY LoraUplinkAssumption DEF LoraUplinkAssumption
  <2>13. SizeOf(g, k - 1) <= SizeOf(f, place[k - 1])
    <3>1. g[k - 1].len = f[place[k - 1]].len
      BY <2>9
    <3> QED
      BY <2>7, <2>8, <2>9, <2>11, <2>12, <3>1, SMTT(30)
  <2> QED
    BY <2>2, <2>3, <2>10, <2>11, <2>13
<1> QED
  BY <1>0, <1>1

\* An offset in bytes is as good as one in lines: the lines before it are the first ones.
LEMMA LinesBeforeIs ==
    ASSUME NEW f \in Seq(Line), NEW b \in Nat
    PROVE  /\ LinesBefore(f, b) \in 0..Len(f)
           /\ \A i \in 1..Len(f) : i <= LinesBefore(f, b) <=> SizeOf(f, i - 1) + Stamp <= b
<1> DEFINE D == {i \in 1..Len(f) : SizeOf(f, i - 1) + Stamp <= b}
           T == {x \in Nat : x \in 1..Len(f) + 1 /\ x \notin D}
<1>1. Len(f) \in Nat /\ Stamp \in Nat
  BY LineIs, LoraUplinkAssumption DEF LoraUplinkAssumption
<1>2. ASSUME NEW x \in 1..Len(f), NEW y \in D, x <= y PROVE x \in D
  <2>1. x - 1 \in 0..Len(f) /\ y - 1 \in 0..Len(f) /\ y \in 1..Len(f) /\ SizeOf(f, y - 1) + Stamp <= b
    BY <1>1
  <2>2. SizeOf(f, x - 1) \in Nat /\ SizeOf(f, y - 1) \in Nat
    BY <2>1, SizeType
  <2>3. x = y \/ x - 1 < y - 1
    BY <1>2, <2>1
  <2>4. x - 1 < y - 1 => SizeOf(f, x - 1) + Stamp <= SizeOf(f, y - 1)
    BY <2>1, SizeGrows
  <2>5. SizeOf(f, x - 1) + Stamp <= b
    BY <1>1, <2>1, <2>2, <2>3, <2>4
  <2> QED
    BY <2>5
<1>3. Len(f) + 1 \in T
  BY <1>1
<1>4. PICK x \in T : \A y \in T : x <= y
  BY <1>3, LeastNumber
<1>5. x \in 1..Len(f) + 1 /\ x \notin D /\ x - 1 \in 0..Len(f)
  BY <1>1, <1>4
<1>6. D = 1..x - 1
  <2>1. ASSUME NEW y \in D PROVE y \in 1..x - 1
    <3>1. y \in 1..Len(f)
      OBVIOUS
    <3>2. ASSUME x <= y PROVE FALSE
      <4>1. x \in 1..Len(f)
        BY <1>1, <1>5, <3>1, <3>2
      <4> QED
        BY <1>2, <1>5, <3>2, <4>1
    <3> QED
      BY <1>1, <1>5, <3>1, <3>2
  <2>2. ASSUME NEW y \in 1..x - 1 PROVE y \in D
    <3>1. y \in Nat /\ y \in 1..Len(f) + 1 /\ ~(x <= y)
      BY <1>1, <1>5
    <3>2. y \notin T
      BY <1>4, <3>1
    <3> QED
      BY <3>1, <3>2
  <2> QED
    BY <2>1, <2>2
<1>7. LinesBefore(f, b) = x - 1
  <2>1. Cardinality(1..x - 1) = x - 1
    BY <1>1, <1>5, FS_Interval
  <2> QED
    BY <1>6, <2>1 DEF LinesBefore
<1>8. \A i \in 1..Len(f) : i \in D <=> i <= x - 1
  BY <1>1, <1>5, <1>6
<1> QED
  BY <1>5, <1>7, <1>8

\* The offset at the end of a line is behind that line.
LEMMA LinesBeforeEnd ==
    ASSUME NEW f \in Seq(Line), NEW n \in 0..Len(f)
    PROVE  LinesBefore(f, SizeOf(f, n)) = n
<1> DEFINE m == LinesBefore(f, SizeOf(f, n))
<1>1. Len(f) \in Nat /\ Stamp \in Nat /\ Stamp > 0 /\ SizeOf(f, n) \in Nat
  BY LineIs, SizeType, LoraUplinkAssumption DEF LoraUplinkAssumption
<1>2. /\ m \in 0..Len(f)
      /\ \A i \in 1..Len(f) : i <= m <=> SizeOf(f, i - 1) + Stamp <= SizeOf(f, n)
  BY <1>1, LinesBeforeIs
<1> HIDE DEF m
<1>3. ASSUME n > m PROVE FALSE
  <2>1. n \in 1..Len(f) /\ n - 1 \in 0..Len(f) /\ n - 1 < n /\ ~(n <= m)
    BY <1>1, <1>2, <1>3
  <2>2. SizeOf(f, n - 1) + Stamp <= SizeOf(f, n)
    BY <2>1, SizeGrows
  <2> QED
    BY <1>2, <2>1, <2>2
<1>4. ASSUME m > n PROVE FALSE
  <2>1. m \in 1..Len(f) /\ m - 1 \in 0..Len(f) /\ (n = m - 1 \/ n < m - 1)
    BY <1>1, <1>2, <1>4
  <2>2. SizeOf(f, m - 1) + Stamp <= SizeOf(f, n)
    BY <1>2, <2>1
  <2>3. n < m - 1 => SizeOf(f, n) + Stamp <= SizeOf(f, m - 1)
    BY <2>1, SizeGrows
  <2>4. SizeOf(f, m - 1) \in Nat
    BY <2>1, SizeType
  <2> QED
    BY <1>1, <2>1, <2>2, <2>3, <2>4
<1> QED
  BY <1>1, <1>2, <1>3, <1>4 DEF m

-----------------------------------------------------------------------------
(* The steps of the threads.                                                *)

LEMMA LogIs ==
    ASSUME TypeOK, NEW p \in Path
    PROVE  /\ log[p] \in Seq(Line) /\ offsets[p] \in Nat
           /\ Len(log[p]) \in Nat /\ DOMAIN log[p] = 1..Len(log[p])
           /\ LineOffsets[p] = LinesBefore(log[p], offsets[p])
           /\ LineOffsets[p] \in 0..Len(log[p])
<1>1. log[p] \in Seq(Line) /\ offsets[p] \in Nat
  BY DEF TypeOK
<1>2. LineOffsets[p] = LinesBefore(log[p], offsets[p])
  BY DEF LineOffsets
<1> QED
  BY <1>1, <1>2, LineIs, LinesBeforeIs

\* A compacted file has no more lines than before.
LEMMA PlacesSpread ==
    ASSUME NEW m \in Nat, NEW n \in Nat, NEW place \in [1..m -> 1..n],
           \A i, j \in 1..m : i < j => place[i] < place[j]
    PROVE  m <= n
<1> DEFINE Bad == {i \in Nat : i \in 1..m /\ place[i] < i}
<1>1. Bad = {}
  <2> SUFFICES ASSUME Bad # {} PROVE FALSE
    OBVIOUS
  <2>1. PICK i \in Bad : \A y \in Bad : i <= y
    BY LeastNumber
  <2>2. i \in Nat /\ i \in 1..m /\ place[i] < i /\ place[i] \in 1..n
    BY <2>1
  <2>3. i - 1 \in Nat /\ i - 1 \in 1..m /\ i - 1 < i
    BY <2>2
  <2>4. i - 1 \notin Bad
    <3> HIDE DEF Bad
    <3> QED
      BY <2>1, <2>2, <2>3
  <2>5. ~(place[i - 1] < i - 1) /\ place[i - 1] \in 1..n
    BY <2>3, <2>4
  <2>6. place[i - 1] < place[i]
    BY <2>2, <2>3
  <2> QED
    BY <2>2, <2>3, <2>5, <2>6
<1>2. CASE m = 0
  BY <1>2
<1>3. CASE m # 0
  <2>1. m \in 1..m /\ m \notin Bad /\ place[m] \in 1..n
    BY <1>1, <1>3
  <2> QED
    BY <2>1
<1> QED
  BY <1>2, <1>3

\* The lines of a packet come from between the offsets.
LEMMA PacketEntry ==
    ASSUME NEW logs, NEW from, NEW to, NEW l \in PacketLines(logs, from, to)
    PROVE  \E q \in Path : \E j \in from[q] + 1 .. to[q] : l = logs[q][j]
<1>1. PICK e \in Entries(logs, from, to, NPaths) : l = logs[e[1]][e[2]]
  BY DEF PacketLines
<1>2. PICK q \in 1..NPaths : e \in {q} \X (from[q] + 1 .. to[q])
  BY <1>1 DEF Entries
<1>3. q \in Path /\ e[1] = q /\ e[2] \in from[q] + 1 .. to[q]
  BY <1>2 DEF Path
<1> QED
  BY <1>1, <1>3

\* When a packet is made, the lines before the new offsets are those the packing says.
LEMMA TransformOffsets ==
    ASSUME TypeOK, Transform
    PROVE  \E to \in Packings4G(log, LineOffsets) :
              /\ packed' = packed \cup PacketLines(log, LineOffsets, to)
              /\ LineOffsets' = to
              /\ offsets' \in [Path -> Nat]
              /\ to \in [Path -> Nat]
              /\ \A p \in Path : to[p] \in LineOffsets[p]..Len(log[p])
<1> DEFINE from == LineOffsets
<1>1. PICK to \in Packings4G(log, from) :
         packed' = packed \cup PacketLines(log, from, to) /\ offsets' = OffsetsAfter(from, to)
  BY DEF Transform
<1>2. from \in [Path -> Nat] /\ \A p \in Path : from[p] \in 0..Len(log[p])
  <2>1. \A p \in Path : from[p] \in 0..Len(log[p]) /\ from[p] \in Nat
    BY LogIs
  <2> QED
    BY <2>1 DEF LineOffsets
<1> HIDE DEF from
<1>3. \A p \in Path : Len(log[p]) \in Nat
  BY LogIs
<1>4. to \in [Path -> Nat] /\ \A p \in Path : to[p] = from[p] \/ to[p] \in from[p]..Len(log[p])
  BY <1>1, <1>2, <1>3, Packing4GBounds
<1>5. \A p \in Path : to[p] \in from[p]..Len(log[p]) /\ to[p] \in 0..Len(log[p])
  BY <1>2, <1>3, <1>4
<1>6. ASSUME NEW p \in Path
      PROVE  offsets'[p] \in Nat /\ LinesBefore(log[p], offsets'[p]) = to[p]
  <2>1. log[p] \in Seq(Line) /\ offsets[p] \in Nat /\ from[p] = LinesBefore(log[p], offsets[p])
    BY LogIs DEF from
  <2>2. offsets'[p] = IF to[p] = from[p] THEN offsets[p] ELSE SizeOf(log[p], to[p])
    BY <1>1 DEF OffsetsAfter
  <2>3. SizeOf(log[p], to[p]) \in Nat /\ LinesBefore(log[p], SizeOf(log[p], to[p])) = to[p]
    BY <1>5, <2>1, SizeType, LinesBeforeEnd
  <2> QED
    BY <2>1, <2>2, <2>3
<1>7. offsets' \in [Path -> Nat]
  <2>1. offsets' = [p \in Path |-> offsets'[p]]
    BY <1>1 DEF OffsetsAfter
  <2> QED
    BY <1>6, <2>1
<1>8. LineOffsets' = to
  <2>1. log' = log
    BY DEF Transform
  <2>2. LineOffsets' = [p \in Path |-> LinesBefore(log[p], offsets'[p])]
    BY <2>1 DEF LineOffsets
  <2>3. LineOffsets' = [p \in Path |-> to[p]]
    BY <1>6, <2>2
  <2> QED
    BY <1>4, <2>3
<1> QED
  BY <1>1, <1>4, <1>5, <1>7, <1>8 DEF from

LEMMA LogLineKeeps ==
    ASSUME UplinkInv, SettingsTypeOK', NEW p \in Path, NEW len \in Lens, LogLine(p, len)
    PROVE  UplinkInv'
<1> DEFINE new == [no |-> lines + 1, len |-> len, frame |-> lines + 1]
<1>1. /\ TypeOK /\ NumbersInv /\ PackedInv
      /\ lines \in Nat /\ MaxLines \in Nat /\ lines + 1 \in 1..MaxLines
  BY LoraUplinkAssumption DEF UplinkInv, TypeOK, LogLine, LoraUplinkAssumption
<1>2. new \in Line
  BY <1>1 DEF Line
<1>3. /\ lines' = lines + 1 /\ packed' = packed /\ offsets' = offsets
      /\ mainOff' = mainOff /\ pass' = pass
      /\ log' = [log EXCEPT ![p] = Append(log[p], new)]
  BY DEF LogLine
<1>4. log \in [Path -> Seq(Line)]
  BY <1>1 DEF TypeOK
<1>5. /\ log'[p] = Append(log[p], new) /\ log'[p] \in Seq(Line)
      /\ Len(log'[p]) = Len(log[p]) + 1 /\ DOMAIN log'[p] = 1..Len(log[p]) + 1
      /\ \A i \in 1..Len(log[p]) : log'[p][i] = log[p][i]
      /\ log'[p][Len(log[p]) + 1] = new
      /\ \A q \in Path \ {p} : log'[q] = log[q]
  <2>1. log'[p] = Append(log[p], new) /\ log[p] \in Seq(Line)
    BY <1>3, <1>4
  <2> HIDE DEF new
  <2> QED
    BY <1>2, <1>3, <1>4, <2>1, AppendProperties, LineIs
<1>6. log' \in [Path -> Seq(Line)]
  BY <1>3, <1>4, <1>5
<1>7. TypeOK'
  BY <1>1, <1>3, <1>6 DEF TypeOK
<1>8. NumbersInv'
  <2>1. \A q \in Path : Len(log'[q]) <= lines'
    BY <1>1, <1>3, <1>5, LogIs DEF NumbersInv
  <2>2. ASSUME NEW q \in Path, NEW i \in DOMAIN log'[q]
        PROVE  \/ i \in DOMAIN log[q] /\ log'[q][i] = log[q][i] /\ log[q][i].no <= lines
               \/ q = p /\ i = Len(log[p]) + 1 /\ log'[q][i].no = lines + 1
    <3>1. CASE q = p
      <4>1. i \in 1..Len(log[p]) \/ i = Len(log[p]) + 1
        BY <1>5, <2>2, <3>1, <1>1, LogIs
      <4>2. CASE i \in 1..Len(log[p])
        BY <1>1, <1>5, <3>1, <4>2, LogIs DEF NumbersInv
      <4>3. CASE i = Len(log[p]) + 1
        BY <1>5, <3>1, <4>3
      <4> QED
        BY <4>1, <4>2, <4>3
    <3>2. CASE q # p
      BY <1>1, <1>5, <2>2, <3>2 DEF NumbersInv
    <3> QED
      BY <3>1, <3>2
  <2>3. \A q \in Path : \A i \in DOMAIN log[q] : log[q][i].no \in Nat
    <3> SUFFICES ASSUME NEW q \in Path, NEW i \in DOMAIN log[q] PROVE log[q][i].no \in Nat
      OBVIOUS
    <3>1. log[q] \in Seq(Line) /\ i \in 1..Len(log[q])
      BY <1>1, LogIs
    <3> QED
      BY <1>1, <3>1, LineIs
  <2>4. \A q \in Path : \A i \in DOMAIN log'[q] : log'[q][i].no <= lines'
    <3> SUFFICES ASSUME NEW q \in Path, NEW i \in DOMAIN log'[q] PROVE log'[q][i].no <= lines'
      OBVIOUS
    <3>1. CASE i \in DOMAIN log[q] /\ log'[q][i] = log[q][i] /\ log[q][i].no <= lines
      BY <1>1, <1>3, <2>3, <3>1
    <3>2. CASE q = p /\ i = Len(log[p]) + 1 /\ log'[q][i].no = lines + 1
      BY <1>1, <1>3, <3>2
    <3> QED
      BY <2>2, <3>1, <3>2
  <2>5. ASSUME NEW q \in Path, NEW r \in Path, NEW i \in DOMAIN log'[q], NEW j \in DOMAIN log'[r],
               log'[q][i].no = log'[r][j].no
        PROVE  q = r /\ i = j
    <3>1. \/ i \in DOMAIN log[q] /\ log'[q][i] = log[q][i] /\ log[q][i].no <= lines
          \/ q = p /\ i = Len(log[p]) + 1 /\ log'[q][i].no = lines + 1
      BY <2>2
    <3>2. \/ j \in DOMAIN log[r] /\ log'[r][j] = log[r][j] /\ log[r][j].no <= lines
          \/ r = p /\ j = Len(log[p]) + 1 /\ log'[r][j].no = lines + 1
      BY <2>2
    <3>3. CASE i \in DOMAIN log[q] /\ j \in DOMAIN log[r]
               /\ log'[q][i] = log[q][i] /\ log'[r][j] = log[r][j]
      BY <1>1, <2>5, <3>3 DEF NumbersInv
    <3>4. CASE q = p /\ i = Len(log[p]) + 1 /\ r = p /\ j = Len(log[p]) + 1
      BY <3>4
    <3>5. CASE i \in DOMAIN log[q] /\ log'[q][i] = log[q][i] /\ log[q][i].no <= lines
               /\ log'[r][j].no = lines + 1
      BY <1>1, <2>3, <2>5, <3>5
    <3>6. CASE j \in DOMAIN log[r] /\ log'[r][j] = log[r][j] /\ log[r][j].no <= lines
               /\ log'[q][i].no = lines + 1
      BY <1>1, <2>3, <2>5, <3>6
    <3> QED
      BY <3>1, <3>2, <3>3, <3>4, <3>5, <3>6
  <2> QED
    BY <2>1, <2>4, <2>5 DEF NumbersInv
<1>9. PackedInv'
  <2>1. \A l \in packed : l.no <= lines /\ l.no \in Nat
    <3>1. \A l \in Line : l.no \in Nat
      BY DEF Line
    <3> QED
      BY <1>1, <3>1 DEF PackedInv, TypeOK
  <2>2. \A l \in packed' : l.no <= lines'
    BY <1>1, <1>3, <2>1
  <2>3. ASSUME NEW q \in Path, NEW i \in DOMAIN log'[q], log'[q][i] \in packed'
        PROVE  i <= LinesBefore(log'[q], offsets'[q])
    <3>1. CASE q = p
      <4>1. log'[q][i].no <= lines
        BY <1>3, <2>1, <2>3
      <4>2. i \in 1..Len(log[p])
        <5>1. i \in 1..Len(log[p]) \/ i = Len(log[p]) + 1
          BY <1>5, <2>3, <3>1, <1>1, LogIs
        <5>2. i # Len(log[p]) + 1
          <6>1. new.no = lines + 1
            OBVIOUS
          <6> QED
            BY <1>1, <1>5, <3>1, <4>1, <6>1
        <5> QED
          BY <5>1, <5>2
      <4>3. i <= LinesBefore(log[p], offsets[p])
        <5>1. log[p][i] \in packed /\ i \in DOMAIN log[p]
          BY <1>1, <1>3, <1>5, <2>3, <3>1, <4>2, LogIs
        <5> QED
          BY <1>1, <5>1 DEF PackedInv
      <4>4. log[p] \in Seq(Line) /\ offsets[p] \in Nat /\ Len(log[p]) \in Nat
        BY <1>1, LogIs
      <4>5. SizeOf(log[p], i - 1) + Stamp <= offsets[p]
        BY <4>2, <4>3, <4>4, LinesBeforeIs
      <4>6. SizeOf(log'[p], i - 1) = SizeOf(log[p], i - 1)
        <5>1. i - 1 \in 0..Len(log[p])
          BY <4>2, <4>4
        <5> QED
          BY <1>5, <4>4, <5>1, SizeOfPrefix, ZenonT(30)
      <4>7. i \in 1..Len(log'[p])
        BY <1>5, <4>2, <4>4
      <4> QED
        BY <1>3, <1>5, <3>1, <4>4, <4>5, <4>6, <4>7, LinesBeforeIs
    <3>2. CASE q # p
      BY <1>1, <1>3, <1>5, <2>3, <3>2 DEF PackedInv
    <3> QED
      BY <3>1, <3>2
  <2> QED
    BY <2>2, <2>3 DEF PackedInv
<1> QED
  BY <1>7, <1>8, <1>9 DEF UplinkInv

LEMMA TransformKeeps ==
    ASSUME UplinkInv, SettingsTypeOK', Transform
    PROVE  UplinkInv'
<1>1. TypeOK /\ NumbersInv /\ PackedInv
  BY DEF UplinkInv
<1>2. PICK to \in Packings4G(log, LineOffsets) :
         /\ packed' = packed \cup PacketLines(log, LineOffsets, to)
         /\ LineOffsets' = to
         /\ offsets' \in [Path -> Nat]
         /\ to \in [Path -> Nat]
         /\ \A p \in Path : to[p] \in LineOffsets[p]..Len(log[p])
  BY <1>1, TransformOffsets
<1>3. log' = log /\ lines' = lines /\ mainOff' = mainOff /\ pass' = pass
  BY DEF Transform
<1>4. \A p \in Path : /\ log[p] \in Seq(Line) /\ DOMAIN log[p] = 1..Len(log[p])
                      /\ Len(log[p]) \in Nat
                      /\ LineOffsets[p] = LinesBefore(log[p], offsets[p])
                      /\ LineOffsets[p] \in 0..Len(log[p])
  BY <1>1, LogIs
<1>5. \A l \in PacketLines(log, LineOffsets, to) :
         \E q \in Path : \E j \in DOMAIN log[q] : l = log[q][j] /\ j <= to[q]
  <2> SUFFICES ASSUME NEW l \in PacketLines(log, LineOffsets, to)
               PROVE  \E q \in Path : \E j \in DOMAIN log[q] : l = log[q][j] /\ j <= to[q]
    OBVIOUS
  <2>1. PICK q \in Path : \E j \in LineOffsets[q] + 1 .. to[q] : l = log[q][j]
    BY PacketEntry
  <2>2. PICK j \in LineOffsets[q] + 1 .. to[q] : l = log[q][j]
    BY <2>1
  <2>3. j \in 1..Len(log[q]) /\ j <= to[q]
    BY <1>2, <1>4
  <2> QED
    BY <1>4, <2>2, <2>3
<1>6. \A q \in Path : \A j \in DOMAIN log[q] : log[q][j] \in Line /\ log[q][j].no <= lines
  BY <1>1, <1>4, LineIs DEF NumbersInv
<1>7. TypeOK'
  <2>1. PacketLines(log, LineOffsets, to) \subseteq Line
    BY <1>5, <1>6
  <2> QED
    BY <1>1, <1>2, <1>3, <2>1 DEF TypeOK
<1>8. NumbersInv'
  BY <1>1, <1>3 DEF NumbersInv
<1>9. PackedInv'
  <2>1. \A l \in packed' : l.no <= lines'
    BY <1>1, <1>2, <1>3, <1>5, <1>6 DEF PackedInv
  <2>2. \A p \in Path : LinesBefore(log'[p], offsets'[p]) = to[p]
    BY <1>2 DEF LineOffsets
  <2>3. ASSUME NEW p \in Path, NEW i \in DOMAIN log[p], log[p][i] \in packed'
        PROVE  i <= to[p]
    <3>1. CASE log[p][i] \in packed
      <4>1. i <= LineOffsets[p]
        BY <1>1, <1>4, <3>1 DEF PackedInv
      <4> QED
        BY <1>2, <1>4, <4>1
    <3>2. CASE log[p][i] \in PacketLines(log, LineOffsets, to)
      <4>1. PICK q \in Path : \E j \in DOMAIN log[q] : log[p][i] = log[q][j] /\ j <= to[q]
        BY <1>5, <3>2
      <4>2. PICK j \in DOMAIN log[q] : log[p][i] = log[q][j] /\ j <= to[q]
        BY <4>1
      <4>3. q = p /\ j = i
        BY <1>1, <2>3, <4>2 DEF NumbersInv
      <4> QED
        BY <4>2, <4>3
    <3> QED
      BY <1>2, <2>3, <3>1, <3>2
  <2> QED
    BY <1>3, <2>1, <2>2, <2>3 DEF PackedInv
<1> QED
  BY <1>7, <1>8, <1>9 DEF UplinkInv

LEMMA MainSendsKeeps ==
    ASSUME UplinkInv, SettingsTypeOK', NEW p \in Path, NEW n \in Nat, MainSends(p, n)
    PROVE  UplinkInv'
<1>1. /\ TypeOK /\ NumbersInv /\ PackedInv /\ lines \in Nat /\ MaxLines \in Nat /\ lines <= MaxLines
  BY LoraUplinkAssumption DEF UplinkInv, TypeOK, LoraUplinkAssumption
<1>2. PICK c \in Compactions(log[p], n) :
         log' = [log EXCEPT ![p] = c.lines] /\ mainOff' = [mainOff EXCEPT ![p] = c.off]
  BY DEF MainSends
<1>3. lines' = lines /\ packed' = packed /\ offsets' = offsets /\ pass' = pass
  BY DEF MainSends
<1>4. /\ log \in [Path -> Seq(Line)] /\ log[p] \in Seq(Line) /\ Len(log[p]) \in Nat
      /\ mainOff \in [Path -> 0..MaxLines] /\ offsets[p] \in Nat
  BY <1>1, LogIs DEF TypeOK
<1>5. /\ c.lines \in Seq(Line) /\ c.off \in Nat /\ Len(c.lines) \in Nat
      /\ DOMAIN c.lines = 1..Len(c.lines) /\ c.off <= Len(c.lines)
  <2>1. /\ SentCount(log[p], n) \in 0..Len(log[p])
        /\ c \in [lines : Seq(Line), off : Nat]
        /\ Len(c.lines) = c.off + Len(log[p]) - SentCount(log[p], n)
    BY <1>4, CompactionShape
  <2>2. c.lines \in Seq(Line) /\ c.off \in Nat
    BY <2>1
  <2> QED
    BY <1>4, <2>1, <2>2, LineIs
<1>6. PICK place \in [1..Len(c.lines) -> 1..Len(log[p])] :
         /\ \A i \in 1..Len(c.lines) : c.lines[i] = log[p][place[i]]
         /\ \A i, j \in 1..Len(c.lines) : i < j => place[i] < place[j]
  BY <1>4, CompactionPlaces
<1>7. Len(c.lines) <= Len(log[p])
  BY <1>4, <1>5, <1>6, PlacesSpread
<1>8. /\ log' \in [Path -> Seq(Line)] /\ log'[p] = c.lines
      /\ \A q \in Path \ {p} : log'[q] = log[q]
  BY <1>2, <1>4, <1>5
<1>9. \A q \in Path : \A i \in DOMAIN log'[q] :
         \E a \in DOMAIN log[q] : log'[q][i] = log[q][a] /\ (q = p => a = place[i])
                                  /\ (q # p => a = i)
  <2> SUFFICES ASSUME NEW q \in Path, NEW i \in DOMAIN log'[q]
               PROVE  \E a \in DOMAIN log[q] : log'[q][i] = log[q][a] /\ (q = p => a = place[i])
                                               /\ (q # p => a = i)
    OBVIOUS
  <2>1. CASE q = p
    <3>1. i \in 1..Len(c.lines) /\ place[i] \in 1..Len(log[p]) /\ DOMAIN log[p] = 1..Len(log[p])
      BY <1>1, <1>5, <1>6, <1>8, <2>1, LogIs
    <3> QED
      BY <1>6, <1>8, <2>1, <3>1
  <2>2. CASE q # p
    BY <1>8, <2>2
  <2> QED
    BY <2>1, <2>2
<1>10. TypeOK'
  <2>1. c.off \in 0..MaxLines
    <3>1. Len(log[p]) <= lines
      BY <1>1 DEF NumbersInv
    <3> QED
      BY <1>1, <1>4, <1>5, <1>7, <3>1
  <2>2. mainOff' \in [Path -> 0..MaxLines]
    BY <1>2, <1>4, <2>1
  <2> QED
    BY <1>1, <1>3, <1>8, <2>2 DEF TypeOK
<1>11. NumbersInv'
  <2>1. \A q \in Path : Len(log'[q]) <= lines'
    <3>1. \A q \in Path : Len(log[q]) <= lines /\ Len(log[q]) \in Nat
      BY <1>1, LogIs DEF NumbersInv
    <3> QED
      BY <1>1, <1>3, <1>5, <1>7, <1>8, <3>1
  <2>2. \A q \in Path : \A i \in DOMAIN log'[q] : log'[q][i].no <= lines'
    BY <1>1, <1>3, <1>9 DEF NumbersInv
  <2>3. ASSUME NEW q \in Path, NEW r \in Path, NEW i \in DOMAIN log'[q], NEW j \in DOMAIN log'[r],
               log'[q][i].no = log'[r][j].no
        PROVE  q = r /\ i = j
    <3>1. PICK a \in DOMAIN log[q] : log'[q][i] = log[q][a] /\ (q = p => a = place[i])
                                     /\ (q # p => a = i)
      BY <1>9
    <3>2. PICK b \in DOMAIN log[r] : log'[r][j] = log[r][b] /\ (r = p => b = place[j])
                                     /\ (r # p => b = j)
      BY <1>9
    <3>3. q = r /\ a = b
      BY <1>1, <2>3, <3>1, <3>2 DEF NumbersInv
    <3>4. CASE q = p
      <4>1. i \in 1..Len(c.lines) /\ j \in 1..Len(c.lines) /\ place[i] = place[j]
        BY <1>5, <1>8, <3>1, <3>2, <3>3, <3>4
      <4>2. place[i] \in 1..Len(log[p])
        BY <1>6, <4>1
      <4>3. ~(i < j) /\ ~(j < i)
        BY <1>4, <1>6, <4>1, <4>2
      <4> QED
        BY <1>5, <3>3, <4>1, <4>3
    <3>5. CASE q # p
      BY <3>1, <3>2, <3>3, <3>5
    <3> QED
      BY <3>4, <3>5
  <2> QED
    BY <2>1, <2>2, <2>3 DEF NumbersInv
<1>12. PackedInv'
  <2>1. \A l \in packed' : l.no <= lines'
    BY <1>1, <1>3 DEF PackedInv
  <2>2. ASSUME NEW q \in Path, NEW i \in DOMAIN log'[q], log'[q][i] \in packed'
        PROVE  i <= LinesBefore(log'[q], offsets'[q])
    <3>1. CASE q = p
      <4>1. /\ i \in 1..Len(c.lines) /\ place[i] \in 1..Len(log[p])
            /\ log[p][place[i]] \in packed /\ DOMAIN log[p] = 1..Len(log[p])
        <5>1. i \in 1..Len(c.lines)
          BY <1>5, <1>8, <2>2, <3>1
        <5> QED
          BY <1>1, <1>3, <1>6, <1>8, <2>2, <3>1, <5>1, LogIs
      <4>2. place[i] <= LinesBefore(log[p], offsets[p])
        BY <1>1, <4>1 DEF PackedInv
      <4>3. SizeOf(log[p], place[i] - 1) + Stamp <= offsets[p]
        BY <1>4, <4>1, <4>2, LinesBeforeIs
      <4>4. SizeOf(c.lines, i - 1) <= SizeOf(log[p], place[i] - 1)
        BY <1>4, <1>5, <1>6, <4>1, SizeOfKept
      <4>5. /\ SizeOf(c.lines, i - 1) \in Nat /\ SizeOf(log[p], place[i] - 1) \in Nat
            /\ Stamp \in Nat
        <5>1. i - 1 \in 0..Len(c.lines) /\ place[i] - 1 \in 0..Len(log[p])
          BY <1>4, <1>5, <4>1
        <5> QED
          BY <1>4, <1>5, <5>1, SizeType, LoraUplinkAssumption DEF LoraUplinkAssumption
      <4>6. SizeOf(c.lines, i - 1) + Stamp <= offsets[p]
        BY <1>4, <4>3, <4>4, <4>5
      <4>7. i <= LinesBefore(c.lines, offsets[p])
        BY <1>4, <1>5, <4>1, <4>6, LinesBeforeIs
      <4> QED
        BY <1>3, <1>8, <3>1, <4>7
    <3>2. CASE q # p
      BY <1>1, <1>3, <1>8, <2>2, <3>2 DEF PackedInv
    <3> QED
      BY <3>1, <3>2
  <2> QED
    BY <2>1, <2>2 DEF PackedInv
<1> QED
  BY <1>10, <1>11, <1>12 DEF UplinkInv

LEMMA UplinkInvInit == Init => UplinkInv
<1> SUFFICES ASSUME Init PROVE UplinkInv
  OBVIOUS
<1>1. SettingsTypeOK
  BY SettingsInvInit DEF Init, SettingsInv
<1>2. /\ <<>> \in Seq(Line) /\ MaxLines \in Nat
      /\ \A p \in Path : log[p] = <<>> /\ Len(log[p]) = 0 /\ DOMAIN log[p] = {}
  <2>1. Len(<<>>) = 0 /\ DOMAIN <<>> = {} /\ <<>> \in Seq(Line)
    OBVIOUS
  <2> QED
    BY <2>1, LoraUplinkAssumption DEF Init, LoraUplinkAssumption
<1>3. TypeOK
  <2>1. log \in [Path -> Seq(Line)]
    BY <1>2 DEF Init
  <2>2. 0 \in 0..MaxLines
    BY <1>2
  <2>3. offsets \in [Path -> Nat] /\ mainOff \in [Path -> 0..MaxLines]
    BY <2>2 DEF Init, Zero
  <2>4. pass \in BOOLEAN /\ lines \in 0..MaxLines /\ packed \subseteq Line
    BY <2>2 DEF Init
  <2> QED
    BY <1>1, <2>1, <2>3, <2>4 DEF TypeOK
<1>4. NumbersInv
  BY <1>2 DEF Init, NumbersInv
<1>5. PackedInv
  BY <1>2 DEF Init, PackedInv
<1> QED
  BY <1>3, <1>4, <1>5 DEF UplinkInv

LEMMA UplinkInvStep ==
    ASSUME UplinkInv, SettingsTypeOK', [Next]_vars PROVE UplinkInv'
<1>1. TypeOK /\ NumbersInv /\ PackedInv
  BY DEF UplinkInv
<1>2. CASE UNCHANGED logVars
  <2>1. /\ log' = log /\ offsets' = offsets /\ mainOff' = mainOff /\ pass' = pass
        /\ lines' = lines /\ packed' = packed
    BY <1>2 DEF logVars
  <2>2. TypeOK'
    BY <1>1, <2>1 DEF TypeOK
  <2>3. NumbersInv'
    BY <1>1, <2>1 DEF NumbersInv
  <2>4. PackedInv'
    BY <1>1, <2>1 DEF PackedInv
  <2> QED
    BY <2>2, <2>3, <2>4 DEF UplinkInv
<1>3. CASE \E p \in Path, len \in Lens : LogLine(p, len)
  BY <1>3, LogLineKeeps
<1>4. CASE Transform
  BY <1>4, TransformKeeps
<1>5. CASE MainPass
  <2>1. log' = log /\ offsets' = offsets /\ lines' = lines /\ packed' = packed
    BY <1>5 DEF MainPass
  <2>2. mainOff' \in [Path -> 0..MaxLines] /\ pass' \in BOOLEAN
    <3>1. \A p \in Path : Len(log[p]) \in 0..MaxLines
      <4> SUFFICES ASSUME NEW p \in Path PROVE Len(log[p]) \in 0..MaxLines
        OBVIOUS
      <4>1. Len(log[p]) \in Nat /\ Len(log[p]) <= lines /\ lines \in 0..MaxLines
        BY <1>1, LogIs DEF NumbersInv, TypeOK
      <4> QED
        BY <4>1, LoraUplinkAssumption DEF LoraUplinkAssumption
    <3> QED
      BY <1>1, <1>5, <3>1 DEF MainPass, TypeOK
  <2>3. TypeOK'
    BY <1>1, <2>1, <2>2 DEF TypeOK
  <2>4. NumbersInv'
    BY <1>1, <2>1 DEF NumbersInv
  <2>5. PackedInv'
    BY <1>1, <2>1 DEF PackedInv
  <2> QED
    BY <2>3, <2>4, <2>5 DEF UplinkInv
<1>6. CASE Compacts
  <2>1. PICK p \in Path, n \in 0..MaxLines : MainSends(p, n)
    BY <1>6 DEF Compacts
  <2> QED
    BY <2>1, MainSendsKeeps
<1>7. CASE Restart
  <2>1. log' = log /\ offsets' = Zero /\ packed' = {} /\ pass' = FALSE
        /\ mainOff' = mainOff /\ lines' = lines
    BY <1>7 DEF Restart
  <2>2. Zero \in [Path -> Nat]
    BY DEF Zero
  <2>3. TypeOK'
    BY <1>1, <2>1, <2>2 DEF TypeOK
  <2>4. NumbersInv'
    BY <1>1, <2>1 DEF NumbersInv
  <2>5. PackedInv'
    BY <2>1 DEF PackedInv
  <2> QED
    BY <2>3, <2>4, <2>5 DEF UplinkInv
<1> QED
  BY <1>2, <1>3, <1>4, <1>5, <1>6, <1>7 DEF Next, vars

\* What the offsets say of the files holds at all times.
THEOREM UplinkInvHolds == Spec => []UplinkInv
<1>1. Init => UplinkInv
  BY UplinkInvInit
<1>2. UplinkInv /\ SettingsTypeOK' /\ [Next]_vars => UplinkInv'
  BY UplinkInvStep
<1>3. SettingsInv => SettingsTypeOK
  BY DEF SettingsInv
<1> QED
  BY <1>1, <1>2, <1>3, SettingsInvHolds, PTL DEF Spec

\* Type correctness.
THEOREM UplinkTypeCorrect == Spec => []TypeOK
<1>1. UplinkInv => TypeOK
  BY DEF UplinkInv
<1> QED
  BY <1>1, UplinkInvHolds, PTL

\* However the files are compacted between two packets, lora_transform_thread packs no line
\* a second time while the process lives.
THEOREM NothingPackedTwice == Spec => PackedOnce
<1>1. ASSUME UplinkInv, Transform
      PROVE  \E from \in {LineOffsets} : PacketLines(log, from, LineOffsets') \cap packed = {}
  <2>1. TypeOK /\ NumbersInv /\ PackedInv
    BY <1>1 DEF UplinkInv
  <2>2. PICK to \in Packings4G(log, LineOffsets) :
           LineOffsets' = to /\ \A p \in Path : to[p] \in LineOffsets[p]..Len(log[p])
    BY <1>1, <2>1, TransformOffsets
  <2>3. ASSUME NEW l \in PacketLines(log, LineOffsets, to), l \in packed PROVE FALSE
    <3>1. PICK q \in Path : \E j \in LineOffsets[q] + 1 .. to[q] : l = log[q][j]
      BY PacketEntry
    <3>2. PICK j \in LineOffsets[q] + 1 .. to[q] : l = log[q][j]
      BY <3>1
    <3>3. /\ LineOffsets[q] \in 0..Len(log[q]) /\ Len(log[q]) \in Nat
          /\ DOMAIN log[q] = 1..Len(log[q])
          /\ LineOffsets[q] = LinesBefore(log[q], offsets[q])
      BY <2>1, LogIs
    <3>4. j \in DOMAIN log[q] /\ ~(j <= LineOffsets[q])
      BY <2>2, <3>2, <3>3
    <3> QED
      BY <2>1, <2>3, <3>2, <3>3, <3>4 DEF PackedInv
  <2> QED
    BY <2>2, <2>3
<1>2. UplinkInv =>
         [Transform => \E from \in {LineOffsets} :
             PacketLines(log, from, LineOffsets') \cap packed = {}]_vars
  BY <1>1
<1> QED
  BY <1>2, UplinkInvHolds, PTL DEF PackedOnce

LEMMA MissedIs ==
    ASSUME NEW l
    PROVE  /\ l \in Missed <=>
                 /\ l \notin packed
                 /\ \E p \in Path : \E i \in 1..LineOffsets[p] : Valid(log[p][i]) /\ l = log[p][i]
           /\ l \in Missed' <=>
                 /\ l \notin packed'
                 /\ \E p \in Path : \E i \in 1..LineOffsets'[p] : Valid(log'[p][i]) /\ l = log'[p][i]
<1> DEFINE Passed(f, n) == {f[i] : i \in {j \in 1..n : Valid(f[j])}}
<1>1. \A f, n : l \in Passed(f, n) <=> \E i \in 1..n : Valid(f[i]) /\ l = f[i]
  OBVIOUS
<1>2. /\ Missed = (UNION {Passed(log[p], LineOffsets[p]) : p \in Path}) \ packed
      /\ Missed' = (UNION {Passed(log'[p], LineOffsets'[p]) : p \in Path}) \ packed'
  BY DEF Missed
<1> HIDE DEF Passed
<1>3. /\ l \in Missed <=> l \notin packed /\ \E p \in Path : l \in Passed(log[p], LineOffsets[p])
      /\ l \in Missed' <=> l \notin packed' /\ \E p \in Path : l \in Passed(log'[p], LineOffsets'[p])
  BY <1>2
<1> QED
  BY <1>1, <1>3, Zenon

\* A packet takes the offsets past no valid line that it does not carry.
LEMMA TransformMissesNothing ==
    ASSUME UplinkInv, Transform PROVE Missed' \subseteq Missed
<1>1. TypeOK
  BY DEF UplinkInv
<1>2. PICK to \in Packings4G(log, LineOffsets) :
         /\ packed' = packed \cup PacketLines(log, LineOffsets, to)
         /\ LineOffsets' = to
         /\ to \in [Path -> Nat]
         /\ \A p \in Path : to[p] \in LineOffsets[p]..Len(log[p])
  BY <1>1, TransformOffsets
<1>3. log' = log
  BY DEF Transform
<1>4. LineOffsets \in [Path -> Nat]
  <2>1. \A p \in Path : LineOffsets[p] \in Nat
    BY <1>1, LogIs
  <2> QED
    BY <2>1 DEF LineOffsets
<1> SUFFICES ASSUME NEW p \in Path, NEW i \in 1 .. LineOffsets'[p], Valid(log'[p][i]),
                    log'[p][i] \notin packed'
             PROVE  log[p][i] \in Missed
  BY <1>3, MissedIs
<1>5. i \in 1..to[p] /\ Valid(log[p][i]) /\ log[p][i] \notin packed
      /\ log[p][i] \notin PacketLines(log, LineOffsets, to)
  BY <1>2, <1>3
<1>6. CASE i \in 1..LineOffsets[p]
  BY <1>5, <1>6, MissedIs
<1>7. CASE i \notin 1..LineOffsets[p]
  <2>1. i \in LineOffsets[p] + 1 .. to[p]
    BY <1>2, <1>4, <1>5, <1>7
  <2> QED
    BY <1>2, <1>4, <1>5, <2>1, PacketContents
<1> QED
  BY <1>6, <1>7

\* The writer moves no line in front of an offset that is not beyond the end of the file.
LEMMA LogLineMissesNothing ==
    ASSUME UplinkInv, NEW p \in Path, NEW len \in Lens, LogLine(p, len),
           ~(offsets[p] > SizeOf(log[p], Len(log[p])))
    PROVE  Missed' \subseteq Missed
<1> DEFINE new == [no |-> lines + 1, len |-> len, frame |-> lines + 1]
           n == Len(log[p])
<1>1. TypeOK /\ lines \in Nat /\ Stamp \in Nat /\ Stamp > 0 /\ lines + 1 \in 1..MaxLines
  BY LoraUplinkAssumption DEF UplinkInv, TypeOK, LogLine, LoraUplinkAssumption
<1>2. log[p] \in Seq(Line) /\ offsets[p] \in Nat /\ n \in Nat /\ SizeOf(log[p], n) \in Nat
  BY <1>1, LogIs, SizeType
<1>3. new \in Line
  BY <1>1 DEF Line
<1>4. /\ packed' = packed /\ offsets' = offsets
      /\ log' = [log EXCEPT ![p] = Append(log[p], new)]
  BY DEF LogLine
<1>5. log \in [Path -> Seq(Line)]
  BY <1>1 DEF TypeOK
<1> HIDE DEF new
<1>6. /\ log'[p] \in Seq(Line) /\ Len(log'[p]) = n + 1
      /\ \A i \in 1..n : log'[p][i] = log[p][i]
      /\ \A q \in Path \ {p} : log'[q] = log[q]
  BY <1>2, <1>3, <1>4, <1>5, AppendProperties
<1>7. \A q \in Path : LineOffsets'[q] = LinesBefore(log'[q], offsets[q])
  BY <1>4 DEF LineOffsets
<1>8. LineOffsets'[p] \in 0..n
  <2>1. SizeOf(log'[p], n) = SizeOf(log[p], n)
    <3>1. n \in 0..n
      BY <1>2
    <3> QED
      BY <1>2, <1>6, <3>1, SizeOfPrefix, ZenonT(30)
  <2>2. ~(SizeOf(log'[p], n) + Stamp <= offsets[p])
    BY <1>1, <1>2, <2>1
  <2>3. n + 1 \in 1..Len(log'[p]) /\ (n + 1) - 1 = n
    BY <1>2, <1>6
  <2>4. ~(n + 1 <= LinesBefore(log'[p], offsets[p])) /\ LinesBefore(log'[p], offsets[p]) \in 0..n + 1
    BY <1>2, <1>6, <2>2, <2>3, LinesBeforeIs
  <2> QED
    BY <1>2, <1>7, <2>4
<1>9. \A i \in 1..LineOffsets'[p] : i \in 1..LineOffsets[p]
  <2> SUFFICES ASSUME NEW i \in 1..LineOffsets'[p] PROVE i \in 1..LineOffsets[p]
    OBVIOUS
  <2>1. i \in 1..n /\ i \in 1..Len(log'[p]) /\ i <= LinesBefore(log'[p], offsets[p]) /\ i - 1 \in 0..n
    BY <1>2, <1>6, <1>7, <1>8
  <2>2. SizeOf(log'[p], i - 1) = SizeOf(log[p], i - 1)
    <3> DEFINE k == i - 1
    <3>1. k \in 0..n
      BY <2>1
    <3> HIDE DEF k
    <3>2. SizeOf(log'[p], k) = SizeOf(log[p], k)
      BY <1>2, <1>6, <3>1, SizeOfPrefix, ZenonT(30)
    <3> QED
      BY <3>2 DEF k
  <2>3. SizeOf(log[p], i - 1) + Stamp <= offsets[p]
    BY <1>2, <1>6, <2>1, <2>2, LinesBeforeIs
  <2>4. i <= LineOffsets[p] /\ LineOffsets[p] \in 0..n
    BY <1>1, <1>2, <2>1, <2>3, LogIs, LinesBeforeIs
  <2> QED
    BY <1>2, <2>1, <2>4
<1> SUFFICES ASSUME NEW q \in Path, NEW i \in 1 .. LineOffsets'[q], Valid(log'[q][i]),
                    log'[q][i] \notin packed'
             PROVE  log'[q][i] \in Missed
  BY MissedIs
<1>10. i \in 1..LineOffsets[q] /\ log'[q][i] = log[q][i]
  <2>1. CASE q = p
    <3>1. i \in 1..LineOffsets[p] /\ i \in 1..n
      BY <1>2, <1>8, <1>9, <2>1
    <3> QED
      BY <1>6, <2>1, <3>1
  <2>2. CASE q # p
    BY <1>6, <1>7, <2>2 DEF LineOffsets
  <2> QED
    BY <2>1, <2>2
<1> QED
  BY <1>4, <1>10, MissedIs

\* pack_data_from_files passes no line that it does not pack: the LoRa sender misses a line
\* only when a compaction moves it in front of the offset, or when it is written to a file
\* that a compaction has left shorter than the offset.
THEOREM OnlyCompactionsMissLines == Spec => MissedByCompaction
<1>1. ASSUME UplinkInv, [Next]_vars
      PROVE  [\/ Missed' \subseteq Missed
              \/ Compacts
              \/ \E p \in Path, len \in Lens :
                    LogLine(p, len) /\ offsets[p] > SizeOf(log[p], Len(log[p]))]_vars
  <2>1. CASE log' = log /\ offsets' = offsets /\ packed' = packed
    BY <2>1 DEF Missed, LineOffsets
  <2>2. CASE \E p \in Path, len \in Lens : LogLine(p, len)
    BY <1>1, <2>2, LogLineMissesNothing
  <2>3. CASE Transform
    BY <1>1, <2>3, TransformMissesNothing
  <2>4. CASE Restart
    <3>1. \A p \in Path : LineOffsets'[p] = 0
      <4> SUFFICES ASSUME NEW p \in Path PROVE LineOffsets'[p] = 0
        OBVIOUS
      <4>1. log' = log /\ offsets' = Zero /\ LineOffsets'[p] = LinesBefore(log[p], 0)
        BY <2>4 DEF Restart, LineOffsets, Zero
      <4>2. log[p] \in Seq(Line) /\ Len(log[p]) \in Nat
        BY <1>1, LogIs DEF UplinkInv
      <4>3. /\ LinesBefore(log[p], 0) \in 0..Len(log[p])
            /\ \A i \in 1..Len(log[p]) : i <= LinesBefore(log[p], 0) <=> SizeOf(log[p], i - 1) + Stamp <= 0
        BY <4>2, LinesBeforeIs
      <4>4. Len(log[p]) > 0 => SizeOf(log[p], 0) = 0 /\ 1 - 1 = 0 /\ 1 \in 1..Len(log[p])
        BY <4>2, SizeSteps
      <4>5. Stamp \in Nat /\ Stamp > 0
        BY LoraUplinkAssumption DEF LoraUplinkAssumption
      <4> QED
        BY <4>1, <4>2, <4>3, <4>4, <4>5
    <3>2. \A p \in Path : 1..LineOffsets'[p] = {}
      BY <3>1
    <3>3. Missed' = {}
      BY <3>2 DEF Missed
    <3> QED
      BY <3>3
  <2> QED
    BY <1>1, <2>1, <2>2, <2>3, <2>4 DEF Next, vars, logVars, MainPass
<1>2. UplinkInv /\ [Next]_vars =>
         [\/ Missed' \subseteq Missed
          \/ Compacts
          \/ \E p \in Path, len \in Lens :
                LogLine(p, len) /\ offsets[p] > SizeOf(log[p], Len(log[p]))]_vars
  BY <1>1
<1> QED
  BY <1>2, UplinkInvHolds, PTL DEF Spec, MissedByCompaction

=============================================================================
