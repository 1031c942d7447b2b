----------------------------- MODULE LoraUplink -----------------------------
(***************************************************************************)
(* The log files as lora_transform_thread reads them, and the settings     *)
(* that decide who reads them.  A node packs the lines behind its own      *)
(* offsets with pack_data_from_files (LogPacking, whose Hex4G is           *)
(* LORA_MAX_HEX_LEN here); a gateway does not, but its main_send_thread    *)
(* sends the lines and compacts the files (LogCompaction) under those      *)
(* offsets.  They count bytes, so that a compaction may leave one inside   *)
(* a line.  The offsets are saved, but no start reads them.                *)
(* The packets are LoraNode's subject, main_send_thread MainSend's.        *)
(***************************************************************************)
EXTENDS LogPacking, LogCompaction, Settings

CONSTANTS Lens,        \* bytes of payload a line may have
          Stamp,       \* bytes of a line up to the "]" of its time
          MaxLines     \* bound: lines that are logged

ASSUME LoraUplinkAssumption ==
    Lens \subseteq Nat /\ Stamp \in Nat \ {0} /\ MaxLines \in Nat

VARIABLES
    log,       \* the lines of each file
    offsets,   \* offsets[] of lora_transform_thread, in bytes
    mainOff,   \* the offsets of main_send_thread, in lines
    pass,      \* main_send_thread is in a pass it began as a gateway
    \* History.
    lines,     \* number of lines logged
    packed     \* the lines lora_transform_thread has packed since the start

logVars == <<log, offsets, mainOff, pass, lines, packed>>
vars    == <<settingVars, logVars>>

Line == [no : 1 .. MaxLines, len : Lens, frame : 1 .. MaxLines]
Zero == [p \in Path |-> 0]

\* Bytes of the first n lines.
SizeOf(f, n) ==
    LET size[k \in Nat] == IF k = 0 THEN 0 ELSE size[k - 1] + Stamp + f[k].len
    IN  size[n]

\* The lines fgets does not give from byte b on: the rest of a line parses as long
\* as the "]" is in it.
LinesBefore(f, b) ==
    Cardinality({i \in 1 .. Len(f) : SizeOf(f, i - 1) + Stamp <= b})

LineOffsets == [p \in Path |-> LinesBefore(log[p], offsets[p])]

Init ==
    /\ SettingsInit
    /\ log = [p \in Path |-> <<>>]
    /\ offsets = Zero /\ mainOff = Zero /\ pass = FALSE
    /\ lines = 0 /\ packed = {}

\* write_file_thread appends a line.
LogLine(p, len) ==
    /\ lines < MaxLines
    /\ lines' = lines + 1
    /\ log' = [log EXCEPT ![p] = Append(@, [no |-> lines', len |-> len, frame |-> lines'])]
    /\ UNCHANGED <<settingVars, offsets, mainOff, pass, packed>>

\* Mutant: ftello before the last line is read.
OffsetsAfterBeforeLine(from, to) ==
    [p \in Path |-> IF to[p] = from[p] THEN offsets[p] ELSE SizeOf(log[p], to[p] - 1)]

\* The offset of a file a line was taken from is the end of the last one.
OffsetsAfter(from, to) ==
    [p \in Path |-> IF to[p] = from[p] THEN offsets[p] ELSE SizeOf(log[p], to[p])]

\* Mutant: only a root sends what it logs.
TransformAtRoot ==
    /\ cfg.mesh = "NODE" /\ cfg.root = "ROOT"
    /\ \E from \in {LineOffsets} : \E to \in Packings4G(log, from) :
          /\ Entries(log, from, to, NPaths) # {}
          /\ packed' = packed \cup PacketLines(log, from, to)
          /\ offsets' = OffsetsAfter(from, to)
    /\ UNCHANGED <<settingVars, log, mainOff, pass, lines>>

\* lora_transform_thread: the offsets move when the packet is made, whatever becomes
\* of it.
Transform ==
    /\ cfg.mesh = "NODE"
    /\ \E from \in {LineOffsets} : \E to \in Packings4G(log, from) :
          /\ Entries(log, from, to, NPaths) # {}
          /\ packed' = packed \cup PacketLines(log, from, to)
          /\ offsets' = OffsetsAfter(from, to)
    /\ UNCHANGED <<settingVars, log, mainOff, pass, lines>>

\* main_send_thread looks at the role at the start of a pass; as a node it puts its
\* offsets at the ends of the files.
MainPass ==
    /\ pass' = (cfg.mesh = "GATEWAY")
    /\ mainOff' = IF pass' THEN mainOff ELSE [p \in Path |-> Len(log[p])]
    /\ UNCHANGED <<settingVars, log, offsets, lines, packed>>

\* As a gateway it sends lines, and compacts the file.
MainSends(p, n) ==
    /\ pass /\ n \in mainOff[p] .. Len(log[p])
    /\ \E c \in Compactions(log[p], n) :
          /\ log' = [log EXCEPT ![p] = c.lines]
          /\ mainOff' = [mainOff EXCEPT ![p] = c.off]
    /\ UNCHANGED <<settingVars, offsets, pass, lines, packed>>

\* main_send_thread's offsets are those it saved.
Restart ==
    /\ SettingsRestart
    /\ offsets' = Zero
    /\ packed' = {}
    /\ pass' = FALSE
    /\ UNCHANGED <<log, mainOff, lines>>

Compacts == \E p \in Path, n \in 0 .. MaxLines : MainSends(p, n)

Next ==
    \/ (Bluetooth \/ Operator) /\ UNCHANGED logVars
    \/ \E p \in Path, len \in Lens : LogLine(p, len)
    \/ Transform \/ MainPass \/ Compacts
    \/ Restart

\* The thread of the LoRa packets runs.
Fairness == WF_vars(Transform)

Spec == Init /\ [][Next]_vars /\ Fairness

-----------------------------------------------------------------------------

TypeOK ==
    /\ SettingsTypeOK
    /\ log \in [Path -> Seq(Line)]
    /\ offsets \in [Path -> Nat]
    /\ mainOff \in [Path -> 0 .. MaxLines]
    /\ pass \in BOOLEAN
    /\ lines \in 0 .. MaxLines /\ packed \subseteq Line

\* The valid lines that the offsets have passed and no packet has carried.
Missed ==
    (UNION {{log[p][i] : i \in {j \in 1 .. LineOffsets[p] : Valid(log[p][j])}} : p \in Path})
        \ packed

\* pack_data_from_files passes no line it does not pack.  Only another thread makes
\* the LoRa sender miss one: a compaction that moves it before the offset, or the
\* writer, when a compaction has left the offset beyond the end of the file.
MissedByCompaction ==
    [][Missed' \subseteq Missed
        \/ Compacts
        \/ \E p \in Path, len \in Lens :
               LogLine(p, len) /\ offsets[p] > SizeOf(log[p], Len(log[p]))]_vars

\* A compaction only moves lines to the front, so the LoRa sender packs none twice
\* while the process lives, though nobody tells it that the file was replaced.
PackedOnce ==
    [][Transform => \E from \in {LineOffsets} :
           PacketLines(log, from, LineOffsets') \cap packed = {}]_vars

\* The next valid line of the file fits no packet: it is never passed.
Blocked(p) ==
    \E i \in LineOffsets[p] + 1 .. Len(log[p]) :
        /\ ~Fits4G(log, {<<p, i>>})
        /\ \A j \in LineOffsets[p] + 1 .. i - 1 : ~Valid(log[p][j])

Waits(p) ==
    \E i \in LineOffsets[p] + 1 .. Len(log[p]) : Valid(log[p][i])

\* A node that stays a node packs all that its sources log, up to a line too long for
\* any packet.
NodeSendsLog ==
    \/ []<>(cfg.mesh # "NODE")
    \/ []<><<Restart>>_vars
    \/ []<>(\A p \in Path : Waits(p) => Blocked(p))

-----------------------------------------------------------------------------
(* The inductive invariant behind the safety properties.                    *)

\* Every line has a number of its own.
NumbersInv ==
    /\ \A p \in Path : Len(log[p]) <= lines
    /\ \A p \in Path : \A i \in DOMAIN log[p] : log[p][i].no <= lines
    /\ \A p, q \in Path : \A i \in DOMAIN log[p], j \in DOMAIN log[q] :
          log[p][i].no = log[q][j].no => p = q /\ i = j

\* What is packed is in front of the offset, if it is still in a file.
PackedInv ==
    /\ \A l \in packed : l.no <= lines
    /\ \A p \in Path : \A i \in DOMAIN log[p] :
          log[p][i] \in packed => i <= LinesBefore(log[p], offsets[p])

UplinkInv == TypeOK /\ NumbersInv /\ PackedInv

=============================================================================
