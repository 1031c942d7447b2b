------------------------------ MODULE MainSend ------------------------------
(***************************************************************************)
(* main_send_thread: the store-and-forward uplink of the gateway.          *)
(*                                                                         *)
(* The writer thread appends lines to the log files.  The main sender      *)
(* packs the unsent lines, sends them over 4G or, when 4G fails or the     *)
(* configured path says so, over BeiDou (BD), and advances its offsets     *)
(* when the modem or the satellite acknowledges.  After a 4G packet, or    *)
(* the last packet of a BD batch, it compacts the log files and saves the  *)
(* offsets.  The process can be stopped or die at any step and starts      *)
(* again from the files.                                                   *)
(*                                                                         *)
(* Clocks are abstracted to the three deadlines the thread compares them   *)
(* with; the waits between two passes of the loop only pass time and are   *)
(* left out.                                                               *)
(***************************************************************************)
EXTENDS LogPacking, LogCompaction

CONSTANTS EgFailMax,    \* failures of the 4G modem before it is powered down
          BdFailMax,    \* BD_FAIL_MAX
          SendPaths,    \* the send paths an operator chooses from
          Meshes,       \* the LoRa roles an operator chooses from
          Links,        \* how the two links behave: "up", "down", or "flaky"
          Lens,         \* payload lengths of the lines that get logged
          MaxLines,     \* bound: lines logged in a behaviour
          MaxRestarts   \* bound: crashes and stops in a behaviour

ASSUME SendAssumption ==
    /\ {EgFailMax, BdFailMax} \subseteq Nat \ {0}
    /\ SendPaths \subseteq {"AUTO", "4G_ONLY", "BD_ONLY", "4G_FIRST", "BD_FIRST"}
    /\ Meshes \subseteq {"GATEWAY", "NODE"}
    /\ Links \subseteq {"up", "down", "flaky"}
    /\ SendPaths # {} /\ Meshes # {} /\ Links # {}
    /\ Lens \subseteq Nat
    /\ {MaxLines, MaxRestarts} \subseteq Nat

VARIABLES
    \* Files: the log files and the offset file ("short" while it is being
    \* rewritten, which load_offsets reads as no offsets at all).
    log, saved,
    \* Locals of main_send_thread.
    pc,          \* where the thread is inside a pass of its loop
    state,       \* MAIN_ST_...
    offsets, pending, packet, sendPath,
    batchEnd, batchActive, fallback,
    egFail, bdFail,      \* consecutive failures, counted up to the limit
    eg,                  \* "raw", "initialized" or "connected"
    cool4g,              \* now < next_4g_try_time
    bdGap,               \* now < next_bd_send_time
    hold,                \* now < bd_power_hold_until
    batchDone,           \* the offset save under way ends a BD batch
    cp, tmp,             \* compaction: the file, the temporary file
    \* Shared with other threads.
    gPath, mesh, egOn, bdOn, stop, frame,
    \* The world: the state of the two links.
    link4g, linkBD,
    \* History: lines logged, acknowledged, given up to the LoRa role, logged
    \* while their file was being replaced; whether the saved offsets are
    \* those of a file replaced since; whether a crash hit at such a moment.
    logged, acked, skipped, raced, stale, staleCrash, restarts

fileVars  == <<log, saved>>
batchVars == <<batchEnd, batchActive, fallback>>
failVars  == <<egFail, bdFail>>
radioVars == <<eg, egOn, bdOn>>
timerVars == <<cool4g, bdGap, hold>>
compVars  == <<cp, tmp, batchDone>>
localVars == <<pc, state, offsets, pending, packet, sendPath, batchVars,
               failVars, timerVars, compVars>>
sharedVars == <<gPath, mesh, stop, frame>>
linkVars  == <<link4g, linkBD>>
histVars  == <<logged, acked, skipped, raced, stale, staleCrash, restarts>>
vars == <<fileVars, localVars, radioVars, sharedVars, linkVars, histVars>>

Line == [path : Path, no : Nat \ {0}, frame : Nat \ {0}, len : Lens]
Zero == [p \in Path |-> 0]
NoTmp == [lines |-> <<>>, off |-> 0]

\* The lines of a path that wait behind the offset.
Unsent(p) == {log[p][i] : i \in offsets[p] + 1 .. Len(log[p])}

Init ==
    /\ log = [p \in Path |-> <<>>]
    /\ saved = Zero /\ offsets = Zero
    /\ pc = "loop" /\ state = "IDLE"
    /\ pending = Zero /\ packet = {} /\ sendPath = "AUTO"
    /\ batchEnd = Zero /\ batchActive = FALSE /\ fallback = FALSE
    /\ egFail = 0 /\ bdFail = 0
    /\ eg = "raw" /\ egOn = TRUE /\ bdOn = TRUE
    /\ cool4g = FALSE /\ bdGap = FALSE /\ hold = FALSE
    /\ cp = 1 /\ tmp = NoTmp /\ batchDone = FALSE
    /\ stop = FALSE /\ frame = 0
    /\ gPath \in SendPaths /\ mesh \in Meshes
    /\ link4g \in Links /\ linkBD \in Links
    /\ logged = {} /\ acked = {} /\ skipped = {} /\ raced = {}
    /\ stale = FALSE /\ staleCrash = FALSE /\ restarts = 0
-----------------------------------------------------------------------------
(* The other threads and the world.                                        *)

\* write_file_thread appends a line: the first part of a frame, or one more
\* part of the frame that ends the file, whatever ids were given out since.
AppendLine(p, line) ==
    /\ log' = [log EXCEPT ![p] = Append(@, line)]
    /\ logged' = logged \cup {line}
    /\ raced' = IF pc = "rename" /\ cp = p THEN raced \cup {line} ELSE raced
    /\ UNCHANGED <<saved, localVars, radioVars, gPath, mesh, stop, linkVars,
                   acked, skipped, stale, staleCrash, restarts>>

Write(p, len) ==
    LET no == 1 + Cardinality({l \in logged : l.path = p})
        LineOf(f) == [path |-> p, no |-> no, frame |-> f, len |-> len]
    IN  /\ Cardinality(logged) < MaxLines
        /\ \/ frame' = frame + 1 /\ AppendLine(p, LineOf(frame + 1))
           \/ /\ log[p] # <<>>
              /\ frame' = frame /\ AppendLine(p, LineOf(Last(log[p]).frame))

\* A Bluetooth command sets the send path or the LoRa role.
SetSendPath ==
    /\ gPath' \in SendPaths \ {gPath}
    /\ UNCHANGED <<fileVars, localVars, radioVars, mesh, stop, frame, linkVars,
                   histVars>>

SetMesh ==
    /\ mesh' \in Meshes \ {mesh}
    /\ UNCHANGED <<fileVars, localVars, radioVars, gPath, stop, frame, linkVars,
                   histVars>>

\* bt_comm_thread powers both radios when it reads data and both are off.
BtPowerOn ==
    /\ ~egOn /\ ~bdOn
    /\ egOn' = TRUE /\ bdOn' = TRUE
    /\ UNCHANGED <<fileVars, localVars, eg, sharedVars, linkVars, histVars>>

\* handle_signal
HandleSignal ==
    /\ ~stop /\ restarts < MaxRestarts
    /\ stop' = TRUE /\ restarts' = restarts + 1
    /\ UNCHANGED <<fileVars, localVars, radioVars, gPath, mesh, frame, linkVars,
                   logged, acked, skipped, raced, stale, staleCrash>>

Link4GChanges ==
    /\ link4g' \in Links \ {link4g}
    /\ UNCHANGED <<fileVars, localVars, radioVars, sharedVars, linkBD, histVars>>

LinkBDChanges ==
    /\ linkBD' \in Links \ {linkBD}
    /\ UNCHANGED <<fileVars, localVars, radioVars, sharedVars, link4g, histVars>>

Untimed == <<fileVars, pc, state, offsets, pending, packet, sendPath, batchVars,
             failVars, compVars, radioVars, sharedVars, linkVars, histVars>>

CoolDownEnds == cool4g /\ cool4g' = FALSE /\ UNCHANGED <<bdGap, hold, Untimed>>

\* Both are counted from the same send, the hold for half as long.
HoldEnds == hold /\ hold' = FALSE /\ UNCHANGED <<cool4g, bdGap, Untimed>>
BdGapEnds == bdGap /\ ~hold /\ bdGap' = FALSE /\ UNCHANGED <<cool4g, hold, Untimed>>
-----------------------------------------------------------------------------
(* main_send_thread.                                                       *)

\* The values a pass computed and no later pass reads.
Forget == pending' = Zero /\ packet' = {}

AtState(s) == pc = "loop" /\ ~stop /\ mesh # "NODE" /\ state = s

\* The end of a file; a file that is not there keeps its offset.
EndOffset(p) == IF log[p] = <<>> THEN offsets[p] ELSE Len(log[p])

\* As a LoRa node the gateway only keeps its offsets at the end of the files.
NodePass ==
    /\ pc = "loop" /\ ~stop /\ mesh = "NODE"
    /\ offsets' = [p \in Path |-> EndOffset(p)]
    /\ skipped' = skipped \cup UNION {Unsent(p) : p \in Path}
    /\ pc' = "save"
    /\ IF egOn \/ bdOn \/ eg # "raw"
       THEN eg' = "raw" /\ egOn' = FALSE /\ bdOn' = FALSE
       ELSE UNCHANGED radioVars
    /\ UNCHANGED <<fileVars, state, pending, packet, sendPath, batchVars, failVars,
                   timerVars, compVars, sharedVars, linkVars,
                   logged, acked, raced, stale, staleCrash, restarts>>

Idle ==
    /\ AtState("IDLE")
    /\ \E to \in Packings4G(log, offsets) :
         LET taken == Entries(log, offsets, to, NPaths) IN
         \/ \* the packet does not fit its buffer: pack failed
            /\ RawLen(log, taken) > Raw4G
            /\ UNCHANGED <<state, pending, packet, sendPath, fallback>>
         \/ /\ taken = {}
            /\ fallback' = FALSE /\ state' = "POWER_DOWN"
            /\ UNCHANGED <<pending, packet, sendPath>>
         \/ /\ taken # {} /\ RawLen(log, taken) <= Raw4G
            /\ sendPath' = gPath
            /\ IF fallback \/ gPath \in {"BD_ONLY", "BD_FIRST"}
               THEN state' = "TRY_BD" /\ UNCHANGED <<pending, packet>>
               ELSE /\ state' = "TRY_4G"
                    /\ pending' = to
                    /\ packet' = PacketLines(log, offsets, to)
            /\ UNCHANGED fallback
    /\ UNCHANGED <<fileVars, pc, offsets, batchEnd, batchActive, failVars, timerVars,
                   compVars, radioVars, sharedVars, linkVars, histVars>>

\* Where the thread goes when 4G is not to be used now.
After4G == IF sendPath = "4G_ONLY" THEN "IDLE" ELSE "TRY_BD"

\* A failed 4G attempt opens a BD batch that ends where the packet would have,
\* unless one is open.
OpenBatch ==
    IF sendPath # "4G_ONLY" /\ ~batchActive
    THEN batchEnd' = pending /\ batchActive' = TRUE
    ELSE UNCHANGED <<batchEnd, batchActive>>

Try4GCoolingDown ==
    /\ AtState("TRY_4G")
    /\ sendPath = "BD_ONLY" \/ cool4g
    /\ state' = After4G
    /\ Forget
    /\ UNCHANGED <<fileVars, pc, offsets, sendPath, batchVars, failVars, timerVars,
                   compVars, radioVars, sharedVars, linkVars, histVars>>

\* main_ensure_eg_ready fails, in the initialisation or in the connection.
Try4GNotReady ==
    /\ AtState("TRY_4G") /\ sendPath # "BD_ONLY" /\ ~cool4g
    /\ link4g # "up" /\ eg # "connected"
    /\ egOn' = TRUE /\ eg' \in {"raw", "initialized"} /\ bdOn' = bdOn
    /\ egFail' = IF egFail < EgFailMax THEN egFail + 1 ELSE egFail
    /\ cool4g' = TRUE
    /\ IF egFail' >= EgFailMax
       THEN state' = "POWER_DOWN" /\ UNCHANGED batchVars
       ELSE state' = After4G /\ OpenBatch /\ UNCHANGED fallback
    /\ Forget
    /\ UNCHANGED <<fileVars, pc, offsets, sendPath, bdFail, bdGap, hold, compVars,
                   sharedVars, linkVars, histVars>>

\* The modem is ready but eg_send_data fails: the link is down, or the
\* connection broke while nothing was sent.
Try4GSendFails ==
    /\ AtState("TRY_4G") /\ sendPath # "BD_ONLY" /\ ~cool4g
    /\ link4g # "up" \/ eg = "connected"
    /\ egFail' = 0
    /\ eg' = "initialized" /\ egOn' = TRUE /\ bdOn' = bdOn
    /\ state' = After4G /\ OpenBatch /\ UNCHANGED fallback
    /\ Forget
    /\ UNCHANGED <<fileVars, pc, offsets, sendPath, bdFail, timerVars, compVars,
                   sharedVars, linkVars, histVars>>

\* The modem acknowledges the packet.
Try4GSent ==
    /\ AtState("TRY_4G") /\ sendPath # "BD_ONLY" /\ ~cool4g
    /\ link4g # "down"
    /\ egFail' = 0
    /\ eg' = "connected" /\ egOn' = TRUE /\ bdOn' = bdOn
    /\ acked' = acked \cup packet
    /\ offsets' = pending
    /\ Forget
    /\ state' = "IDLE" /\ pc' = "copy" /\ cp' = 1
    /\ UNCHANGED <<fileVars, sendPath, batchVars, bdFail, timerVars, tmp, batchDone,
                   sharedVars, linkVars, logged, skipped, raced, stale, staleCrash, restarts>>

TryBD ==
    /\ AtState("TRY_BD")
    /\ \E to \in PackingsBD(log, offsets, batchEnd) :
         LET taken == Entries(log, offsets, to, NPaths) IN
         \/ /\ taken = {}
            /\ fallback' = FALSE /\ bdFail' = 0 /\ state' = "IDLE"
            /\ UNCHANGED <<pc, pending, packet, bdOn>>
         \/ /\ taken # {} /\ bdGap
            /\ fallback' = TRUE /\ state' = "BD_WAIT"
            /\ UNCHANGED <<pc, pending, packet, bdOn, bdFail>>
         \/ /\ taken # {} /\ ~bdGap
            /\ fallback' = TRUE /\ pc' = "bdsend" /\ bdOn' = TRUE
            /\ pending' = to /\ packet' = PacketLines(log, offsets, to)
            /\ UNCHANGED <<state, bdFail>>
    /\ egOn' = FALSE /\ eg' = "raw"
    /\ UNCHANGED <<fileVars, offsets, sendPath, batchEnd, batchActive, egFail, timerVars,
                   compVars, sharedVars, linkVars, histVars>>

\* The terminal is not ready, the UART write fails, or no TCQ answer confirms
\* the packet in time.
BdSendFails ==
    /\ pc = "bdsend" /\ (linkBD # "up" \/ stop)
    /\ bdFail' = IF bdFail < BdFailMax THEN bdFail + 1 ELSE bdFail
    /\ state' = IF bdFail' >= BdFailMax THEN "POWER_DOWN" ELSE "BD_WAIT"
    /\ pc' = "loop"
    /\ Forget
    /\ UNCHANGED <<fileVars, offsets, sendPath, batchVars, egFail, timerVars, compVars,
                   radioVars, sharedVars, linkVars, histVars>>


\* A packet moves the offsets on by what it carried, wherever the batch ends.
BdAdvances == offsets' = pending

\* The packet is confirmed; the offsets are saved, and the packet that
\* completes the batch ends the fallback.
BdSent ==
    /\ pc = "bdsend" /\ linkBD # "down"
    /\ acked' = acked \cup packet
    /\ BdAdvances
    /\ Forget
    /\ pc' = "save"
    /\ bdGap' = TRUE /\ hold' = TRUE /\ bdFail' = 0
    /\ IF batchActive /\ OffsetsReached(pending, batchEnd)
       THEN /\ batchActive' = FALSE /\ fallback' = FALSE /\ cool4g' = FALSE
            /\ state' = "IDLE" /\ batchDone' = TRUE
       ELSE /\ state' = "BD_WAIT"
            /\ UNCHANGED <<batchActive, fallback, cool4g, batchDone>>
    /\ UNCHANGED <<fileVars, sendPath, batchEnd, egFail, cp, tmp, radioVars, sharedVars,
                   linkVars, logged, skipped, raced, stale, staleCrash, restarts>>

BdWait ==
    /\ AtState("BD_WAIT")
    /\ state' = IF bdGap THEN "BD_WAIT" ELSE "TRY_BD"
    /\ UNCHANGED <<fileVars, pc, offsets, pending, packet, sendPath, batchVars, failVars,
                   timerVars, compVars, radioVars, sharedVars, linkVars, histVars>>

PowerDown ==
    /\ AtState("POWER_DOWN")
    /\ state' = "IDLE"
    /\ IF hold
       THEN UNCHANGED <<fallback, failVars, cool4g, radioVars>>
       ELSE /\ fallback' = FALSE /\ egFail' = 0 /\ bdFail' = 0 /\ cool4g' = FALSE
            /\ eg' = "raw" /\ egOn' = FALSE /\ bdOn' = FALSE
    /\ UNCHANGED <<fileVars, pc, offsets, pending, packet, sendPath, batchEnd,
                   batchActive, bdGap, hold, compVars, sharedVars, linkVars, histVars>>
-----------------------------------------------------------------------------
(* compact_log_file for each path in turn, then save_offsets.              *)

\* Mutant: one path too many.
NextPathTooFar ==
    IF cp <= NPaths THEN cp' = cp + 1 /\ pc' = "copy" ELSE cp' = 1 /\ pc' = "save"

NextPath ==
    IF cp < NPaths THEN cp' = cp + 1 /\ pc' = "copy" ELSE cp' = 1 /\ pc' = "save"

Compacting == <<saved, state, offsets, pending, packet, sendPath, batchVars, failVars,
                timerVars, batchDone, radioVars, sharedVars, linkVars,
                logged, acked, skipped, raced, staleCrash, restarts>>

\* The two passes over the file fill the temporary file.
CompactCopy ==
    /\ pc = "copy" /\ offsets[cp] > 0
    /\ tmp' \in Compactions(log[cp], offsets[cp])
    /\ pc' = "rename"
    /\ UNCHANGED <<log, cp, stale, Compacting>>

\* Nothing was sent from the file, or a file operation fails (the result is
\* not looked at).
CompactSkipped ==
    /\ pc = "copy"
    /\ NextPath
    /\ UNCHANGED <<log, tmp, stale, Compacting>>

\* The temporary file replaces the log file: what was appended to the log
\* since it was copied is gone.
CompactRename ==
    /\ pc = "rename"
    /\ log' = [log EXCEPT ![cp] = tmp.lines]
    /\ offsets' = [offsets EXCEPT ![cp] = tmp.off]
    /\ tmp' = NoTmp
    /\ stale' = (stale \/ (saved # <<>> /\ saved[cp] > tmp.off))
    /\ NextPath
    /\ UNCHANGED <<saved, state, pending, packet, sendPath, batchVars, failVars,
                   timerVars, batchDone, radioVars, sharedVars, linkVars,
                   logged, acked, skipped, raced, staleCrash, restarts>>

Saving == <<log, state, offsets, pending, packet, sendPath, batchVars, failVars,
            timerVars, cp, tmp, radioVars, sharedVars, linkVars,
            logged, acked, skipped, raced, staleCrash, restarts>>

\* Mutant: the mark of a completed batch is not cleared.
SaveReturnsMarked ==
    /\ pc' = IF batchDone THEN "copy" ELSE "loop"
    /\ UNCHANGED batchDone

\* A completed batch is followed by the compaction of the files.
SaveReturns ==
    /\ pc' = IF batchDone THEN "copy" ELSE "loop"
    /\ batchDone' = FALSE

\* save_offsets opens the file with O_TRUNC...
SaveOpen ==
    /\ pc = "save"
    /\ saved' = <<>> /\ stale' = FALSE
    /\ pc' = "write"
    /\ UNCHANGED <<batchDone, Saving>>

\* Mutant: the end of the batch is written.
SaveWriteBatchEnd ==
    /\ pc = "write"
    /\ saved' = batchEnd
    /\ SaveReturns
    /\ UNCHANGED <<stale, Saving>>

\* ...and writes the offsets.
SaveWrite ==
    /\ pc = "write"
    /\ saved' = offsets
    /\ SaveReturns
    /\ UNCHANGED <<stale, Saving>>

\* The open or the write fails; no caller looks at the result.
SaveFails ==
    /\ pc \in {"save", "write"}
    /\ SaveReturns
    /\ UNCHANGED <<saved, stale, Saving>>
-----------------------------------------------------------------------------
(* The end of the process and the next start.                              *)

\* The loop ends: both radios off, the offsets saved.
Exit ==
    /\ pc = "loop" /\ stop /\ state # "EXITED"
    /\ state' = "EXITED" /\ pc' = "save"
    /\ eg' = "raw" /\ egOn' = FALSE /\ bdOn' = FALSE
    /\ UNCHANGED <<fileVars, offsets, pending, packet, sendPath, batchVars, failVars,
                   timerVars, compVars, sharedVars, linkVars, histVars>>

\* main() powers the radios, main_send_thread loads the offsets; everything
\* else starts from its initial value.
Start ==
    /\ offsets' = IF saved = <<>> THEN Zero ELSE saved
    /\ staleCrash' = (staleCrash \/ stale)
    /\ pc' = "loop" /\ state' = "IDLE"
    /\ pending' = Zero /\ packet' = {} /\ sendPath' = "AUTO"
    /\ batchEnd' = Zero /\ batchActive' = FALSE /\ fallback' = FALSE
    /\ egFail' = 0 /\ bdFail' = 0
    /\ eg' = "raw" /\ egOn' = TRUE /\ bdOn' = TRUE
    /\ cool4g' = FALSE /\ bdGap' = FALSE /\ hold' = FALSE
    /\ cp' = 1 /\ tmp' = NoTmp /\ batchDone' = FALSE
    /\ stop' = FALSE /\ frame' = 0
    /\ UNCHANGED <<fileVars, gPath, mesh, linkVars, logged, acked, skipped, raced, stale>>

Restart == pc = "loop" /\ state = "EXITED" /\ Start /\ UNCHANGED restarts

Crash ==
    /\ restarts < MaxRestarts
    /\ restarts' = restarts + 1
    /\ Start
-----------------------------------------------------------------------------
MainStep ==
    \/ NodePass \/ Idle
    \/ Try4GCoolingDown \/ Try4GNotReady \/ Try4GSendFails \/ Try4GSent
    \/ TryBD \/ BdSendFails \/ BdSent \/ BdWait \/ PowerDown
    \/ CompactCopy \/ CompactSkipped \/ CompactRename
    \/ SaveOpen \/ SaveWrite \/ SaveFails
    \/ Exit \/ Restart

Environment ==
    \/ \E p \in Path, len \in Lens : Write(p, len)
    \/ SetSendPath \/ SetMesh \/ BtPowerOn \/ HandleSignal
    \/ Link4GChanges \/ LinkBDChanges
    \/ Crash

Clock == CoolDownEnds \/ HoldEnds \/ BdGapEnds

Next == MainStep \/ Environment \/ Clock

Spec == Init /\ [][Next]_vars

\* The scheduler runs the thread, and its deadlines pass.  Nothing is assumed
\* of the writer, the operator or the links.
Fairness ==
    /\ WF_vars(MainStep)
    /\ WF_vars(CoolDownEnds) /\ WF_vars(HoldEnds) /\ WF_vars(BdGapEnds)

FairSpec == Spec /\ Fairness
-----------------------------------------------------------------------------
States == {"IDLE", "TRY_4G", "TRY_BD", "BD_WAIT", "POWER_DOWN", "EXITED"}
Pcs == {"loop", "bdsend", "copy", "rename", "save", "write"}

DataOK ==
    /\ log \in [Path -> Seq(Line)]
    /\ saved \in [Path -> Nat] \cup {<<>>}
    /\ pc \in Pcs /\ state \in States
    /\ offsets \in [Path -> Nat] /\ pending \in [Path -> Nat]
    /\ packet \subseteq Line
    /\ sendPath \in SendPaths \cup {"AUTO"} /\ gPath \in SendPaths
    /\ mesh \in Meshes
    /\ batchEnd \in [Path -> Nat]
    /\ egFail \in 0..EgFailMax /\ bdFail \in 0..BdFailMax
    /\ eg \in {"raw", "initialized", "connected"}
    /\ cp \in Path
    /\ tmp \in [lines : Seq(Line), off : Nat]
    /\ frame \in Nat /\ restarts \in Nat
    /\ link4g \in Links /\ linkBD \in Links
    /\ logged \subseteq Line /\ IsFiniteSet(logged)
    /\ acked \subseteq Line /\ skipped \subseteq Line /\ raced \subseteq Line

FlagsOK ==
    /\ batchActive \in BOOLEAN /\ fallback \in BOOLEAN /\ batchDone \in BOOLEAN
    /\ egOn \in BOOLEAN /\ bdOn \in BOOLEAN /\ stop \in BOOLEAN
    /\ cool4g \in BOOLEAN /\ bdGap \in BOOLEAN /\ hold \in BOOLEAN
    /\ stale \in BOOLEAN /\ staleCrash \in BOOLEAN

TypeOK == DataOK /\ FlagsOK

\* A line needs no (further) sending: a link acknowledged it, it is too short
\* to be sent, or the gateway was a LoRa node while it waited.
Settled(line) == line \in acked \/ line \in skipped \/ ~Valid(line)

\* The sender never leaves a line behind: whatever lies before its offset is
\* settled, across batches, compactions, changes of role and restarts, unless
\* a crash fell between the replacement of a file and the save of the offset
\* that goes with it.
NothingSkipped ==
    ~staleCrash =>
        \A p \in Path : \A i \in 1..SentCount(log[p], offsets[p]) : Settled(log[p][i])

\* Where a line that was logged can be.
Accounted ==
    \A line \in logged :
        Settled(line) \/ line \in raced \/ line \in Unsent(line.path)

\* No line vanishes: one that is not settled is still in its file, behind the
\* offset, except when it was appended while compact_log_file was between its
\* last read and its rename.
NothingVanishes ==
    ~staleCrash => Accounted

\* A source's lines are delivered in the order they were logged.
DeliveredInOrder ==
    ~staleCrash =>
        \A a, b \in logged :
            (a.path = b.path /\ a.no < b.no /\ b \in acked)
                => Settled(a) \/ a \in raced

\* As long as the process lives, no line is acknowledged and sent again: a
\* compaction, a fallback or a change of role never moves an offset back over
\* what was sent.
NothingResent ==
    (restarts = 0 /\ (state = "TRY_4G" \/ pc = "bdsend")) => packet \cap acked = {}

\* The saved offsets can be started from at any moment.
SavedIsSafe ==
    (saved # <<>> /\ ~stale /\ ~staleCrash) =>
        \A p \in Path : \A i \in 1..SentCount(log[p], saved[p]) : Settled(log[p][i])
-----------------------------------------------------------------------------
(* The inductive invariant behind them.                                    *)

\* Which steps of a pass go with which state.
PassOK ==
    /\ pc \in {"copy", "rename"} => state = "IDLE"
    /\ batchDone => state = "IDLE" /\ pc \in {"save", "write"}
    /\ pc = "bdsend" => state = "TRY_BD"

\* A packet is built and its offsets are pending.
Carrying == state = "TRY_4G" \/ pc = "bdsend"

OffsetsInside ==
    \A p \in Path : /\ offsets[p] <= Len(log[p])
                    /\ Carrying => pending[p] <= Len(log[p])

BehindSettled ==
    \A p \in Path : \A i \in 1..offsets[p] : Settled(log[p][i])

\* Once the packet is acknowledged, all lines before its offsets are settled.
PacketCovers ==
    Carrying =>
        \A p \in Path : \A i \in 1..pending[p] :
            Settled(log[p][i]) \/ log[p][i] \in packet

\* The temporary file has only settled lines before its offset, and each
\* unsent line behind it that was in the file when it was copied.
TmpFaithful ==
    pc = "rename" =>
        /\ tmp.off <= Len(tmp.lines)
        /\ \A i \in 1..tmp.off : Settled(tmp.lines[i])
        /\ \A i \in offsets[cp] + 1 .. Len(log[cp]) :
              \/ log[cp][i] \in raced
              \/ \E j \in tmp.off + 1 .. Len(tmp.lines) : tmp.lines[j] = log[cp][i]

SavedSettled ==
    (saved # <<>> /\ ~stale) =>
        \A p \in Path : /\ saved[p] <= Len(log[p])
                        /\ \A i \in 1..saved[p] : Settled(log[p][i])

SafetyInv ==
    /\ PassOK
    /\ ~staleCrash => /\ OffsetsInside /\ BehindSettled /\ PacketCovers
                      /\ TmpFaithful /\ SavedSettled /\ Accounted

\* The lines of a file were logged for it, and in this order.
InLogOrder(lines, p) ==
    /\ \A i \in DOMAIN lines : lines[i] \in logged /\ lines[i].path = p
    /\ \A i, j \in DOMAIN lines : i < j => lines[i].no < lines[j].no

FilesInOrder ==
    /\ \A p \in Path : InLogOrder(log[p], p)
    /\ pc = "rename" => InLogOrder(tmp.lines, cp)

\* A line that is yet to be logged is newer than all there is.
OnlyLoggedKnown ==
    /\ acked \cup skipped \cup raced \subseteq logged
    /\ \A line \in logged : line.no <= Cardinality({l \in logged : l.path = line.path})

\* What the packet carries stands before the pending offsets.
PacketInFiles ==
    Carrying =>
        \A line \in packet : \E i \in DOMAIN log[line.path] :
            i <= pending[line.path] /\ log[line.path][i] = line

\* Nothing behind the offset n has been acknowledged.
UnsentBehind(lines, n) == \A i \in DOMAIN lines : i > n => lines[i] \notin acked

\* Until the first restart each offset, the present, the pending and that of
\* the temporary file, has only lines behind it that were never delivered.
\* A pass as a LoRa node may move the present one beyond the pending one.
AheadUnsent ==
    restarts = 0 =>
        /\ ~stop /\ state # "EXITED"
        /\ \A p \in Path : UnsentBehind(log[p], offsets[p])
        /\ Carrying => \A p \in Path : UnsentBehind(log[p], pending[p])
        /\ pc = "rename" => UnsentBehind(tmp.lines, tmp.off)

OrderInv ==
    /\ FilesInOrder /\ OnlyLoggedKnown /\ PacketInFiles /\ AheadUnsent
    /\ DeliveredInOrder /\ NothingResent
-----------------------------------------------------------------------------
\* Lines that still wait to be sent.
Backlog == {line \in logged : ~Settled(line) /\ line \notin raced}

Serving(paths) == gPath \in paths /\ mesh = "GATEWAY" /\ ~stop

\* Once 4G works and stays selected, the backlog is sent, whatever failures,
\* fallbacks and restarts came before.
FourGDelivers ==
    <>[](link4g = "up" /\ Serving({"AUTO", "4G_ONLY", "4G_FIRST"}) /\ ~staleCrash)
        => []<>(Backlog = {})


\* bluetooth.h: AUTO prefers 4G and switches to BeiDou when 4G fails, so with
\* 4G down for good a working BeiDou link is enough to send the backlog.
AutoFallsBack ==
    <>[](link4g = "down" /\ linkBD = "up" /\ Serving({"AUTO"})) => []<>(Backlog = {})

\* bluetooth.h: BD_ONLY sends over BeiDou, and BeiDou alone.
BdOnlyDelivers ==
    <>[](linkBD = "up" /\ Serving({"BD_ONLY"})) => []<>(Backlog = {})
=============================================================================
