----------------------------- MODULE BdTerminal -----------------------------
(***************************************************************************)
(* The BeiDou terminal and the three threads that share it:                *)
(*   - main_send_thread powers it, waits until it is ready, writes a       *)
(*     packet and waits for the verdict ($BDFKI,..,TCQ) on it (bd3.c, and  *)
(*     the TRY_BD, BD_WAIT and POWER_DOWN states of thread_summary.c);     *)
(*   - bt_comm_thread powers both radios on when data arrives and writes   *)
(*     the packets of the DEBUG queue;                                     *)
(*   - receive_thread feeds the terminal's lines to bd_status_parse_line.  *)
(* What is packed, and when 4G is tried instead, is MainSend's subject:    *)
(* here a packet is a number and a 4G attempt may succeed or fail.         *)
(***************************************************************************)
EXTENDS Naturals, Sequences, RfPower

CONSTANTS MaxPackets,   \* bound: packets of the sender
          MaxDebug,     \* bound: packets that enter the DEBUG queue
          MaxPend,      \* packets the terminal can hold
          Depth,        \* DEBUG_BT_BD_QUEUE_DEPTH
          BdFailMax,    \* BD_FAIL_MAX
          MayStop       \* whether the process may be told to stop

ASSUME BdAssumption ==
    /\ {MaxPackets, MaxDebug} \subseteq Nat
    /\ {MaxPend, Depth, BdFailMax} \subseteq Nat \ {0}
    /\ MayStop \in BOOLEAN

VARIABLES
    \* The terminal, powered while bdOn.
    reliable,    \* it boots, takes every packet it hears and says so
    booted,      \* it has said READY FOR TRANSMISSION since it was powered
    pend,        \* packets it has received and not answered, oldest first
    taken,       \* it has taken the sender's present packet
    \* bd3.c, under g_bd_status_mutex.
    ready,       \* g_bd_ready_seen
    tcqMoved,    \* g_bd_tcq_seq # tcq_seq_before
    tcqOk,       \* g_bd_tcq_result = 1
    \* main_send_thread.
    pc,
    packet,      \* the packet it has to send next
    bdFail,      \* bd_fail_count
    bdGap,       \* now < next_bd_send_time
    hold,        \* now < bd_power_hold_until
    \* bt_comm_thread and its queue of DEBUG packets.
    btPc,
    ring, head, tail, count,
    dbgGap,      \* less than 60 s since g_debug_bt_last_bd_send_time
    stop,
    \* History.
    crossed,     \* a verdict on another packet may reach the present wait
    staleReady,  \* ready is left from before the terminal was last powered
    dbgNext,     \* number of the next packet to enter the DEBUG queue
    dbgTaken     \* number of the last packet that left it

termVars   == <<reliable, booted, pend, taken>>
statusVars == <<ready, tcqMoved, tcqOk>>
sendVars   == <<pc, packet, bdFail, bdGap, hold>>
queueVars  == <<ring, head, tail, count>>
btVars     == <<btPc, queueVars, dbgGap>>
dbgHist    == <<dbgNext, dbgTaken>>
vars == <<powerVars, termVars, statusVars, sendVars, btVars, stop, crossed,
          staleReady, dbgHist>>

DebugPacket == 0
Packets == 1 .. MaxPackets

Init ==
    /\ bdOn = TRUE /\ egOn = TRUE        \* main() calls rf_power_on
    /\ reliable \in BOOLEAN
    /\ booted = FALSE /\ pend = <<>> /\ taken = FALSE
    /\ ready = FALSE /\ tcqMoved = FALSE /\ tcqOk = FALSE
    /\ pc = "idle" /\ packet = 1 /\ bdFail = 0
    /\ bdGap = FALSE /\ hold = FALSE
    /\ btPc = "poll"
    /\ ring = [s \in 0 .. Depth - 1 |-> 0]
    /\ head = 0 /\ tail = 0 /\ count = 0 /\ dbgGap = FALSE
    /\ stop = FALSE
    /\ crossed = FALSE /\ staleReady = FALSE
    /\ dbgNext = 1 /\ dbgTaken = 0

-----------------------------------------------------------------------------
(* The terminal, and receive_thread, which feeds what it says.  A terminal  *)
(* without power answers nothing and forgets what it was given.             *)

PowerCut == booted' = FALSE /\ pend' = <<>> /\ UNCHANGED <<reliable, taken>>

\* A packet written to a terminal that is off, booting or full is lost.
Receive(p) ==
    /\ pend' = IF booted /\ Len(pend) < MaxPend THEN Append(pend, p) ELSE pend
    /\ UNCHANGED <<reliable, booted, taken>>

\* READY FOR TRANSMISSION or $BDICP.  A reliable terminal needs its 14 s to boot:
\* one that rf_power_on has switched on after the sender's test of the power is
\* not ready before the reset a few instructions later.
Ready ==
    /\ bdOn /\ ~booted /\ pc # "exited"
    /\ reliable => pc # "reset"
    /\ booted' = TRUE
    /\ ready' = TRUE
    /\ staleReady' = FALSE
    /\ UNCHANGED <<powerVars, reliable, pend, taken, tcqMoved, tcqOk,
                   sendVars, btVars, stop, crossed, dbgHist>>

\* The oldest packet is taken or refused.
Settle(ok) ==
    /\ pend # <<>>
    /\ pend' = Tail(pend)
    /\ taken' = (taken \/ (ok /\ Head(pend) = packet))
    /\ UNCHANGED <<reliable, booted>>

\* $BDFKI,..,TCQ,<Y or N>,<code> arrives.  The lines do not say which packet
\* they answer.
Verdict(ok) ==
    /\ pc # "exited"
    /\ reliable => ok
    /\ Settle(ok)
    /\ tcqMoved' = TRUE
    /\ tcqOk' = ok
    /\ UNCHANGED <<powerVars, ready, sendVars, btVars, stop, crossed,
                   staleReady, dbgHist>>

\* No verdict ever comes, whether or not the packet was taken.
VerdictLost(ok) ==
    /\ ~reliable
    /\ Settle(ok)
    /\ UNCHANGED <<powerVars, statusVars, sendVars, btVars, stop, crossed,
                   staleReady, dbgHist>>

Terminal == Ready \/ \E ok \in BOOLEAN : Verdict(ok) \/ VerdictLost(ok)

-----------------------------------------------------------------------------
(* main_send_thread.                                                        *)

senderOnly == <<btVars, stop, dbgHist>>

GoTo(l) == pc' = l /\ UNCHANGED <<packet, bdFail, bdGap, hold>>

\* IDLE: nothing is pending.
IdleEmpty ==
    /\ pc = "idle" /\ ~stop /\ packet \notin Packets
    /\ GoTo("down")
    /\ UNCHANGED <<powerVars, termVars, statusVars, crossed, staleReady,
                   senderOnly>>

\* IDLE and TRY_4G: BeiDou first, a fallback that goes on, or a 4G attempt
\* put off.
IdleToBd ==
    /\ pc = "idle" /\ ~stop /\ packet \in Packets
    /\ GoTo("bdleg")
    /\ UNCHANGED <<powerVars, termVars, statusVars, crossed, staleReady,
                   senderOnly>>

\* IDLE and TRY_4G: main_ensure_eg_ready powers the modem; the packet goes
\* out, or it does not and what is next depends on the path and the failures.
IdleTry4g(next) ==
    /\ pc = "idle" /\ ~stop /\ packet \in Packets
    /\ EgPowerOn
    /\ pc' = next
    /\ \/ next = "idle" /\ packet' = packet + 1 /\ taken' = FALSE
       \/ UNCHANGED <<packet, taken>>
    /\ UNCHANGED <<bdFail, bdGap, hold, reliable, booted, pend, statusVars,
                   crossed, staleReady, senderOnly>>

\* TRY_BD: the modem goes off first.
BdModemOff ==
    /\ pc = "bdleg" /\ ~stop
    /\ EgPowerOff
    /\ GoTo("ensure")
    /\ UNCHANGED <<termVars, statusVars, crossed, staleReady, senderOnly>>

\* The 60 s since the last packet are not over; otherwise main_ensure_bd_ready
\* tests the power of the terminal.
BdEnsure ==
    /\ pc = "ensure"
    /\ GoTo(IF bdGap THEN "wait" ELSE IF bdOn THEN "ready" ELSE "reset")
    /\ UNCHANGED <<powerVars, termVars, statusVars, crossed, staleReady,
                   senderOnly>>

bd_status_no_reset == UNCHANGED <<statusVars, staleReady>>

\* bd_status_reset.
bd_status_reset ==
    /\ ready' = FALSE /\ staleReady' = FALSE
    /\ tcqOk' = FALSE
    /\ UNCHANGED tcqMoved

BdReset ==
    /\ pc = "reset"
    /\ bd_status_reset
    /\ GoTo("switch")
    /\ UNCHANGED <<powerVars, termVars, crossed, senderOnly>>

BdSwitchWithoutPower ==
    /\ pc = "switch"
    /\ GoTo("ready")
    /\ UNCHANGED <<powerVars, termVars, statusVars, crossed, staleReady, senderOnly>>

\* bd_power_on and the 14 s of boot.
BdSwitch ==
    /\ pc = "switch"
    /\ BdPowerOn
    /\ GoTo("ready")
    /\ UNCHANGED <<termVars, statusVars, crossed, staleReady, senderOnly>>

BdFailsUnlimited ==
    /\ bdFail' = bdFail + 1
    /\ pc' = "wait"
    /\ UNCHANGED <<packet, bdGap, hold>>

\* A failed attempt counts; the third, and while a power-down is held off every
\* further one, powers everything down.  The count is kept at BD_FAIL_MAX.
BdFails ==
    /\ bdFail' = IF bdFail < BdFailMax THEN bdFail + 1 ELSE bdFail
    /\ pc' = IF bdFail' >= BdFailMax THEN "down" ELSE "wait"
    /\ UNCHANGED <<packet, bdGap, hold>>

\* bd_wait_ready_and_pwi, and tcq_seq_before.
BdIsReady ==
    /\ pc = "ready" /\ ~stop /\ ready
    /\ tcqMoved' = FALSE
    /\ crossed' = \E i \in DOMAIN pend : pend[i] # packet
    /\ GoTo("send")
    /\ UNCHANGED <<powerVars, termVars, ready, tcqOk, staleReady, senderOnly>>

\* 20 s without READY, or the stop.
BdNotReady ==
    /\ pc = "ready"
    /\ stop \/ ~(ready \/ reliable)
    /\ BdFails
    /\ UNCHANGED <<powerVars, termVars, statusVars, crossed, staleReady,
                   senderOnly>>

\* bd_send_packet.
BdSend ==
    /\ pc = "send"
    /\ Receive(packet)
    /\ GoTo("tcq")
    /\ UNCHANGED <<powerVars, statusVars, crossed, staleReady, senderOnly>>

BdShortWrite ==
    /\ pc = "send" /\ ~reliable
    /\ BdFails
    /\ crossed' = FALSE
    /\ UNCHANGED <<powerVars, termVars, statusVars, staleReady, senderOnly>>

TcqSuccessAnyOk == tcqOk

\* bd_wait_tcq_success: what it returns 0 for.
TcqSuccess == tcqMoved /\ tcqOk

\* The offsets advance; 60 s to the next packet, 30 s before a power-down.
BdConfirmed ==
    /\ pc = "tcq" /\ TcqSuccess
    /\ packet' = packet + 1 /\ taken' = FALSE
    /\ crossed' = FALSE
    /\ bdFail' = 0 /\ bdGap' = TRUE /\ hold' = TRUE
    /\ pc' \in {"idle", "wait"}      \* the batch is complete or not
    /\ UNCHANGED <<powerVars, reliable, booted, pend, statusVars, staleReady,
                   senderOnly>>

\* A refusal, 20 s without a verdict, or the stop.  A reliable terminal boots in
\* less than that.
BdUnconfirmed ==
    /\ pc = "tcq" /\ ~TcqSuccess
    /\ stop \/ tcqMoved \/ (reliable => booted /\ pend = <<>>)
    /\ BdFails
    /\ crossed' = FALSE
    /\ UNCHANGED <<powerVars, termVars, statusVars, staleReady, senderOnly>>

BdWaitedForData ==
    /\ pc = "wait" /\ ~stop /\ ~bdGap /\ packet \in Packets
    /\ GoTo("bdleg")
    /\ UNCHANGED <<powerVars, termVars, statusVars, crossed, staleReady,
                   senderOnly>>

\* BD_WAIT, and back to IDLE when nothing is left to pack.
BdWaited ==
    /\ pc = "wait" /\ ~stop /\ ~bdGap
    /\ GoTo(IF packet \in Packets THEN "bdleg" ELSE "idle")
    /\ UNCHANGED <<powerVars, termVars, statusVars, crossed, staleReady,
                   senderOnly>>

\* POWER_DOWN: not while the terminal is held on.
DownHeld ==
    /\ pc = "down" /\ ~stop /\ hold
    /\ GoTo("idle")
    /\ UNCHANGED <<powerVars, termVars, statusVars, crossed, staleReady,
                   senderOnly>>

\* main_all_power_down: the modem, then the terminal.
DownModem ==
    /\ \/ pc = "down" /\ ~stop /\ ~hold /\ pc' = "downbd"
       \/ pc \in {"idle", "bdleg", "wait", "down"} /\ stop /\ pc' = "leave"
    /\ EgPowerOff
    /\ UNCHANGED <<packet, bdFail, bdGap, hold, termVars, statusVars, crossed,
                   staleReady, senderOnly>>

DownTerminal ==
    /\ pc \in {"downbd", "leave"}
    /\ BdPowerOff
    /\ PowerCut
    /\ pc' = IF pc = "downbd" THEN "idle" ELSE "out"
    /\ bdFail' = IF pc = "downbd" THEN 0 ELSE bdFail
    /\ UNCHANGED <<packet, bdGap, hold, statusVars, crossed, staleReady,
                   senderOnly>>

Sender ==
    \/ IdleEmpty \/ IdleToBd \/ \E l \in {"idle", "bdleg", "down"} : IdleTry4g(l)
    \/ BdModemOff \/ BdEnsure \/ BdReset \/ BdSwitch \/ BdIsReady \/ BdNotReady
    \/ BdSend \/ BdShortWrite \/ BdConfirmed \/ BdUnconfirmed \/ BdWaited
    \/ DownHeld \/ DownModem \/ DownTerminal

-----------------------------------------------------------------------------
(* bt_comm_thread.                                                          *)

btOnly == <<statusVars, sendVars, stop>>

PopNewest ==
    /\ dbgTaken' = ring[(tail + Depth - 1) % Depth]
    /\ tail' = (tail + Depth - 1) % Depth
    /\ count' = count - 1
    /\ UNCHANGED head

\* The oldest packet of the queue leaves it.
Pop ==
    /\ dbgTaken' = ring[head]
    /\ head' = (head + 1) % Depth
    /\ count' = count - 1
    /\ UNCHANGED tail

FlushAfterLine == btPc = "flush"

FlushDue == btPc = "flush" \/ (btPc = "poll" /\ ~stop)

\* debug_bt_bd_flush_once, after a line and at every pass of the loop: at most
\* one packet, 60 s after the one before; it leaves the queue whether or not it
\* can be written.
BtFlush ==
    /\ FlushDue
    /\ count > 0 /\ ~dbgGap
    /\ Pop
    /\ dbgGap' = TRUE
    /\ \/ Receive(DebugPacket)
       \/ ~reliable /\ UNCHANGED termVars
    /\ crossed' = (crossed \/ pc \in {"send", "tcq"})
    /\ btPc' = "poll"
    /\ UNCHANGED <<powerVars, ring, staleReady, dbgNext, btOnly>>

\* Data: rf_power_on unless rf_power_is_on.
BtRead ==
    /\ btPc = "poll" /\ ~stop
    /\ btPc' = IF RfPowerIsOn THEN "line" ELSE "bdon"
    /\ UNCHANGED <<powerVars, termVars, queueVars, dbgGap, crossed, staleReady,
                   dbgHist, btOnly>>

\* rf_power_on: the terminal, with whatever status was left, then the modem.
BtBdOn ==
    /\ btPc = "bdon"
    /\ BdPowerOn
    /\ staleReady' = (staleReady \/ (~bdOn /\ ready))
    /\ btPc' = "egon"
    /\ UNCHANGED <<termVars, queueVars, dbgGap, crossed, dbgHist, btOnly>>

BtEgOn ==
    /\ btPc = "egon"
    /\ EgPowerOn
    /\ btPc' = "line"
    /\ UNCHANGED <<termVars, queueVars, dbgGap, crossed, staleReady,
                   dbgHist, btOnly>>

\* debug_bt_bd_enqueue, its test of the limit first.
QueueFull == count >= Depth

debug_bt_bd_enqueue ==
    /\ ~QueueFull /\ dbgNext <= MaxDebug
    /\ ring' = [ring EXCEPT ![tail] = dbgNext]
    /\ tail' = (tail + 1) % Depth
    /\ count' = count + 1
    /\ dbgNext' = dbgNext + 1
    /\ UNCHANGED <<head, dbgTaken>>

\* A line of hexadecimal digits is queued or, when the queue is full, refused;
\* another line is a command.
BtLine ==
    /\ btPc = "line"
    /\ \/ debug_bt_bd_enqueue
       \/ UNCHANGED <<queueVars, dbgHist>>
    /\ btPc' = IF count' > 0 /\ ~dbgGap THEN "flush" ELSE "poll"
    /\ UNCHANGED <<powerVars, termVars, dbgGap, crossed, staleReady, btOnly>>

BtLeave ==
    /\ btPc = "poll" /\ stop
    /\ btPc' = "out"
    /\ UNCHANGED <<powerVars, termVars, queueVars, dbgGap, crossed,
                   staleReady, dbgHist, btOnly>>

BtThread == BtFlush \/ BtBdOn \/ BtEgOn \/ BtLine \/ BtLeave

-----------------------------------------------------------------------------
(* Clocks, the stop signal, and main(), which joins the threads and calls   *)
(* rf_power_off.                                                            *)

\* The hold of 30 s and the gap of 60 s begin together: the hold ends first.
Clock ==
    /\ \/ bdGap /\ ~hold /\ bdGap' = FALSE /\ UNCHANGED <<hold, dbgGap>>
       \/ hold /\ hold' = FALSE /\ UNCHANGED <<bdGap, dbgGap>>
       \/ dbgGap /\ dbgGap' = FALSE /\ UNCHANGED <<bdGap, hold>>
    /\ UNCHANGED <<powerVars, termVars, statusVars, pc, packet, bdFail, btPc,
                   queueVars, stop, crossed, staleReady, dbgHist>>

handle_signal ==
    /\ MayStop /\ ~stop
    /\ stop' = TRUE
    /\ UNCHANGED <<powerVars, termVars, statusVars, sendVars, btVars, crossed,
                   staleReady, dbgHist>>

\* pthread_join of every thread.
Joined == pc = "out" /\ btPc = "out"

main ==
    /\ Joined
    /\ pc' = "exited"
    /\ bdOn' = FALSE /\ egOn' = FALSE
    /\ PowerCut
    /\ UNCHANGED <<packet, bdFail, bdGap, hold, statusVars, btVars, stop,
                   crossed, staleReady, dbgHist>>

\* Nothing more happens: the process has gone.
Gone == pc = "exited" /\ UNCHANGED vars

Next == Terminal \/ Sender \/ BtRead \/ BtThread \/ Clock \/ handle_signal
        \/ main \/ Gone

FallsBack == IdleToBd \/ IdleTry4g("bdleg")

\* The threads run and time passes.  A reliable terminal boots and answers, and
\* the path is not 4G_ONLY: nine of ten failed 4G attempts fall back to BeiDou.
\* Nothing is assumed of another terminal.
Fairness ==
    /\ WF_vars(Sender) /\ WF_vars(BtThread) /\ WF_vars(Clock) /\ WF_vars(main)
    /\ WF_vars(reliable /\ Ready) /\ WF_vars(reliable /\ Verdict(TRUE))
    /\ SF_vars(reliable /\ FallsBack)

Spec == Init /\ [][Next]_vars /\ Fairness

-----------------------------------------------------------------------------

Queued == [i \in 1 .. count |-> ring[(head + i - 1) % Depth]]

TypeOK ==
    /\ {bdOn, egOn, reliable, booted, ready, tcqMoved, tcqOk, bdGap, hold, dbgGap,
        stop, taken, crossed, staleReady} \subseteq BOOLEAN
    /\ pend \in Seq(0 .. MaxPackets) /\ Len(pend) <= MaxPend
    /\ pc \in {"idle", "bdleg", "ensure", "reset", "switch", "ready", "send", "tcq",
              "wait", "down", "downbd", "leave", "out", "exited"}
    /\ packet \in 1 .. MaxPackets + 1
    /\ bdFail \in 0 .. BdFailMax
    /\ btPc \in {"poll", "flush", "bdon", "egon", "line", "out"}
    /\ ring \in [0 .. Depth - 1 -> 0 .. MaxDebug]
    /\ {head, tail} \subseteq 0 .. Depth - 1 /\ count \in 0 .. Depth
    /\ dbgNext \in 1 .. MaxDebug + 1
    /\ dbgTaken \in 0 .. MaxDebug

\* The offsets of a packet advance only after the terminal has taken it, unless a
\* verdict on another packet could arrive during the wait: a late one on an
\* earlier packet, or the one on a packet the DEBUG channel wrote meanwhile.
ConfirmedOrCrossed == [][BdConfirmed => taken \/ crossed]_vars

\* When the status says ready and the power is on, the terminal has booted since
\* it was powered, unless the flag is left from an earlier power cycle because
\* rf_power_on switched the terminal on without bd_status_reset.
ReadyIsHonest == (ready /\ bdOn) => (booted \/ staleReady)

\* The DEBUG packets leave the queue in the order in which they entered it, and
\* none is lost or overwritten in it: it holds exactly those that entered after
\* the last one that left.
DebugInOrder ==
    /\ Queued = [i \in 1 .. count |-> dbgTaken + i]
    /\ dbgNext = dbgTaken + count + 1

\* With nothing left to send, the radios that data over Bluetooth switches on are
\* always switched off again; and so they are after the process has gone, although
\* the Bluetooth thread may have switched them on after the sender's last power-down.
RadiosRest == [](packet \notin Packets \/ pc = "exited" => <>(~bdOn /\ ~egOn))

\* With a reliable terminal every packet is sent, by BeiDou or by 4G, in spite of
\* power-downs, a stale ready flag and verdicts on other packets.
EverythingSent == reliable => <>(packet \notin Packets \/ stop)

\* A queued DEBUG packet leaves the queue while the process runs.
DebugQueueDrains == (count > 0) ~> (count = 0 \/ stop)

-----------------------------------------------------------------------------
(* The inductive invariant behind the safety properties.                    *)

\* An attempt by BeiDou is begun with a packet, and nobody else advances it.
AttemptHasPacket ==
    pc \in {"bdleg", "ensure", "reset", "switch", "ready", "send", "tcq"}
        => packet \in Packets

\* bd_status_reset lasts until bd_power_on: the ready flag can return between the
\* two only if the Bluetooth thread has switched the terminal on.
ResetHolds == pc = "switch" /\ ~bdOn => ~ready

\* During a wait no verdict on another packet can reach, the terminal holds none
\* but this packet, and a success is the success of this packet.
OwnVerdicts ==
    pc \in {"send", "tcq"} /\ ~crossed =>
        /\ \A i \in DOMAIN pend : pend[i] = packet
        /\ TcqSuccess => taken

\* The tail of the queue is count slots after its head.
RingIsWhole == tail = (head + count) % Depth

BdInv ==
    /\ TypeOK /\ AttemptHasPacket
    /\ ReadyIsHonest /\ ResetHolds
    /\ OwnVerdicts
    /\ DebugInOrder /\ RingIsWhole

=============================================================================
