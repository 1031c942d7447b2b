----------------------------- MODULE LoraRadio ------------------------------
(***************************************************************************)
(* The LLCC68 radio and its driver (src/src/llcc68.c), one SPI command at  *)
(* a time.  Lora_send and Lora_recv_packet hold g_lora_lock from their     *)
(* first command to their last; the RxInit that lora_receive_thread calls  *)
(* itself holds nothing and can come between any two of them.  CheckBusy   *)
(* gives up after 100 ms, and the command is then left out without a word. *)
(* Packets are sent from and received into the same 256 bytes: both base   *)
(* addresses are always 0, so SetBufferBaseAddress is left out.            *)
(***************************************************************************)
EXTENDS Sequences

VARIABLES
    \* The chip.
    mode,       \* "standby", "rx" or "tx"
    mask,       \* the interrupts that are enabled: "tx", or "rx" and "other"
    plen,       \* the packet length that is set, "own" that of the packet to send
    buf,        \* its data buffer
    irq,        \* its interrupt flags: "rx", "tx", and "other" for a preamble or header
    \* The driver.
    lock,       \* the thread that holds g_lora_lock, or "free"
    todo,       \* the commands the holder of the lock has still to write
    sending,    \* the packet it sends
    loose,      \* the commands RxInit has still to write without the lock
    \* History.
    skipped,    \* a command has been left out since the last SetStandby
    raced,      \* RxInit came, without the lock, into what the holder does
    aired       \* the radio has sent the packet, whole and with its length

chipVars  == <<mode, mask, plen, buf, irq>>
drvVars   == <<lock, todo, sending, loose>>
histVars  == <<skipped, raced, aired>>
radioVars == <<chipVars, drvVars, histVars>>

\* A packet that is sent, and packets that arrive: of payload_size or less, and
\* longer.  "stale" is what else can be in a buffer.
Packets == {"own", "short", "long", "stale"}

RxInitWithoutMask == <<"standby", "length64", "clear", "rx">>

RxInit == <<"standby", "length64", "clear", "maskRx", "rx">>

\* Lora_send, up to the wait.
SendHead == <<"standby", "write", "length", "clear", "maskTx", "tx">>

\* Lora_init: the reset and the configuration end in RxInit, before there are threads.
Reset ==
    /\ mode = "rx" /\ mask = "rx" /\ plen = "full" /\ buf = "stale" /\ irq = {}
    /\ lock = "free" /\ todo = <<>> /\ sending = "stale" /\ loose = <<>>
    /\ skipped = FALSE /\ raced = FALSE /\ aired = FALSE

ObeyClearsTxOnly(c) ==
    /\ mode' = IF c \in {"standby", "rx", "tx"} THEN c ELSE mode
    /\ mask' = CASE c = "maskRx" -> "rx" [] c = "maskTx" -> "tx" [] OTHER -> mask
    /\ plen' = CASE c = "length64" -> "full" [] c = "length" -> "own" [] OTHER -> plen
    /\ buf'  = IF c = "write" THEN sending ELSE buf
    /\ irq'  = CASE c = "clear" -> irq \ {"tx"} [] c = "clearRx" -> irq \ {"rx"} [] OTHER -> irq
    /\ skipped' = (skipped /\ c # "standby")

\* What a command does to the chip.
Obey(c) ==
    /\ mode' = IF c \in {"standby", "rx", "tx"} THEN c ELSE mode
    /\ mask' = CASE c = "maskRx" -> "rx" [] c = "maskTx" -> "tx" [] OTHER -> mask
    /\ plen' = CASE c = "length64" -> "full" [] c = "length" -> "own" [] OTHER -> plen
    /\ buf'  = IF c = "write" THEN sending ELSE buf
    /\ irq'  = CASE c = "clear" -> {} [] c = "clearRx" -> irq \ {"rx"} [] OTHER -> irq
    /\ skipped' = (skipped /\ c # "standby")

\* lora_write_cmd: carried out, or left out because the chip stays busy.
\* Bound: one in a sequence.
Command(c) == Obey(c) \/ (~skipped /\ skipped' = TRUE /\ UNCHANGED chipVars)

\* The holder of the lock writes its next command.
Locked ==
    /\ todo # <<>>
    /\ Command(Head(todo))
    /\ todo' = Tail(todo)
    /\ UNCHANGED <<lock, sending, loose, raced, aired>>

\* RxInit of the receive thread writes its next command.
Loose ==
    /\ loose # <<>>
    /\ Command(Head(loose))
    /\ loose' = Tail(loose)
    /\ raced' = (raced \/ sending # "stale")
    /\ UNCHANGED <<lock, todo, sending, aired>>

Enabled == IF mask = "tx" THEN {"tx"} ELSE {"rx", "other"}

\* The line DIO1: an enabled interrupt is flagged.
DIO1 == irq \cap Enabled # {}

\* GetIrqStatus has flag i: if the chip stays busy it answers 0xFFFF, all of them.
Flagged(i) ==
    \/ i \in irq /\ UNCHANGED skipped
    \/ i \notin irq /\ ~skipped /\ skipped' = TRUE

\* The radio has sent what its buffer holds.
TxEnds ==
    /\ mode = "tx"
    /\ mode' = "standby"
    /\ irq' = irq \cup ({"tx"} \cap Enabled)
    /\ aired' = (aired \/ (buf = sending /\ plen = "own"))
    /\ UNCHANGED <<mask, plen, buf, drvVars, skipped, raced>>

\* A packet arrives; it stays until it is read, overwritten or cleared.
Hear(p) ==
    /\ mode = "rx"
    /\ buf' = p
    /\ irq' = irq \cup ({"rx"} \cap Enabled)
    /\ UNCHANGED <<mode, mask, plen, drvVars, histVars>>

\* A preamble or a header, perhaps of a packet that never ends.
HearOther ==
    /\ mode = "rx"
    /\ irq' = irq \cup ({"other"} \cap Enabled)
    /\ UNCHANGED <<mode, mask, plen, buf, drvVars, histVars>>

Holds(t) == lock = t

\* Lora_send takes the lock.
SendBegins(t, p) ==
    /\ lock = "free"
    /\ lock' = t /\ todo' = SendHead /\ sending' = p
    /\ UNCHANGED <<chipVars, loose, histVars>>

\* WaitForIRQ_TxDone: TxDone, and it returns 1.
TxDone(t) ==
    /\ Holds(t) /\ todo = <<>>
    /\ DIO1 /\ Flagged("tx")
    /\ irq' = irq \ {"tx"}
    /\ todo' = RxInit
    /\ UNCHANGED <<mode, mask, plen, buf, lock, sending, loose, raced, aired>>

\* Another interrupt is cleared, and the wait goes on.
TxOther(t) ==
    /\ Holds(t) /\ todo = <<>>
    /\ DIO1 /\ "tx" \notin irq
    /\ irq' = {}
    /\ UNCHANGED <<mode, mask, plen, buf, drvVars, histVars>>

TxTimeoutTooShort(t) ==
    /\ Holds(t) /\ todo = <<>>
    /\ ~(DIO1 /\ "tx" \in irq)
    /\ todo' = <<"clear">> \o RxInit
    /\ UNCHANGED <<chipVars, lock, sending, loose, histVars>>

TxTimeoutWhileQuiet(t) ==
    /\ Holds(t) /\ todo = <<>>
    /\ mode # "tx" /\ ~DIO1
    /\ todo' = <<"clear">> \o RxInit
    /\ UNCHANGED <<chipVars, lock, sending, loose, histVars>>

\* Three seconds, more than any packet takes in the air.
TxTimeout(t) ==
    /\ Holds(t) /\ todo = <<>>
    /\ mode # "tx" /\ ~(DIO1 /\ "tx" \in irq)
    /\ todo' = <<"clear">> \o RxInit
    /\ UNCHANGED <<chipVars, lock, sending, loose, histVars>>

\* The lock is given back.
Release(t) ==
    /\ Holds(t) /\ todo = <<>>
    /\ lock' = "free" /\ sending' = "stale"
    /\ raced' = FALSE /\ aired' = FALSE
    /\ UNCHANGED <<chipVars, todo, loose, skipped>>

\* The length, the place and the bytes of the packet are asked for; "got" is what the
\* caller then finds in its buffer: if the chip stays busy, what happened to be there.
ReadBuffer(got) ==
    \/ got = buf /\ UNCHANGED skipped
    \/ ~skipped /\ skipped' = TRUE

\* Lora_recv_packet, once DIO1 is high: a packet of payload_size or less is read, a
\* longer one is not; RxInit in either case.
RecvBegins(t, got) ==
    /\ lock = "free" /\ DIO1
    /\ \/ "rx" \in irq /\ ReadBuffer(got)
       \/ "rx" \notin irq /\ Flagged("rx") /\ got = buf
    /\ lock' = t
    /\ todo' = <<"clearRx">> \o RxInit
    /\ buf' = "stale"                    \* it is not new any more
    /\ UNCHANGED <<mode, mask, plen, irq, sending, loose, raced, aired>>

\* DIO1 is high for something else: it is cleared.
RecvOther ==
    /\ lock = "free" /\ DIO1 /\ "rx" \notin irq
    /\ irq' = {}
    /\ UNCHANGED <<mode, mask, plen, buf, drvVars, histVars>>

Listening == mode = "rx" /\ mask = "rx"

=============================================================================
