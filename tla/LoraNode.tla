------------------------------ MODULE LoraNode ------------------------------
(***************************************************************************)
(* The three threads of a device that share its LoRa radio, and the role   *)
(* that decides what they do with it:                                      *)
(*   - lora_transform_thread: a node sends packets of its own (what is in  *)
(*     them is LoraUplink's subject);                                      *)
(*   - lora_receive_thread: a gateway queues what it hears, a root drops   *)
(*     it, any other node sends it on as it is, without a look at where it *)
(*     comes from or whether it was here before;                           *)
(*   - bt_comm_thread: commands change the role at any time, and the DEBUG *)
(*     channel sends packets from a node.                                  *)
(* The neighbours send at any time, and send again what they hear.         *)
(***************************************************************************)
EXTENDS LoraRadio

VARIABLES
    pc,       \* where each thread is
    heard,    \* the packet lora_receive_thread has read
    role      \* my_lora_config: mesh_type, and is_root of a node

vars == <<radioVars, pc, heard, role>>

Thread == {"transform", "receive", "bluetooth"}
Role   == {"gateway", "root", "relay"}

IsNode == role # "gateway"

Init ==
    /\ Reset
    /\ pc = [t \in Thread |-> IF t = "receive" THEN "rxinit" ELSE "poll"]
    /\ heard = "stale"
    /\ role \in Role

Goto(t, l) == pc' = [pc EXCEPT ![t] = l]

-----------------------------------------------------------------------------
(* Lora_send, as each of the three threads calls it.                        *)

Send(t, p) ==
    /\ pc[t] = "send" /\ SendBegins(t, p)
    /\ Goto(t, "sending")
    /\ UNCHANGED <<heard, role>>

SendSucceeds(t) ==
    /\ pc[t] = "sending" /\ TxDone(t)
    /\ Goto(t, "ending")
    /\ UNCHANGED <<heard, role>>

SendFailsLocked(t) ==
    /\ pc[t] = "sending" /\ TxTimeout(t)
    /\ Goto(t, "poll")
    /\ UNCHANGED <<heard, role>>

SendFails(t) ==
    /\ pc[t] = "sending" /\ TxTimeout(t)
    /\ Goto(t, "ending")
    /\ UNCHANGED <<heard, role>>

SendWaits(t) ==
    /\ pc[t] = "sending" /\ TxOther(t)
    /\ UNCHANGED <<pc, heard, role>>

\* No caller sends again after a failure.
SendReturns(t) ==
    /\ pc[t] = "ending" /\ Release(t)
    /\ Goto(t, "poll")
    /\ heard' = IF t = "receive" THEN "stale" ELSE heard
    /\ UNCHANGED role

Sends(t) == SendSucceeds(t) \/ SendFails(t) \/ SendReturns(t)

-----------------------------------------------------------------------------

\* lora_transform_thread or the DEBUG channel has something to send; both look at
\* the role before.
HasPacket(t) ==
    /\ t \in {"transform", "bluetooth"}
    /\ pc[t] = "poll" /\ IsNode
    /\ Goto(t, "send")
    /\ UNCHANGED <<radioVars, heard, role>>

\* BL_ROOT_x, BL_MESH_x.
SetRole(r) ==
    /\ pc["bluetooth"] = "poll" /\ r # role
    /\ role' = r
    /\ UNCHANGED <<radioVars, pc, heard>>

-----------------------------------------------------------------------------
(* lora_receive_thread.                                                     *)

\* RxInit without the lock, at the start and after an error.
ReceiveRxInit ==
    /\ pc["receive"] = "rxinit"
    /\ loose' = RxInit
    /\ Goto("receive", "loose")
    /\ UNCHANGED <<chipVars, lock, todo, sending, histVars, heard, role>>

ReceiveRxInitEnds ==
    /\ pc["receive"] = "loose" /\ loose = <<>>
    /\ Goto("receive", "poll")
    /\ UNCHANGED <<radioVars, heard, role>>

\* Lora_recv_packet finds a packet.
ReceiveTakes ==
    /\ pc["receive"] = "poll"
    /\ \E got \in {buf, "stale"} : RecvBegins("receive", got) /\ heard' = got
    /\ Goto("receive", IF buf = "long" THEN "toolong" ELSE "taken")
    /\ UNCHANGED role

ReceiveOther ==
    /\ pc["receive"] = "poll" /\ RecvOther
    /\ UNCHANGED <<pc, heard, role>>

\* It returns: the packet, or -2.
ReceiveReturns ==
    /\ pc["receive"] \in {"taken", "toolong"} /\ Release("receive")
    /\ Goto("receive", IF pc["receive"] = "taken" THEN "handle" ELSE "rxinit")
    /\ heard' = IF pc["receive"] = "taken" THEN heard ELSE "stale"
    /\ UNCHANGED role

\* push_lora_to_fifo, nothing, or Lora_send.
ReceiveHandles ==
    /\ pc["receive"] = "handle"
    /\ IF role = "relay" THEN Goto("receive", "send") /\ UNCHANGED heard
                         ELSE Goto("receive", "poll") /\ heard' = "stale"
    /\ UNCHANGED <<radioVars, role>>

Receive == ReceiveRxInit \/ ReceiveRxInitEnds \/ ReceiveTakes \/ ReceiveOther
           \/ ReceiveReturns \/ ReceiveHandles

-----------------------------------------------------------------------------

RadioMoves == (Locked \/ Loose \/ TxEnds) /\ UNCHANGED <<pc, heard, role>>

Neighbour ==
    /\ (\E p \in {"short", "long"} : Hear(p)) \/ HearOther
    /\ UNCHANGED <<pc, heard, role>>

Packet(t) == IF t = "receive" THEN heard ELSE "own"

Next == \/ RadioMoves \/ Neighbour \/ Receive
        \/ \E t \in Thread : Send(t, Packet(t)) \/ Sends(t) \/ SendWaits(t) \/ HasPacket(t)
        \/ \E r \in Role : SetRole(r)

\* The threads run, and a transmission ends.  A thread that wants the lock gets it
\* in the end: lora_receive_thread sleeps 20 ms without it whenever it has found
\* nothing, and a sender seconds.
Fairness ==
    /\ WF_vars(RadioMoves) /\ WF_vars(Receive)
    /\ \A t \in Thread : SF_vars(Send(t, Packet(t))) /\ WF_vars(Sends(t))

Spec == Init /\ [][Next]_vars /\ Fairness

-----------------------------------------------------------------------------

Steps == {RxInit[i] : i \in DOMAIN RxInit} \cup {SendHead[i] : i \in DOMAIN SendHead}
         \cup {"clearRx"}

TypeOK ==
    /\ mode \in {"standby", "rx", "tx"} /\ mask \in {"rx", "tx"}
    /\ plen \in {"full", "own"} /\ irq \subseteq {"rx", "tx", "other"}
    /\ {buf, sending, heard} \subseteq Packets
    /\ lock \in Thread \cup {"free"}
    /\ todo \in Seq(Steps) /\ loose \in Seq(Steps)
    /\ {skipped, raced, aired} \subseteq BOOLEAN
    /\ pc \in [Thread -> {"poll", "send", "sending", "ending", "rxinit", "loose",
                          "taken", "toolong", "handle"}]
    /\ role \in Role
    /\ \A t \in Thread : Holds(t) <=> pc[t] \in {"sending", "ending", "taken", "toolong"}

\* Lora_send says truly what became of the packet: with success, the radio has sent
\* exactly it, and it fails only when the radio could not.  The exceptions are a
\* command or a question the busy chip did not get, and RxInit called without the lock
\* in the middle.
SendsAreTrue ==
    [][\A t \in Thread :
          /\ SendSucceeds(t) => aired \/ raced \/ skipped'
          /\ SendFails(t) => raced \/ skipped]_vars

\* What lora_receive_thread hands on came over the air, and is handed on once: never
\* what this device has itself written into the buffer that sending and receiving
\* share, nor a packet read before.
ReadIsHeard == [][ReceiveTakes => heard' \in {"short", "long"} \/ skipped']_vars

\* Whenever no thread is in the driver the radio listens, whichever thread was there
\* last and however RxInit came between the commands of another.
RestsListening ==
    (lock = "free" /\ loose = <<>>) => Listening \/ skipped

\* Whatever is sent on, and however long neighbours keep sending it back: a device
\* that has a packet of its own gets to send it.
OwnPacketsLeave ==
    \A t \in {"transform", "bluetooth"} : (pc[t] = "send") ~> (pc[t] = "ending")

=============================================================================
