------------------------------- MODULE Ingest -------------------------------
(***************************************************************************)
(* How data reaches the log files: receive_thread cuts what the serial     *)
(* ports deliver into frames, by silence or by length, and queues a frame  *)
(* in parts; the LoRa and Bluetooth threads queue one message at a time;   *)
(* write_file_thread appends each message to the log of its source.        *)
(*                                                                         *)
(* The bytes of a port, and the messages of the other threads, are         *)
(* numbered in the order they arrive.  The fifo holds whole messages (see  *)
(* KFifo for its bytes); data_recv, which reads a serial port, never fails *)
(* and the waits between two passes of a loop are left out.                *)
(***************************************************************************)
EXTENDS Integers, Sequences, SequencesExt, FiniteSets, FiniteSetsExt

CONSTANTS Ports,      \* the serial ports, in the order a pass reads them
          Pushers,    \* the sources that queue whole messages
          ReadSizes,  \* the bytes one read can return
          MaxLogLen,  \* MAX_LOG_LEN, the length that submits a frame
          DataLen,    \* the bytes of data a message holds
          Slots,      \* messages the fifo has room for
          MaxId,      \* UINT32_MAX, the last frame id
          FirstIds,   \* g_log_frame_id when a behaviour begins
          MaxBytes,   \* bound: bytes the ports deliver in a behaviour
          MaxPushes,  \* bound: messages another source queues
          MayStop, MayFail   \* whether the process is stopped, a write fails

Port == Range(Ports)
Source == Port \cup Pushers

ASSUME IngestAssumption ==
    /\ Ports \in Seq(Port) /\ Ports # <<>> /\ Port \cap Pushers = {}
    /\ ReadSizes \subseteq 1 .. MaxLogLen - 1
    /\ {MaxLogLen, DataLen, Slots, MaxId} \subseteq Nat \ {0}
    /\ FirstIds \subseteq 0..MaxId
    /\ {MaxBytes, MaxPushes} \subseteq Nat
    /\ {MayStop, MayFail} \subseteq BOOLEAN

VARIABLES
    \* receive_thread
    rpc,        \* where it is in a pass
    turn,       \* the port it handles
    fresh,      \* the bytes just read
    freshZero,  \* they are all 0x00
    buf,        \* frame_buf of each port
    noise,      \* the frame consists of 0x00 bytes
    late,       \* a frame waits, FRAME_TIMEOUT_MS after last_recv
    sub,        \* submit_frame: offset, frame id, part and reason
    \* write_file_thread
    wpc, msg,
    \* shared
    fifo, frameId, stop, logs,
    \* history: what each source has delivered, what was given up
    got, lost

recvVars == <<rpc, turn, fresh, freshZero, buf, noise, late, sub>>
writeVars == <<wpc, msg, logs>>
vars == <<recvVars, writeVars, fifo, frameId, stop, got, lost>>

NoSub == [off |-> 0, id |-> 0, part |-> 0, reason |-> "none"]

Init ==
    /\ rpc = "poll" /\ turn = 1 /\ fresh = <<>> /\ freshZero = FALSE
    /\ buf = [p \in Port |-> <<>>]
    /\ noise = [p \in Port |-> TRUE] /\ late = [p \in Port |-> FALSE]
    /\ sub = NoSub
    /\ wpc = "wait" /\ msg = <<>> /\ logs = [s \in Source |-> <<>>]
    /\ fifo = <<>> /\ frameId \in FirstIds /\ stop = FALSE
    /\ got = [s \in Source |-> 0] /\ lost = {}
-----------------------------------------------------------------------------
\* Mutant: a counter that stays at its end.
NextIdStuck(id) == IF id = MaxId THEN MaxId ELSE id + 1

\* log_next_frame_id
NextId(id) == IF id = MaxId THEN 1 ELSE id + 1

\* Mutant: rounded down.
PartCountDown(frame) == Len(frame) \div DataLen

PartCount(frame) == (Len(frame) + DataLen - 1) \div DataLen

BytesOf(s, data) == {<<s, data[i]>> : i \in DOMAIN data}

Cur == Ports[turn]
-----------------------------------------------------------------------------
(* receive_thread.                                                         *)

\* Mutant: one port too many.
NextPortTooFar ==
    IF turn <= Len(Ports) THEN turn' = turn + 1 /\ rpc' = "read"
                          ELSE turn' = 1 /\ rpc' = "poll"

\* The next port of the pass, or the end of the pass.
NextPort ==
    IF turn < Len(Ports) THEN turn' = turn + 1 /\ rpc' = "read"
                         ELSE turn' = 1 /\ rpc' = "poll"

Poll ==
    /\ rpc = "poll"
    /\ rpc' = IF stop THEN "flush" ELSE "read"
    /\ UNCHANGED <<turn, fresh, freshZero, buf, noise, late, sub,
                   writeVars, fifo, frameId, stop, got, lost>>

\* Mutant: process_serial_data returns after a timeout.
AfterSubmitReturns(reason) ==
    CASE reason \in {"timeout", "max_len"} -> NextPort
      [] reason = "flush" ->
            IF turn < Len(Ports) THEN turn' = turn + 1 /\ rpc' = "flush"
                                 ELSE rpc' = "exited" /\ UNCHANGED turn

\* Where submit_frame returns to, once for each reason to submit a frame.
AfterSubmit(reason) ==
    CASE reason = "timeout" -> rpc' = "append" /\ UNCHANGED turn
      [] reason = "max_len" -> NextPort
      [] reason = "flush" ->
            IF turn < Len(Ports) THEN turn' = turn + 1 /\ rpc' = "flush"
                                 ELSE rpc' = "exited" /\ UNCHANGED turn

ClearFrame ==
    /\ buf' = [buf EXCEPT ![Cur] = <<>>]
    /\ noise' = [noise EXCEPT ![Cur] = TRUE]

\* submit_frame begins: a frame of zeros is filtered, another gets its id.
Submit(frame, zero, reason) ==
    IF zero
    THEN /\ lost' = lost \cup BytesOf(Cur, frame)
         /\ ClearFrame /\ AfterSubmit(reason)
         /\ UNCHANGED <<sub, frameId>>
    ELSE /\ frameId' = NextId(frameId)
         /\ sub' = [off |-> 0, id |-> frameId', part |-> 0, reason |-> reason]
         /\ buf' = [buf EXCEPT ![Cur] = frame]
         /\ noise' = [noise EXCEPT ![Cur] = FALSE]
         /\ rpc' = "push"
         /\ UNCHANGED <<turn, lost>>

\* process_serial_data adds what was read to the frame, and submits a frame
\* that has become long enough.
AddData(data, zero) ==
    LET frame == buf[Cur] \o data
        allZero == noise[Cur] /\ (data = <<>> \/ zero)
    IN  /\ IF data # <<>> /\ Len(frame) >= MaxLogLen
           THEN Submit(frame, allZero, "max_len")
           ELSE /\ buf' = [buf EXCEPT ![Cur] = frame]
                /\ noise' = [noise EXCEPT ![Cur] = allZero]
                /\ NextPort
                /\ UNCHANGED <<sub, frameId, lost>>
        /\ late' = IF data = <<>> THEN late ELSE [late EXCEPT ![Cur] = FALSE]
        /\ fresh' = <<>> /\ freshZero' = FALSE

\* The bytes all ports have delivered.
Delivered == MapThenSumSet(LAMBDA p : got[p], Port)

\* A port has nothing, or delivers some bytes; a frame that was silent for too
\* long is submitted before they are added.
Read ==
    /\ rpc = "read"
    /\ \E n \in {0} \cup ReadSizes :
         /\ Delivered + n <= MaxBytes
         /\ got' = [got EXCEPT ![Cur] = @ + n]
         /\ \E zero \in IF n = 0 THEN {FALSE} ELSE BOOLEAN :
              LET data == [i \in 1..n |-> got[Cur] + i] IN
              \/ /\ buf[Cur] # <<>> /\ late[Cur]
                 /\ Submit(buf[Cur], noise[Cur], "timeout")
                 /\ fresh' = data /\ freshZero' = zero
                 /\ late' = [late EXCEPT ![Cur] = FALSE]
              \/ /\ buf[Cur] = <<>> \/ ~late[Cur]
                 /\ AddData(data, zero)
    /\ UNCHANGED <<writeVars, fifo, stop>>

AddFresh ==
    /\ rpc = "append"
    /\ AddData(fresh, freshZero)
    /\ UNCHANGED <<writeVars, fifo, stop, got>>

\* One round of submit_frame's loop: a part is queued, or the fifo is full
\* and the rest of the frame is dropped.
PushPart ==
    /\ rpc = "push"
    /\ LET frame == buf[Cur]
           rest  == SubSeq(frame, sub.off + 1, Len(frame))
           part  == [src |-> Cur, id |-> sub.id, part |-> sub.part,
                     parts |-> PartCount(frame), frame |-> frame[1],
                     data |-> SubSeq(rest, 1, IF Len(rest) > DataLen THEN DataLen
                                                                    ELSE Len(rest))]
       IN  \/ /\ Len(fifo) = Slots
              /\ lost' = lost \cup BytesOf(Cur, rest)
              /\ sub' = NoSub /\ ClearFrame /\ AfterSubmit(sub.reason)
              /\ UNCHANGED fifo
           \/ /\ Len(fifo) < Slots
              /\ fifo' = Append(fifo, part)
              /\ IF Len(rest) > DataLen
                 THEN /\ sub' = [sub EXCEPT !.off = @ + DataLen, !.part = @ + 1]
                      /\ UNCHANGED <<rpc, turn, buf, noise>>
                 ELSE sub' = NoSub /\ ClearFrame /\ AfterSubmit(sub.reason)
              /\ UNCHANGED lost
    /\ UNCHANGED <<fresh, freshZero, late, writeVars, frameId, stop, got>>

\* flush_serial_state, for each port in turn when the loop has ended.
Flush ==
    /\ rpc = "flush"
    /\ IF buf[Cur] # <<>>
       THEN Submit(buf[Cur], noise[Cur], "flush")
       ELSE /\ AfterSubmit("flush")
            /\ UNCHANGED <<buf, noise, sub, frameId, lost>>
    /\ UNCHANGED <<fresh, freshZero, late, writeVars, fifo, stop, got>>
-----------------------------------------------------------------------------
(* The threads that queue whole messages.                                  *)

\* push_lora_to_fifo, debug_bt_push_to_fifo: the id is left to the writer.
Push(s) ==
    /\ got[s] < MaxPushes
    /\ got' = [got EXCEPT ![s] = @ + 1]
    /\ LET m == [src |-> s, id |-> 0, part |-> 0, parts |-> 0, frame |-> got'[s],
                 data |-> <<got'[s]>>]
       IN  \/ Len(fifo) < Slots /\ fifo' = Append(fifo, m) /\ UNCHANGED lost
           \/ Len(fifo) = Slots /\ lost' = lost \cup BytesOf(s, m.data) /\ UNCHANGED fifo
    /\ UNCHANGED <<recvVars, writeVars, frameId, stop>>
-----------------------------------------------------------------------------
(* write_file_thread.                                                      *)

\* Mutant: the newest message first.
TakeNewest ==
    /\ wpc = "wait" /\ ~stop /\ fifo # <<>>
    /\ msg' = Last(fifo) /\ fifo' = Front(fifo)
    /\ wpc' = "write"
    /\ UNCHANGED <<recvVars, logs, frameId, stop, got, lost>>

\* Mutant: the writer waits for more than one whole message.
TakeFromTwo ==
    /\ wpc = "wait" /\ ~stop /\ Len(fifo) > 1
    /\ msg' = Head(fifo) /\ fifo' = Tail(fifo)
    /\ wpc' = "write"
    /\ UNCHANGED <<recvVars, logs, frameId, stop, got, lost>>

Take ==
    /\ wpc = "wait" /\ ~stop /\ fifo # <<>>
    /\ msg' = Head(fifo) /\ fifo' = Tail(fifo)
    /\ wpc' = "write"
    /\ UNCHANGED <<recvVars, logs, frameId, stop, got, lost>>

\* The line of a message; a message without an id becomes a frame of its own.
LogLine(m) ==
    IF m.id = 0 THEN [m EXCEPT !.id = frameId', !.part = 0, !.parts = 1] ELSE m

\* The line is appended, or the file cannot be opened or written.
WriteLine ==
    /\ wpc = "write"
    /\ frameId' = IF msg.id = 0 THEN NextId(frameId) ELSE frameId
    /\ \/ /\ logs' = [logs EXCEPT ![msg.src] = Append(@, LogLine(msg))]
          /\ UNCHANGED lost
       \/ /\ MayFail
          /\ lost' = lost \cup BytesOf(msg.src, msg.data)
          /\ UNCHANGED logs
    /\ msg' = <<>> /\ wpc' = "wait"
    /\ UNCHANGED <<recvVars, fifo, stop, got>>

WriterStops ==
    /\ wpc = "wait" /\ stop
    /\ wpc' = "exited"
    /\ UNCHANGED <<recvVars, msg, logs, fifo, frameId, stop, got, lost>>
-----------------------------------------------------------------------------
\* Nothing looks at the age of a frame that is being submitted.
FrameTimesOut(p) ==
    /\ buf[p] # <<>> /\ ~late[p] /\ ~(rpc = "push" /\ p = Cur)
    /\ late' = [late EXCEPT ![p] = TRUE]
    /\ UNCHANGED <<rpc, turn, fresh, freshZero, buf, noise, sub,
                   writeVars, fifo, frameId, stop, got, lost>>

\* handle_signal
HandleSignal ==
    /\ MayStop /\ ~stop
    /\ stop' = TRUE
    /\ UNCHANGED <<recvVars, writeVars, fifo, frameId, got, lost>>

Receive == Poll \/ Read \/ AddFresh \/ PushPart \/ Flush
Writer == Take \/ WriteLine \/ WriterStops

Next ==
    \/ Receive \/ Writer
    \/ \E s \in Pushers : Push(s)
    \/ \E p \in Port : FrameTimesOut(p)
    \/ HandleSignal

Spec == Init /\ [][Next]_vars

\* The scheduler runs both threads, and time passes.
Fairness ==
    /\ WF_vars(Receive) /\ WF_vars(Writer)
    /\ \A p \in Port : WF_vars(FrameTimesOut(p))

FairSpec == Spec /\ Fairness
-----------------------------------------------------------------------------
Message == [src : Source, id : 0..MaxId, part : Nat, parts : Nat, frame : Nat \ {0},
            data : Seq(Nat \ {0})]

TypeOK ==
    /\ rpc \in {"poll", "read", "append", "push", "flush", "exited"}
    /\ turn \in 1..Len(Ports)
    /\ fresh \in Seq(Nat \ {0}) /\ freshZero \in BOOLEAN
    /\ buf \in [Port -> Seq(Nat \ {0})]
    /\ noise \in [Port -> BOOLEAN] /\ late \in [Port -> BOOLEAN]
    /\ sub \in [off : Nat, id : 0..MaxId, part : Nat,
                reason : {"none", "timeout", "max_len", "flush"}]
    /\ wpc \in {"wait", "write", "exited"}
    /\ msg \in Message \cup {<<>>} /\ (wpc = "write" <=> msg # <<>>)
    /\ fifo \in Seq(Message) /\ Len(fifo) <= Slots
    /\ logs \in [Source -> Seq(Message)]
    /\ frameId \in 0..MaxId /\ stop \in BOOLEAN
    /\ got \in [Source -> Nat]

\* The messages of a source on their way to its log.
OnTheWriter(s) == {m \in {msg} : m # <<>> /\ m.src = s}
InFifo(s) == {i \in DOMAIN fifo : fifo[i].src = s}

\* What is queued of a source, in the order of its log: each piece has a place, in
\* the log, then at the writer, then in the fifo.
Queued(s) ==
    {[at |-> i, data |-> logs[s][i].data] : i \in DOMAIN logs[s]}
    \cup {[at |-> Len(logs[s]) + 1, data |-> m.data] : m \in OnTheWriter(s)}
    \cup {[at |-> Len(logs[s]) + 1 + i, data |-> fifo[i].data] : i \in InFifo(s)}

\* The bytes of a port that are not yet in a message.
Unqueued(s) ==
    IF s \notin Port THEN <<>>
    ELSE (IF rpc = "push" /\ s = Cur THEN SubSeq(buf[s], sub.off + 1, Len(buf[s]))
                                     ELSE buf[s])
         \o (IF s = Cur THEN fresh ELSE <<>>)

Increasing(data) == \A i \in 1 .. Len(data) - 1 : data[i] < data[i + 1]
Before(d, e) == \A i \in DOMAIN d, j \in DOMAIN e : d[i] < e[j]

\* What a source delivers passes through buffer, fifo and writer in order,
\* and no byte of it is logged twice, whatever else is queued in between.
StreamsInOrder ==
    \A s \in Source :
        /\ Increasing(Unqueued(s))
        /\ \A a \in Queued(s) :
              /\ Increasing(a.data) /\ Before(a.data, Unqueued(s))
              /\ \A b \in Queued(s) : a.at < b.at => Before(a.data, b.data)

\* A byte that was read is on its way or in a log unless it was given up: the
\* fifo was full, the write failed, or the frame was zeros.
NoByteForgotten ==
    \A s \in Source : \A n \in 1 .. got[s] :
        (<<s, n>> \in lost)
            <=> ~(n \in Range(Unqueued(s)) \/ \E a \in Queued(s) : n \in Range(a.data))

\* Neighbouring lines of a log have the same id exactly when they are parts of
\* one frame: the sender, which keeps and counts frames by their ids, neither
\* splits nor joins frames.
IdsTellFrames ==
    \A s \in Source : \A i \in 1 .. Len(logs[s]) - 1 :
        LET a == logs[s][i]
            b == logs[s][i + 1]
        IN  (a.id = b.id) <=> (a.frame = b.frame)

\* A part says where in which frame it belongs.
Fits(m) ==
    /\ m.part < m.parts
    /\ m.data[1] = m.frame + m.part * DataLen
    /\ m.part < m.parts - 1 => Len(m.data) = DataLen

\* A line says which part of which frame it is: the parts of a frame follow
\* one another, and one that is missing was given up.
PartsFit == \A s \in Source : \A i \in DOMAIN logs[s] : Fits(logs[s][i])

\* As long as the process is not stopped, every byte is logged or given up in
\* the end, however long its port stays silent after it.
EverythingLogged ==
    \A s \in Source : <>[]~stop =>
        []<>(OnTheWriter(s) = {} /\ InFifo(s) = {} /\ Unqueued(s) = <<>>)

\* receive_thread: what is left in the frame buffers is handled before the
\* process ends.
RemainderHandled ==
    (rpc = "exited" /\ wpc = "exited") =>
        \A s \in Port : \A n \in 1..got[s] :
            <<s, n>> \in lost \/ \E i \in DOMAIN logs[s] : n \in Range(logs[s][i].data)
-----------------------------------------------------------------------------
(* The inductive invariant behind the safety properties.                    *)

\* The bytes of data are those after byte n.
Follows(data, n) == \A i \in DOMAIN data : data[i] = n + i

\* The last byte of a source that has left its buffers.
Handed(s) == got[s] - Len(Unqueued(s))

\* A port's buffers end with the last byte it delivered; what was just read waits only
\* for the frame before it.
BufInv ==
    /\ Follows(fresh, got[Cur] - Len(fresh))
    /\ \A p \in Port :
          LET end == got[p] - (IF p = Cur THEN Len(fresh) ELSE 0)
          IN  Len(buf[p]) <= end /\ Follows(buf[p], end - Len(buf[p]))
    /\ fresh # <<>> => rpc = "append" \/ (rpc = "push" /\ sub.reason = "timeout")
    /\ rpc = "push" => /\ sub.reason # "none" /\ sub.id # 0
                       /\ sub.off = sub.part * DataLen /\ sub.off < Len(buf[Cur])

\* A message is a run of bytes; one without an id is a frame of its own.
Sound(m) ==
    /\ m.data # <<>> /\ Follows(m.data, m.data[1] - 1)
    /\ IF m.id = 0 THEN m.data = <<m.frame>> ELSE Fits(m)

MessageInv ==
    /\ msg # <<>> => Sound(msg)
    /\ \A i \in DOMAIN fifo : Sound(fifo[i])
    /\ \A s \in Source : \A i \in DOMAIN logs[s] :
          Sound(logs[s][i]) /\ Fits(logs[s][i])

\* What is queued of a source is in order and was handed on...
QueueInv ==
    \A s \in Source : \A a \in Queued(s) :
        /\ \A n \in Range(a.data) : n <= Handed(s)
        /\ \A b \in Queued(s) : a.at < b.at => Before(a.data, b.data)

\* ...and of what was handed on each byte is queued or lost.
LostInv ==
    \A s \in Source :
        /\ \A n \in 1 .. Handed(s) :
              (<<s, n>> \in lost) <=> ~(\E a \in Queued(s) : n \in Range(a.data))
        /\ \A x \in lost : x[1] = s => x[2] \in 1 .. Handed(s)

IngestInv == TypeOK /\ BufInv /\ MessageInv /\ QueueInv /\ LostInv
=============================================================================
