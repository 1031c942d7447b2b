------------------------------ MODULE EgModem -------------------------------
(***************************************************************************)
(* The 4G modem, the AT dialogue of main_send_thread with it (eg800k.c),   *)
(* the serial port it is spoken through (usart.c) and the generation       *)
(* counter by which the sender notices that a radio was switched           *)
(* (power.c).  bt_comm_thread switches the radios on whenever it receives  *)
(* data.  The modem answers in its own time: an answer may come after the  *)
(* sender has given the command up, and is then read as the answer to a    *)
(* later one, because tcflush only discards what has already arrived.      *)
(***************************************************************************)
EXTENDS Naturals, Sequences, SequencesExt, RfPower

CONSTANTS MaxLag,       \* bound: unread answers, and commands not yet answered
          FailMax,      \* the 10 failures in a row that power down
          MayStop       \* whether the process may be told to stop

ASSUME EgAssumption == FailMax \in Nat \ {0} /\ MaxLag \in Nat \ {0} /\ MayStop \in BOOLEAN

VARIABLES
    \* The modem, powered while egOn.
    good,        \* from now on it answers everything, in time
    pdp,         \* its PDP context is active
    sock,        \* its socket is connected
    opening,     \* a connection attempt goes on
    data,        \* it takes what is written as the data of AT+QISEND
    asked,       \* what was written to it and it has not answered
    rx,          \* answers nobody has read
    delivered,   \* the server has the sender's present packet
    \* The port and main_send_thread.
    fd,          \* eg_fd >= 0
    initialized, \* eg_initialized
    connected,   \* eg_connected
    seenFresh,   \* eg_power_generation_seen = g_rf_power_generation
    localFresh,  \* current_generation = g_rf_power_generation
    pc, step,
    fails,       \* eg_ready_fail_count
    \* bt_comm_thread, and the stop flag.
    btPc, stop,
    \* History, since the modem was last powered.
    initHere,    \* eg_init has succeeded
    misread,     \* the last eg_init took the answer to another command for its own
    late,        \* eg_send_data gave AT+QISEND up too early
    garbage      \* the server was sent AT commands as data

modemVars == <<good, pdp, sock, opening, data, asked, rx, delivered>>
genVars   == <<seenFresh, localFresh>>
flagVars  == <<initialized, connected>>
histVars  == <<initHere, misread, late, garbage>>
vars == <<powerVars, modemVars, fd, flagVars, genVars, pc, step, fails, btPc, stop,
          histVars>>

\* The commands of eg_init, then the one that begins eg_connect, then those of
\* main_eg_power_down: what is written, the text that means success and whether
\* its caller gives up without it.  Of neighbours in eg_init that are treated alike
\* one is kept: ATI stands for AT, CPIN and CEREG too, QIDEACT for ATE0 and QICLOSE;
\* CSQ and the QIACT query, whose answers are only printed, are left out.
Script ==
    << [cmd |-> "ATI",     expect |-> "ATI", must |-> TRUE],
       [cmd |-> "QIDEACT", expect |-> "OK",  must |-> FALSE],
       [cmd |-> "QICSGP",  expect |-> "OK",  must |-> TRUE],
       [cmd |-> "QIACT",   expect |-> "OK",  must |-> TRUE],
       [cmd |-> "QICLOSE", expect |-> "OK",  must |-> FALSE],
       [cmd |-> "QICLOSE", expect |-> "OK",  must |-> FALSE],
       [cmd |-> "QIDEACT", expect |-> "OK",  must |-> FALSE] >>

InitEnd == 4
ConnectAt == 5
DownAt == 6
DeactAt == 7

Init ==
    /\ bdOn = TRUE /\ egOn = TRUE        \* main() calls rf_power_on
    /\ good = FALSE /\ pdp = FALSE /\ sock = FALSE /\ opening = FALSE
    /\ data = FALSE /\ asked = <<>> /\ rx = <<>> /\ delivered = FALSE
    /\ fd = TRUE                         \* and uart_init_gather
    /\ initialized = FALSE /\ connected = FALSE
    /\ seenFresh = TRUE /\ localFresh = FALSE
    /\ pc \in {"idle", "down"} /\ step = 1 /\ fails = 0
    /\ btPc = "poll" /\ stop = FALSE
    /\ initHere = FALSE /\ misread = FALSE /\ late = FALSE /\ garbage = FALSE

-----------------------------------------------------------------------------
(* The modem.                                                               *)

Answer(c, ok) == [cmd |-> c, ok |-> ok]

Quiet == asked = <<>> /\ rx = <<>> /\ ~opening

\* A modem that is too far behind loses what is written to it.
Write(c) == asked' = IF Len(asked) < MaxLag THEN Append(asked, c) ELSE asked

Says(a) == rx' = Append(rx, a)

senderSees == <<fd, flagVars, genVars, pc, step, fails, btPc, stop>>

\* A command is carried out or refused.
ModemObeys(ok) ==
    LET c == Head(asked)
    IN  /\ c \notin {"QISEND", "payload"} /\ ~data
        /\ Says(Answer(c, ok))
        /\ pdp' = IF ok /\ c \in {"QIACT", "QIDEACT"} THEN c = "QIACT" ELSE pdp
        /\ sock' = (sock /\ ~(ok /\ c \in {"QICLOSE", "QIDEACT"}))
        /\ \/ opening' = (opening \/ (ok /\ c = "QIOPEN"))
           \/ ok /\ c \in {"QICLOSE", "QIDEACT"} /\ opening' = FALSE
        /\ UNCHANGED <<data, delivered, garbage>>

\* AT+QISEND: the prompt, or an error without a connection.
ModemPrompts ==
    /\ Head(asked) = "QISEND" /\ ~data
    /\ Says(Answer(">", sock))
    /\ data' = sock
    /\ UNCHANGED <<pdp, sock, opening, delivered, garbage>>

\* The payload reaches the server, or the modem says SEND FAIL, perhaps after it
\* did; without a prompt it is noise.
ModemTakesData(ok) ==
    /\ Head(asked) = "payload"
    /\ Says(Answer("SEND", ok /\ data))
    /\ delivered' \in {delivered \/ (ok /\ data), delivered \/ data}
    /\ data' = FALSE
    /\ UNCHANGED <<pdp, sock, opening, garbage>>

\* A command is taken as data; it completes what AT+QISEND announced or does not.
ModemSwallows(ok) ==
    /\ Head(asked) # "payload" /\ data
    /\ garbage' = TRUE
    /\ \/ data' = FALSE /\ Says(Answer("SEND", ok))
       \/ ~good /\ UNCHANGED <<data, rx>>
    /\ UNCHANGED <<pdp, sock, opening, delivered>>

\* Nothing comes back, whether or not the data or AT+QISEND was understood.
ModemKeepsSilent ==
    /\ ~good
    /\ IF Head(asked) = "payload"
         THEN data' = FALSE /\ delivered' \in {delivered, delivered \/ data}
         ELSE data' \in {data, data \/ (Head(asked) = "QISEND" /\ sock)}
              /\ UNCHANGED delivered
    /\ UNCHANGED <<pdp, sock, opening, rx, garbage>>

ModemReads ==
    /\ egOn /\ asked # <<>> /\ Len(rx) < MaxLag
    /\ asked' = Tail(asked)
    /\ \/ \E ok \in BOOLEAN :
            /\ good => ok
            /\ ModemObeys(ok) \/ ModemTakesData(ok) \/ ModemSwallows(ok)
       \/ ModemPrompts
       \/ ModemKeepsSilent
    /\ UNCHANGED <<powerVars, good, senderSees, initHere, misread, late>>

\* +QIOPEN: <id>,<err>, some time after the OK.
ModemOpens(ok) ==
    /\ egOn /\ opening /\ Len(rx) < MaxLag
    /\ good => (ok = pdp)
    /\ ok => pdp
    /\ opening' = FALSE /\ sock' = ok
    /\ Says(Answer("+QIOPEN", ok))
    /\ UNCHANGED <<powerVars, good, pdp, data, asked, delivered, senderSees, histVars>>

\* The connection or the network goes away.
ModemDrops ==
    /\ ~good /\ sock /\ ~data
    /\ sock' = FALSE
    /\ UNCHANGED <<powerVars, good, pdp, opening, data, asked, rx, delivered,
                   senderSees, histVars>>

ModemTurnsGood ==
    /\ ~good /\ pc = "idle"
    /\ good' = TRUE
    /\ UNCHANGED <<powerVars, pdp, sock, opening, data, asked, rx, delivered,
                   senderSees, histVars>>

ModemAnswers == ModemReads \/ \E ok \in BOOLEAN : ModemOpens(ok)

-----------------------------------------------------------------------------
(* eg_send_cmd.                                                             *)

MatchesErrors(a, e) == e = a.cmd \/ (e = "OK" /\ a.cmd \notin {"+QIOPEN", ">"})

\* The text expected of a command is in an answer.  Every positive answer to a
\* command, and SEND OK, contains OK.
Matches(a, e) ==
    /\ a.ok
    /\ \/ e = "OK" /\ a.cmd \notin {"+QIOPEN", ">"}
       \/ e = a.cmd

here == <<powerVars, btPc, stop, genVars>>

\* A link that failed: the sender falls back to BeiDou, which powers the modem
\* down, or tries again later.
LinkFails ==
    /\ connected' = FALSE
    /\ pc' \in {"idle", "down"} /\ (stop => pc' = "down")
    /\ step' = 1
    /\ UNCHANGED <<initialized, fails>>

NotReadyNoLimit ==
    /\ connected' = FALSE
    /\ pc' \in {"idle", "down"} /\ (stop => pc' = "down")
    /\ step' = 1
    /\ UNCHANGED <<initialized, fails>>

NotReadyNoReset ==
    /\ connected' = FALSE
    /\ pc' \in {"idle", "down"} /\ (stop \/ fails + 1 >= FailMax => pc' = "down")
    /\ fails' = fails + 1
    /\ step' = 1
    /\ UNCHANGED initialized

\* main_ensure_eg_ready failed; the last of ten failures in a row powers down.
NotReady ==
    /\ connected' = FALSE
    /\ pc' \in {"idle", "down"} /\ (stop \/ fails + 1 >= FailMax => pc' = "down")
    /\ fails' = (fails + 1) % FailMax
    /\ step' = 1
    /\ UNCHANGED initialized

\* What follows a command.
AfterCommand(ok) ==
    IF Script[step].must /\ ~ok
      THEN NotReady /\ UNCHANGED initHere
      ELSE /\ step' = IF step \in {ConnectAt, DeactAt} THEN 1 ELSE step + 1
           /\ pc' = CASE step = ConnectAt -> "open"
                      [] step = DeactAt -> "off"
                      [] OTHER -> "ask"
           /\ initialized' = (initialized \/ step = InitEnd)
           /\ initHere' = (initHere \/ step = InitEnd)
           /\ UNCHANGED <<connected, fails>>

Ask ==
    /\ pc = "ask"
    /\ rx' = <<>>                        \* tcflush
    /\ Write(Script[step].cmd)
    /\ pc' = "wait"
    /\ misread' = (misread /\ step \in 2 .. InitEnd)
    /\ UNCHANGED <<good, pdp, sock, opening, data, delivered, fd, flagVars, step,
                   fails, here, initHere, late, garbage>>

\* The i-th answer can be the one to the present command, the last that was
\* written: it is to a command of this kind, and the modem has answered none after it.
Own(i) ==
    /\ rx[i].cmd = Script[step].cmd
    /\ \A j \in i + 1 .. Len(rx) : rx[j].cmd = "+QIOPEN"

\* A read returns what has arrived so far or a part of it: the expected text
\* counts even if an ERROR came with it.
ReadAnswer(n) ==
    LET chunk == SubSeq(rx, 1, n)
        hits  == {i \in 1 .. n : Matches(chunk[i], Script[step].expect)}
    IN  /\ pc = "wait" /\ ~stop
        /\ rx' = SubSeq(rx, n + 1, Len(rx))
        /\ misread' = (misread \/ (step <= InitEnd /\ hits # {} /\ \A i \in hits : ~Own(i)))
        /\ IF hits # {} \/ \E i \in 1 .. n : ~chunk[i].ok
             THEN AfterCommand(hits # {})
             ELSE UNCHANGED <<pc, step, fails, flagVars, initHere>>
        /\ UNCHANGED <<good, pdp, sock, opening, data, asked, delivered, fd, here,
                       late, garbage>>

\* The time is up, or the process is told to stop.
WaitEnds ==
    /\ pc = "wait"
    /\ stop \/ (good => Quiet)
    /\ AfterCommand(FALSE)
    /\ UNCHANGED <<modemVars, fd, here, misread, late, garbage>>

-----------------------------------------------------------------------------
(* main_ensure_eg_ready and uart_reopen_eg.                                 *)

KeepSession == UNCHANGED flagVars

ForgetSession == initialized' = FALSE /\ connected' = FALSE

Try4g ==
    /\ pc = "idle" /\ ~stop
    /\ pc' = IF egOn THEN "generation" ELSE "power"
    /\ UNCHANGED <<powerVars, modemVars, fd, flagVars, genVars, step, fails, btPc, stop,
                   histVars>>

PowerModem ==
    /\ pc = "power"
    /\ EgPowerOn
    /\ seenFresh' = (seenFresh /\ ~GenerationMoves)
    /\ localFresh' = FALSE
    /\ pc' = "generation"
    /\ UNCHANGED <<modemVars, fd, flagVars, step, fails, btPc, stop, histVars>>

\* eg_init and eg_connect, as far as they are needed.
Session(init, conn) ==
    IF init /\ conn THEN pc' = "send" /\ step' = 1
    ELSE /\ pc' = "ask"
         /\ step' = IF init THEN ConnectAt ELSE 1

Generation ==
    /\ pc = "generation"
    /\ localFresh' = (~fd \/ ~seenFresh)
    /\ IF ~fd \/ ~seenFresh
         THEN pc' = "reopen" /\ UNCHANGED step
         ELSE Session(initialized, connected)
    /\ UNCHANGED <<powerVars, modemVars, fd, flagVars, seenFresh, fails, btPc, stop,
                   histVars>>

\* uart_reopen_eg closes the port and tries ten times to open it.
Reopen ==
    /\ pc = "reopen"
    /\ ForgetSession
    /\ fd' = TRUE /\ rx' = <<>>
    /\ seenFresh' = localFresh /\ localFresh' = FALSE
    /\ Session(initialized', connected')
    /\ UNCHANGED <<powerVars, good, pdp, sock, opening, data, asked, delivered,
                   fails, btPc, stop, histVars>>

ReopenFails ==
    /\ pc = "reopen" /\ ~good
    /\ fd' = FALSE
    /\ NotReady
    /\ localFresh' = FALSE
    /\ UNCHANGED <<powerVars, modemVars, seenFresh, btPc, stop, histVars>>

\* eg_connect: AT+QIOPEN; every read is parsed for itself.
Open ==
    /\ pc = "open"
    /\ rx' = <<>>
    /\ Write("QIOPEN")
    /\ pc' = "opening"
    /\ UNCHANGED <<good, pdp, sock, opening, data, delivered, fd, flagVars, step,
                   fails, here, histVars>>

Connected ==
    /\ connected' = TRUE
    /\ pc' = "send" /\ fails' = 0
    /\ UNCHANGED <<initialized, step>>

\* The first +QIOPEN line decides, whichever attempt it belongs to.  One that is
\* cut after its id leaves err uninitialized; one cut before it is not seen.
ReadOpening(n) ==
    LET chunk  == SubSeq(rx, 1, n)
        lines  == {i \in 1 .. n : chunk[i].cmd = "+QIOPEN"}
        errors == {i \in 1 .. n : chunk[i].cmd # "+QIOPEN" /\ ~chunk[i].ok}
    IN  /\ pc = "opening" /\ ~stop
        /\ rx' = SubSeq(rx, n + 1, Len(rx))
        /\ \/ \E i \in lines \cup errors :
                /\ \A j \in lines \cup errors : i <= j
                /\ IF chunk[i].ok THEN Connected ELSE NotReady
           \/ lines \cup errors = {} /\ UNCHANGED <<pc, step, fails, flagVars>>
           \/ ~good /\ lines = {n} /\ errors = {}
              /\ (Connected \/ NotReady \/ UNCHANGED <<pc, step, fails, flagVars>>)
        /\ UNCHANGED <<good, pdp, sock, opening, data, asked, delivered, fd, here,
                       histVars>>

OpeningEnds ==
    /\ pc = "opening"
    /\ stop \/ (good => Quiet)
    /\ NotReady
    /\ UNCHANGED <<modemVars, fd, here, histVars>>

-----------------------------------------------------------------------------
(* eg_send_data.                                                            *)

SendCommand ==
    /\ pc = "send"
    /\ rx' = <<>>
    /\ Write("QISEND")
    /\ pc' = "prompt"
    /\ UNCHANGED <<good, pdp, sock, opening, data, delivered, fd, flagVars, step,
                   fails, here, histVars>>

\* AT+QISEND is given up although the modem waits for the data or is going to.
GivesUpPrompt ==
    /\ LinkFails
    /\ late' = (late \/ data \/ "QISEND" \in Range(asked))

\* A prompt anywhere in what arrived, else an ERROR.
ReadPrompt(n) ==
    LET chunk == SubSeq(rx, 1, n)
    IN  /\ pc = "prompt" /\ ~stop
        /\ rx' = SubSeq(rx, n + 1, Len(rx))
        /\ CASE Answer(">", TRUE) \in Range(chunk) ->
                    pc' = "payload" /\ UNCHANGED <<step, fails, flagVars, late>>
             [] Answer(">", TRUE) \notin Range(chunk) /\ \E i \in 1 .. n : ~chunk[i].ok ->
                    GivesUpPrompt
             [] OTHER -> UNCHANGED <<pc, step, fails, flagVars, late>>
        /\ UNCHANGED <<good, pdp, sock, opening, data, asked, delivered, fd, here,
                       initHere, misread, garbage>>

\* Five seconds without a prompt.
PromptTimeout ==
    /\ pc = "prompt" /\ ~stop
    /\ good => Quiet
    /\ GivesUpPrompt
    /\ UNCHANGED <<modemVars, fd, here, initHere, misread, garbage>>

PromptStoppedReturns ==
    /\ pc = "prompt" /\ stop
    /\ LinkFails
    /\ UNCHANGED <<modemVars, fd, here, histVars>>

\* The stop ends the wait for the prompt, but the data is still written.
PromptStopped ==
    /\ pc = "prompt" /\ stop
    /\ pc' = "payload"
    /\ UNCHANGED <<modemVars, fd, flagVars, step, fails, here, histVars>>

SendPayload ==
    /\ pc = "payload"
    /\ asked' = Append(asked, "payload")
    /\ pc' = "result"
    /\ UNCHANGED <<good, pdp, sock, opening, data, rx, delivered, fd, flagVars, step,
                   fails, here, histVars>>

SendOkAnyResult(chunk) == \E i \in DOMAIN chunk : chunk[i].cmd = "SEND"

\* SEND OK in the tail of the answers.
SendOk(chunk) == Answer("SEND", TRUE) \in Range(chunk)

Sent(n) ==
    /\ pc = "result" /\ ~stop
    /\ SendOk(SubSeq(rx, 1, n))
    /\ rx' = SubSeq(rx, n + 1, Len(rx))
    /\ delivered' = FALSE                \* the next packet's turn
    /\ pc' \in {"idle", "down"}          \* at once, or after a power-down
    /\ UNCHANGED <<good, pdp, sock, opening, data, asked, fd, flagVars, step, fails,
                   here, histVars>>

NotSent(n) ==
    LET chunk == SubSeq(rx, 1, n)
    IN  /\ pc = "result" /\ ~stop
        /\ ~SendOk(chunk)
        /\ rx' = SubSeq(rx, n + 1, Len(rx))
        /\ IF \E i \in 1 .. n : ~chunk[i].ok
             THEN LinkFails
             ELSE UNCHANGED <<pc, step, fails, flagVars>>
        /\ UNCHANGED <<good, pdp, sock, opening, data, asked, delivered, fd, here,
                       histVars>>

ResultTimeout ==
    /\ pc = "result"
    /\ stop \/ (good => Quiet)
    /\ LinkFails
    /\ UNCHANGED <<modemVars, fd, here, histVars>>

-----------------------------------------------------------------------------
(* main_eg_power_down, and what the sender does with the terminal then.     *)

\* The end of the thread.  POWER_DOWN and TRY_BD enter it from elsewhere.
IdleStopped ==
    /\ pc = "idle" /\ stop
    /\ pc' = "down"
    /\ UNCHANGED <<powerVars, modemVars, fd, flagVars, genVars, step, fails, btPc, stop,
                   histVars>>

Down ==
    /\ pc = "down"
    /\ IF fd THEN pc' = "ask" /\ step' = IF connected THEN DownAt ELSE DeactAt
             ELSE pc' = "off" /\ UNCHANGED step
    /\ UNCHANGED fails
    /\ UNCHANGED <<modemVars, fd, flagVars, here, histVars>>

Off ==
    /\ pc = "off"
    /\ ForgetSession
    /\ EgPowerOff
    /\ pdp' = FALSE /\ sock' = FALSE /\ opening' = FALSE /\ data' = FALSE
    /\ asked' = <<>> /\ rx' = <<>>
    /\ initHere' = FALSE /\ misread' = FALSE /\ late' = FALSE /\ garbage' = FALSE
    /\ seenFresh' = (seenFresh /\ ~GenerationMoves) /\ localFresh' = FALSE
    /\ pc' = "closing"
    /\ UNCHANGED <<good, delivered, fd, step, fails, btPc, stop>>

\* uart_close_eg, and the generation is read again.
Closing ==
    /\ pc = "closing"
    /\ fd' = FALSE
    /\ seenFresh' = TRUE
    /\ pc' = "terminal"
    /\ UNCHANGED <<powerVars, modemVars, flagVars, localFresh, step, fails, btPc, stop,
                   histVars>>

\* main_ensure_bd_ready, bd_power_off, or a BeiDou leg without either.
Terminal ==
    /\ pc = "terminal"
    /\ BdPowerOff \/ (~stop /\ (BdPowerOn \/ UNCHANGED powerVars))
    /\ seenFresh' = (seenFresh /\ ~GenerationMoves)
    /\ localFresh' = FALSE
    /\ pc' = IF stop THEN "out" ELSE "idle"
    /\ UNCHANGED <<modemVars, fd, flagVars, step, fails, btPc, stop, histVars>>

SomeSent == \E n \in 1 .. Len(rx) : Sent(n)

SomeRead == \E n \in 1 .. Len(rx) :
    ReadAnswer(n) \/ ReadOpening(n) \/ ReadPrompt(n) \/ NotSent(n)

Sender ==
    \/ Try4g \/ PowerModem \/ Generation \/ Reopen \/ ReopenFails
    \/ Ask \/ WaitEnds \/ Open \/ OpeningEnds \/ SomeRead \/ SomeSent
    \/ SendCommand \/ PromptTimeout \/ PromptStopped \/ SendPayload \/ ResultTimeout
    \/ IdleStopped \/ Down \/ Off \/ Closing \/ Terminal

-----------------------------------------------------------------------------
(* bt_comm_thread: data arrives, rf_power_is_on, rf_power_on.               *)

btFrame == <<modemVars, fd, flagVars, pc, step, fails, stop, histVars>>

BtData ==
    /\ btPc = "poll" /\ ~stop /\ ~RfPowerIsOn
    /\ btPc' = "bdon"
    /\ UNCHANGED <<powerVars, genVars, btFrame>>

BtPower(from, to, switch) ==
    /\ btPc = from /\ btPc' = to
    /\ switch
    /\ IF GenerationMoves THEN seenFresh' = FALSE /\ localFresh' = FALSE
                          ELSE UNCHANGED genVars
    /\ UNCHANGED btFrame

BtThread == BtData \/ BtPower("bdon", "egon", BdPowerOn) \/ BtPower("egon", "poll", EgPowerOn)

\* The sender looks at the flag between attempts and while it waits.  In every wait
\* but that for the prompt the stop acts as the time-out does.
handle_signal ==
    /\ MayStop /\ ~stop
    /\ pc \in {"idle", "prompt"}
    /\ stop' = TRUE
    /\ UNCHANGED <<powerVars, modemVars, fd, flagVars, genVars, pc, step, fails, btPc,
                   histVars>>

Gone == pc = "out" /\ btPc = "poll" /\ stop /\ UNCHANGED vars

Next == ModemAnswers \/ ModemDrops \/ ModemTurnsGood \/ Sender \/ BtThread
        \/ handle_signal \/ Gone

\* The threads run and a good modem answers.
Fairness ==
    /\ WF_vars(Sender) /\ WF_vars(BtThread)
    /\ WF_vars(good /\ ModemAnswers)

Spec == Init /\ [][Next]_vars /\ Fairness

-----------------------------------------------------------------------------

Cmds == {Script[i].cmd : i \in DOMAIN Script} \cup {"QIOPEN", "QISEND", "payload"}

TypeOK ==
    /\ {bdOn, egOn, good, pdp, sock, opening, data, delivered, fd, initialized, connected,
        seenFresh, localFresh, stop, initHere, misread, late, garbage} \subseteq BOOLEAN
    /\ asked \in Seq(Cmds) /\ Len(asked) <= MaxLag + 1
    /\ rx \in Seq([cmd : Cmds \cup {"+QIOPEN", ">", "SEND"}, ok : BOOLEAN])
    /\ Len(rx) <= MaxLag
    /\ pc \in {"idle", "power", "generation", "reopen", "ask", "wait", "open", "opening",
               "send", "prompt", "payload", "result", "down", "off", "closing",
               "terminal", "out"}
    /\ step \in DOMAIN Script /\ fails \in 0 .. FailMax - 1
    /\ btPc \in {"poll", "bdon", "egon"}

\* The offsets advance after eg_send_data only if the server has the packet,
\* although SEND OK, prompts and +QIOPEN lines of earlier attempts may arrive late.
SentIsDelivered == [][SomeSent => delivered \/ garbage]_vars

\* A packet is handed only to a modem that eg_init has set up since it was last
\* powered, although the Bluetooth thread can power it at any time, also between
\* the sender's power-off and its look at the generation.
SessionIsFresh == pc = "send" => initHere /\ fd /\ egOn

\* eg_init succeeds only with an active PDP context, unless it took the late answer
\* to an earlier command for the answer to its own.
InitialisedIsActive == [][initHere' /\ ~initHere => pdp \/ misread']_vars

\* AT commands reach the server as data only after eg_send_data gave up a prompt
\* that came later; the stop alone never leaves the modem waiting for data.
OnlyPacketsAreSent == garbage => late

\* Once the modem is good, packet after packet is sent, whatever the earlier
\* attempts, time-outs and power-downs have left behind in it.
GoodModemDelivers == <>good => <>stop \/ []<><<SomeSent>>_vars

-----------------------------------------------------------------------------
(* The inductive invariant behind the safety properties.                    *)

\* Talking to the modem: the places in the sender's attempt from which on the modem
\* is powered, its port open and eg_init done.
AskingUpTo(s) == pc \in {"ask", "wait"} /\ step <= s
Linked == pc \in {"open", "opening", "send", "prompt", "payload", "result"}

\* Only the sender powers the modem off, and forgets eg_init with it.
SessionInv ==
    /\ Linked \/ AskingUpTo(ConnectAt) => fd
    /\ Linked \/ AskingUpTo(ConnectAt) \/ pc \in {"generation", "reopen"} => egOn
    /\ Linked \/ (AskingUpTo(ConnectAt) /\ step = ConnectAt) => initialized
    /\ initialized => initHere

\* After the stop the sender only finishes its attempt and powers the modem down.
StopInv ==
    stop => \/ pc \in {"idle", "prompt", "payload", "result", "down", "off", "closing",
                       "terminal", "out"}
            \/ pc \in {"ask", "wait"} /\ step >= DownAt

\* Only the data written after the stop, without a prompt, can exceed what the modem
\* keeps: a prompt that has been read is one command answered.
LagInv ==
    /\ Len(asked) > MaxLag =>
          stop /\ pc \notin {"idle", "prompt", "payload"}
    /\ pc = "prompt" /\ Answer(">", TRUE) \in Range(rx) => Len(asked) < MaxLag
    /\ pc = "payload" /\ ~stop => Len(asked) < MaxLag

\* An answer that the context is active tells the truth until the next one comes.
PdpInv ==
    \A i \in DOMAIN rx :
        /\ rx[i] = Answer("QIACT", TRUE)
        /\ \A j \in i + 1 .. Len(rx) : rx[j].cmd = "+QIOPEN"
        => pdp

\* A SEND OK that arrives after AT+QISEND is about this packet: what was written of
\* an earlier attempt was the same packet.
SendInv ==
    pc \in {"prompt", "payload", "result"} /\ Answer("SEND", TRUE) \in Range(rx)
        => delivered \/ garbage

\* While no prompt was given up too early, every AT+QISEND is followed by its data,
\* and data is awaited only with nothing but the data in between.
PromptInv ==
    /\ garbage => late
    /\ ~late =>
          /\ \A k \in DOMAIN asked : asked[k] = "QISEND" =>
                IF k = Len(asked) THEN pc \in {"prompt", "payload"}
                                  ELSE asked[k + 1] = "payload"
          /\ data => IF asked = <<>> THEN pc \in {"prompt", "payload"}
                                     ELSE asked[1] = "payload"

EgInv == TypeOK /\ SessionInv /\ StopInv /\ LagInv /\ PdpInv /\ SendInv /\ PromptInv

=============================================================================
