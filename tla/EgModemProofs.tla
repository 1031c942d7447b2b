--------------------------- MODULE EgModemProofs ----------------------------
(***************************************************************************)
(* Proofs about EgModem, for a modem that falls any number of answers      *)
(* behind and any number of failures before a power-down.                  *)
(***************************************************************************)
EXTENDS EgModem, Integers, SequenceTheorems, TLAPS

-----------------------------------------------------------------------------
(* The commands and the answers.                                            *)

ScriptCmds == {"ATI", "QIDEACT", "QICSGP", "QIACT", "QICLOSE"}
AllCmds == {"ATI", "QIDEACT", "QICSGP", "QIACT", "QICLOSE", "QIOPEN", "QISEND", "payload"}
Answers == [cmd : Cmds \cup {"+QIOPEN", ">", "SEND"}, ok : BOOLEAN]

LEMMA Bounds == FailMax \in Nat \ {0} /\ MaxLag \in Nat \ {0}
BY EgAssumption DEF EgAssumption

LEMMA ScriptIs ==
    /\ DOMAIN Script = 1 .. 7
    /\ \A i \in 1 .. 7 : Script[i].cmd \in ScriptCmds
    /\ Script[InitEnd].cmd = "QIACT" /\ Script[InitEnd].must
    /\ ~Script[DownAt].must /\ ~Script[DeactAt].must
BY DEF Script, InitEnd, DownAt, DeactAt, ScriptCmds

LEMMA CmdsAre == Cmds = AllCmds
<1>1. {Script[i].cmd : i \in DOMAIN Script} = ScriptCmds
  BY DEF Script, ScriptCmds
<1> QED
  BY <1>1 DEF Cmds, ScriptCmds, AllCmds

\* What a read leaves.
LEMMA Rest ==
    ASSUME NEW S, NEW s \in Seq(S), NEW n \in 1 .. Len(s)
    PROVE  LET r == SubSeq(s, n + 1, Len(s))
           IN  /\ r \in Seq(S) /\ Len(r) = Len(s) - n
               /\ \A i \in 1 .. Len(r) : i + n \in 1 .. Len(s) /\ r[i] = s[i + n]
OBVIOUS

LEMMA RangeIs ==
    ASSUME NEW S, NEW s \in Seq(S)
    PROVE  Range(s) = {s[i] : i \in 1 .. Len(s)}
BY DEF Range

LEMMA WriteIs ==
    ASSUME asked \in Seq(Cmds), NEW c \in Cmds, Write(c)
    PROVE  /\ asked' \in Seq(Cmds)
           /\ asked' = asked \/ (Len(asked) < MaxLag /\ asked' = Append(asked, c))
           /\ Len(asked') = Len(asked) \/ Len(asked') <= MaxLag
BY Bounds DEF Write

-----------------------------------------------------------------------------
(* Types.                                                                   *)

LEMMA ModRange ==
    ASSUME NEW a \in Int, NEW m \in Nat \ {0} PROVE a % m \in 0 .. m - 1
OBVIOUS

\* All of TypeOK but the modem's two queues.
FlatTypes ==
    /\ {bdOn, egOn, good, pdp, sock, opening, data, delivered, fd, initialized, connected,
        seenFresh, localFresh, stop, initHere, misread, late, garbage} \subseteq BOOLEAN
    /\ pc \in {"idle", "power", "generation", "reopen", "ask", "wait", "open", "opening",
               "send", "prompt", "payload", "result", "down", "off", "closing",
               "terminal", "out"}
    /\ step \in 1 .. 7 /\ fails \in 0 .. FailMax - 1
    /\ btPc \in {"poll", "bdon", "egon"}

QueueTypes ==
    /\ asked \in Seq(Cmds) /\ Len(asked) <= MaxLag + 1
    /\ rx \in Seq(Answers) /\ Len(rx) <= MaxLag

LEMMA TypesAre == TypeOK <=> FlatTypes /\ QueueTypes
BY ScriptIs DEF TypeOK, FlatTypes, QueueTypes, Answers

LEMMA NotReadyTypes ==
    ASSUME FlatTypes, NotReady
    PROVE  /\ pc' \in {"idle", "down"} /\ step' = 1 /\ fails' \in 0 .. FailMax - 1
           /\ connected' \in BOOLEAN /\ initialized' \in BOOLEAN
<1>1. fails + 1 \in Int /\ fails' = (fails + 1) % FailMax
  BY Bounds DEF FlatTypes, NotReady
<1> QED
  BY <1>1, Bounds, ModRange DEF NotReady, FlatTypes

LEMMA AfterCommandTypes ==
    ASSUME FlatTypes, NEW ok \in BOOLEAN, AfterCommand(ok)
    PROVE  /\ pc' \in {"idle", "down", "open", "off", "ask"}
           /\ step' \in 1 .. 7 /\ fails' \in 0 .. FailMax - 1
           /\ {initialized', connected', initHere'} \subseteq BOOLEAN
<1>1. CASE Script[step].must /\ ~ok
  <2>1. NotReady /\ UNCHANGED initHere
    BY <1>1 DEF AfterCommand
  <2>2. initHere' \in BOOLEAN
    BY <2>1 DEF FlatTypes
  <2> QED
    BY <2>1, <2>2, NotReadyTypes
<1>2. CASE ~(Script[step].must /\ ~ok)
  <2>1. UNCHANGED <<connected, fails>>
        /\ initialized' = (initialized \/ step = InitEnd)
        /\ initHere' = (initHere \/ step = InitEnd)
    BY <1>2 DEF AfterCommand
  <2>2. pc' \in {"open", "off", "ask"}
    BY <1>2 DEF AfterCommand
  <2>3. step' \in 1 .. 7
    BY <1>2 DEF AfterCommand, FlatTypes, ConnectAt, DeactAt
  <2> QED
    BY <2>1, <2>2, <2>3 DEF FlatTypes
<1> QED
  BY <1>1, <1>2

LEMMA LinkFailsTypes ==
    ASSUME FlatTypes, LinkFails
    PROVE  /\ pc' \in {"idle", "down"} /\ step' = 1 /\ fails' = fails
           /\ connected' \in BOOLEAN /\ initialized' \in BOOLEAN
BY DEF FlatTypes, LinkFails

\* The three ways in which the sender changes what it has not read.
RxSame == rx' = rx
RxFlush == rx' = <<>>
RxRead == \E n \in 1 .. Len(rx) : rx' = SubSeq(rx, n + 1, Len(rx))

LEMMA RxTypes ==
    ASSUME QueueTypes, RxSame \/ RxFlush \/ RxRead
    PROVE  rx' \in Seq(Answers) /\ Len(rx') <= MaxLag
<1>1. CASE RxSame
  BY <1>1 DEF RxSame, QueueTypes
<1>2. CASE RxFlush
  BY <1>2, Bounds DEF RxFlush
<1>3. CASE RxRead
  <2>1. PICK n \in 1 .. Len(rx) : rx' = SubSeq(rx, n + 1, Len(rx))
    BY <1>3 DEF RxRead
  <2>2. SubSeq(rx, n + 1, Len(rx)) \in Seq(Answers)
        /\ Len(SubSeq(rx, n + 1, Len(rx))) = Len(rx) - n
    BY <2>1, Rest DEF QueueTypes
  <2> QED
    BY <2>1, <2>2, Bounds DEF QueueTypes
<1> QED
  BY <1>1, <1>2, <1>3

\* Every step of the sender keeps the types of all but the queues.
LEMMA SenderFlatTypes ==
    ASSUME FlatTypes, Sender PROVE FlatTypes'
<1> USE DEF FlatTypes, powerVars, modemVars, genVars, flagVars, histVars, here
<1>1. CASE Try4g
  BY <1>1 DEF Try4g
<1>2. CASE PowerModem
  <2>1. {bdOn', egOn', seenFresh', localFresh'} \subseteq BOOLEAN
    BY <1>2 DEF PowerModem, EgPowerOn, GenerationMoves
  <2> QED
    BY <1>2, <2>1 DEF PowerModem
<1>3. CASE Generation
  <2>1. localFresh' \in BOOLEAN
    BY <1>3 DEF Generation
  <2>2. pc' \in {"reopen", "ask", "send"} /\ step' \in 1 .. 7
    BY <1>3 DEF Generation, Session, ConnectAt
  <2> QED
    BY <1>3, <2>1, <2>2 DEF Generation
<1>4. CASE Reopen
  <2>1. {initialized', connected', fd', seenFresh', localFresh'} \subseteq BOOLEAN
    BY <1>4 DEF Reopen, ForgetSession
  <2>2. pc' \in {"ask", "send"} /\ step' \in 1 .. 7
    BY <1>4 DEF Reopen, Session, ConnectAt
  <2> QED
    BY <1>4, <2>1, <2>2 DEF Reopen
<1>5. CASE ReopenFails
  <2>1. {fd', localFresh'} \subseteq BOOLEAN /\ NotReady
    BY <1>5 DEF ReopenFails
  <2>2. /\ pc' \in {"idle", "down"} /\ step' = 1 /\ fails' \in 0 .. FailMax - 1
        /\ connected' \in BOOLEAN /\ initialized' \in BOOLEAN
    BY <2>1, NotReadyTypes
  <2> QED
    BY <1>5, <2>1, <2>2 DEF ReopenFails
<1>6. CASE Ask
  <2>1. misread' \in BOOLEAN
    BY <1>6 DEF Ask
  <2> QED
    BY <1>6, <2>1 DEF Ask
<1>7. CASE WaitEnds
  <2>1. AfterCommand(FALSE)
    BY <1>7 DEF WaitEnds
  <2>2. /\ pc' \in {"idle", "down", "open", "off", "ask"}
        /\ step' \in 1 .. 7 /\ fails' \in 0 .. FailMax - 1
        /\ {initialized', connected', initHere'} \subseteq BOOLEAN
    BY <2>1, AfterCommandTypes
  <2> QED
    BY <1>7, <2>2 DEF WaitEnds
<1>8. CASE Open
  BY <1>8 DEF Open
<1>9. CASE OpeningEnds
  <2>1. NotReady
    BY <1>9 DEF OpeningEnds
  <2>2. /\ pc' \in {"idle", "down"} /\ step' = 1 /\ fails' \in 0 .. FailMax - 1
        /\ connected' \in BOOLEAN /\ initialized' \in BOOLEAN
    BY <2>1, NotReadyTypes
  <2> QED
    BY <1>9, <2>2 DEF OpeningEnds
<1>10. ASSUME NEW n \in 1 .. Len(rx), ReadAnswer(n) PROVE FlatTypes'
  <2>1. misread' \in BOOLEAN
    BY <1>10 DEF ReadAnswer
  <2>2. /\ pc' \in {"wait", "idle", "down", "open", "off", "ask"}
        /\ step' \in 1 .. 7 /\ fails' \in 0 .. FailMax - 1
        /\ {initialized', connected', initHere'} \subseteq BOOLEAN
    <3>1. CASE UNCHANGED <<pc, step, fails, flagVars, initHere>>
      BY <1>10, <3>1 DEF ReadAnswer
    <3>2. CASE \E ok \in BOOLEAN : AfterCommand(ok)
      <4>1. PICK ok \in BOOLEAN : AfterCommand(ok)
        BY <3>2
      <4> QED
        BY <4>1, AfterCommandTypes
    <3> QED
      BY <1>10, <3>1, <3>2 DEF ReadAnswer
  <2> QED
    BY <1>10, <2>1, <2>2 DEF ReadAnswer
<1>11. ASSUME NEW n \in 1 .. Len(rx), ReadOpening(n) PROVE FlatTypes'
  <2>1. Connected \/ NotReady \/ UNCHANGED <<pc, step, fails, flagVars>>
    BY <1>11 DEF ReadOpening
  <2>2. /\ pc' \in {"opening", "send", "idle", "down"}
        /\ step' \in 1 .. 7 /\ fails' \in 0 .. FailMax - 1
        /\ connected' \in BOOLEAN /\ initialized' \in BOOLEAN
    <3>1. CASE Connected
      BY <3>1, Bounds DEF Connected
    <3>2. CASE NotReady
      BY <3>2, NotReadyTypes
    <3>3. CASE UNCHANGED <<pc, step, fails, flagVars>>
      BY <1>11, <3>3 DEF ReadOpening
    <3> QED
      BY <2>1, <3>1, <3>2, <3>3
  <2> QED
    BY <1>11, <2>2 DEF ReadOpening
<1>12. ASSUME NEW n \in 1 .. Len(rx), ReadPrompt(n) PROVE FlatTypes'
  <2>1. \/ pc' \in {"prompt", "payload"} /\ UNCHANGED <<step, fails, flagVars, late>>
        \/ GivesUpPrompt
    BY <1>12 DEF ReadPrompt
  <2>2. /\ pc' \in {"prompt", "payload", "idle", "down"}
        /\ step' \in 1 .. 7 /\ fails' = fails
        /\ {connected', initialized', late'} \subseteq BOOLEAN
    <3>1. CASE GivesUpPrompt
      <4>1. LinkFails /\ late' \in BOOLEAN
        BY <3>1 DEF GivesUpPrompt
      <4> QED
        BY <4>1, LinkFailsTypes
    <3> QED
      BY <2>1, <3>1
  <2> QED
    BY <1>12, <2>2 DEF ReadPrompt
<1>13. ASSUME NEW n \in 1 .. Len(rx), NotSent(n) PROVE FlatTypes'
  <2>1. LinkFails \/ UNCHANGED <<pc, step, fails, flagVars>>
    BY <1>13 DEF NotSent
  <2>2. /\ pc' \in {"result", "idle", "down"}
        /\ step' \in 1 .. 7 /\ fails' = fails
        /\ {connected', initialized'} \subseteq BOOLEAN
    <3>1. CASE LinkFails
      BY <3>1, LinkFailsTypes
    <3>2. CASE UNCHANGED <<pc, step, fails, flagVars>>
      BY <1>13, <3>2 DEF NotSent
    <3> QED
      BY <2>1, <3>1, <3>2
  <2> QED
    BY <1>13, <2>2 DEF NotSent
<1>14. ASSUME NEW n \in 1 .. Len(rx), Sent(n) PROVE FlatTypes'
  <2>1. delivered' \in BOOLEAN
    BY <1>14 DEF Sent
  <2> QED
    BY <1>14, <2>1 DEF Sent
<1>15. CASE SendCommand
  BY <1>15 DEF SendCommand
<1>16. CASE PromptTimeout
  <2>1. LinkFails /\ late' \in BOOLEAN
    BY <1>16 DEF PromptTimeout, GivesUpPrompt
  <2>2. /\ pc' \in {"idle", "down"} /\ step' = 1 /\ fails' = fails
        /\ connected' \in BOOLEAN /\ initialized' \in BOOLEAN
    BY <2>1, LinkFailsTypes
  <2> QED
    BY <1>16, <2>1, <2>2 DEF PromptTimeout
<1>17. CASE PromptStopped
  BY <1>17 DEF PromptStopped
<1>18. CASE SendPayload
  BY <1>18 DEF SendPayload
<1>19. CASE ResultTimeout
  <2>1. LinkFails
    BY <1>19 DEF ResultTimeout
  <2>2. /\ pc' \in {"idle", "down"} /\ step' = 1 /\ fails' = fails
        /\ connected' \in BOOLEAN /\ initialized' \in BOOLEAN
    BY <2>1, LinkFailsTypes
  <2> QED
    BY <1>19, <2>2 DEF ResultTimeout
<1>20. CASE IdleStopped
  BY <1>20 DEF IdleStopped
<1>21. CASE Down
  <2>1. pc' \in {"ask", "off"} /\ step' \in 1 .. 7
    BY <1>21 DEF Down, DownAt, DeactAt
  <2> QED
    BY <1>21, <2>1 DEF Down
<1>22. CASE Off
  <2>1. {initialized', connected', bdOn', egOn', seenFresh', localFresh'} \subseteq BOOLEAN
    BY <1>22 DEF Off, ForgetSession, EgPowerOff, GenerationMoves
  <2>2. {pdp', sock', opening', data', initHere', misread', late', garbage'} \subseteq BOOLEAN
    BY <1>22 DEF Off
  <2> QED
    BY <1>22, <2>1, <2>2 DEF Off
<1>23. CASE Closing
  <2>1. {fd', seenFresh'} \subseteq BOOLEAN
    BY <1>23 DEF Closing
  <2> QED
    BY <1>23, <2>1 DEF Closing
<1>24. CASE Terminal
  <2>1. {bdOn', egOn', seenFresh', localFresh'} \subseteq BOOLEAN
    BY <1>24 DEF Terminal, BdPowerOn, BdPowerOff, GenerationMoves
  <2>2. pc' \in {"out", "idle"}
    BY <1>24 DEF Terminal
  <2> QED
    BY <1>24, <2>1, <2>2 DEF Terminal
<1> QED
  BY <1>1, <1>2, <1>3, <1>4, <1>5, <1>6, <1>7, <1>8, <1>9, <1>10, <1>11, <1>12,
     <1>13, <1>14, <1>15, <1>16, <1>17, <1>18, <1>19, <1>20, <1>21, <1>22, <1>23, <1>24 DEF Sender, SomeRead, SomeSent

\* The modem, the Bluetooth thread and the signal keep them too.
LEMMA OtherFlatTypes ==
    ASSUME FlatTypes, asked \in Seq(Cmds),
           ModemAnswers \/ ModemDrops \/ ModemTurnsGood \/ BtThread \/ handle_signal
              \/ UNCHANGED vars
    PROVE  FlatTypes'
<1> USE DEF FlatTypes, powerVars, modemVars, genVars, flagVars, histVars, senderSees
<1>1. CASE ModemReads
  <2>1. {pdp', sock', opening', data', delivered', garbage'} \subseteq BOOLEAN
    <3>1. ASSUME NEW ok \in BOOLEAN, ModemObeys(ok)
          PROVE  {pdp', sock', opening', data', delivered', garbage'} \subseteq BOOLEAN
      BY <3>1 DEF ModemObeys
    <3>2. ASSUME NEW ok \in BOOLEAN, ModemTakesData(ok)
          PROVE  {pdp', sock', opening', data', delivered', garbage'} \subseteq BOOLEAN
      <4>1. data' \in BOOLEAN /\ delivered' \in BOOLEAN
        BY <3>2 DEF ModemTakesData
      <4> QED
        BY <3>2, <4>1 DEF ModemTakesData
    <3>3. ASSUME NEW ok \in BOOLEAN, ModemSwallows(ok)
          PROVE  {pdp', sock', opening', data', delivered', garbage'} \subseteq BOOLEAN
      <4>1. data' \in BOOLEAN /\ garbage' \in BOOLEAN
        BY <3>3 DEF ModemSwallows
      <4> QED
        BY <3>3, <4>1 DEF ModemSwallows
    <3>4. CASE ModemPrompts
      BY <3>4 DEF ModemPrompts
    <3>5. CASE ModemKeepsSilent
      <4>1. data' \in BOOLEAN /\ delivered' \in BOOLEAN
        BY <3>5 DEF ModemKeepsSilent
      <4> QED
        BY <3>5, <4>1 DEF ModemKeepsSilent
    <3> QED
      BY <1>1, <3>1, <3>2, <3>3, <3>4, <3>5 DEF ModemReads
  <2> QED
    BY <1>1, <2>1 DEF ModemReads
<1>2. ASSUME NEW ok \in BOOLEAN, ModemOpens(ok) PROVE FlatTypes'
  <2>1. opening' \in BOOLEAN /\ sock' \in BOOLEAN
    BY <1>2 DEF ModemOpens
  <2> QED
    BY <1>2, <2>1 DEF ModemOpens
<1>3. CASE ModemDrops
  <2>1. sock' \in BOOLEAN
    BY <1>3 DEF ModemDrops
  <2> QED
    BY <1>3, <2>1 DEF ModemDrops
<1>4. CASE ModemTurnsGood
  <2>1. good' \in BOOLEAN
    BY <1>4 DEF ModemTurnsGood
  <2> QED
    BY <1>4, <2>1 DEF ModemTurnsGood
<1>5. CASE BtThread
  <2>1. CASE BtData
    BY <2>1 DEF BtData, btFrame
  <2>2. ASSUME NEW from, NEW to \in {"egon", "poll"}, NEW switch, BtPower(from, to, switch),
               {bdOn', egOn'} \subseteq BOOLEAN
        PROVE  FlatTypes'
    <3>1. seenFresh' \in BOOLEAN /\ localFresh' \in BOOLEAN
      BY <2>2 DEF BtPower
    <3> QED
      BY <2>2, <3>1 DEF BtPower, btFrame
  <2>3. CASE BtPower("bdon", "egon", BdPowerOn)
    <3>1. BdPowerOn
      BY <2>3 DEF BtPower
    <3>2. {bdOn', egOn'} \subseteq BOOLEAN
      BY <3>1 DEF BdPowerOn
    <3> QED
      BY <2>2, <2>3, <3>2
  <2>4. CASE BtPower("egon", "poll", EgPowerOn)
    <3>1. EgPowerOn
      BY <2>4 DEF BtPower
    <3>2. {bdOn', egOn'} \subseteq BOOLEAN
      BY <3>1 DEF EgPowerOn
    <3> QED
      BY <2>2, <2>4, <3>2
  <2> QED
    BY <1>5, <2>1, <2>3, <2>4 DEF BtThread
<1>6. CASE handle_signal
  <2>1. stop' \in BOOLEAN
    BY <1>6 DEF handle_signal
  <2> QED
    BY <1>6, <2>1 DEF handle_signal
<1>7. CASE UNCHANGED vars
  BY <1>7 DEF vars
<1> QED
  BY <1>1, <1>2, <1>3, <1>4, <1>5, <1>6, <1>7 DEF ModemAnswers

-----------------------------------------------------------------------------
(* The sender's place.                                                      *)

\* Where AfterCommand leads.
LEMMA AfterCommandPlace ==
    ASSUME FlatTypes, SessionInv, pc = "wait", NEW ok \in BOOLEAN, AfterCommand(ok)
    PROVE  /\ \/ pc' = "idle"
              \/ pc' = "down"
              \/ pc' = "open" /\ step = ConnectAt
              \/ pc' = "off" /\ step = DeactAt
              \/ pc' = "ask" /\ step' = step + 1 /\ step \notin {ConnectAt, DeactAt}
           /\ initialized => initialized'
           /\ initHere => initHere'
           /\ initialized' => initHere'
           /\ step = InitEnd /\ pc' = "ask" => initialized'
           /\ initHere' /\ ~initHere => ok /\ step = InitEnd
<1>1. CASE Script[step].must /\ ~ok
  BY <1>1 DEF AfterCommand, NotReady, SessionInv
<1>2. CASE ~(Script[step].must /\ ~ok)
  <2>1. /\ step' = IF step \in {ConnectAt, DeactAt} THEN 1 ELSE step + 1
        /\ pc' = CASE step = ConnectAt -> "open"
                   [] step = DeactAt -> "off"
                   [] OTHER -> "ask"
    BY <1>2 DEF AfterCommand
  <2>2. /\ initialized' = (initialized \/ step = InitEnd)
        /\ initHere' = (initHere \/ step = InitEnd)
    BY <1>2 DEF AfterCommand
  <2>3. ConnectAt = 5 /\ DeactAt = 7 /\ InitEnd = 4
    BY DEF ConnectAt, DeactAt, InitEnd
  <2>4. \/ pc' = "open" /\ step = ConnectAt
        \/ pc' = "off" /\ step = DeactAt
        \/ pc' = "ask" /\ step' = step + 1 /\ step \notin {ConnectAt, DeactAt}
    BY <2>1, <2>3
  <2>5. step = InitEnd => ok
    BY <1>2, ScriptIs
  <2> QED
    BY <2>2, <2>4, <2>5 DEF SessionInv, FlatTypes
<1> QED
  BY <1>1, <1>2

\* The sender keeps the session, and after the stop its way down.
LEMMA SenderSessionStep ==
    ASSUME FlatTypes, SessionInv, StopInv, Sender PROVE SessionInv' /\ StopInv'
<1>a. ConnectAt = 5 /\ DownAt = 6 /\ DeactAt = 7 /\ InitEnd = 4
  BY DEF ConnectAt, DownAt, DeactAt, InitEnd
<1> DEFINE Good == SessionInv' /\ StopInv'
<1> USE <1>a DEF flagVars, modemVars, genVars, histVars, here, powerVars, SessionInv,
               StopInv, Linked, AskingUpTo, FlatTypes
<1>1. CASE Try4g
  BY <1>1 DEF Try4g
<1>2. CASE PowerModem
  BY <1>2 DEF PowerModem, EgPowerOn
<1>3. CASE Generation
  BY <1>3 DEF Generation, Session
<1>4. CASE Reopen
  BY <1>4 DEF Reopen, Session, ForgetSession
<1>5. CASE ReopenFails
  BY <1>5 DEF ReopenFails, NotReady
<1>6. CASE Ask
  BY <1>6 DEF Ask
<1>7. CASE WaitEnds
  <2>a. pc = "wait" /\ AfterCommand(FALSE)
    BY <1>7 DEF WaitEnds
  <2>1. /\ \/ pc' = "idle"
           \/ pc' = "down"
           \/ pc' = "open" /\ step = ConnectAt
           \/ pc' = "off" /\ step = DeactAt
           \/ pc' = "ask" /\ step' = step + 1 /\ step \notin {ConnectAt, DeactAt}
        /\ initialized => initialized'
        /\ initialized' => initHere'
        /\ step = InitEnd /\ pc' = "ask" => initialized'
    BY <2>a, AfterCommandPlace DEF WaitEnds
  <2>2. UNCHANGED <<fd, egOn, stop>> /\ pc = "wait"
    BY <1>7 DEF WaitEnds
  <2>3. stop => ~(pc' = "idle")
    BY <2>a, <2>2 DEF AfterCommand, NotReady
  <2> QED
    BY <2>1, <2>2, <2>3
<1>8. ASSUME NEW n \in 1 .. Len(rx), ReadAnswer(n) PROVE Good
  <2>1. CASE UNCHANGED <<pc, step, fails, flagVars, initHere>>
    BY <1>8, <2>1 DEF ReadAnswer
  <2>2. ASSUME NEW ok \in BOOLEAN, AfterCommand(ok) PROVE Good
    <3>1. /\ \/ pc' = "idle"
             \/ pc' = "down"
             \/ pc' = "open" /\ step = ConnectAt
             \/ pc' = "off" /\ step = DeactAt
             \/ pc' = "ask" /\ step' = step + 1 /\ step \notin {ConnectAt, DeactAt}
          /\ initialized => initialized'
          /\ initialized' => initHere'
          /\ step = InitEnd /\ pc' = "ask" => initialized'
      BY <1>8, <2>2, AfterCommandPlace DEF ReadAnswer
    <3>2. UNCHANGED <<fd, egOn, stop>> /\ pc = "wait" /\ ~stop
      BY <1>8 DEF ReadAnswer
    <3> QED
      BY <3>1, <3>2
  <2> QED
    BY <1>8, <2>1, <2>2 DEF ReadAnswer
<1>9. CASE Open
  BY <1>9 DEF Open
<1>10. ASSUME NEW n \in 1 .. Len(rx), ReadOpening(n) PROVE Good
  <2>1. Connected \/ NotReady \/ UNCHANGED <<pc, step, fails, flagVars>>
    BY <1>10 DEF ReadOpening
  <2>2. UNCHANGED <<fd, egOn, stop, initHere>> /\ pc = "opening" /\ ~stop
    BY <1>10 DEF ReadOpening
  <2> QED
    BY <2>1, <2>2 DEF Connected, NotReady
<1>11. CASE OpeningEnds
  BY <1>11 DEF OpeningEnds, NotReady
<1>12. CASE SendCommand
  BY <1>12 DEF SendCommand
<1>13. ASSUME NEW n \in 1 .. Len(rx), ReadPrompt(n) PROVE Good
  <2>1. \/ pc' \in {"prompt", "payload"} /\ UNCHANGED flagVars
        \/ LinkFails
    BY <1>13 DEF ReadPrompt, GivesUpPrompt
  <2>2. UNCHANGED <<fd, egOn, stop, initHere>> /\ pc = "prompt" /\ ~stop
    BY <1>13 DEF ReadPrompt
  <2> QED
    BY <2>1, <2>2 DEF LinkFails
<1>14. CASE PromptTimeout
  BY <1>14 DEF PromptTimeout, GivesUpPrompt, LinkFails
<1>15. CASE PromptStopped
  BY <1>15 DEF PromptStopped
<1>16. CASE SendPayload
  BY <1>16 DEF SendPayload
<1>17. ASSUME NEW n \in 1 .. Len(rx), NotSent(n) \/ Sent(n) PROVE Good
  <2>1. \/ UNCHANGED <<pc, flagVars>>
        \/ pc' \in {"idle", "down"} /\ UNCHANGED initialized
    BY <1>17 DEF NotSent, Sent, LinkFails
  <2>2. UNCHANGED <<fd, egOn, stop, initHere>> /\ pc = "result" /\ ~stop
    BY <1>17 DEF NotSent, Sent
  <2> QED
    BY <2>1, <2>2
<1>18. CASE ResultTimeout
  BY <1>18 DEF ResultTimeout, LinkFails
<1>19. CASE IdleStopped
  BY <1>19 DEF IdleStopped
<1>20. CASE Down
  BY <1>20 DEF Down
<1>21. CASE Off
  BY <1>21 DEF Off, ForgetSession
<1>22. CASE Closing
  BY <1>22 DEF Closing
<1>23. CASE Terminal
  BY <1>23 DEF Terminal, BdPowerOn, BdPowerOff
<1> QED
  BY <1>1, <1>2, <1>3, <1>4, <1>5, <1>6, <1>7, <1>8, <1>9, <1>10, <1>11, <1>12,
     <1>13, <1>14, <1>15, <1>16, <1>17, <1>18, <1>19, <1>20, <1>21, <1>22, <1>23 DEF Sender, SomeRead, SomeSent

LEMMA OtherSessionStep ==
    ASSUME FlatTypes, SessionInv, StopInv,
           ModemAnswers \/ ModemDrops \/ ModemTurnsGood \/ BtThread \/ handle_signal
              \/ UNCHANGED vars
    PROVE  SessionInv' /\ StopInv'
<1> USE DEF flagVars, modemVars, genVars, histVars, senderSees, btFrame, powerVars
<1>1. CASE handle_signal
  BY <1>1 DEF handle_signal, SessionInv, StopInv, Linked, AskingUpTo
<1>2. CASE BtThread
  <2>1. UNCHANGED <<fd, pc, step, initialized, initHere, stop>> /\ (egOn => egOn')
    BY <1>2 DEF BtThread, BtData, BtPower, BdPowerOn, EgPowerOn
  <2> QED
    BY <2>1 DEF SessionInv, StopInv, Linked, AskingUpTo
<1>3. CASE ModemAnswers \/ ModemDrops \/ ModemTurnsGood \/ UNCHANGED vars
  <2>1. UNCHANGED <<fd, egOn, pc, step, initialized, initHere, stop>>
    BY <1>3 DEF ModemAnswers, ModemReads, ModemOpens, ModemDrops, ModemTurnsGood, vars
  <2> QED
    BY <2>1 DEF SessionInv, StopInv, Linked, AskingUpTo
<1> QED
  BY <1>1, <1>2, <1>3

-----------------------------------------------------------------------------
(* The two queues of the modem.                                             *)

\* The sender reads a part of what has arrived, all of it with tcflush, or nothing; and
\* forgets the context only with everything else.
LEMMA SenderReads ==
    ASSUME Sender
    PROVE  (RxSame \/ RxFlush \/ RxRead) /\ (pdp' = pdp \/ RxFlush)
<1> USE DEF RxSame, RxFlush, modemVars
<1>1. CASE Try4g \/ PowerModem \/ Generation \/ ReopenFails \/ WaitEnds \/ OpeningEnds
           \/ PromptTimeout \/ PromptStopped
  BY <1>1 DEF Try4g, PowerModem, Generation, ReopenFails, WaitEnds, OpeningEnds,
              PromptTimeout, PromptStopped
<1>2. CASE SendPayload \/ ResultTimeout \/ IdleStopped \/ Down \/ Closing \/ Terminal
  BY <1>2 DEF SendPayload, ResultTimeout, IdleStopped, Down, Closing, Terminal
<1>3. CASE Reopen \/ Ask \/ Open \/ SendCommand \/ Off
  BY <1>3 DEF Reopen, Ask, Open, SendCommand, Off
<1>4. ASSUME NEW n \in 1 .. Len(rx),
             ReadAnswer(n) \/ ReadOpening(n) \/ ReadPrompt(n) \/ NotSent(n) \/ Sent(n)
      PROVE  RxRead /\ pdp' = pdp
  <2>1. rx' = SubSeq(rx, n + 1, Len(rx)) /\ pdp' = pdp
    BY <1>4 DEF ReadAnswer, ReadOpening, ReadPrompt, NotSent, Sent
  <2> QED
    BY <2>1 DEF RxRead
<1> QED
  BY <1>1, <1>2, <1>3, <1>4 DEF Sender, SomeRead, SomeSent

\* The steps by which the sender writes, or leaves or enters AT+QISEND.
Writes == Ask \/ Open \/ SendCommand \/ SendPayload
Prompting == \/ \E n \in 1 .. Len(rx) : ReadPrompt(n)
             \/ PromptTimeout \/ PromptStopped

\* All the others leave what the modem has been asked.
LEMMA SenderAsks ==
    ASSUME Sender
    PROVE  \/ Writes \/ Prompting \/ Off
           \/ /\ UNCHANGED <<asked, stop, data, late, garbage>>
              /\ pc \notin {"prompt", "payload"} /\ pc' \notin {"prompt", "payload"}
              /\ pc' = "idle" => ~stop
<1> USE DEF modemVars, here, histVars
<1>1. CASE Try4g \/ PowerModem \/ Generation \/ Reopen \/ IdleStopped \/ Down \/ Closing
           \/ Terminal
  BY <1>1 DEF Try4g, PowerModem, Generation, Reopen, IdleStopped, Down, Closing, Terminal,
              Session
<1>2. CASE ReopenFails \/ OpeningEnds \/ ResultTimeout
  BY <1>2 DEF ReopenFails, OpeningEnds, ResultTimeout, NotReady, LinkFails
<1>3. CASE WaitEnds
  BY <1>3 DEF WaitEnds, AfterCommand, NotReady
<1>4. ASSUME NEW n \in 1 .. Len(rx), ReadAnswer(n)
      PROVE  /\ UNCHANGED <<asked, stop, data, late, garbage>>
             /\ pc \notin {"prompt", "payload"} /\ pc' \notin {"prompt", "payload"}
             /\ ~stop
  <2>1. UNCHANGED <<asked, stop, data, late, garbage>> /\ pc = "wait" /\ ~stop
    BY <1>4 DEF ReadAnswer
  <2>2. (\E ok \in BOOLEAN : AfterCommand(ok)) \/ pc' = pc
    BY <1>4 DEF ReadAnswer
  <2>3. pc' \notin {"prompt", "payload"}
    BY <2>1, <2>2 DEF AfterCommand, NotReady
  <2> QED
    BY <2>1, <2>3
<1>5. ASSUME NEW n \in 1 .. Len(rx), ReadOpening(n) \/ NotSent(n) \/ Sent(n)
      PROVE  /\ UNCHANGED <<asked, stop, data, late, garbage>>
             /\ pc \notin {"prompt", "payload"} /\ pc' \notin {"prompt", "payload"}
             /\ ~stop
  BY <1>5 DEF ReadOpening, NotSent, Sent, Connected, NotReady, LinkFails
<1> QED
  BY <1>1, <1>2, <1>3, <1>4, <1>5
     DEF Sender, SomeRead, SomeSent, Writes, Prompting

\* What the modem does with what it was asked first.
Says1(a) ==
    /\ a \in Answers /\ a.cmd # "+QIOPEN"
    /\ rx' = Append(rx, a) /\ Len(rx) < MaxLag
    /\ a = Answer("QIACT", TRUE) => pdp'
    /\ a = Answer("SEND", TRUE) => delivered' \/ garbage'

LEMMA ModemReadsIs ==
    ASSUME FlatTypes, QueueTypes, ModemReads
    PROVE  /\ asked # <<>> /\ asked' = Tail(asked)
           /\ UNCHANGED <<pc, stop, late>>
           /\ delivered \/ garbage => delivered' \/ garbage'
           /\ (rx' = rx /\ pdp' = pdp) \/ \E a : Says1(a)
<1>1. /\ asked # <<>> /\ asked' = Tail(asked) /\ UNCHANGED <<pc, stop, late>>
      /\ Len(rx) < MaxLag
  BY DEF ModemReads, senderSees
<1>2. PICK c : c = Head(asked)
  OBVIOUS
<1>3. c \in Cmds /\ c \notin {"+QIOPEN", "SEND"}
  <2>1. c \in Cmds
    BY <1>1, <1>2, HeadTailProperties DEF QueueTypes
  <2> QED
    BY <2>1, CmdsAre DEF AllCmds
<1> DEFINE Told == /\ delivered \/ garbage => delivered' \/ garbage'
                   /\ (rx' = rx /\ pdp' = pdp) \/ \E a : Says1(a)
<1>4. ASSUME NEW d \in Cmds \cup {">", "SEND"}, NEW ok \in BOOLEAN
      PROVE  /\ Answer(d, ok) \in Answers /\ Answer(d, ok).cmd = d
             /\ Answer(d, ok).ok = ok
  BY <1>4 DEF Answer, Answers
<1>4a. /\ Answer("QIACT", TRUE).cmd = "QIACT" /\ Answer("QIACT", TRUE).ok = TRUE
      /\ Answer("SEND", TRUE).cmd = "SEND" /\ Answer("SEND", TRUE).ok = TRUE
  BY DEF Answer
<1>5. ASSUME NEW ok \in BOOLEAN, ModemObeys(ok) PROVE Told
  <2>1. rx' = Append(rx, Answer(c, ok)) /\ UNCHANGED <<delivered, garbage>>
    BY <1>2, <1>5 DEF ModemObeys, Says
  <2>2. c = "QIACT" /\ ok => pdp'
    BY <1>2, <1>5 DEF ModemObeys
  <2>3. Answer(c, ok) = Answer("QIACT", TRUE) => c = "QIACT" /\ ok
    BY <1>3, <1>4, <1>4a, ZenonT(30)
  <2>4. Answer(c, ok) # Answer("SEND", TRUE)
    BY <1>3, <1>4, <1>4a, ZenonT(30)
  <2>5. Answer(c, ok) \in Answers /\ Answer(c, ok).cmd # "+QIOPEN"
    BY <1>3, <1>4
  <2>6. Says1(Answer(c, ok))
    BY <1>1, <2>1, <2>2, <2>3, <2>4, <2>5 DEF Says1
  <2> QED
    BY <2>1, <2>6
<1>6. ASSUME NEW ok \in BOOLEAN, ModemTakesData(ok) PROVE Told
  <2> DEFINE b == ok /\ data
  <2>1. /\ rx' = Append(rx, Answer("SEND", b)) /\ UNCHANGED <<pdp, garbage>>
        /\ delivered' \in {delivered \/ b, delivered \/ data}
    BY <1>6 DEF ModemTakesData, Says
  <2>2. (delivered \/ b => delivered')
    BY <2>1
  <2>3. b \in BOOLEAN
    OBVIOUS
  <2> HIDE DEF b
  <2>4. Answer("SEND", b) = Answer("SEND", TRUE) => b
    BY <1>4, <1>4a, <2>3
  <2>5. Answer("SEND", b) # Answer("QIACT", TRUE)
    BY <1>4, <1>4a, <2>3
  <2>6. Answer("SEND", b) \in Answers /\ Answer("SEND", b).cmd # "+QIOPEN"
    BY <1>4, <2>3
  <2>7. Says1(Answer("SEND", b))
    BY <1>1, <2>1, <2>2, <2>4, <2>5, <2>6 DEF Says1
  <2> QED
    BY <2>1, <2>2, <2>7
<1>7. ASSUME NEW ok \in BOOLEAN, ModemSwallows(ok) PROVE Told
  <2>1. garbage' /\ pdp' = pdp /\ (rx' = rx \/ rx' = Append(rx, Answer("SEND", ok)))
    BY <1>7 DEF ModemSwallows, Says
  <2>2. Answer("SEND", ok) # Answer("QIACT", TRUE)
    BY <1>4, <1>4a
  <2>3. Answer("SEND", ok) \in Answers /\ Answer("SEND", ok).cmd # "+QIOPEN"
    BY <1>4
  <2>4. CASE rx' = rx
    BY <2>1, <2>4
  <2>5. CASE rx' = Append(rx, Answer("SEND", ok))
    <3>1. Says1(Answer("SEND", ok))
      BY <1>1, <2>1, <2>2, <2>3, <2>5 DEF Says1
    <3> QED
      BY <2>1, <3>1
  <2> QED
    BY <2>1, <2>4, <2>5
<1>8. ASSUME ModemPrompts PROVE Told
  <2>1. PICK ok \in BOOLEAN : rx' = Append(rx, Answer(">", ok))
    BY <1>8 DEF ModemPrompts, Says, FlatTypes
  <2>2. delivered \/ garbage => delivered' \/ garbage'
    BY <1>8 DEF ModemPrompts
  <2>3. Answer(">", ok) \in Answers /\ Answer(">", ok).cmd = ">"
    BY <1>4
  <2>4. Says1(Answer(">", ok))
    BY <1>1, <1>4a, <2>1, <2>3 DEF Says1
  <2> QED
    BY <2>2, <2>4
<1>9. ASSUME ModemKeepsSilent PROVE Told
  <2>1. pdp' = pdp /\ rx' = rx
    BY <1>9 DEF ModemKeepsSilent
  <2>2. delivered \/ garbage => delivered' \/ garbage'
    <3>1. garbage' = garbage /\ (delivered => delivered')
      BY <1>9 DEF ModemKeepsSilent
    <3> QED
      BY <3>1, Zenon
  <2> QED
    BY <2>1, <2>2
<1> QED
  BY <1>1, <1>5, <1>6, <1>7, <1>8, <1>9 DEF ModemReads

\* An answer more, and answers less.
LEMMA RangeAppend ==
    ASSUME NEW S, NEW s \in Seq(S), NEW a \in S
    PROVE  /\ Append(s, a) \in Seq(S) /\ Len(Append(s, a)) = Len(s) + 1
           /\ Range(Append(s, a)) = Range(s) \cup {a}
<1>1. Append(s, a) \in Seq(S) /\ Len(Append(s, a)) = Len(s) + 1
      /\ Append(s, a)[Len(s) + 1] = a
      /\ \A i \in 1 .. Len(s) : Append(s, a)[i] = s[i]
  OBVIOUS
<1>2. Range(Append(s, a)) = {Append(s, a)[i] : i \in 1 .. Len(s) + 1}
  BY <1>1, RangeIs
<1>3. Range(s) = {s[i] : i \in 1 .. Len(s)}
  BY RangeIs
<1>4. 1 .. Len(s) + 1 = (1 .. Len(s)) \cup {Len(s) + 1}
  OBVIOUS
<1> QED
  BY <1>1, <1>2, <1>3, <1>4

LEMMA RangeRest ==
    ASSUME NEW S, NEW s \in Seq(S), NEW n \in 1 .. Len(s)
    PROVE  /\ Range(SubSeq(s, n + 1, Len(s))) \subseteq Range(s)
           /\ Range(SubSeq(s, 1, n)) \subseteq Range(s)
<1>1. Range(s) = {s[i] : i \in 1 .. Len(s)}
  BY RangeIs
<1>2. PICK r : r = SubSeq(s, n + 1, Len(s))
  OBVIOUS
<1>3. /\ r \in Seq(S) /\ Len(r) = Len(s) - n
      /\ \A i \in 1 .. Len(r) : i + n \in 1 .. Len(s) /\ r[i] = s[i + n]
  BY <1>2, Rest
<1>4. Range(r) = {r[i] : i \in 1 .. Len(r)}
  BY <1>3, RangeIs
<1>5. PICK q : q = SubSeq(s, 1, n)
  OBVIOUS
<1>6. q \in Seq(S) /\ Len(q) = n /\ \A i \in 1 .. n : i \in 1 .. Len(s) /\ q[i] = s[i]
  BY <1>5
<1>7. Range(q) = {q[i] : i \in 1 .. Len(q)}
  BY <1>6, RangeIs
<1>8. Range(r) \subseteq Range(s)
  BY <1>1, <1>3, <1>4
<1>9. Range(q) \subseteq Range(s)
  BY <1>1, <1>6, <1>7
<1> QED
  BY <1>2, <1>5, <1>8, <1>9

\* The sender never finds an answer that was not there.
LEMMA ReadsLess ==
    ASSUME QueueTypes, RxSame \/ RxFlush \/ RxRead PROVE Range(rx') \subseteq Range(rx)
<1>1. CASE RxSame
  BY <1>1 DEF RxSame
<1>2. CASE RxFlush
  <2>1. Range(<<>>) = {}
    BY DEF Range
  <2> QED
    BY <1>2, <2>1 DEF RxFlush
<1>3. CASE RxRead
  <2>1. PICK n \in 1 .. Len(rx) : rx' = SubSeq(rx, n + 1, Len(rx))
    BY <1>3 DEF RxRead
  <2> QED
    BY <2>1, RangeRest DEF QueueTypes
<1> QED
  BY <1>1, <1>2, <1>3

\* What the modem says about its connection.
LEMMA ModemOpensIs ==
    ASSUME NEW ok \in BOOLEAN, QueueTypes, ModemOpens(ok)
    PROVE  /\ UNCHANGED <<asked, pc, stop, late, garbage, data, pdp, delivered>>
           /\ rx' \in Seq(Answers) /\ Len(rx') <= MaxLag
           /\ rx' = Append(rx, Answer("+QIOPEN", ok))
           /\ Range(rx') = Range(rx) \cup {Answer("+QIOPEN", ok)}
<1>1. /\ UNCHANGED <<asked, pc, stop, late, garbage, data, pdp, delivered>>
      /\ rx' = Append(rx, Answer("+QIOPEN", ok)) /\ Len(rx) < MaxLag
  BY DEF ModemOpens, Says, senderSees, histVars
<1>2. Answer("+QIOPEN", ok) \in Answers
  BY DEF Answer, Answers
<1>3. /\ Append(rx, Answer("+QIOPEN", ok)) \in Seq(Answers)
      /\ Len(Append(rx, Answer("+QIOPEN", ok))) = Len(rx) + 1
      /\ Range(Append(rx, Answer("+QIOPEN", ok))) = Range(rx) \cup {Answer("+QIOPEN", ok)}
  BY <1>2, RangeAppend DEF QueueTypes
<1>4. Len(rx) + 1 <= MaxLag
  <2>1. Len(rx) \in Nat /\ MaxLag \in Nat
    BY Bounds DEF QueueTypes
  <2> QED
    BY <1>1, <2>1
<1> QED
  BY <1>1, <1>3, <1>4

\* No step makes a queue too long.
LEMMA SenderQueues ==
    ASSUME FlatTypes, QueueTypes, StopInv, LagInv, Sender
    PROVE  QueueTypes' /\ LagInv'
<1> DEFINE L == Len(asked)
<1>1. rx' \in Seq(Answers) /\ Len(rx') <= MaxLag /\ Range(rx') \subseteq Range(rx)
  BY SenderReads, RxTypes, ReadsLess
<1>2. asked \in Seq(Cmds) /\ Len(asked) \in Nat /\ MaxLag \in Nat \ {0} /\ Len(asked) <= MaxLag + 1
  BY Bounds DEF QueueTypes
<1>3. ASSUME asked' \in Seq(Cmds), Len(asked') <= MaxLag + 1 PROVE QueueTypes'
  BY <1>1, <1>3 DEF QueueTypes
<1>4. CASE /\ UNCHANGED <<asked, stop, data, late, garbage>>
           /\ pc \notin {"prompt", "payload"} /\ pc' \notin {"prompt", "payload"}
           /\ pc' = "idle" => ~stop
  <2>1. QueueTypes'
    BY <1>2, <1>3, <1>4
  <2>2. LagInv'
    BY <1>4 DEF LagInv
  <2> QED
    BY <2>1, <2>2
<1>5. CASE Ask \/ Open \/ SendCommand
  <2>1. PICK c \in Cmds : Write(c)
    <3>1. CASE Ask
      <4>1. Script[step].cmd \in Cmds
        BY ScriptIs, CmdsAre DEF FlatTypes, AllCmds, ScriptCmds
      <4> QED
        BY <3>1, <4>1 DEF Ask
    <3>2. CASE Open \/ SendCommand
      BY <3>2, CmdsAre DEF Open, SendCommand, AllCmds
    <3> QED
      BY <1>5, <3>1, <3>2
  <2>2. asked' \in Seq(Cmds) /\ (Len(asked') = Len(asked) \/ Len(asked') <= MaxLag)
    BY <1>2, <2>1, WriteIs
  <2>3. /\ rx' = <<>> /\ stop' = stop
        /\ pc' \in {"wait", "opening"} \/ (pc' = "prompt" /\ pc = "send")
    BY <1>5 DEF Ask, Open, SendCommand, here
  <2>4. QueueTypes'
    BY <1>2, <1>3, <2>2
  <2>5. Range(rx') = {}
    BY <2>3 DEF Range
  <2>6. pc = "send" => ~stop
    BY DEF StopInv
  <2>7. LagInv'
    <3>1. Len(asked) > MaxLag => stop
      BY DEF LagInv
    <3>2. Len(asked') > MaxLag => stop' /\ pc' \notin {"idle", "prompt", "payload"}
      BY <1>2, <2>2, <2>3, <2>6, <3>1
    <3>3. ~(Answer(">", TRUE) \in Range(rx')) /\ pc' # "payload"
      BY <2>3, <2>5
    <3> QED
      BY <3>2, <3>3 DEF LagInv
  <2> QED
    BY <2>4, <2>7
<1>6. CASE SendPayload
  <2>1. /\ asked' = Append(asked, "payload") /\ pc = "payload" /\ pc' = "result"
        /\ stop' = stop
    BY <1>6 DEF SendPayload, here
  <2>2. asked' \in Seq(Cmds) /\ Len(asked') = Len(asked) + 1
    BY <1>2, <2>1, CmdsAre DEF AllCmds
  <2>3. Len(asked) <= MaxLag /\ (~stop => Len(asked) < MaxLag)
    BY <1>2, <2>1 DEF LagInv
  <2>4. QueueTypes'
    BY <1>2, <1>3, <2>2, <2>3
  <2>5. LagInv'
    BY <1>2, <2>1, <2>2, <2>3 DEF LagInv
  <2> QED
    BY <2>4, <2>5
<1>7. CASE Prompting
  <2>1. asked' = asked /\ stop' = stop /\ pc = "prompt" /\ Len(asked) <= MaxLag
    <3>1. asked' = asked /\ stop' = stop /\ pc = "prompt"
      BY <1>7 DEF Prompting, ReadPrompt, PromptTimeout, PromptStopped, modemVars, here
    <3> QED
      BY <1>2, <3>1 DEF LagInv
  <2>2. pc' = "payload" => stop \/ Answer(">", TRUE) \in Range(rx)
    <3>1. ASSUME NEW n \in 1 .. Len(rx), ReadPrompt(n), pc' = "payload"
          PROVE  Answer(">", TRUE) \in Range(rx)
      <4>1. Answer(">", TRUE) \in Range(SubSeq(rx, 1, n))
        BY <2>1, <3>1 DEF ReadPrompt, GivesUpPrompt, LinkFails
      <4>2. Range(SubSeq(rx, 1, n)) \subseteq Range(rx)
        BY <3>1, RangeRest DEF QueueTypes
      <4> QED
        BY <4>1, <4>2
    <3>2. CASE PromptTimeout
      BY <3>2 DEF PromptTimeout, GivesUpPrompt, LinkFails
    <3>3. CASE PromptStopped
      BY <3>3 DEF PromptStopped
    <3> QED
      BY <1>7, <3>1, <3>2, <3>3 DEF Prompting
  <2>3. QueueTypes'
    BY <1>2, <1>3, <2>1
  <2>4. LagInv'
    BY <1>1, <1>2, <2>1, <2>2 DEF LagInv
  <2> QED
    BY <2>3, <2>4
<1>8. CASE Off
  <2>1. asked' = <<>> /\ pc' = "closing"
    BY <1>8 DEF Off
  <2>2. asked' \in Seq(Cmds) /\ Len(asked') = 0
    BY <2>1
  <2> QED
    BY <1>2, <1>3, <2>1, <2>2 DEF LagInv
<1> QED
  BY <1>4, <1>5, <1>6, <1>7, <1>8, SenderAsks DEF Writes

LEMMA OtherQueues ==
    ASSUME FlatTypes, QueueTypes, StopInv, LagInv,
           ModemAnswers \/ ModemDrops \/ ModemTurnsGood \/ BtThread \/ handle_signal
              \/ UNCHANGED vars
    PROVE  QueueTypes' /\ LagInv'
<1>1. asked \in Seq(Cmds) /\ Len(asked) \in Nat /\ MaxLag \in Nat \ {0} /\ Len(asked) <= MaxLag + 1
  BY Bounds DEF QueueTypes
<1>2. CASE ModemReads
  <2>1. /\ asked # <<>> /\ asked' = Tail(asked) /\ UNCHANGED <<pc, stop, late>>
        /\ (rx' = rx /\ pdp' = pdp) \/ \E a : Says1(a)
    BY <1>2, ModemReadsIs
  <2>2. asked' \in Seq(Cmds) /\ Len(asked') = Len(asked) - 1
    BY <1>1, <2>1
  <2>3. rx' \in Seq(Answers) /\ Len(rx') <= MaxLag
    <3>1. CASE rx' = rx
      BY <3>1 DEF QueueTypes
    <3>2. ASSUME NEW a, Says1(a) PROVE rx' \in Seq(Answers) /\ Len(rx') <= MaxLag
      BY <1>1, <3>2, RangeAppend DEF QueueTypes, Says1
    <3> QED
      BY <2>1, <3>1, <3>2
  <2>4. QueueTypes'
    BY <1>1, <2>2, <2>3 DEF QueueTypes
  <2>5. LagInv'
    <3>1. Len(asked') <= MaxLag /\ (Len(asked) <= MaxLag => Len(asked') < MaxLag)
      BY <1>1, <2>2
    <3>2. pc' \in {"prompt", "payload"} => Len(asked) <= MaxLag
      BY <1>1, <2>1 DEF LagInv
    <3>3. ~(Len(asked') > MaxLag)
      BY <1>1, <2>2
    <3>4. pc' \in {"prompt", "payload"} => Len(asked') < MaxLag
      BY <3>1, <3>2
    <3> QED
      BY <3>3, <3>4 DEF LagInv
  <2> QED
    BY <2>4, <2>5
<1>3. ASSUME NEW ok \in BOOLEAN, ModemOpens(ok) PROVE QueueTypes' /\ LagInv'
  <2>1. /\ UNCHANGED <<asked, pc, stop>> /\ rx' \in Seq(Answers) /\ Len(rx') <= MaxLag
        /\ Range(rx') = Range(rx) \cup {Answer("+QIOPEN", ok)}
    BY <1>3, ModemOpensIs
  <2>2. Answer("+QIOPEN", ok) # Answer(">", TRUE)
    BY DEF Answer
  <2>3. QueueTypes'
    BY <2>1 DEF QueueTypes
  <2>4. LagInv'
    BY <2>1, <2>2 DEF LagInv
  <2> QED
    BY <2>3, <2>4
<1>4. CASE ModemDrops \/ ModemTurnsGood \/ BtThread \/ UNCHANGED vars
  <2>1. UNCHANGED <<asked, rx, pc, stop>>
    BY <1>4 DEF ModemDrops, ModemTurnsGood, BtThread, BtData, BtPower, btFrame, modemVars,
                senderSees, vars
  <2> QED
    BY <2>1 DEF QueueTypes, LagInv
<1>5. CASE handle_signal
  <2>1. UNCHANGED <<asked, rx, pc>> /\ ~stop /\ stop' /\ pc \in {"idle", "prompt"}
    BY <1>5 DEF handle_signal, modemVars
  <2> QED
    BY <1>1, <2>1 DEF QueueTypes, LagInv
<1> QED
  BY <1>2, <1>3, <1>4, <1>5 DEF ModemAnswers

-----------------------------------------------------------------------------
(* What the answers tell.                                                   *)

\* An answer after which nothing but +QIOPEN came says whether the context is active.
LEMMA PdpStep ==
    ASSUME FlatTypes, QueueTypes, PdpInv, Next PROVE PdpInv'
<1>1. /\ rx \in Seq(Answers) /\ Len(rx) \in Nat /\ DOMAIN rx = 1 .. Len(rx)
      /\ Answer("QIACT", TRUE).cmd = "QIACT"
  BY DEF QueueTypes, Answer
<1>2. CASE rx' = rx /\ pdp' = pdp
  BY <1>2 DEF PdpInv
<1>3. CASE RxFlush
  BY <1>3 DEF RxFlush, PdpInv
<1>4. ASSUME NEW n \in 1 .. Len(rx), rx' = SubSeq(rx, n + 1, Len(rx)), pdp' = pdp
      PROVE  PdpInv'
  <2>1. Len(rx') = Len(rx) - n
        /\ \A i \in 1 .. Len(rx') : i + n \in 1 .. Len(rx) /\ rx'[i] = rx[i + n]
    BY <1>1, <1>4, Rest
  <2>2. ASSUME NEW i \in DOMAIN rx', rx'[i] = Answer("QIACT", TRUE),
               \A j \in i + 1 .. Len(rx') : rx'[j].cmd = "+QIOPEN"
        PROVE  pdp'
    <3>0. DOMAIN rx' = 1 .. Len(rx')
      <4>1. rx' \in Seq(Answers)
        BY <1>1, <1>4, Rest
      <4> QED
        BY <4>1
    <3>1. i + n \in DOMAIN rx /\ rx[i + n] = Answer("QIACT", TRUE)
      <4>1. i \in 1 .. Len(rx')
        BY <2>2, <3>0
      <4>2. i + n \in 1 .. Len(rx) /\ rx'[i] = rx[i + n]
        BY <2>1, <4>1
      <4> QED
        BY <1>1, <2>2, <4>2
    <3>2. ASSUME NEW j \in i + n + 1 .. Len(rx) PROVE rx[j].cmd = "+QIOPEN"
      <4>1. j - n \in i + 1 .. Len(rx') /\ j - n \in 1 .. Len(rx') /\ (j - n) + n = j
        BY <1>1, <2>1, <3>0
      <4>2. rx'[j - n] = rx[j]
        BY <2>1, <4>1
      <4> QED
        BY <2>2, <4>1, <4>2
    <3> QED
      BY <1>4, <3>1, <3>2 DEF PdpInv
  <2> QED
    BY <2>2 DEF PdpInv
<1>5. ASSUME NEW a \in Answers, rx' = Append(rx, a),
             a.cmd = "+QIOPEN" => pdp' = pdp,
             a = Answer("QIACT", TRUE) => pdp'
      PROVE  PdpInv'
  <2>1. /\ DOMAIN rx' = 1 .. Len(rx) + 1 /\ Len(rx') = Len(rx) + 1 /\ DOMAIN rx = 1 .. Len(rx)
        /\ rx'[Len(rx) + 1] = a /\ \A i \in 1 .. Len(rx) : rx'[i] = rx[i]
    BY <1>1, <1>5
  <2>2. ASSUME NEW i \in DOMAIN rx', rx'[i] = Answer("QIACT", TRUE),
               \A j \in i + 1 .. Len(rx') : rx'[j].cmd = "+QIOPEN"
        PROVE  pdp'
    <3>1. CASE i = Len(rx) + 1
      BY <1>1, <1>5, <2>1, <2>2, <3>1
    <3>2. CASE i # Len(rx) + 1
      <4>1. i \in 1 .. Len(rx) /\ Len(rx) + 1 \in i + 1 .. Len(rx')
        BY <1>1, <2>1, <3>2
      <4>2. a.cmd = "+QIOPEN" /\ pdp' = pdp
        BY <1>5, <2>1, <2>2, <4>1
      <4>3. \A j \in i + 1 .. Len(rx) :
               j \in i + 1 .. Len(rx') /\ j \in 1 .. Len(rx)
        BY <1>1, <2>1, <4>1
      <4>4. \A j \in i + 1 .. Len(rx) : rx[j].cmd = "+QIOPEN"
        BY <2>1, <2>2, <4>3
      <4> QED
        BY <2>1, <2>2, <4>1, <4>2, <4>4 DEF PdpInv
    <3> QED
      BY <3>1, <3>2
  <2> QED
    BY <2>2 DEF PdpInv
<1>6. CASE Sender
  <2>1. (RxSame \/ RxFlush \/ RxRead) /\ (pdp' = pdp \/ RxFlush)
    BY <1>6, SenderReads
  <2> QED
    BY <1>2, <1>3, <1>4, <2>1 DEF RxSame, RxRead
<1>7. CASE ModemReads
  <2>1. (rx' = rx /\ pdp' = pdp) \/ \E a : Says1(a)
    BY <1>7, ModemReadsIs
  <2> QED
    BY <1>2, <1>5, <2>1 DEF Says1
<1>8. ASSUME NEW ok \in BOOLEAN, ModemOpens(ok) PROVE PdpInv'
  <2>1. rx' = Append(rx, Answer("+QIOPEN", ok)) /\ pdp' = pdp
    BY <1>8, ModemOpensIs
  <2> DEFINE a == Answer("+QIOPEN", ok)
  <2>2. a \in Answers /\ a # Answer("QIACT", TRUE)
    BY DEF Answer, Answers
  <2> HIDE DEF a
  <2>3. a \in Answers /\ rx' = Append(rx, a) /\ pdp' = pdp /\ a # Answer("QIACT", TRUE)
    BY <2>1, <2>2 DEF a
  <2> QED
    BY <1>5, <2>3
<1>9. CASE ModemDrops \/ ModemTurnsGood \/ BtThread \/ handle_signal \/ Gone
  <2>1. rx' = rx /\ pdp' = pdp
    BY <1>9 DEF ModemDrops, ModemTurnsGood, BtThread, BtData, BtPower, btFrame, modemVars,
                handle_signal, Gone, vars
  <2> QED
    BY <1>2, <2>1
<1> QED
  BY <1>6, <1>7, <1>8, <1>9 DEF Next, ModemAnswers

Sending == pc \in {"prompt", "payload", "result"}

\* Only SendCommand begins to send, and only the end of it forgets what was delivered.
LEMMA SenderDelivers ==
    ASSUME Sender
    PROVE  Sending' => RxFlush \/ (Sending /\ UNCHANGED <<delivered, garbage>>)
<1> USE DEF Sending, RxFlush, modemVars, here, histVars
<1>1. CASE Try4g \/ PowerModem \/ Generation \/ Reopen \/ IdleStopped \/ Down \/ Closing
           \/ Terminal \/ Off
  BY <1>1 DEF Try4g, PowerModem, Generation, Reopen, IdleStopped, Down, Closing, Terminal,
              Session, Off
<1>2. CASE ReopenFails \/ OpeningEnds \/ ResultTimeout \/ WaitEnds \/ PromptTimeout
           \/ PromptStopped \/ SendPayload
  BY <1>2 DEF ReopenFails, OpeningEnds, ResultTimeout, NotReady, LinkFails, WaitEnds,
              AfterCommand, PromptTimeout, PromptStopped, GivesUpPrompt, SendPayload
<1>3. CASE Ask \/ Open \/ SendCommand
  BY <1>3 DEF Ask, Open, SendCommand
<1>4. ASSUME NEW n \in 1 .. Len(rx), ReadAnswer(n) PROVE ~Sending'
  <2>1. pc = "wait" /\ ((\E ok \in BOOLEAN : AfterCommand(ok)) \/ pc' = pc)
    BY <1>4 DEF ReadAnswer
  <2> QED
    BY <2>1 DEF AfterCommand, NotReady
<1>5. ASSUME NEW n \in 1 .. Len(rx), ReadOpening(n) \/ Sent(n) PROVE ~Sending'
  BY <1>5 DEF ReadOpening, Sent, Connected, NotReady
<1>6. ASSUME NEW n \in 1 .. Len(rx), ReadPrompt(n) \/ NotSent(n)
      PROVE  Sending /\ UNCHANGED <<delivered, garbage>>
  BY <1>6 DEF ReadPrompt, NotSent
<1> QED
  BY <1>1, <1>2, <1>3, <1>4, <1>5, <1>6 DEF Sender, SomeRead, SomeSent

LEMMA SendStep ==
    ASSUME FlatTypes, QueueTypes, SendInv, Next PROVE SendInv'
<1> DEFINE ok1 == Answer("SEND", TRUE)
<1>1. SendInv <=> (Sending /\ ok1 \in Range(rx) => delivered \/ garbage)
  BY DEF SendInv, Sending
<1>2. SendInv' <=> (Sending' /\ ok1 \in Range(rx') => delivered' \/ garbage')
  BY DEF SendInv, Sending, Answer
<1>3. CASE Sender
  <2>1. Range(rx') \subseteq Range(rx)
    BY <1>3, SenderReads, ReadsLess
  <2>2. RxFlush => Range(rx') = {}
    BY DEF RxFlush, Range
  <2>3. Sending' => RxFlush \/ (Sending /\ UNCHANGED <<delivered, garbage>>)
    BY <1>3, SenderDelivers
  <2> QED
    BY <1>1, <1>2, <2>1, <2>2, <2>3
<1>4. CASE ModemReads
  <2>1. /\ pc' = pc /\ (delivered \/ garbage => delivered' \/ garbage')
        /\ rx' = rx \/ \E a : Says1(a)
    BY <1>4, ModemReadsIs
  <2>2. ASSUME NEW a, Says1(a)
        PROVE  Range(rx') = Range(rx) \cup {a} /\ (a = ok1 => delivered' \/ garbage')
    <3>1. a \in Answers /\ rx' = Append(rx, a) /\ (a = ok1 => delivered' \/ garbage')
      BY <2>2 DEF Says1
    <3> QED
      BY <3>1, RangeAppend, ZenonT(30) DEF QueueTypes
  <2>3. Sending' => Sending
    BY <2>1 DEF Sending
  <2> HIDE DEF ok1
  <2>4. CASE rx' = rx
    BY <1>1, <1>2, <2>1, <2>3, <2>4
  <2>5. ASSUME NEW a, Says1(a) PROVE SendInv'
    BY <1>1, <1>2, <2>1, <2>2, <2>3, <2>5
  <2> QED
    BY <2>1, <2>4, <2>5
<1>5. ASSUME NEW ok \in BOOLEAN, ModemOpens(ok) PROVE SendInv'
  <2>1. /\ UNCHANGED <<pc, garbage, delivered>>
        /\ Range(rx') = Range(rx) \cup {Answer("+QIOPEN", ok)}
    BY <1>5, ModemOpensIs
  <2>2. Answer("+QIOPEN", ok) # ok1
    BY DEF Answer
  <2> QED
    BY <1>1, <1>2, <2>1, <2>2 DEF Sending
<1>6. CASE ModemDrops \/ ModemTurnsGood \/ BtThread \/ handle_signal \/ Gone
  <2>1. UNCHANGED <<rx, pc, delivered, garbage>>
    BY <1>6 DEF ModemDrops, ModemTurnsGood, BtThread, BtData, BtPower, btFrame, modemVars,
                handle_signal, Gone, vars, senderSees, histVars
  <2> QED
    BY <2>1 DEF SendInv
<1> QED
  BY <1>3, <1>4, <1>5, <1>6 DEF Next, ModemAnswers

-----------------------------------------------------------------------------
(* AT+QISEND and its data.                                                  *)

PromptShape(q, waiting) ==
    \A k \in 1 .. Len(q) : q[k] = "QISEND" =>
        IF k = Len(q) THEN waiting ELSE q[k + 1] = "payload"

DataShape(q, waiting) == IF q = <<>> THEN waiting ELSE q[1] = "payload"

Prompted == pc \in {"prompt", "payload"}

LEMMA PromptIs ==
    ASSUME asked \in Seq(Cmds)
    PROVE  PromptInv <=> /\ garbage => late
                         /\ ~late => PromptShape(asked, Prompted)
                         /\ ~late /\ data => DataShape(asked, Prompted)
BY DEF PromptInv, PromptShape, DataShape, Prompted

\* A command less, a command more.
LEMMA ShapeTail ==
    ASSUME NEW q \in Seq(Cmds), q # <<>>, NEW w \in BOOLEAN, PromptShape(q, w)
    PROVE  /\ PromptShape(Tail(q), w)
           /\ Head(q) = "QISEND" => DataShape(Tail(q), w)
<1>1. PICK t : t = Tail(q)
  OBVIOUS
<1>2. /\ t \in Seq(Cmds) /\ Len(t) = Len(q) - 1 /\ Len(q) \in Nat \ {0} /\ Head(q) = q[1]
      /\ \A k \in 1 .. Len(t) : k + 1 \in 1 .. Len(q) /\ t[k] = q[k + 1]
      /\ t # <<>> => Len(t) >= 1
  BY <1>1
<1>3. PromptShape(t, w)
  <2>1. SUFFICES ASSUME NEW k \in 1 .. Len(t), t[k] = "QISEND"
                 PROVE  IF k = Len(t) THEN w ELSE t[k + 1] = "payload"
    BY DEF PromptShape
  <2>2. k + 1 \in 1 .. Len(q) /\ q[k + 1] = "QISEND"
    BY <1>2, <2>1
  <2>3. IF k + 1 = Len(q) THEN w ELSE q[(k + 1) + 1] = "payload"
    BY <2>2 DEF PromptShape
  <2>4. CASE k = Len(t)
    BY <1>2, <2>3, <2>4
  <2>5. CASE k # Len(t)
    <3>1. k + 1 \in 1 .. Len(t) /\ k + 1 # Len(q)
      BY <1>2, <2>5
    <3> QED
      BY <1>2, <2>3, <2>5, <3>1
  <2> QED
    BY <2>4, <2>5
<1>4. Head(q) = "QISEND" => DataShape(t, w)
  <2>1. SUFFICES ASSUME q[1] = "QISEND" PROVE DataShape(t, w)
    BY <1>2
  <2>2. 1 \in 1 .. Len(q)
    BY <1>2
  <2>3. IF 1 = Len(q) THEN w ELSE q[1 + 1] = "payload"
    BY <2>1, <2>2 DEF PromptShape
  <2>4. CASE Len(q) = 1
    <3>1. t = <<>>
      BY <1>2, <2>4
    <3> QED
      BY <2>3, <2>4, <3>1 DEF DataShape
  <2>5. CASE Len(q) # 1
    <3>1. 1 \in 1 .. Len(t) /\ t # <<>>
      BY <1>2, <2>5
    <3> QED
      BY <1>2, <2>3, <2>5, <3>1 DEF DataShape
  <2> QED
    BY <2>4, <2>5
<1> QED
  BY <1>1, <1>3, <1>4

LEMMA ShapeAppend ==
    ASSUME NEW q \in Seq(Cmds), NEW c \in Cmds, NEW v \in BOOLEAN, NEW w \in BOOLEAN,
           PromptShape(q, v), v => c = "payload", c = "QISEND" => w
    PROVE  PromptShape(Append(q, c), w)
<1>1. PICK t : t = Append(q, c)
  OBVIOUS
<1>2. /\ Len(t) = Len(q) + 1 /\ Len(q) \in Nat /\ t[Len(q) + 1] = c
      /\ \A k \in 1 .. Len(q) : t[k] = q[k]
  BY <1>1
<1>3. ASSUME NEW k \in 1 .. Len(t), t[k] = "QISEND"
      PROVE  IF k = Len(t) THEN w ELSE t[k + 1] = "payload"
  <2>1. CASE k = Len(t)
    BY <1>2, <1>3, <2>1
  <2>2. CASE k # Len(t)
    <3>1. k \in 1 .. Len(q) /\ q[k] = "QISEND"
      BY <1>2, <1>3, <2>2
    <3>2. IF k = Len(q) THEN v ELSE q[k + 1] = "payload"
      BY <3>1 DEF PromptShape
    <3>3. CASE k = Len(q)
      BY <1>2, <2>2, <3>2, <3>3
    <3>4. CASE k # Len(q)
      <4>1. k + 1 \in 1 .. Len(q)
        BY <1>2, <3>1, <3>4
      <4> QED
        BY <1>2, <2>2, <3>2, <3>4, <4>1
    <3> QED
      BY <3>3, <3>4
  <2> QED
    BY <2>1, <2>2
<1> QED
  BY <1>1, <1>3 DEF PromptShape

LEMMA DataAppend ==
    ASSUME NEW q \in Seq(Cmds), NEW c \in Cmds, NEW v \in BOOLEAN, NEW w \in BOOLEAN,
           DataShape(q, v), v => c = "payload"
    PROVE  DataShape(Append(q, c), w)
<1>1. PICK t : t = Append(q, c)
  OBVIOUS
<1>2. t # <<>> /\ (q = <<>> => t[1] = c) /\ (q # <<>> => t[1] = q[1])
  BY <1>1
<1> QED
  BY <1>1, <1>2 DEF DataShape

\* What a step of the modem leaves of the data it waits for, and of the garbage.
LEMMA ModemPromptsIs ==
    ASSUME FlatTypes, ModemReads
    PROVE  /\ garbage' => garbage \/ (data /\ Head(asked) # "payload")
           /\ data' => Head(asked) = "QISEND" \/ (data /\ Head(asked) # "payload")
<1> DEFINE Good == /\ garbage' => garbage \/ (data /\ Head(asked) # "payload")
                   /\ data' => Head(asked) = "QISEND" \/ (data /\ Head(asked) # "payload")
<1>1. ASSUME NEW ok \in BOOLEAN, ModemObeys(ok) PROVE Good
  BY <1>1 DEF ModemObeys
<1>2. ASSUME NEW ok \in BOOLEAN, ModemTakesData(ok) PROVE Good
  BY <1>2 DEF ModemTakesData
<1>3. ASSUME NEW ok \in BOOLEAN, ModemSwallows(ok) PROVE Good
  BY <1>3 DEF ModemSwallows
<1>4. ASSUME ModemPrompts PROVE Good
  BY <1>4 DEF ModemPrompts
<1>5. ASSUME ModemKeepsSilent PROVE Good
  <2>1. garbage' = garbage
    BY <1>5 DEF ModemKeepsSilent
  <2>2. CASE Head(asked) = "payload"
    BY <1>5, <2>1, <2>2 DEF ModemKeepsSilent
  <2>3. CASE Head(asked) # "payload"
    <3>1. data' \in {data, data \/ (Head(asked) = "QISEND" /\ sock)}
      BY <1>5, <2>3 DEF ModemKeepsSilent
    <3>2. data' => data \/ Head(asked) = "QISEND"
      BY <3>1
    <3> QED
      BY <2>1, <2>3, <3>2
  <2> QED
    BY <2>2, <2>3
<1> QED
  BY <1>1, <1>2, <1>3, <1>4, <1>5 DEF ModemReads

LEMMA SenderPrompt ==
    ASSUME FlatTypes, QueueTypes, PromptInv, Sender PROVE PromptInv'
<1>1. /\ asked \in Seq(Cmds) /\ Prompted \in BOOLEAN /\ Prompted' \in BOOLEAN
      /\ DataShape(<<>>, Prompted) = Prompted
  BY DEF QueueTypes, Prompted, DataShape
<1>2. /\ garbage => late
      /\ ~late => PromptShape(asked, Prompted)
      /\ ~late /\ data => DataShape(asked, Prompted)
  BY <1>1, PromptIs
<1>3. ASSUME asked' \in Seq(Cmds), garbage' => late',
             ~late' => PromptShape(asked', Prompted'),
             ~late' /\ data' => DataShape(asked', Prompted')
      PROVE  PromptInv'
  BY <1>3 DEF PromptInv, PromptShape, DataShape, Prompted
<1>4. CASE /\ UNCHANGED <<asked, stop, data, late, garbage>>
           /\ pc \notin {"prompt", "payload"} /\ pc' \notin {"prompt", "payload"}
           /\ pc' = "idle" => ~stop
  <2>1. Prompted' = Prompted
    BY <1>4 DEF Prompted
  <2> QED
    BY <1>1, <1>2, <1>3, <1>4, <2>1
<1>5. ASSUME NEW c \in Cmds, asked' = asked \/ asked' = Append(asked, c),
             UNCHANGED <<data, late, garbage>>,
             Prompted => c = "payload" /\ asked' = Append(asked, c),
             c = "QISEND" => Prompted'
      PROVE  PromptInv'
  <2>1. CASE asked' = asked
    <3>1. ~Prompted
      <4>1. Append(asked, c) # asked
        <5>1. Len(Append(asked, c)) = Len(asked) + 1 /\ Len(asked) \in Nat
          BY <1>1
        <5> QED
          BY <5>1
      <4> QED
        BY <1>5, <2>1, <4>1
    <3>2. ASSUME PromptShape(asked, Prompted) PROVE PromptShape(asked, Prompted')
      BY <3>1, <3>2 DEF PromptShape
    <3>3. ASSUME DataShape(asked, Prompted) PROVE DataShape(asked, Prompted')
      BY <3>1, <3>3 DEF DataShape
    <3>4. UNCHANGED <<asked, data, late, garbage>>
      BY <1>5, <2>1
    <3> QED
      BY <1>1, <1>2, <1>3, <3>2, <3>3, <3>4
  <2>2. CASE asked' = Append(asked, c)
    <3>1. asked' \in Seq(Cmds)
      BY <1>1, <1>5, <2>2
    <3>2. ~late => PromptShape(asked', Prompted')
      BY <1>1, <1>2, <1>5, <2>2, ShapeAppend
    <3>3. ~late /\ data => DataShape(asked', Prompted')
      BY <1>1, <1>2, <1>5, <2>2, DataAppend
    <3> QED
      BY <1>2, <1>3, <1>5, <3>1, <3>2, <3>3
  <2> QED
    BY <1>5, <2>1, <2>2
<1>6. CASE Ask \/ Open \/ SendCommand
  <2>1. PICK c \in Cmds : /\ asked' = asked \/ asked' = Append(asked, c)
                          /\ c = "QISEND" => pc' = "prompt"
    <3>1. CASE Ask
      <4>1. Script[step].cmd \in Cmds /\ Script[step].cmd # "QISEND"
        BY ScriptIs, CmdsAre DEF FlatTypes, AllCmds, ScriptCmds
      <4> QED
        BY <3>1, <4>1 DEF Ask, Write
    <3>2. CASE Open
      <4>1. "QIOPEN" \in Cmds
        BY CmdsAre DEF AllCmds
      <4> QED
        BY <3>2, <4>1 DEF Open, Write
    <3>3. CASE SendCommand
      <4>1. "QISEND" \in Cmds
        BY CmdsAre DEF AllCmds
      <4> QED
        BY <3>3, <4>1 DEF SendCommand, Write
    <3> QED
      BY <1>6, <3>1, <3>2, <3>3
  <2>2. UNCHANGED <<data, late, garbage>> /\ pc \in {"ask", "open", "send"}
    BY <1>6 DEF Ask, Open, SendCommand, histVars
  <2>3. ~Prompted /\ (c = "QISEND" => Prompted')
    BY <2>1, <2>2 DEF Prompted
  <2> QED
    BY <1>5, <2>1, <2>2, <2>3
<1>7. CASE SendPayload
  <2>1. asked' = Append(asked, "payload") /\ UNCHANGED <<data, late, garbage>>
    BY <1>7 DEF SendPayload, histVars
  <2>2. "payload" \in Cmds
    BY CmdsAre DEF AllCmds
  <2> QED
    BY <1>5, <2>1, <2>2
<1>8. ASSUME GivesUpPrompt, UNCHANGED <<asked, data, garbage>> PROVE PromptInv'
  <2>1. late' = (late \/ data \/ "QISEND" \in Range(asked))
    BY <1>8 DEF GivesUpPrompt
  <2>2. Range(asked) = {asked[k] : k \in 1 .. Len(asked)}
    BY <1>1, RangeIs
  <2>3. "QISEND" \notin Range(asked) => PromptShape(asked, Prompted')
    BY <2>2 DEF PromptShape
  <2> QED
    BY <1>1, <1>2, <1>3, <1>8, <2>1, <2>3
<1>9. ASSUME UNCHANGED <<asked, data, late, garbage>>, Prompted, Prompted' PROVE PromptInv'
  <2>1. Prompted' = Prompted
    BY <1>1, <1>9
  <2> QED
    BY <1>1, <1>2, <1>3, <1>9, <2>1
<1>10. CASE Prompting
  <2>1. ASSUME NEW n \in 1 .. Len(rx), ReadPrompt(n) PROVE PromptInv'
    <3>1. /\ UNCHANGED <<asked, data, garbage>> /\ pc = "prompt"
          /\ GivesUpPrompt \/ (pc' \in {"prompt", "payload"} /\ late' = late)
      BY <2>1 DEF ReadPrompt
    <3> QED
      BY <1>8, <1>9, <3>1 DEF Prompted
  <2>2. CASE PromptTimeout
    BY <1>8, <2>2 DEF PromptTimeout, modemVars
  <2>3. CASE PromptStopped
    BY <1>9, <2>3 DEF PromptStopped, modemVars, histVars, Prompted
  <2> QED
    BY <1>10, <2>1, <2>2, <2>3 DEF Prompting
<1>11. CASE Off
  <2>1. asked' = <<>> /\ data' = FALSE /\ garbage' = FALSE /\ late' = FALSE
    BY <1>11 DEF Off
  <2>2. asked' \in Seq(Cmds) /\ PromptShape(asked', Prompted')
    BY <2>1 DEF PromptShape
  <2> QED
    BY <1>3, <2>1, <2>2
<1> QED
  BY <1>4, <1>6, <1>7, <1>10, <1>11, SenderAsks DEF Writes

LEMMA OtherPrompt ==
    ASSUME FlatTypes, QueueTypes, PromptInv,
           ModemAnswers \/ ModemDrops \/ ModemTurnsGood \/ BtThread \/ handle_signal
              \/ UNCHANGED vars
    PROVE  PromptInv'
<1>1. asked \in Seq(Cmds) /\ Prompted \in BOOLEAN
  BY DEF QueueTypes, Prompted
<1>2. /\ garbage => late
      /\ ~late => PromptShape(asked, Prompted)
      /\ ~late /\ data => DataShape(asked, Prompted)
  BY <1>1, PromptIs
<1>3. CASE ModemReads
  <2>1. asked # <<>> /\ asked' = Tail(asked) /\ UNCHANGED <<pc, late>>
    BY <1>3, ModemReadsIs
  <2>2. /\ garbage' => garbage \/ (data /\ Head(asked) # "payload")
        /\ data' => Head(asked) = "QISEND" \/ (data /\ Head(asked) # "payload")
    BY <1>3, ModemPromptsIs
  <2>3. Head(asked) = asked[1] /\ asked' \in Seq(Cmds)
    BY <1>1, <2>1
  <2>4. ~late /\ data => Head(asked) = "payload"
    BY <1>2, <2>1, <2>3 DEF DataShape
  <2>5. ~late => /\ PromptShape(asked', Prompted)
                 /\ Head(asked) = "QISEND" => DataShape(asked', Prompted)
    BY <1>1, <1>2, <2>1, ShapeTail
  <2>6. /\ garbage' => late'
        /\ ~late' => PromptShape(asked', Prompted)
        /\ ~late' /\ data' => DataShape(asked', Prompted)
    BY <1>2, <2>1, <2>2, <2>4, <2>5
  <2>7. Prompted' = Prompted
    BY <2>1 DEF Prompted
  <2> QED
    BY <2>3, <2>6, <2>7 DEF PromptInv, PromptShape, DataShape, Prompted
<1>4. CASE \/ \E ok \in BOOLEAN : ModemOpens(ok)
           \/ ModemDrops \/ ModemTurnsGood \/ BtThread \/ handle_signal \/ UNCHANGED vars
  <2>1. UNCHANGED <<asked, data, late, garbage, pc>>
    BY <1>4 DEF ModemOpens, ModemDrops, ModemTurnsGood, BtThread, BtData, BtPower, btFrame,
                modemVars, handle_signal, vars, senderSees, histVars
  <2> QED
    BY <2>1 DEF PromptInv
<1> QED
  BY <1>3, <1>4 DEF ModemAnswers

-----------------------------------------------------------------------------
(* The invariant and the properties.                                        *)

LEMMA EgInvInit == Init => EgInv
<1> SUFFICES ASSUME Init PROVE EgInv
  OBVIOUS
<1>1. rx = <<>> /\ asked = <<>>
  BY DEF Init
<1>2. QueueTypes /\ Len(asked) = 0 /\ DOMAIN rx = {} /\ DOMAIN asked = {}
  BY <1>1, Bounds DEF QueueTypes
<1>3. FlatTypes
  <2>1. fails \in 0 .. FailMax - 1
    BY Bounds DEF Init
  <2>2. step \in 1 .. 7
    BY DEF Init
  <2> QED
    BY <2>1, <2>2 DEF Init, FlatTypes
<1>4. TypeOK
  BY <1>2, <1>3, TypesAre
<1>5. SessionInv /\ StopInv
  BY DEF Init, SessionInv, StopInv, Linked, AskingUpTo
<1>6. LagInv /\ SendInv
  <2>1. ~(Len(asked) > MaxLag)
    BY <1>2, Bounds
  <2>2. pc \notin {"prompt", "payload", "result"}
    BY DEF Init
  <2> QED
    BY <2>1, <2>2 DEF LagInv, SendInv
<1>7. PdpInv /\ PromptInv
  BY <1>2 DEF Init, PdpInv, PromptInv
<1> QED
  BY <1>4, <1>5, <1>6, <1>7 DEF EgInv

LEMMA EgInvStep == EgInv /\ [Next]_vars => EgInv'
<1> SUFFICES ASSUME EgInv, [Next]_vars PROVE EgInv'
  OBVIOUS
<1>1. /\ FlatTypes /\ QueueTypes /\ SessionInv /\ StopInv /\ LagInv
      /\ PdpInv /\ SendInv /\ PromptInv
  BY TypesAre DEF EgInv
<1>2. \/ Sender
      \/ ModemAnswers \/ ModemDrops \/ ModemTurnsGood \/ BtThread \/ handle_signal
         \/ UNCHANGED vars
  BY DEF Next, Gone
<1>3. FlatTypes'
  BY <1>1, <1>2, SenderFlatTypes, OtherFlatTypes DEF QueueTypes
<1>4. SessionInv' /\ StopInv'
  BY <1>1, <1>2, SenderSessionStep, OtherSessionStep
<1>5. QueueTypes' /\ LagInv'
  BY <1>1, <1>2, SenderQueues, OtherQueues
<1>6. PromptInv'
  BY <1>1, <1>2, SenderPrompt, OtherPrompt
<1>7. PdpInv' /\ SendInv'
  <2>1. CASE Next
    BY <1>1, <2>1, PdpStep, SendStep
  <2>2. CASE UNCHANGED vars
    <3>1. UNCHANGED <<rx, pdp, pc, delivered, garbage>>
      BY <2>2 DEF vars, modemVars, histVars
    <3> QED
      BY <1>1, <3>1 DEF PdpInv, SendInv
  <2> QED
    BY <2>1, <2>2
<1>8. TypeOK'
  BY <1>3, <1>5, TypesAre, PTL
<1> QED
  BY <1>4, <1>5, <1>6, <1>7, <1>8 DEF EgInv

\* The modem, the sender and the Bluetooth thread keep the whole invariant.
THEOREM EgInvHolds == Spec => []EgInv
BY EgInvInit, EgInvStep, PTL DEF Spec

\* Every variable keeps its type; what the modem has not answered and what nobody has
\* read stay within their bounds, but for the data written after the stop.
THEOREM EgTypeCorrect == Spec => []TypeOK
<1>1. EgInv => TypeOK
  BY DEF EgInv
<1> QED
  BY <1>1, EgInvHolds, PTL

\* A packet is handed only to a modem that eg_init has set up since it was last
\* powered, whenever the Bluetooth thread powers it.
THEOREM SessionNeverStale == Spec => []SessionIsFresh
<1>1. EgInv => SessionIsFresh
  BY DEF EgInv, SessionInv, SessionIsFresh, Linked
<1> QED
  BY <1>1, EgInvHolds, PTL

\* AT commands reach the server as data only after eg_send_data gave a prompt up that
\* came later.
THEOREM GarbageIsLate == Spec => []OnlyPacketsAreSent
<1>1. EgInv => OnlyPacketsAreSent
  BY DEF EgInv, PromptInv, OnlyPacketsAreSent
<1> QED
  BY <1>1, EgInvHolds, PTL

\* eg_send_data reports success only of a packet the server has, however many answers
\* to earlier attempts come late, or after garbage.
THEOREM SentPacketIsDelivered == Spec => SentIsDelivered
<1>1. EgInv /\ SomeSent => delivered \/ garbage
  <2> SUFFICES ASSUME EgInv, NEW n \in 1 .. Len(rx), Sent(n) PROVE delivered \/ garbage
    BY DEF SomeSent
  <2>1. pc = "result" /\ Answer("SEND", TRUE) \in Range(SubSeq(rx, 1, n))
    BY DEF Sent, SendOk
  <2>2. Range(SubSeq(rx, 1, n)) \subseteq Range(rx)
    BY TypesAre, RangeRest DEF EgInv, QueueTypes
  <2> QED
    BY <2>1, <2>2 DEF EgInv, SendInv
<1>2. EgInv /\ [Next]_vars => [SomeSent => delivered \/ garbage]_vars
  BY <1>1
<1> QED
  BY <1>2, EgInvHolds, PTL DEF Spec, SentIsDelivered

\* Only the answer to AT+QIACT ends eg_init.
LEMMA InitSucceeds ==
    ASSUME FlatTypes, SessionInv, Next, initHere', ~initHere
    PROVE  \E n \in 1 .. Len(rx) :
              /\ ReadAnswer(n) /\ step = InitEnd
              /\ {i \in 1 .. n : Matches(SubSeq(rx, 1, n)[i], Script[step].expect)} # {}
<1> USE DEF modemVars, histVars, here
<1>1. ASSUME NEW n \in 1 .. Len(rx), ReadAnswer(n)
      PROVE  /\ step = InitEnd
             /\ {i \in 1 .. n : Matches(SubSeq(rx, 1, n)[i], Script[step].expect)} # {}
  <2> DEFINE hits == {i \in 1 .. n : Matches(SubSeq(rx, 1, n)[i], Script[step].expect)}
  <2>1. pc = "wait" /\ AfterCommand(hits # {})
    BY <1>1 DEF ReadAnswer
  <2>2. PICK ok \in BOOLEAN : ok = (hits # {})
    OBVIOUS
  <2> HIDE DEF hits
  <2>3. ok /\ step = InitEnd
    BY <2>1, <2>2, AfterCommandPlace
  <2> QED
    BY <2>2, <2>3 DEF hits
<1>2. ~WaitEnds
  <2>1. ASSUME WaitEnds PROVE FALSE
    <3>1. pc = "wait" /\ AfterCommand(FALSE)
      BY <2>1 DEF WaitEnds
    <3> QED
      BY <3>1, AfterCommandPlace
  <2> QED
    BY <2>1
<1>3. CASE Sender
  <2>1. \E n \in 1 .. Len(rx) : ReadAnswer(n)
    BY <1>2, <1>3 DEF Sender, SomeRead, SomeSent, Try4g, PowerModem, Generation, Reopen,
       ReopenFails, Ask, Open, OpeningEnds, ReadOpening, ReadPrompt, NotSent, Sent,
       SendCommand, PromptTimeout, PromptStopped, SendPayload, ResultTimeout,
       IdleStopped, Down, Off, Closing, Terminal
  <2> QED
    BY <1>1, <2>1
<1>4. CASE ModemAnswers \/ ModemDrops \/ ModemTurnsGood \/ BtThread \/ handle_signal \/ Gone
  <2>1. initHere' = initHere
    BY <1>4 DEF ModemAnswers, ModemReads, ModemOpens, ModemDrops, ModemTurnsGood, BtThread,
       BtData, BtPower, btFrame, handle_signal, Gone, vars
  <2> QED
    BY <2>1
<1> QED
  BY <1>3, <1>4 DEF Next

\* eg_init succeeds only with an active PDP context, unless it took the late answer to
\* an earlier command for the answer to its own.
THEOREM InitialisedContextIsActive == Spec => InitialisedIsActive
<1>1. EgInv /\ Next /\ initHere' /\ ~initHere => pdp \/ misread'
  <2> SUFFICES ASSUME EgInv, Next, initHere', ~initHere, ~misread' PROVE pdp
    OBVIOUS
  <2>1. FlatTypes /\ QueueTypes /\ SessionInv /\ PdpInv
    BY TypesAre DEF EgInv
  <2>2. PICK n \in 1 .. Len(rx) :
              /\ ReadAnswer(n) /\ step = InitEnd
              /\ {i \in 1 .. n : Matches(SubSeq(rx, 1, n)[i], Script[step].expect)} # {}
    BY <2>1, InitSucceeds
  <2> DEFINE hits == {i \in 1 .. n : Matches(SubSeq(rx, 1, n)[i], Script[step].expect)}
  <2>3. misread' = (misread \/ (step <= InitEnd /\ hits # {} /\ \A i \in hits : ~Own(i)))
    BY <2>2 DEF ReadAnswer
  <2>4. step <= InitEnd /\ hits # {}
    BY <2>2 DEF InitEnd
  <2>5. PICK i \in hits : Own(i)
    BY <2>3, <2>4
  <2>6. i \in 1 .. n /\ Matches(SubSeq(rx, 1, n)[i], Script[step].expect)
    BY <2>5
  <2>7. i \in 1 .. Len(rx) /\ SubSeq(rx, 1, n)[i] = rx[i] /\ rx[i] \in Answers
    BY <2>1, <2>6 DEF QueueTypes
  <2>8. rx[i].ok
    BY <2>6, <2>7 DEF Matches
  <2>9. rx[i].cmd = "QIACT" /\ \A j \in i + 1 .. Len(rx) : rx[j].cmd = "+QIOPEN"
    BY <2>2, <2>5, ScriptIs DEF Own
  <2>10. rx[i] = Answer("QIACT", TRUE)
    BY <2>7, <2>8, <2>9 DEF Answer, Answers
  <2>11. i \in DOMAIN rx
    BY <2>1, <2>7 DEF QueueTypes
  <2> QED
    BY <2>1, <2>9, <2>10, <2>11 DEF PdpInv
<1>2. EgInv /\ [Next]_vars => [initHere' /\ ~initHere => pdp \/ misread']_vars
  BY <1>1
<1> QED
  BY <1>2, EgInvHolds, PTL DEF Spec, InitialisedIsActive

=============================================================================
