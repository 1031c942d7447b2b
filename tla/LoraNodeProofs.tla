--------------------------- MODULE LoraNodeProofs ---------------------------
(***************************************************************************)
(* Proofs about the radio of a device and the three threads that share it. *)
(* What RxInit sets right, whatever came between its commands, is right    *)
(* again once every command that is still ahead has been written.          *)
(***************************************************************************)
EXTENDS LoraNode, SequenceTheorems, TLAPS

-----------------------------------------------------------------------------
(* Commands that are still to be written.                                   *)

\* The rest of RxInit, at any point of it.
ReinitTails == {<<>>, <<"rx">>, <<"maskRx", "rx">>, <<"clear", "maskRx", "rx">>,
                <<"length64", "clear", "maskRx", "rx">>,
                <<"standby", "length64", "clear", "maskRx", "rx">>}

\* The same with what Lora_send does first when it fails, and Lora_recv_packet always.
FailTails  == ReinitTails \cup {<<"clear">> \o RxInit}
TakenTails == ReinitTails \cup {<<"clearRx">> \o RxInit}

\* The rest of Lora_send, up to the wait.
SendTails == {<<>>, <<"tx">>, <<"maskTx", "tx">>, <<"clear", "maskTx", "tx">>,
              <<"length", "clear", "maskTx", "tx">>,
              <<"write", "length", "clear", "maskTx", "tx">>,
              <<"standby", "write", "length", "clear", "maskTx", "tx">>}

AllTails == FailTails \cup TakenTails \cup SendTails

Ahead(c, s) == \E i \in DOMAIN s : s[i] = c

-----------------------------------------------------------------------------
(* The inductive invariant.                                                *)

InDriver == {"sending", "ending", "taken", "toolong"}

IsSending == \E t \in Thread : pc[t] = "sending"

\* Who is where, and what it still writes.
DriverInv ==
    /\ lock \in Thread \cup {"free"} /\ role \in Role
    /\ pc \in [Thread -> {"poll", "send", "sending", "ending", "rxinit", "loose",
                          "taken", "toolong", "handle"}]
    /\ \A t \in Thread : lock = t <=> pc[t] \in InDriver
    /\ \A t \in Thread : pc[t] \in {"rxinit", "loose", "taken", "toolong", "handle"}
                            => t = "receive"
    /\ lock = "free" => todo = <<>>
    /\ \A t \in Thread : /\ pc[t] = "sending" => todo \in SendTails
                         /\ pc[t] = "ending"  => todo \in FailTails
                         /\ pc[t] \in {"taken", "toolong"} => todo \in TakenTails
    /\ loose \in ReinitTails
    /\ loose # <<>> => pc["receive"] = "loose"

ChipTypes ==
    /\ mode \in {"standby", "rx", "tx"} /\ mask \in {"rx", "tx"}
    /\ plen \in {"full", "own"} /\ irq \subseteq {"rx", "tx", "other"}
    /\ {buf, sending, heard} \subseteq Packets
    /\ {skipped, raced, aired} \subseteq BOOLEAN

\* Command c of RxInit is still to come.
Pending(c) == IsSending \/ Ahead(c, todo) \/ Ahead(c, loose)

\* Unless a command was left out: what is not as RxInit sets it is set yet.
ListenInv ==
    ~skipped => /\ mask = "rx" \/ Pending("maskRx")
                /\ mode = "rx" \/ Pending("rx")

\* Unless a command was left out: a packet that is flagged is one that was heard,
\* or the flag is cleared yet.
HeardInv ==
    ~skipped => \/ "rx" \notin irq
                \/ buf \in {"short", "long"}
                \/ Pending("clear")

\* How far Lora_send is, if nothing came between and no command was left out.
SendInv ==
    (IsSending /\ ~raced /\ ~skipped) =>
        /\ ~Ahead("standby", todo) /\ Ahead("tx", todo) => mode = "standby"
        /\ ~Ahead("write", todo) => buf = sending
        /\ ~Ahead("length", todo) => plen = "own"
        /\ ~Ahead("clear", todo) /\ Ahead("tx", todo) => irq = {}
        /\ ~Ahead("maskTx", todo) => mask = "tx"
        /\ ~Ahead("tx", todo) => \/ mode = "tx" /\ irq = {}
                                 \/ mode = "standby" /\ irq = {"tx"} /\ aired

\* What a race is a race with, and which packet the radio has sent.
RaceInv ==
    /\ lock = "free" => sending = "stale"
    /\ sending = "stale" => ~raced
    /\ \A t \in Thread : pc[t] = "sending" /\ t # "receive" => sending = "own"

\* The radio sends only for a thread that is in Lora_send.
AirInv ==
    /\ mode = "tx" => \/ IsSending
                      \/ /\ \E t \in Thread : pc[t] = "ending"
                         /\ Ahead("standby", todo) \/ (skipped /\ Ahead("rx", todo))
    /\ aired => lock # "free"

NodeInv == ChipTypes /\ DriverInv /\ ListenInv /\ HeardInv /\ SendInv /\ RaceInv /\ AirInv

-----------------------------------------------------------------------------
(* The commands, one after the other.                                      *)

Commands == {"standby", "length64", "write", "length", "clear", "clearRx",
             "maskRx", "maskTx", "rx", "tx"}

LEMMA StepsAre == Steps = Commands
<1>1. \A c : (\E i \in DOMAIN RxInit : RxInit[i] = c)
                 <=> c \in {"standby", "length64", "clear", "maskRx", "rx"}
  BY DEF RxInit
<1>2. \A c : (\E i \in DOMAIN SendHead : SendHead[i] = c)
                 <=> c \in {"standby", "write", "length", "clear", "maskTx", "tx"}
  BY DEF SendHead
<1> QED
  BY <1>1, <1>2 DEF Steps, Commands

\* A command that is written before others.
LEMMA OneBefore ==
    ASSUME NEW a \in Commands, NEW s \in Seq(Commands)
    PROVE  /\ <<a>> \o s \in Seq(Commands) /\ <<a>> \o s # <<>>
           /\ Head(<<a>> \o s) = a /\ Tail(<<a>> \o s) = s
           /\ \A c : Ahead(c, <<a>> \o s) <=> c = a \/ Ahead(c, s)
<1> DEFINE t == <<a>> \o s
<1>1. DOMAIN t = 1..(Len(s) + 1) /\ DOMAIN s = 1..Len(s) /\ Len(s) \in Nat
  OBVIOUS
<1>2. t[1] = a /\ \A i \in 1..Len(s) : t[i + 1] = s[i]
  OBVIOUS
<1>3. \A i \in 1..(Len(s) + 1) : i = 1 \/ (i - 1 \in 1..Len(s) /\ i = (i - 1) + 1)
  BY <1>1
<1>4. ASSUME NEW c PROVE Ahead(c, t) <=> c = a \/ Ahead(c, s)
  <2>1. ASSUME Ahead(c, t) PROVE c = a \/ Ahead(c, s)
    BY <2>1, <1>1, <1>2, <1>3 DEF Ahead
  <2>2. c = a => Ahead(c, t)
    BY <1>1, <1>2 DEF Ahead
  <2>3. ASSUME Ahead(c, s) PROVE Ahead(c, t)
    <3>1. PICK i \in 1..Len(s) : s[i] = c
      BY <2>3, <1>1 DEF Ahead
    <3>2. i + 1 \in DOMAIN t /\ t[i + 1] = c
      BY <3>1, <1>1, <1>2
    <3> QED
      BY <3>2 DEF Ahead
  <2> QED
    BY <2>1, <2>2, <2>3
<1>5. t \in Seq(Commands) /\ t # <<>> /\ Head(t) = a /\ Tail(t) = s
  OBVIOUS
<1> QED
  BY <1>4, <1>5

\* What is still to be written is a sequence of commands.
LEMMA TailsAreSequences == FailTails \cup TakenTails \cup SendTails \subseteq Seq(Commands)
<1>1. ReinitTails \subseteq Seq(Commands) /\ RxInit \in ReinitTails
  BY DEF ReinitTails, Commands, RxInit
<1>2. SendTails \subseteq Seq(Commands)
  BY DEF SendTails, Commands
<1>3. <<"clear">> \o RxInit \in Seq(Commands) /\ <<"clearRx">> \o RxInit \in Seq(Commands)
  BY <1>1, OneBefore DEF Commands
<1> QED
  BY <1>1, <1>2, <1>3 DEF FailTails, TakenTails

LEMMA NothingAhead == \A c : ~Ahead(c, <<>>)
BY DEF Ahead

\* A command that is written is the first of those that were ahead, and RxInit is
\* followed to its end.
LEMMA ReinitFirst ==
    \A s \in FailTails \cup TakenTails : s # <<>> =>
        /\ Tail(s) \in ReinitTails
        /\ Head(s) \in {"standby", "length64", "clear", "clearRx", "maskRx", "rx"}
        /\ \A c : Ahead(c, s) <=> c = Head(s) \/ Ahead(c, Tail(s))
        /\ Head(s) = "standby" =>
              \A c \in {"length64", "clear", "maskRx", "rx"} : Ahead(c, Tail(s))
<1> DEFINE P(s) ==
        /\ Tail(s) \in ReinitTails
        /\ Head(s) \in {"standby", "length64", "clear", "clearRx", "maskRx", "rx"}
        /\ \A c : Ahead(c, s) <=> c = Head(s) \/ Ahead(c, Tail(s))
        /\ Head(s) = "standby" =>
              \A c \in {"length64", "clear", "maskRx", "rx"} : Ahead(c, Tail(s))
<1>1. P(<<"rx">>)
  <2>1. /\ Head(<<"rx">>) = "rx"
        /\ Tail(<<"rx">>)
             = <<>>
    OBVIOUS
  <2>2. \A c : Ahead(c, <<"rx">>)
                  <=> c \in {"rx"}
    BY DEF Ahead
  <2>3. \A c : Ahead(c, <<>>)
                  <=> c \in {}
    BY DEF Ahead
  <2> QED
    BY <2>1, <2>2, <2>3 DEF ReinitTails
<1>2. P(<<"maskRx", "rx">>)
  <2>1. /\ Head(<<"maskRx", "rx">>) = "maskRx"
        /\ Tail(<<"maskRx", "rx">>)
             = <<"rx">>
    OBVIOUS
  <2>2. \A c : Ahead(c, <<"maskRx", "rx">>)
                  <=> c \in {"maskRx", "rx"}
    BY DEF Ahead
  <2>3. \A c : Ahead(c, <<"rx">>)
                  <=> c \in {"rx"}
    BY DEF Ahead
  <2> QED
    BY <2>1, <2>2, <2>3 DEF ReinitTails
<1>3. P(<<"clear", "maskRx", "rx">>)
  <2>1. /\ Head(<<"clear", "maskRx", "rx">>) = "clear"
        /\ Tail(<<"clear", "maskRx", "rx">>)
             = <<"maskRx", "rx">>
    OBVIOUS
  <2>2. \A c : Ahead(c, <<"clear", "maskRx", "rx">>)
                  <=> c \in {"clear", "maskRx", "rx"}
    BY DEF Ahead
  <2>3. \A c : Ahead(c, <<"maskRx", "rx">>)
                  <=> c \in {"maskRx", "rx"}
    BY DEF Ahead
  <2> QED
    BY <2>1, <2>2, <2>3 DEF ReinitTails
<1>4. P(<<"length64", "clear", "maskRx", "rx">>)
  <2>1. /\ Head(<<"length64", "clear", "maskRx", "rx">>) = "length64"
        /\ Tail(<<"length64", "clear", "maskRx", "rx">>)
             = <<"clear", "maskRx", "rx">>
    OBVIOUS
  <2>2. \A c : Ahead(c, <<"length64", "clear", "maskRx", "rx">>)
                  <=> c \in {"length64", "clear", "maskRx", "rx"}
    BY DEF Ahead
  <2>3. \A c : Ahead(c, <<"clear", "maskRx", "rx">>)
                  <=> c \in {"clear", "maskRx", "rx"}
    BY DEF Ahead
  <2> QED
    BY <2>1, <2>2, <2>3 DEF ReinitTails
<1>5. P(<<"standby", "length64", "clear", "maskRx", "rx">>)
  <2>1. /\ Head(<<"standby", "length64", "clear", "maskRx", "rx">>) = "standby"
        /\ Tail(<<"standby", "length64", "clear", "maskRx", "rx">>)
             = <<"length64", "clear", "maskRx", "rx">>
    OBVIOUS
  <2>2. \A c : Ahead(c, <<"standby", "length64", "clear", "maskRx", "rx">>)
                  <=> c \in {"standby", "length64", "clear", "maskRx", "rx"}
    BY DEF Ahead
  <2>3. \A c : Ahead(c, <<"length64", "clear", "maskRx", "rx">>)
                  <=> c \in {"length64", "clear", "maskRx", "rx"}
    BY DEF Ahead
  <2> QED
    BY <2>1, <2>2, <2>3 DEF ReinitTails
<1>6. ASSUME NEW a \in {"clear", "clearRx"} PROVE P(<<a>> \o RxInit)
  <2>1. RxInit \in ReinitTails /\ RxInit \in Seq(Commands) /\ a \in Commands
    BY TailsAreSequences DEF ReinitTails, RxInit, FailTails, Commands
  <2> QED
    BY <2>1, OneBefore
<1> HIDE DEF P
<1>7. \A s \in FailTails \cup TakenTails : s # <<>> => P(s)
  BY <1>1, <1>2, <1>3, <1>4, <1>5, <1>6 DEF FailTails, TakenTails, ReinitTails
<1> QED
  BY <1>7 DEF P

\* The commands of Lora_send come in their order, none of them twice.
LEMMA SendFirst ==
    \A s \in SendTails : s # <<>> =>
        /\ Tail(s) \in SendTails
        /\ Head(s) \in {"standby", "write", "length", "clear", "maskTx", "tx"}
        /\ \A c : Ahead(c, s) <=> c = Head(s) \/ Ahead(c, Tail(s))
        /\ ~Ahead(Head(s), Tail(s))
        /\ Ahead("tx", s)
        /\ Head(s) = "tx" => ~Ahead("clear", s)
        /\ Ahead("standby", s) =>
              /\ Head(s) = "standby"
              /\ \A c \in {"standby", "write", "length", "clear", "maskTx", "tx"} : Ahead(c, s)
<1> DEFINE P(s) ==
        /\ Tail(s) \in SendTails
        /\ Head(s) \in {"standby", "write", "length", "clear", "maskTx", "tx"}
        /\ \A c : Ahead(c, s) <=> c = Head(s) \/ Ahead(c, Tail(s))
        /\ ~Ahead(Head(s), Tail(s))
        /\ Ahead("tx", s)
        /\ Head(s) = "tx" => ~Ahead("clear", s)
        /\ Ahead("standby", s) =>
              /\ Head(s) = "standby"
              /\ \A c \in {"standby", "write", "length", "clear", "maskTx", "tx"} : Ahead(c, s)
<1>1. P(<<"tx">>)
  <2>1. /\ Head(<<"tx">>) = "tx"
        /\ Tail(<<"tx">>)
             = <<>>
    OBVIOUS
  <2>2. \A c : Ahead(c, <<"tx">>)
                  <=> c \in {"tx"}
    BY DEF Ahead
  <2>3. \A c : Ahead(c, <<>>)
                  <=> c \in {}
    BY DEF Ahead
  <2> QED
    BY <2>1, <2>2, <2>3 DEF SendTails
<1>2. P(<<"maskTx", "tx">>)
  <2>1. /\ Head(<<"maskTx", "tx">>) = "maskTx"
        /\ Tail(<<"maskTx", "tx">>)
             = <<"tx">>
    OBVIOUS
  <2>2. \A c : Ahead(c, <<"maskTx", "tx">>)
                  <=> c \in {"maskTx", "tx"}
    BY DEF Ahead
  <2>3. \A c : Ahead(c, <<"tx">>)
                  <=> c \in {"tx"}
    BY DEF Ahead
  <2> QED
    BY <2>1, <2>2, <2>3 DEF SendTails
<1>3. P(<<"clear", "maskTx", "tx">>)
  <2>1. /\ Head(<<"clear", "maskTx", "tx">>) = "clear"
        /\ Tail(<<"clear", "maskTx", "tx">>)
             = <<"maskTx", "tx">>
    OBVIOUS
  <2>2. \A c : Ahead(c, <<"clear", "maskTx", "tx">>)
                  <=> c \in {"clear", "maskTx", "tx"}
    BY DEF Ahead
  <2>3. \A c : Ahead(c, <<"maskTx", "tx">>)
                  <=> c \in {"maskTx", "tx"}
    BY DEF Ahead
  <2> QED
    BY <2>1, <2>2, <2>3 DEF SendTails
<1>4. P(<<"length", "clear", "maskTx", "tx">>)
  <2>1. /\ Head(<<"length", "clear", "maskTx", "tx">>) = "length"
        /\ Tail(<<"length", "clear", "maskTx", "tx">>)
             = <<"clear", "maskTx", "tx">>
    OBVIOUS
  <2>2. \A c : Ahead(c, <<"length", "clear", "maskTx", "tx">>)
                  <=> c \in {"length", "clear", "maskTx", "tx"}
    BY DEF Ahead
  <2>3. \A c : Ahead(c, <<"clear", "maskTx", "tx">>)
                  <=> c \in {"clear", "maskTx", "tx"}
    BY DEF Ahead
  <2> QED
    BY <2>1, <2>2, <2>3 DEF SendTails
<1>5. P(<<"write", "length", "clear", "maskTx", "tx">>)
  <2>1. /\ Head(<<"write", "length", "clear", "maskTx", "tx">>) = "write"
        /\ Tail(<<"write", "length", "clear", "maskTx", "tx">>)
             = <<"length", "clear", "maskTx", "tx">>
    OBVIOUS
  <2>2. \A c : Ahead(c, <<"write", "length", "clear", "maskTx", "tx">>)
                  <=> c \in {"write", "length", "clear", "maskTx", "tx"}
    BY DEF Ahead
  <2>3. \A c : Ahead(c, <<"length", "clear", "maskTx", "tx">>)
                  <=> c \in {"length", "clear", "maskTx", "tx"}
    BY DEF Ahead
  <2> QED
    BY <2>1, <2>2, <2>3 DEF SendTails
<1>6. P(<<"standby", "write", "length", "clear", "maskTx", "tx">>)
  <2>1. /\ Head(<<"standby", "write", "length", "clear", "maskTx", "tx">>) = "standby"
        /\ Tail(<<"standby", "write", "length", "clear", "maskTx", "tx">>)
             = <<"write", "length", "clear", "maskTx", "tx">>
    OBVIOUS
  <2>2. \A c : Ahead(c, <<"standby", "write", "length", "clear", "maskTx", "tx">>)
                  <=> c \in {"standby", "write", "length", "clear", "maskTx", "tx"}
    BY DEF Ahead
  <2>3. \A c : Ahead(c, <<"write", "length", "clear", "maskTx", "tx">>)
                  <=> c \in {"write", "length", "clear", "maskTx", "tx"}
    BY DEF Ahead
  <2> QED
    BY <2>1, <2>2, <2>3 DEF SendTails
<1> HIDE DEF P
<1>7. \A s \in SendTails : s # <<>> => P(s)
  BY <1>1, <1>2, <1>3, <1>4, <1>5, <1>6 DEF SendTails
<1> QED
  BY <1>7 DEF P

\* RxInit and SendHead, and what Lora_send and Lora_recv_packet put before RxInit.
LEMMA WholeSequences ==
    /\ RxInit \in ReinitTails /\ RxInit # <<>>
    /\ <<"clear">> \o RxInit \in FailTails /\ <<"clearRx">> \o RxInit \in TakenTails
    /\ SendHead \in SendTails
    /\ \A c \in {"standby", "clear", "maskRx", "rx"} :
          /\ Ahead(c, RxInit)
          /\ Ahead(c, <<"clear">> \o RxInit) /\ Ahead(c, <<"clearRx">> \o RxInit)
    /\ \A c \in {"standby", "write", "length", "clear", "maskTx", "tx"} : Ahead(c, SendHead)
<1>1. RxInit \in ReinitTails /\ RxInit # <<>> /\ SendHead \in SendTails
  BY DEF RxInit, ReinitTails, SendHead, SendTails
<1>2. RxInit \in Seq(Commands) /\ "clear" \in Commands /\ "clearRx" \in Commands
  BY <1>1, TailsAreSequences DEF FailTails, Commands
<1>3. \A c : Ahead(c, <<"standby", "length64", "clear", "maskRx", "rx">>)
               <=> c \in {"standby", "length64", "clear", "maskRx", "rx"}
  BY DEF Ahead
<1>4. \A c : Ahead(c, <<"standby", "write", "length", "clear", "maskTx", "tx">>)
               <=> c \in {"standby", "write", "length", "clear", "maskTx", "tx"}
  BY DEF Ahead
<1>5. \A c \in {"standby", "clear", "maskRx", "rx"} : Ahead(c, RxInit)
  BY <1>3 DEF RxInit
<1>6. \A c \in {"standby", "clear", "maskRx", "rx"} :
         Ahead(c, <<"clear">> \o RxInit) /\ Ahead(c, <<"clearRx">> \o RxInit)
  BY <1>2, <1>5, OneBefore
<1>7. \A c \in {"standby", "write", "length", "clear", "maskTx", "tx"} : Ahead(c, SendHead)
  BY <1>4 DEF SendHead
<1> QED
  BY <1>1, <1>5, <1>6, <1>7 DEF FailTails, TakenTails

-----------------------------------------------------------------------------
(* Which thread is where, and what it still writes.                        *)

LEMMA DriverStep ==
    ASSUME ChipTypes, DriverInv, [Next]_vars
    PROVE  DriverInv'
<1> USE DEF DriverInv, InDriver, Thread, Role, Goto, radioVars, chipVars, drvVars, histVars
<1>1. CASE RadioMoves
  <2>1. CASE Locked
    <3>1. /\ \A t \in Thread : pc[t] = "sending" => Tail(todo) \in SendTails
          /\ \A t \in Thread : pc[t] \in {"ending", "taken", "toolong"}
                                => Tail(todo) \in ReinitTails
      BY <2>1, SendFirst, ReinitFirst DEF Locked
    <3>2. lock # "free" /\ UNCHANGED <<lock, loose, pc, role>> /\ todo' = Tail(todo)
      BY <1>1, <2>1 DEF RadioMoves, Locked, Loose, TxEnds
    <3> QED
      BY <3>1, <3>2 DEF FailTails, TakenTails
  <2>2. CASE Loose
    <3>1. loose # <<>> /\ Tail(loose) \in ReinitTails
      BY <2>2, ReinitFirst DEF Loose, FailTails
    <3>2. UNCHANGED <<lock, todo, pc, role>> /\ loose' = Tail(loose)
      BY <1>1, <2>2 DEF RadioMoves, Loose
    <3> QED
      BY <3>1, <3>2
  <2>3. CASE TxEnds
    BY <1>1, <2>3 DEF RadioMoves, TxEnds
  <2> QED
    BY <1>1, <2>1, <2>2, <2>3 DEF RadioMoves
<1>2. CASE Neighbour
  BY <1>2 DEF Neighbour, Hear, HearOther
<1>3. CASE Receive
  <2>1. CASE ReceiveRxInit
    BY <2>1, WholeSequences DEF ReceiveRxInit
  <2>2. CASE ReceiveRxInitEnds
    BY <2>2 DEF ReceiveRxInitEnds
  <2>3. CASE ReceiveTakes
    BY <2>3, WholeSequences DEF ReceiveTakes, RecvBegins
  <2>4. CASE ReceiveOther
    BY <2>4 DEF ReceiveOther, RecvOther
  <2>5. CASE ReceiveReturns
    BY <2>5 DEF ReceiveReturns, Release, Holds
  <2>6. CASE ReceiveHandles
    BY <2>6 DEF ReceiveHandles
  <2> QED
    BY <1>3, <2>1, <2>2, <2>3, <2>4, <2>5, <2>6 DEF Receive
<1>4. ASSUME NEW t \in Thread, Send(t, Packet(t)) PROVE DriverInv'
  BY <1>4, WholeSequences DEF Send, SendBegins
<1>5. ASSUME NEW t \in Thread, SendSucceeds(t) PROVE DriverInv'
  BY <1>5, WholeSequences DEF SendSucceeds, TxDone, Holds, FailTails
<1>6. ASSUME NEW t \in Thread, SendFails(t) PROVE DriverInv'
  BY <1>6, WholeSequences DEF SendFails, TxTimeout, Holds
<1>7. ASSUME NEW t \in Thread, SendReturns(t) PROVE DriverInv'
  BY <1>7 DEF SendReturns, Release, Holds
<1>8. ASSUME NEW t \in Thread, SendWaits(t) PROVE DriverInv'
  BY <1>8 DEF SendWaits, TxOther
<1>9. ASSUME NEW t \in Thread, HasPacket(t) PROVE DriverInv'
  BY <1>9 DEF HasPacket
<1>10. ASSUME NEW r \in Role, SetRole(r) PROVE DriverInv'
  BY <1>10 DEF SetRole
<1>11. CASE UNCHANGED vars
  BY <1>11 DEF vars
<1> QED
  BY <1>1, <1>2, <1>3, <1>4, <1>5, <1>6, <1>7, <1>8, <1>9, <1>10, <1>11 DEF Next, Sends

-----------------------------------------------------------------------------
(* What a command changes.                                                 *)

\* The holder of the lock writes a command: of Lora_send's packet, or of an RxInit
\* whose rest it then writes.
LEMMA LockedIs ==
    ASSUME DriverInv, Locked, UNCHANGED <<pc, heard, role>>
    PROVE  /\ todo # <<>> /\ Command(Head(todo))
           /\ \A c : Ahead(c, todo) <=> c = Head(todo) \/ Ahead(c, todo')
           /\ IsSending => todo \in SendTails /\ todo' = Tail(todo)
           /\ ~IsSending =>
                 /\ Head(todo) \in {"standby", "length64", "clear", "clearRx", "maskRx", "rx"}
                 /\ Head(todo) = "standby" =>
                       \A c \in {"length64", "clear", "maskRx", "rx"} : Ahead(c, todo')
           /\ UNCHANGED <<lock, sending, loose, raced, aired>> /\ IsSending' = IsSending
<1>1. /\ todo # <<>> /\ Command(Head(todo)) /\ todo' = Tail(todo)
      /\ UNCHANGED <<lock, sending, loose, raced, aired, pc>>
  BY DEF Locked
<1>2. IsSending' = IsSending
  BY <1>1 DEF IsSending
<1>3. CASE IsSending
  <2>1. todo \in SendTails
    BY <1>3 DEF IsSending, DriverInv, InDriver
  <2> QED
    BY <1>1, <1>2, <1>3, <2>1, SendFirst
<1>4. CASE ~IsSending
  <2>1. lock \in Thread /\ pc[lock] \in {"ending", "taken", "toolong"}
    BY <1>1, <1>4 DEF IsSending, DriverInv, InDriver
  <2>2. todo \in FailTails \cup TakenTails
    BY <2>1 DEF DriverInv
  <2> QED
    BY <1>1, <1>2, <1>4, <2>2, ReinitFirst
<1> QED
  BY <1>3, <1>4

\* RxInit without the lock writes a command; it races with a packet that is sent.
LEMMA LooseIs ==
    ASSUME DriverInv, Loose, UNCHANGED <<pc, heard, role>>
    PROVE  /\ Command(Head(loose)) /\ pc["receive"] = "loose"
           /\ \A c : Ahead(c, loose) <=> c = Head(loose) \/ Ahead(c, loose')
           /\ Head(loose) \in {"standby", "length64", "clear", "clearRx", "maskRx", "rx"}
           /\ Head(loose) = "standby" =>
                 \A c \in {"length64", "clear", "maskRx", "rx"} : Ahead(c, loose')
           /\ raced' = (raced \/ sending # "stale")
           /\ UNCHANGED <<lock, sending, todo, aired>> /\ IsSending' = IsSending
<1>1. /\ loose # <<>> /\ Command(Head(loose)) /\ loose' = Tail(loose)
      /\ raced' = (raced \/ sending # "stale")
      /\ UNCHANGED <<lock, sending, todo, aired, pc>>
  BY DEF Loose
<1>2. IsSending' = IsSending
  BY <1>1 DEF IsSending
<1>3. loose \in FailTails \cup TakenTails /\ pc["receive"] = "loose"
  BY <1>1 DEF DriverInv, FailTails
<1> QED
  BY <1>1, <1>2, <1>3, ReinitFirst

-----------------------------------------------------------------------------
(* The chip, and what of RxInit is still to come.                          *)

LEMMA ChipStep ==
    ASSUME ChipTypes, DriverInv, [Next]_vars
    PROVE  ChipTypes'
<1> USE DEF ChipTypes, Packets, radioVars, chipVars, drvVars, histVars
<1>1. CASE RadioMoves
  <2>1. ASSUME NEW c, Command(c), UNCHANGED <<sending, heard, aired>>, raced' \in BOOLEAN
        PROVE  ChipTypes'
    BY <2>1 DEF Command, Obey
  <2>2. CASE Locked
    BY <1>1, <2>1, <2>2 DEF RadioMoves, Locked
  <2>3. CASE Loose
    BY <1>1, <2>1, <2>3 DEF RadioMoves, Loose
  <2>4. CASE TxEnds
    BY <1>1, <2>4 DEF RadioMoves, TxEnds, Enabled
  <2> QED
    BY <1>1, <2>2, <2>3, <2>4 DEF RadioMoves
<1>2. CASE Neighbour
  BY <1>2 DEF Neighbour, Hear, HearOther, Enabled
<1>3. CASE Receive
  BY <1>3 DEF Receive, ReceiveRxInit, ReceiveRxInitEnds, ReceiveTakes, ReceiveOther,
              ReceiveReturns, ReceiveHandles, RecvBegins, RecvOther, Release,
              ReadBuffer, Flagged
<1>4. ASSUME NEW t \in Thread, Send(t, Packet(t)) PROVE ChipTypes'
  BY <1>4 DEF Send, SendBegins, Packet
<1>5. ASSUME NEW t \in Thread, Sends(t) \/ SendWaits(t) \/ HasPacket(t) PROVE ChipTypes'
  BY <1>5 DEF Sends, SendSucceeds, SendFails, SendReturns, SendWaits, HasPacket,
              TxDone, TxTimeout, TxOther, Release, Flagged
<1>6. ASSUME NEW r \in Role, SetRole(r) PROVE ChipTypes'
  BY <1>6 DEF SetRole
<1>7. CASE UNCHANGED vars
  BY <1>7 DEF vars
<1> QED
  BY <1>1, <1>2, <1>3, <1>4, <1>5, <1>6, <1>7 DEF Next

\* Only the thread in the driver can be sending: when it goes on, none is.
LEMMA SenderIs ==
    ASSUME DriverInv, NEW t \in Thread, pc[t] \in InDriver,
           NEW l, l # "sending", pc' = [pc EXCEPT ![t] = l]
    PROVE  /\ IsSending <=> pc[t] = "sending"
           /\ ~IsSending'
  BY DEF DriverInv, InDriver, IsSending

LEMMA ListenStep ==
    ASSUME ChipTypes, DriverInv, ListenInv, HeardInv, [Next]_vars
    PROVE  ListenInv' /\ HeardInv'
<1> USE DEF ListenInv, HeardInv, Pending, radioVars, chipVars, drvVars, histVars
<1>1. CASE RadioMoves
  <2>1. CASE Locked
    <3>1. UNCHANGED <<pc, heard, role>>
      BY <1>1 DEF RadioMoves
    <3>2. CASE IsSending
      BY <2>1, <3>1, <3>2, LockedIs
    <3>3. CASE ~IsSending
      BY <2>1, <3>1, <3>3, LockedIs DEF Command, Obey
    <3> QED
      BY <3>2, <3>3
  <2>2. CASE Loose
    BY <1>1, <2>2, LooseIs DEF RadioMoves, Command, Obey
  <2>3. CASE TxEnds
    BY <1>1, <2>3 DEF RadioMoves, TxEnds, IsSending
  <2> QED
    BY <1>1, <2>1, <2>2, <2>3 DEF RadioMoves
<1>2. CASE Neighbour
  BY <1>2 DEF Neighbour, Hear, HearOther, Enabled, IsSending
<1>3. CASE Receive
  <2>1. CASE ReceiveRxInit
    <3>1. loose = <<>> /\ IsSending' = IsSending
      BY <2>1 DEF ReceiveRxInit, DriverInv, IsSending, Goto, Thread
    <3> QED
      BY <2>1, <3>1, WholeSequences, NothingAhead DEF ReceiveRxInit
  <2>2. CASE ReceiveRxInitEnds
    <3>1. IsSending' = IsSending
      BY <2>2 DEF ReceiveRxInitEnds, DriverInv, IsSending, Goto, Thread
    <3> QED
      BY <2>2, <3>1 DEF ReceiveRxInitEnds
  <2>3. CASE ReceiveTakes
    <3>1. todo' = <<"clearRx">> \o RxInit /\ UNCHANGED <<mode, mask>>
      BY <2>3 DEF ReceiveTakes, RecvBegins
    <3> QED
      BY <3>1, WholeSequences
  <2>4. CASE ReceiveOther
    BY <2>4 DEF ReceiveOther, RecvOther, IsSending
  <2>5. CASE ReceiveReturns
    <3>1. IsSending' = IsSending
      BY <2>5 DEF ReceiveReturns, DriverInv, IsSending, Goto, Thread
    <3> QED
      BY <2>5, <3>1 DEF ReceiveReturns, Release
  <2>6. CASE ReceiveHandles
    <3>1. IsSending' = IsSending
      BY <2>6 DEF ReceiveHandles, DriverInv, IsSending, Goto, Thread
    <3> QED
      BY <2>6, <3>1 DEF ReceiveHandles
  <2> QED
    BY <1>3, <2>1, <2>2, <2>3, <2>4, <2>5, <2>6 DEF Receive
<1>4. ASSUME NEW t \in Thread, Send(t, Packet(t)) PROVE ListenInv' /\ HeardInv'
  <2>1. IsSending'
    BY <1>4 DEF Send, Goto, IsSending, DriverInv
  <2> QED
    BY <2>1
<1>5. ASSUME NEW t \in Thread, SendSucceeds(t) \/ SendFails(t) PROVE ListenInv' /\ HeardInv'
  <2>1. todo' = RxInit \/ todo' = <<"clear">> \o RxInit
    BY <1>5 DEF SendSucceeds, SendFails, TxDone, TxTimeout
  <2> QED
    BY <2>1, WholeSequences
<1>6. ASSUME NEW t \in Thread, SendReturns(t) PROVE ListenInv' /\ HeardInv'
  <2>1. IsSending' = IsSending
    BY <1>6 DEF SendReturns, DriverInv, IsSending, Goto
  <2> QED
    BY <1>6, <2>1 DEF SendReturns, Release
<1>7. ASSUME NEW t \in Thread, SendWaits(t) PROVE ListenInv' /\ HeardInv'
  <2>1. IsSending'
    BY <1>7 DEF SendWaits, IsSending
  <2> QED
    BY <2>1
<1>8. ASSUME NEW t \in Thread, HasPacket(t) PROVE ListenInv' /\ HeardInv'
  <2>1. IsSending' = IsSending
    BY <1>8 DEF HasPacket, DriverInv, IsSending, Goto
  <2> QED
    BY <1>8, <2>1 DEF HasPacket
<1>9. ASSUME NEW r \in Role, SetRole(r) PROVE ListenInv' /\ HeardInv'
  BY <1>9 DEF SetRole, IsSending
<1>10. CASE UNCHANGED vars
  BY <1>10 DEF vars, IsSending
<1> QED
  BY <1>1, <1>2, <1>3, <1>4, <1>5, <1>6, <1>7, <1>8, <1>9, <1>10 DEF Next, Sends

-----------------------------------------------------------------------------
(* The packet that is sent.                                                *)

LEMMA RaceStep ==
    ASSUME ChipTypes, DriverInv, RaceInv, [Next]_vars
    PROVE  RaceInv'
<1> USE DEF RaceInv, DriverInv, InDriver, Goto, radioVars, chipVars, drvVars, histVars
<1>1. CASE RadioMoves
  <2>1. UNCHANGED <<lock, sending, pc>>
    BY <1>1 DEF RadioMoves, Locked, Loose, TxEnds
  <2>2. raced' = raced \/ (raced' = (raced \/ sending # "stale"))
    BY <1>1 DEF RadioMoves, Locked, Loose, TxEnds
  <2>3. sending = "stale" => ~raced'
    BY <2>2
  <2> QED
    BY <2>1, <2>3
<1>2. CASE Neighbour
  BY <1>2 DEF Neighbour, Hear, HearOther
<1>3. CASE Receive
  BY <1>3 DEF Receive, ReceiveRxInit, ReceiveRxInitEnds, ReceiveTakes, ReceiveOther,
              ReceiveReturns, ReceiveHandles, RecvBegins, RecvOther, Release, Holds
<1>4. ASSUME NEW t \in Thread, Send(t, Packet(t)) PROVE RaceInv'
  BY <1>4 DEF Send, SendBegins, Packet
<1>5. ASSUME NEW t \in Thread, Sends(t) \/ SendWaits(t) \/ HasPacket(t) PROVE RaceInv'
  BY <1>5 DEF Sends, SendSucceeds, SendFails, SendReturns, SendWaits, HasPacket,
              TxDone, TxTimeout, TxOther, Release, Holds
<1>6. ASSUME NEW r \in Role, SetRole(r) PROVE RaceInv'
  BY <1>6 DEF SetRole
<1>7. CASE UNCHANGED vars
  BY <1>7 DEF vars
<1> QED
  BY <1>1, <1>2, <1>3, <1>4, <1>5, <1>6, <1>7 DEF Next

LEMMA AirStep ==
    ASSUME ChipTypes, DriverInv, AirInv, [Next]_vars
    PROVE  AirInv'
<1> USE DEF AirInv, radioVars, chipVars, drvVars, histVars
<1> DEFINE Ending == \E t \in Thread : pc[t] = "ending"
<1>1. CASE RadioMoves
  <2>1. UNCHANGED <<pc, heard, role>> /\ IsSending' = IsSending /\ Ending' = Ending
    BY <1>1 DEF RadioMoves, IsSending
  <2>2. AirInv <=>
          /\ mode = "tx" => \/ IsSending
                            \/ /\ Ending
                               /\ Ahead("standby", todo) \/ (skipped /\ Ahead("rx", todo))
          /\ aired => lock # "free"
    OBVIOUS
  <2>3. AirInv' <=>
          /\ mode' = "tx" => \/ IsSending'
                             \/ /\ Ending'
                                /\ Ahead("standby", todo') \/ (skipped' /\ Ahead("rx", todo'))
          /\ aired' => lock' # "free"
    OBVIOUS
  <2> HIDE DEF AirInv, Ending
  <2>4. CASE Locked
    <3>1. UNCHANGED <<lock, aired>> /\ Command(Head(todo))
      BY <2>1, <2>4, LockedIs
    <3>2. CASE IsSending
      BY <2>1, <2>2, <2>3, <3>1, <3>2
    <3>3. CASE ~IsSending
      <4>1. /\ \A c : Ahead(c, todo) <=> c = Head(todo) \/ Ahead(c, todo')
            /\ Head(todo) \in {"standby", "length64", "clear", "clearRx", "maskRx", "rx"}
            /\ Head(todo) = "standby" => Ahead("rx", todo')
        BY <2>1, <2>4, <3>3, LockedIs
      <4>2. CASE Obey(Head(todo))
        <5>1. /\ mode' = "tx" => mode = "tx" /\ Head(todo) \notin {"standby", "rx"}
              /\ Head(todo) # "standby" => skipped' = skipped
          BY <4>1, <4>2 DEF Obey, ChipTypes
        <5> QED
          BY <2>1, <2>2, <2>3, <3>1, <3>3, <4>1, <5>1
      <4>3. CASE ~skipped /\ skipped' /\ mode' = mode
        BY <2>1, <2>2, <2>3, <3>1, <3>3, <4>1, <4>3
      <4> QED
        BY <3>1, <4>2, <4>3 DEF Command
    <3> QED
      BY <3>2, <3>3
  <2>5. CASE Loose
    <3>1. /\ UNCHANGED <<lock, aired, todo>> /\ Command(Head(loose))
          /\ Head(loose) \in {"standby", "length64", "clear", "clearRx", "maskRx", "rx"}
      BY <2>1, <2>5, LooseIs
    <3>2. /\ mode' = "tx" => mode = "tx"
          /\ mode' = "tx" => (skipped => skipped')
      BY <3>1 DEF Command, Obey, ChipTypes
    <3> QED
      BY <2>1, <2>2, <2>3, <3>1, <3>2
  <2>6. CASE TxEnds
    <3>1. mode = "tx" /\ mode' = "standby" /\ UNCHANGED lock
      BY <2>6 DEF TxEnds
    <3>2. PICK t \in Thread : pc[t] \in InDriver
      BY <2>2, <3>1 DEF IsSending, Ending, InDriver
    <3>3. lock = t /\ t # "free"
      BY <3>2 DEF DriverInv, Thread
    <3> QED
      BY <2>3, <3>1, <3>3
  <2> QED
    BY <1>1, <2>4, <2>5, <2>6 DEF RadioMoves
<1>2. CASE Neighbour
  BY <1>2 DEF Neighbour, Hear, HearOther, IsSending
<1>3. CASE Receive
  <2> USE DEF DriverInv, InDriver, IsSending, Goto, Thread
  <2>1. CASE ReceiveRxInit
    BY <2>1 DEF ReceiveRxInit
  <2>2. CASE ReceiveRxInitEnds
    BY <2>2 DEF ReceiveRxInitEnds
  <2>3. CASE ReceiveTakes
    BY <2>3, NothingAhead DEF ReceiveTakes, RecvBegins
  <2>4. CASE ReceiveOther
    BY <2>4 DEF ReceiveOther, RecvOther
  <2>5. CASE ReceiveReturns
    BY <2>5, NothingAhead DEF ReceiveReturns, Release, Holds
  <2>6. CASE ReceiveHandles
    BY <2>6 DEF ReceiveHandles
  <2> QED
    BY <1>3, <2>1, <2>2, <2>3, <2>4, <2>5, <2>6 DEF Receive
<1>4. ASSUME NEW t \in Thread, Send(t, Packet(t)) PROVE AirInv'
  BY <1>4 DEF Send, SendBegins, Goto, IsSending, DriverInv, Thread
<1>5. ASSUME NEW t \in Thread, SendSucceeds(t) PROVE AirInv'
  BY <1>5, WholeSequences DEF SendSucceeds, TxDone, Holds, Goto, DriverInv, Thread
<1>6. ASSUME NEW t \in Thread, SendFails(t) PROVE AirInv'
  BY <1>6 DEF SendFails, TxTimeout, Holds, DriverInv, Thread
<1>7. ASSUME NEW t \in Thread, SendReturns(t) PROVE AirInv'
  <2>1. todo = <<>> /\ ~IsSending /\ mode' = mode /\ ~aired'
    BY <1>7 DEF SendReturns, Release, Holds, DriverInv, InDriver, IsSending
  <2> QED
    BY <2>1, NothingAhead
<1>8. ASSUME NEW t \in Thread, SendWaits(t) PROVE AirInv'
  BY <1>8 DEF SendWaits, TxOther, IsSending
<1>9. ASSUME NEW t \in Thread, HasPacket(t) PROVE AirInv'
  BY <1>9 DEF HasPacket, Goto, IsSending, DriverInv, InDriver
<1>10. ASSUME NEW r \in Role, SetRole(r) PROVE AirInv'
  BY <1>10 DEF SetRole, IsSending
<1>11. CASE UNCHANGED vars
  BY <1>11 DEF vars, IsSending
<1> QED
  BY <1>1, <1>2, <1>3, <1>4, <1>5, <1>6, <1>7, <1>8, <1>9, <1>10, <1>11 DEF Next, Sends

\* Nothing left out and nothing between: a thread in Lora_send has the radio where
\* the commands it has written have put it.
LEMMA SendStep ==
    ASSUME ChipTypes, DriverInv, RaceInv, SendInv, [Next]_vars
    PROVE  SendInv'
<1> USE DEF radioVars, chipVars, drvVars, histVars
<1>1. ASSUME ~IsSending' PROVE SendInv'
  BY <1>1 DEF SendInv
<1>2. ASSUME UNCHANGED <<radioVars, IsSending>> PROVE SendInv'
  BY <1>2 DEF SendInv
<1>3. CASE RadioMoves
  <2>1. UNCHANGED <<pc, heard, role>> /\ IsSending' = IsSending
    BY <1>3 DEF RadioMoves, IsSending
  <2>2. SUFFICES ASSUME IsSending, ~raced', ~skipped' PROVE SendInv'
    BY <2>1 DEF SendInv
  <2>3. todo \in SendTails
    BY <2>2 DEF IsSending, DriverInv
  <2>4. CASE Locked
    <3>1. /\ todo # <<>> /\ todo' = Tail(todo) /\ UNCHANGED <<sending, raced, aired>>
          /\ Obey(Head(todo))
      BY <2>1, <2>2, <2>4, LockedIs DEF Command
    <3>2. /\ Head(todo) \in {"standby", "write", "length", "clear", "maskTx", "tx"}
          /\ \A c : Ahead(c, todo) <=> c = Head(todo) \/ Ahead(c, todo')
          /\ ~Ahead(Head(todo), todo') /\ Ahead("tx", todo)
          /\ Head(todo) = "tx" => ~Ahead("clear", todo)
          /\ Ahead("standby", todo) =>
                /\ Head(todo) = "standby"
                /\ \A c \in {"standby", "write", "length", "clear", "maskTx", "tx"} : Ahead(c, todo)
      BY <2>3, <3>1, SendFirst
    <3>3. CASE Head(todo) = "standby"
      <4>1. /\ mode' = "standby"
            /\ \A c \in {"write", "length", "clear", "maskTx", "tx"} : Ahead(c, todo')
        BY <3>1, <3>2, <3>3 DEF Obey
      <4> QED
        BY <4>1 DEF SendInv
    <3>4. CASE Head(todo) # "standby"
      <4>1. ~skipped /\ ~raced /\ ~Ahead("standby", todo)
        <5>1. skipped' = (skipped /\ Head(todo) # "standby") /\ raced' = raced
          BY <3>1 DEF Obey
        <5>2. ~skipped /\ ~raced
          BY <2>2, <3>4, <5>1
        <5>3. ~Ahead("standby", todo)
          BY <3>2, <3>4
        <5> QED
          BY <5>2, <5>3
      <4>2. mode = "standby"
        BY <2>2, <3>2, <4>1 DEF SendInv
      <4>3. CASE Head(todo) = "write"
        BY <2>2, <3>1, <3>2, <4>1, <4>2, <4>3 DEF Obey, SendInv
      <4>4. CASE Head(todo) = "length"
        BY <2>2, <3>1, <3>2, <4>1, <4>2, <4>4 DEF Obey, SendInv
      <4>5. CASE Head(todo) = "clear"
        BY <2>2, <3>1, <3>2, <4>1, <4>2, <4>5 DEF Obey, SendInv
      <4>6. CASE Head(todo) = "maskTx"
        BY <2>2, <3>1, <3>2, <4>1, <4>2, <4>6 DEF Obey, SendInv
      <4>7. CASE Head(todo) = "tx"
        BY <2>2, <3>1, <3>2, <4>1, <4>2, <4>7 DEF Obey, SendInv
      <4> QED
        BY <3>2, <3>4, <4>3, <4>4, <4>5, <4>6, <4>7
    <3> QED
      BY <3>3, <3>4
  <2>5. CASE Loose
    <3>1. pc["receive"] = "loose" /\ raced' = (raced \/ sending # "stale")
      BY <2>1, <2>5, LooseIs
    <3>2. sending = "own"
      BY <2>2, <3>1 DEF IsSending, RaceInv
    <3> QED
      BY <2>2, <3>1, <3>2
  <2>6. CASE TxEnds
    <3>1. /\ mode = "tx" /\ mode' = "standby" /\ irq' = irq \cup ({"tx"} \cap Enabled)
          /\ aired' = (aired \/ (buf = sending /\ plen = "own"))
          /\ UNCHANGED <<mask, plen, buf, todo, sending, skipped, raced>>
      BY <2>6 DEF TxEnds
    <3>2. CASE Ahead("standby", todo)
      <4>1. \A c \in {"standby", "write", "length", "clear", "maskTx", "tx"} : Ahead(c, todo)
        BY <2>3, <3>2, SendFirst, NothingAhead
      <4> QED
        BY <3>1, <4>1 DEF SendInv
    <3>3. CASE ~Ahead("standby", todo)
      <4>1. ~Ahead("tx", todo)
        BY <2>2, <3>1, <3>3 DEF SendInv
      <4>2. todo = <<>>
        BY <2>3, <4>1, SendFirst
      <4>3. /\ mode = "tx" /\ irq = {} /\ buf = sending /\ plen = "own" /\ mask = "tx"
        BY <2>2, <3>1, <4>2, NothingAhead DEF SendInv
      <4>4. irq' = {"tx"} /\ aired'
        BY <3>1, <4>3 DEF Enabled
      <4> QED
        BY <3>1, <4>1, <4>3, <4>4 DEF SendInv
    <3> QED
      BY <3>2, <3>3
  <2> QED
    BY <1>3, <2>4, <2>5, <2>6 DEF RadioMoves
<1>4. CASE Neighbour
  <2>1. /\ UNCHANGED pc /\ IsSending' = IsSending /\ mode = "rx"
        /\ UNCHANGED <<mode, mask, plen, drvVars, histVars>>
    BY <1>4 DEF Neighbour, Hear, HearOther, IsSending
  <2>2. SUFFICES ASSUME IsSending, ~raced, ~skipped PROVE SendInv'
    BY <2>1 DEF SendInv
  <2>3. todo \in SendTails
    BY <2>2 DEF IsSending, DriverInv
  <2>4. Ahead("standby", todo)
    BY <2>1, <2>2 DEF SendInv
  <2>5. \A c \in {"standby", "write", "length", "clear", "maskTx", "tx"} : Ahead(c, todo)
    BY <2>3, <2>4, SendFirst, NothingAhead
  <2> QED
    BY <2>1, <2>5 DEF SendInv
<1>5. CASE Receive
  <2>1. CASE ReceiveRxInit \/ ReceiveRxInitEnds \/ ReceiveHandles
    <3>1. IsSending' = IsSending
      BY <2>1 DEF ReceiveRxInit, ReceiveRxInitEnds, ReceiveHandles, Goto, IsSending,
                  DriverInv, Thread
    <3>2. UNCHANGED <<chipVars, todo, sending, histVars>>
      BY <2>1 DEF ReceiveRxInit, ReceiveRxInitEnds, ReceiveHandles
    <3> QED
      BY <3>1, <3>2 DEF SendInv
  <2>2. CASE ReceiveTakes
    <3>1. ~IsSending'
      BY <2>2 DEF ReceiveTakes, RecvBegins, Goto, IsSending, DriverInv, InDriver, Thread
    <3> QED
      BY <3>1, <1>1
  <2>3. CASE ReceiveOther
    <3>1. ~IsSending'
      BY <2>3 DEF ReceiveOther, RecvOther, IsSending, DriverInv, InDriver, Thread
    <3> QED
      BY <3>1, <1>1
  <2>4. CASE ReceiveReturns
    <3>1. ~IsSending'
      BY <2>4 DEF ReceiveReturns, Goto, IsSending, DriverInv, InDriver, Thread
    <3> QED
      BY <3>1, <1>1
  <2> QED
    BY <1>5, <2>1, <2>2, <2>3, <2>4 DEF Receive
<1>6. ASSUME NEW t \in Thread, Send(t, Packet(t)) PROVE SendInv'
  <2>1. todo' = SendHead
    BY <1>6 DEF Send, SendBegins
  <2> QED
    BY <2>1, WholeSequences DEF SendInv
<1>7. ASSUME NEW t \in Thread, Sends(t) PROVE SendInv'
  <2>1. PICK l : l # "sending" /\ pc[t] \in InDriver /\ pc' = [pc EXCEPT ![t] = l]
    BY <1>7 DEF Sends, SendSucceeds, SendFails, SendReturns, Goto, InDriver
  <2>2. ~IsSending'
    BY <2>1, SenderIs
  <2> QED
    BY <2>2, <1>1
<1>8. ASSUME NEW t \in Thread, SendWaits(t) PROVE SendInv'
  <2>1. /\ IsSending /\ todo = <<>> /\ DIO1 /\ "tx" \notin irq
        /\ UNCHANGED <<raced, skipped>>
    BY <1>8 DEF SendWaits, TxOther, IsSending
  <2>2. raced \/ skipped
    BY <2>1, NothingAhead DEF SendInv, DIO1, Enabled
  <2> QED
    BY <2>1, <2>2 DEF SendInv
<1>9. ASSUME NEW t \in Thread, HasPacket(t) PROVE SendInv'
  <2>1. IsSending' = IsSending /\ UNCHANGED radioVars
    BY <1>9 DEF HasPacket, Goto, IsSending, DriverInv
  <2> QED
    BY <2>1, <1>2
<1>10. CASE UNCHANGED vars \/ \E r \in Role : SetRole(r)
  <2>1. IsSending' = IsSending /\ UNCHANGED radioVars
    BY <1>10 DEF SetRole, IsSending, vars
  <2> QED
    BY <2>1, <1>2
<1> QED
  BY <1>3, <1>4, <1>5, <1>6, <1>7, <1>8, <1>9, <1>10 DEF Next

-----------------------------------------------------------------------------
(* The invariant holds, and what follows from it.                          *)

LEMMA NodeInit == Init => NodeInv
<1> SUFFICES ASSUME Init PROVE NodeInv
  OBVIOUS
<1> USE DEF Init, Reset
<1>1. ChipTypes
  BY DEF ChipTypes, Packets
<1>2. DriverInv
  BY DEF DriverInv, InDriver, Thread, ReinitTails
<1>3. ListenInv /\ HeardInv
  BY DEF ListenInv, HeardInv
<1>4. SendInv
  BY DEF SendInv, IsSending, Thread
<1>5. RaceInv
  BY DEF RaceInv, Thread
<1>6. AirInv
  BY DEF AirInv
<1> QED
  BY <1>1, <1>2, <1>3, <1>4, <1>5, <1>6 DEF NodeInv

LEMMA NodeStep == NodeInv /\ [Next]_vars => NodeInv'
BY DriverStep, ChipStep, ListenStep, RaceStep, AirStep, SendStep DEF NodeInv

LEMMA NodeInvHolds == Spec => []NodeInv
<1>1. Spec => Init /\ [][Next]_vars
  BY DEF Spec
<1> QED
  BY <1>1, NodeInit, NodeStep, PTL

\* Every variable has its type, and a thread holds g_lora_lock exactly while it is
\* between the first and the last command of a packet: never two in the driver.
THEOREM TypeCorrect == Spec => []TypeOK
<1>1. NodeInv => TypeOK
  <2> SUFFICES ASSUME NodeInv PROVE TypeOK
    OBVIOUS
  <2>1. loose \in Seq(Steps)
    BY TailsAreSequences, StepsAre DEF NodeInv, DriverInv, FailTails
  <2>2. todo \in Seq(Steps)
    <3>1. todo \in FailTails \cup TakenTails \cup SendTails
      BY DEF NodeInv, DriverInv, InDriver, SendTails
    <3> QED
      BY <3>1, TailsAreSequences, StepsAre
  <2>3. \A t \in Thread : Holds(t) <=> pc[t] \in {"sending", "ending", "taken", "toolong"}
    BY DEF NodeInv, DriverInv, Holds, InDriver
  <2> QED
    BY <2>1, <2>2, <2>3 DEF NodeInv, ChipTypes, DriverInv, TypeOK
<1> QED
  BY <1>1, NodeInvHolds, PTL

\* Whenever no thread is in the driver the radio listens, however RxInit came between
\* the commands of another thread, unless a command was left out.
THEOREM RadioRestsListening == Spec => []RestsListening
<1>1. NodeInv => RestsListening
  <2> SUFFICES ASSUME NodeInv, lock = "free", loose = <<>>, ~skipped PROVE Listening
    BY DEF RestsListening
  <2>1. ~IsSending /\ todo = <<>>
    BY DEF NodeInv, DriverInv, IsSending, InDriver, Thread
  <2> QED
    BY <2>1, NothingAhead DEF NodeInv, ListenInv, Pending, Listening
<1> QED
  BY <1>1, NodeInvHolds, PTL

\* What Lora_send returns is what became of the packet, unless RxInit came between its
\* commands or one was left out.
THEOREM LoraSendIsTrue == Spec => SendsAreTrue
<1> DEFINE A == \A t \in Thread : /\ SendSucceeds(t) => aired \/ raced \/ skipped'
                                  /\ SendFails(t) => raced \/ skipped
<1>1. NodeInv => A
  <2> SUFFICES ASSUME NodeInv, NEW t \in Thread
               PROVE  /\ SendSucceeds(t) => aired \/ raced \/ skipped'
                      /\ SendFails(t) => raced \/ skipped
    OBVIOUS
  <2>1. ASSUME pc[t] = "sending", todo = <<>>, ~raced, ~skipped
        PROVE  /\ mask = "tx"
               /\ \/ mode = "tx" /\ irq = {}
                  \/ mode = "standby" /\ irq = {"tx"} /\ aired
    BY <2>1, NothingAhead DEF NodeInv, SendInv, IsSending
  <2>2. ASSUME SendSucceeds(t) PROVE aired \/ raced \/ skipped'
    BY <2>1, <2>2 DEF SendSucceeds, TxDone, Flagged
  <2>3. ASSUME SendFails(t) PROVE raced \/ skipped
    BY <2>1, <2>3 DEF SendFails, TxTimeout, DIO1, Enabled
  <2> QED
    BY <2>2, <2>3
<1>2. NodeInv => [A]_vars
  BY <1>1
<1>3. Spec => [][A]_vars
  BY <1>2, NodeInvHolds, PTL
<1> QED
  BY <1>3 DEF SendsAreTrue

\* What lora_receive_thread takes from the radio came over the air and has not been
\* taken before, unless a command or a question was left out.
THEOREM ReadingIsHearing == Spec => ReadIsHeard
<1> DEFINE A == ReceiveTakes => heard' \in {"short", "long"} \/ skipped'
<1>1. NodeInv => A
  <2> SUFFICES ASSUME NodeInv, ReceiveTakes, ~skipped' PROVE heard' \in {"short", "long"}
    OBVIOUS
  <2>1. PICK got \in {buf, "stale"} : RecvBegins("receive", got) /\ heard' = got
    BY DEF ReceiveTakes
  <2>2. lock = "free" /\ ~skipped /\ "rx" \in irq /\ got = buf
    BY <2>1 DEF RecvBegins, ReadBuffer, Flagged
  <2>3. todo = <<>> /\ loose = <<>> /\ ~IsSending
    BY <2>2 DEF NodeInv, DriverInv, InDriver, IsSending, ReceiveTakes, Thread
  <2>4. buf \in {"short", "long"}
    BY <2>2, <2>3, NothingAhead DEF NodeInv, HeardInv, Pending
  <2> QED
    BY <2>1, <2>2, <2>4
<1>2. NodeInv => [A]_vars
  BY <1>1
<1>3. Spec => [][A]_vars
  BY <1>2, NodeInvHolds, PTL
<1> QED
  BY <1>3 DEF ReadIsHeard

\* The history that SendsAreTrue goes by is that of the send in question: whenever a
\* thread may take the lock, nothing is said to have been sent and no race to have been.
THEOREM HistoryIsOfOneSend == Spec => [](lock = "free" => ~aired /\ ~raced)
<1>1. NodeInv => (lock = "free" => ~aired /\ ~raced)
  BY DEF NodeInv, AirInv, RaceInv
<1> QED
  BY <1>1, NodeInvHolds, PTL
=============================================================================
