--------------------------- MODULE AtChannelProofs ---------------------------
(***************************************************************************)
(* Theorems about AtChannel, for any commands and any number of            *)
(* unsolicited lines and spurious wake-ups: the types, the signal to the   *)
(* sender, and which command an answer of the modem reaches.               *)
(***************************************************************************)
EXTENDS AtChannel, TLAPS

LEMMA NoResponseType == NoResponse \in Response
  BY DEF NoResponse, Response

\* TypeOK by the part of the state it is about: the sender with what it shares
\* with the reader, what it has returned, and the lines of the modem.
SenderType ==
  /\ userLoad \in BOOLEAN /\ halted \in BOOLEAN
  /\ sender \in {"idle", "write", "pending", "waiting", "woken", "expired"}
  /\ current \in Command \union {None}
  /\ sender = "idle" <=> current = None
  /\ mutex = IF sender \in {"idle", "waiting"} THEN None ELSE "sender"
  /\ type = IF sender \in {"waiting", "woken", "expired"} THEN "REQUEST" ELSE "NONE"
  /\ response \in Response
  /\ type = "NONE" => response = NoResponse
  /\ signalled \in BOOLEAN

ResultType ==
  /\ result \in [Command -> Result]
  /\ acked \in [Command -> Nat]
  /\ reset \in BOOLEAN
  /\ spurious \in 0 .. MaxSpurious

LineType ==
  /\ modem \in Seq(Command)
  /\ told \in SUBSET {"ack", "info"}
  /\ urcs \in 0 .. MaxUrc
  /\ wire \in Seq(Line)
  /\ line \in Line \union {None}
  /\ stray \in SUBSET Answer

LEMMA TypeParts == TypeOK <=> SenderType /\ ResultType /\ LineType
  BY DEF TypeOK, SenderType, ResultType, LineType

LEMMA ReturnType ==
  ASSUME SenderType, ResultType, current # None, NEW error, Return(error),
         error \in {"none", "closed", "timeout", "invalid"},
         UNCHANGED <<userLoad, halted, signalled>>
  PROVE  SenderType' /\ result' \in [Command -> Result]
<1>1. SenderType'
  BY NoResponseType DEF SenderType, Return
<1>2. current \in Command /\ response.info \in Seq(Command \union {None})
      /\ response.final \in Command \union {None}
  BY DEF SenderType, Response
<1>3. [error |-> error, info |-> response.info, final |-> response.final] \in Result
  BY <1>2 DEF Result
<1> QED BY <1>1, <1>2, <1>3 DEF ResultType, Return

LEMMA LineKinds ==
  ASSUME NEW c \in Command
  PROVE  /\ \A k \in {"ack", "info", "ok", "error"} : [kind |-> k, cmd |-> c] \in Line
         /\ \A k \in {"same", "urc", "sms", "pdu"} : Own(k) \in Line
  BY DEF Line, Answer, Own

LEMMA OneLine ==
  ASSUME NEW l \in Line
  PROVE  <<l>> \in Seq(Line)
  OBVIOUS

LEMMA SendType ==
  ASSUME LineType, NEW lines \in Seq(Line), Send(lines)
  PROVE  wire' \in Seq(Line)
  BY DEF LineType, Send

(* The sender holds m_commandMutex and has a response pending exactly at   *)
(* the places of atSendCommandFullNolockAck where the code means it to,    *)
(* and everything else keeps its type.                                     *)
THEOREM ChannelTypeCorrect == Spec => []TypeOK
<1>1. Init => TypeOK
  <2> SUFFICES ASSUME Init PROVE TypeOK
    OBVIOUS
  <2>1. SenderType
    BY NoResponseType DEF Init, SenderType
  <2>2. ResultType
    <3>1. [error |-> "unsent", info |-> <<>>, final |-> None] \in Result
      BY DEF Result
    <3>2. result \in [Command -> Result]
      BY <3>1 DEF Init
    <3>3. acked \in [Command -> Nat]
      BY DEF Init
    <3>4. reset \in BOOLEAN
      BY DEF Init
    <3>5. spurious \in 0 .. MaxSpurious
      BY ChannelAssumption DEF Init
    <3> QED BY <3>2, <3>3, <3>4, <3>5 DEF ResultType
  <2>3. LineType
    BY ChannelAssumption DEF Init, LineType
  <2> QED BY <2>1, <2>2, <2>3, TypeParts
<1>2. TypeOK /\ [Next]_vars => TypeOK'
  <2> SUFFICES ASSUME SenderType, ResultType, LineType, [Next]_vars
               PROVE  SenderType' /\ ResultType' /\ LineType'
    BY TypeParts, PTL
  <2> USE DEF commandVars, contextVars, modemVars, readerVars
  <2>1. ASSUME NEW c \in Command, Refuse(c)
        PROVE  SenderType' /\ ResultType' /\ LineType'
    <3>1. [result[c] EXCEPT !.error = "unavailable"] \in Result
      BY DEF ResultType, Result
    <3>2. result' \in [Command -> Result]
      BY <2>1, <3>1 DEF Refuse, ResultType
    <3> QED BY <2>1, <3>2 DEF Refuse, SenderType, ResultType, LineType
  <2>2. ASSUME NEW c \in Command, Lock(c)
        PROVE  SenderType' /\ ResultType' /\ LineType'
    <3>1. SenderType'
      BY <2>2, ChannelAssumption DEF Lock, SenderType
    <3> QED BY <2>2, <3>1 DEF Lock, ResultType, LineType
  <2>3. CASE Write
    <3>1. SenderType'
      BY <2>3 DEF Write, SenderType
    <3>2. modem' \in Seq(Command)
      BY <2>3 DEF Write, SenderType, LineType
    <3> QED BY <2>3, <3>1, <3>2 DEF Write, ResultType, LineType
  <2>4. CASE WriteFails
    <3>1. SenderType' /\ result' \in [Command -> Result]
      BY <2>4, ReturnType DEF WriteFails, SenderType
    <3> QED BY <2>4, <3>1 DEF WriteFails, ResultType, LineType
  <2>5. CASE SetPending
    <3>1. SenderType'
      BY <2>5, NoResponseType DEF SetPending, SenderType
    <3> QED BY <2>5, <3>1 DEF SetPending, ResultType, LineType
  <2>6. CASE WakeUp
    <3>1. SenderType'
      BY <2>6 DEF WakeUp, SenderType
    <3>2. ResultType'
      BY <2>6, ChannelAssumption DEF WakeUp, ResultType
    <3> QED BY <2>6, <3>1, <3>2 DEF WakeUp, LineType
  <2>7. CASE WaitAgain
    <3>1. [response EXCEPT !.ack = FALSE] \in Response
      BY DEF SenderType, Response
    <3>2. SenderType'
      BY <2>7, <3>1 DEF WaitAgain, SenderType
    <3>3. acked' \in [Command -> Nat]
      BY <2>7 DEF WaitAgain, SenderType, ResultType
    <3> QED BY <2>7, <3>2, <3>3 DEF WaitAgain, ResultType, LineType
  <2>8. CASE Finish
    <3>1. SenderType' /\ result' \in [Command -> Result]
      BY <2>8, ReturnType DEF Finish, SenderType
    <3> QED BY <2>8, <3>1 DEF Finish, ResultType, LineType
  <2>9. CASE Timeout
    <3>1. SenderType'
      BY <2>9 DEF Timeout, SenderType
    <3> QED BY <2>9, <3>1 DEF Timeout, ResultType, LineType
  <2>10. CASE GiveUp
    <3>1. CASE userLoad
      <4>1. SenderType' /\ result' \in [Command -> Result]
        BY <2>10, <3>1, ReturnType DEF GiveUp, SenderType
      <4> QED BY <2>10, <3>1, <4>1 DEF GiveUp, ResultType, LineType
    <3>2. CASE ~userLoad
      BY <2>10, <3>2 DEF GiveUp, SenderType, ResultType, LineType
    <3> QED BY <3>1, <3>2
  <2>11. CASE Modem
    <3>1. SenderType' /\ ResultType'
      BY <2>11 DEF Modem, SenderType, ResultType
    <3>2. ASSUME modem # <<>>
          PROVE  Head(modem) \in Command /\ Tail(modem) \in Seq(Command)
      BY <3>2 DEF LineType
    <3>3. UNCHANGED <<line, stray>>
      BY <2>11 DEF Modem
    <3>4. CASE ModemAck
      <4> DEFINE l == [kind |-> "ack", cmd |-> Head(modem)]
      <4>2. l \in Line /\ Send(<<l>>)
        BY <3>2, <3>4, LineKinds DEF ModemAck
      <4>3. <<l>> \in Seq(Line)
        BY <4>2, OneLine
      <4> HIDE DEF l
      <4>1. wire' \in Seq(Line)
        BY <4>2, <4>3, SendType
      <4> QED BY <3>1, <3>3, <3>4, <4>1 DEF ModemAck, LineType
    <3>5. CASE ModemInfo
      <4> DEFINE l == [kind |-> "info", cmd |-> Head(modem)]
      <4>2. l \in Line /\ Send(<<l>>)
        BY <3>2, <3>5, LineKinds DEF ModemInfo
      <4>3. <<l>> \in Seq(Line)
        BY <4>2, OneLine
      <4> HIDE DEF l
      <4>1. wire' \in Seq(Line)
        BY <4>2, <4>3, SendType
      <4> QED BY <3>1, <3>3, <3>5, <4>1 DEF ModemInfo, LineType
    <3>6. CASE ModemFinal
      <4>1. PICK k \in {"ok", "error"} : Send(<<[kind |-> k, cmd |-> Head(modem)]>>)
        BY <3>6 DEF ModemFinal
      <4> DEFINE l == [kind |-> k, cmd |-> Head(modem)]
      <4>3. l \in Line
        BY <3>2, <3>6, LineKinds DEF ModemFinal
      <4>4. <<l>> \in Seq(Line)
        BY <4>3, OneLine
      <4>5. Send(<<l>>)
        BY <4>1
      <4> HIDE DEF l
      <4>2. wire' \in Seq(Line)
        BY <4>4, <4>5, SendType
      <4> QED BY <3>1, <3>2, <3>3, <3>6, <4>2 DEF ModemFinal, LineType
    <3>7. CASE ModemUrc
      <4>1. PICK lines \in {<<Own("same")>>, <<Own("urc")>>, <<Own("sms"), Own("pdu")>>} :
              Send(lines)
        BY <3>7 DEF ModemUrc
      <4>2. lines \in Seq(Line)
        <5>1. \A k \in {"same", "urc", "sms", "pdu"} : Own(k) \in Line
          BY DEF Line, Own
        <5>2. ASSUME NEW a \in Line, NEW b \in Line
              PROVE  <<a, b>> \in Seq(Line)
          OBVIOUS
        <5>3. <<Own("same")>> \in Seq(Line) /\ <<Own("urc")>> \in Seq(Line)
          BY <5>1, OneLine
        <5>4. <<Own("sms"), Own("pdu")>> \in Seq(Line)
          BY <5>1, <5>2
        <5> QED BY <4>1, <5>3, <5>4
      <4>3. wire' \in Seq(Line)
        BY <4>1, <4>2, SendType
      <4> QED BY <3>1, <3>3, <3>7, <4>3, ChannelAssumption DEF ModemUrc, LineType
    <3> QED BY <2>11, <3>4, <3>5, <3>6, <3>7 DEF Modem
  <2>12. CASE ReadLine
    <3>1. Head(wire) \in Line /\ Tail(wire) \in Seq(Line)
      BY <2>12 DEF ReadLine, LineType
    <3> QED BY <2>12, <3>1 DEF ReadLine, SenderType, ResultType, LineType
  <2>13. CASE ReadFails
    BY <2>13 DEF ReadFails, SenderType, ResultType, LineType
  <2>14. CASE ProcessSms
    <3>1. Tail(wire) \in Seq(Line)
      BY <2>14 DEF ProcessSms, LineType
    <3> QED BY <2>14, <3>1 DEF ProcessSms, SenderType, ResultType, LineType
  <2>15. CASE ProcessLine
    <3>1. ResultType'
      BY <2>15 DEF ProcessLine, ResultType
    <3>2. LineType'
      BY <2>15 DEF ProcessLine, PassOn, LineType
    <3>3. line \in Line /\ line.cmd \in Command \union {None}
      BY <2>15 DEF ProcessLine, LineType, Line, Answer
    <3>4. \/ UNCHANGED contextVars
          \/ type = "REQUEST" /\ UNCHANGED type /\ response' \in Response /\ signalled' \in BOOLEAN
      <4>1. CASE PassOn(line)
        BY <4>1 DEF PassOn
      <4>2. CASE type = "REQUEST" /\ UNCHANGED type /\ StoreAck
        BY <4>2 DEF StoreAck, SenderType, Response
      <4>3. CASE type = "REQUEST" /\ UNCHANGED type /\ StoreInfo(line)
        <5>1. Append(response.info, line.cmd) \in Seq(Command \union {None})
          BY <3>3 DEF SenderType, Response
        <5> QED BY <4>3, <5>1 DEF StoreInfo, SenderType, Response
      <4>4. CASE type = "REQUEST" /\ UNCHANGED type /\ StoreFinal(line)
        BY <3>3, <4>4 DEF StoreFinal, SenderType, Response
      <4> QED BY <2>15, <4>1, <4>2, <4>3, <4>4 DEF ProcessLine
    <3>5. SenderType'
      BY <2>15, <3>4 DEF ProcessLine, SenderType
    <3> QED BY <3>1, <3>2, <3>5
  <2>16. CASE UNCHANGED vars
    BY <2>16 DEF vars, SenderType, ResultType, LineType
  <2> QED
    BY <2>1, <2>2, <2>3, <2>4, <2>5, <2>6, <2>7, <2>8, <2>9, <2>10, <2>11, <2>12, <2>13,
       <2>14, <2>15, <2>16 DEF Next
<1> QED BY <1>1, <1>2, PTL DEF Spec

(* The sender never waits for a final response that is already stored      *)
(* without a signal on its way: it decides to wait, and the reader stores  *)
(* the response and signals, each in one hold of m_commandMutex.           *)
THEOREM NoLostSignalAlways == Spec => []NoLostSignal
<1>1. Init => NoLostSignal
  BY DEF Init, NoLostSignal
<1>2. TypeOK /\ NoLostSignal /\ [Next]_vars => NoLostSignal'
  <2> SUFFICES ASSUME SenderType, NoLostSignal, [Next]_vars
               PROVE  NoLostSignal'
    BY TypeParts
  <2> USE DEF commandVars, contextVars
  <2>1. ASSUME NEW c \in Command, Refuse(c) \/ Lock(c)
        PROVE  NoLostSignal'
    BY <2>1 DEF Refuse, Lock, NoLostSignal
  <2>2. CASE Write \/ WriteFails \/ WakeUp \/ Finish \/ Timeout
    BY <2>2 DEF Write, WriteFails, WakeUp, Finish, Timeout, Return, NoLostSignal
  <2>3. CASE SetPending
    \* The wait begins with an empty response.
    BY <2>3 DEF SetPending, NoResponse, NoLostSignal
  <2>4. CASE WaitAgain
    \* The wait begins again only if no final response is stored.
    BY <2>4 DEF WaitAgain, SenderType, Response, NoLostSignal
  <2>5. CASE GiveUp
    BY <2>5 DEF GiveUp, Return, NoLostSignal
  <2>6. CASE Modem \/ ReadLine \/ ReadFails \/ ProcessSms
    BY <2>6 DEF Modem, ReadLine, ReadFails, ProcessSms, NoLostSignal
  <2>7. CASE ProcessLine
    <3>1. UNCHANGED sender
      BY <2>7 DEF ProcessLine
    <3>2. CASE UNCHANGED contextVars
      BY <3>1, <3>2 DEF NoLostSignal
    <3>3. CASE StoreAck \/ StoreFinal(line)
      BY <3>1, <3>3 DEF StoreAck, StoreFinal, NoLostSignal
    <3>4. CASE StoreInfo(line)
      BY <3>1, <3>4 DEF StoreInfo, SenderType, Response, NoLostSignal
    <3> QED BY <2>7, <3>2, <3>3, <3>4 DEF ProcessLine, PassOn
  <2>8. CASE UNCHANGED vars
    BY <2>8 DEF vars, NoLostSignal
  <2> QED
    BY <2>1, <2>2, <2>3, <2>4, <2>5, <2>6, <2>7, <2>8 DEF Next
<1> QED BY <1>1, <1>2, ChannelTypeCorrect, PTL DEF Spec
-----------------------------------------------------------------------------
(***************************************************************************)
(* Which command an answer of the modem reaches (RightFinal,               *)
(* NoStrayAnswer, AckOnce). A line does not say which command it answers,  *)
(* so all three rest on there being answers to one command only, in their  *)
(* order, until a command is given up.                                     *)
(***************************************************************************)
\* The lines the reader has not processed: reading one does not change them.
PipeOf(l, w) == IF l = None THEN w ELSE <<l>> \o w
Pipe == PipeOf(line, wire)

Place == 1..Len(Pipe)
Answers(i) == Pipe[i].cmd # None
Final(l) == l.kind \in {"ok", "error"}

\* A header and its text are written together, so the reader never takes an
\* answer for the text.
SmsPaired ==
  \A i \in Place : Pipe[i].kind = "sms" => i + 1 \in Place /\ Pipe[i + 1].kind = "pdu"

\* The modem has received the command that is being sent and no other one,
\* what it writes answers that one, and its final line ends what it writes.
OneCommand ==
  /\ sender \in {"idle", "write"} => modem = <<>> /\ \A i \in Place : ~Answers(i)
  /\ modem \in {<<>>, <<current>>}
  /\ \A i \in Place : Answers(i) => Pipe[i].cmd = current
  /\ \A i \in Place : Pipe[i].kind = "info" => Info[Pipe[i].cmd] # "NO_RESULT"
  /\ \A i \in Place : Final(Pipe[i]) =>
       modem = <<>> /\ \A j \in Place : i < j => ~Answers(j)
  /\ response.final # None =>
       response.final = current /\ modem = <<>> /\ \A i \in Place : ~Answers(i)

\* Where the one acknowledgement of the command is: still to come from the
\* modem, among its lines, in the response, or reported.
AckLine(i) == Pipe[i].kind = "ack"

OneAck ==
  /\ current # None => Unsent(current)
  /\ \A c \in Command : acked[c] <= 1
  /\ \A c \in Command : Unsent(c) /\ (c # current \/ sender = "write") => acked[c] = 0
  /\ response.ack => acked[current] = 0
  /\ \A i \in Place : AckLine(i) => acked[current] = 0 /\ ~response.ack
  /\ \A i, j \in Place : AckLine(i) /\ AckLine(j) => i = j
  /\ modem # <<>> /\ told = {} =>
       acked[current] = 0 /\ ~response.ack /\ \A i \in Place : ~AckLine(i)

AnswerInv ==
  /\ SmsPaired
  /\ reset \/ (OneCommand /\ OneAck /\ RightFinal /\ NoStrayAnswer)
-----------------------------------------------------------------------------
(* How a step changes the lines.                                           *)
Taken(n) ==
  /\ Len(Pipe') + n = Len(Pipe)
  /\ \A i \in Place' : i + n \in Place /\ Pipe'[i] = Pipe[i + n]

Added(lines) ==
  /\ Len(Pipe') = Len(Pipe) + Len(lines)
  /\ \A i \in Place : i \in Place' /\ Pipe'[i] = Pipe[i]
  /\ \A i \in Place' : i \in Place \/ (i - Len(Pipe) \in 1..Len(lines)
                                       /\ Pipe'[i] = lines[i - Len(Pipe)])

LEMMA PipeOfIs ==
  ASSUME NEW l \in Line \union {None}, NEW w \in Seq(Line)
  PROVE  /\ PipeOf(l, w) \in Seq(Line)
         /\ Len(w) \in Nat
         /\ l = None => PipeOf(l, w) = w
         /\ l # None => /\ Len(PipeOf(l, w)) = Len(w) + 1
                        /\ PipeOf(l, w)[1] = l
                        /\ \A i \in 1..Len(w) : PipeOf(l, w)[i + 1] = w[i]
<1>1. CASE l = None
  BY <1>1 DEF PipeOf
<1>2. CASE l # None
  <2>1. l \in Line /\ <<l>> \in Seq(Line) /\ Len(<<l>>) = 1 /\ <<l>>[1] = l
    BY <1>2
  <2>2. <<l>> \o w \in Seq(Line) /\ Len(<<l>> \o w) = 1 + Len(w)
    BY <2>1
  <2>3. \A i \in 1..(Len(w) + 1) :
          (<<l>> \o w)[i] = IF i <= 1 THEN <<l>>[i] ELSE w[i - 1]
    BY <2>1
  <2>4. (<<l>> \o w)[1] = l /\ \A i \in 1..Len(w) : (<<l>> \o w)[i + 1] = w[i]
    BY <2>1, <2>3
  <2> QED BY <1>2, <2>2, <2>4 DEF PipeOf
<1> QED BY <1>1, <1>2

LEMMA PipeIs ==
  ASSUME LineType
  PROVE  Pipe \in Seq(Line) /\ Len(Pipe) \in Nat /\ \A i \in Place : Pipe[i] \in Line
<1>1. Pipe \in Seq(Line)
  BY PipeOfIs DEF Pipe, LineType
<1> QED BY <1>1 DEF Place

LEMMA PipeKept ==
  ASSUME UNCHANGED <<line, wire>>
  PROVE  Pipe' = Pipe /\ Place' = Place
  BY DEF Pipe, Place, PipeOf

LEMMA PipeRead ==
  ASSUME LineType, ReadLine
  PROVE  Pipe' = Pipe /\ Place' = Place
<1>1. /\ line = None /\ wire # <<>> /\ line' = Head(wire) /\ wire' = Tail(wire)
      /\ wire \in Seq(Line)
  BY DEF ReadLine, LineType
<1>2. /\ Head(wire) \in Line /\ Head(wire) # None /\ Tail(wire) \in Seq(Line)
      /\ wire = <<Head(wire)>> \o Tail(wire)
  BY <1>1, NoneAssumption
<1> QED BY <1>1, <1>2 DEF Pipe, Place, PipeOf

LEMMA PipeTaken ==
  ASSUME LineType, LineType', line # None, line' = None
  PROVE  /\ Pipe[1] = line /\ 1 \in Place
         /\ UNCHANGED wire => Taken(1)
         /\ wire # <<>> /\ wire' = Tail(wire) =>
              /\ Taken(2) /\ 2 \in Place
              /\ Pipe[2] = Head(wire)
<1>1. /\ line \in Line \union {None} /\ wire \in Seq(Line) /\ wire' \in Seq(Line)
  BY DEF LineType
<1>2. /\ Len(wire) \in Nat /\ Len(Pipe) = Len(wire) + 1 /\ Pipe[1] = line
      /\ \A i \in 1..Len(wire) : Pipe[i + 1] = wire[i]
  BY <1>1, PipeOfIs DEF Pipe
<1>3. Pipe' = wire' /\ Place' = 1..Len(wire') /\ Place = 1..(Len(wire) + 1)
  BY <1>2 DEF Pipe, Place, PipeOf
<1>4. CASE UNCHANGED wire
  <2>1. \A i \in 1..Len(wire) : i + 1 \in 1..(Len(wire) + 1)
    BY <1>2
  <2> QED BY <1>2, <1>3, <1>4, <2>1 DEF Taken
<1>5. ASSUME wire # <<>>, wire' = Tail(wire)
      PROVE  Taken(2) /\ 2 \in Place /\ Pipe[2] = Head(wire)
  <2>1. /\ Len(wire) \in Nat \ {0} /\ Head(wire) = wire[1] /\ Len(wire') = Len(wire) - 1
        /\ \A i \in 1..(Len(wire) - 1) : wire'[i] = wire[i + 1]
    BY <1>1, <1>5
  <2>2. /\ 1 \in 1..Len(wire) /\ 1 + 1 = 2 /\ 2 \in 1..(Len(wire) + 1)
        /\ \A i \in 1..(Len(wire) - 1) :
             i + 1 \in 1..Len(wire) /\ (i + 1) + 1 = i + 2 /\ i + 2 \in 1..(Len(wire) + 1)
        /\ (Len(wire) - 1) + 2 = Len(wire) + 1
    BY <2>1
  <2>3. \A i \in 1..(Len(wire) - 1) : wire'[i] = Pipe[i + 2]
    <3> TAKE i \in 1..(Len(wire) - 1)
    <3>1. wire'[i] = wire[i + 1] /\ Pipe[(i + 1) + 1] = wire[i + 1]
      BY <1>2, <2>1, <2>2
    <3> QED BY <2>2, <3>1
  <2> QED BY <1>2, <1>3, <2>1, <2>2, <2>3 DEF Taken
<1>6. Pipe[1] = line /\ 1 \in Place
  BY <1>2, <1>3
<1> QED BY <1>4, <1>5, <1>6

LEMMA PipeAdded ==
  ASSUME LineType, UNCHANGED line, NEW lines \in Seq(Line), Send(lines)
  PROVE  Added(lines)
<1>1. /\ line \in Line \union {None} /\ wire \in Seq(Line)
      /\ wire' = wire \o lines /\ wire' \in Seq(Line)
  BY DEF LineType, Send
<1>2. /\ Len(wire) \in Nat /\ Len(lines) \in Nat /\ Len(wire') = Len(wire) + Len(lines)
      /\ \A i \in 1..Len(wire) : wire'[i] = wire[i]
      /\ \A i \in 1..Len(wire') : i \in 1..Len(wire) \/ wire'[i] = lines[i - Len(wire)]
  BY <1>1
<1>3. CASE line = None
  <2>1. Pipe = wire /\ Pipe' = wire'
    BY <1>3 DEF Pipe, PipeOf
  <2> QED BY <1>2, <2>1 DEF Added, Place
<1>4. CASE line # None
  <2> DEFINE n == Len(wire)
             m == Len(wire')
  <2>1. /\ Len(Pipe) = n + 1 /\ Pipe[1] = line
        /\ \A i \in 1..n : Pipe[i + 1] = wire[i]
    BY <1>1, <1>4, PipeOfIs DEF Pipe
  <2>2. /\ Len(Pipe') = m + 1 /\ Pipe'[1] = line
        /\ \A i \in 1..m : Pipe'[i + 1] = wire'[i]
    <3>1. Pipe' = PipeOf(line, wire')
      BY DEF Pipe
    <3>2. /\ Len(PipeOf(line, wire')) = m + 1 /\ PipeOf(line, wire')[1] = line
          /\ \A i \in 1..m : PipeOf(line, wire')[i + 1] = wire'[i]
      BY <1>1, <1>4, PipeOfIs
    <3> QED BY <3>1, <3>2
  <2>3. \A i \in 1..(n + 1) : i \in 1..(m + 1) /\ Pipe'[i] = Pipe[i]
    <3> TAKE i \in 1..(n + 1)
    <3>1. CASE i = 1
      BY <1>2, <2>1, <2>2, <3>1
    <3>2. CASE i # 1
      <4>1. i - 1 \in 1..n /\ i - 1 \in 1..m /\ (i - 1) + 1 = i /\ i \in 1..(m + 1)
        BY <1>2, <3>2
      <4> QED BY <1>2, <2>1, <2>2, <4>1
    <3> QED BY <3>1, <3>2
  <2>4. \A i \in 1..(m + 1) : i \in 1..(n + 1) \/ /\ i - (n + 1) \in 1..Len(lines)
                                                   /\ Pipe'[i] = lines[i - (n + 1)]
    <3> SUFFICES ASSUME NEW i \in 1..(m + 1), i \notin 1..(n + 1)
                 PROVE  i - (n + 1) \in 1..Len(lines) /\ Pipe'[i] = lines[i - (n + 1)]
      OBVIOUS
    <3>1. /\ i - 1 \in 1..m /\ i - 1 \notin 1..n /\ (i - 1) + 1 = i
          /\ (i - 1) - n = i - (n + 1) /\ i - (n + 1) \in 1..Len(lines)
      BY <1>2
    <3>2. Pipe'[(i - 1) + 1] = wire'[i - 1] /\ wire'[i - 1] = lines[(i - 1) - n]
      BY <1>2, <2>2, <3>1
    <3> QED BY <3>1, <3>2
  <2>5. /\ Len(Pipe') = Len(Pipe) + Len(lines)
        /\ Place = 1..(n + 1) /\ Place' = 1..(m + 1)
    BY <1>2, <2>1, <2>2 DEF Place
  <2> QED BY <2>1, <2>3, <2>4, <2>5 DEF Added
<1> QED BY <1>3, <1>4

LEMMA LineIs ==
  ASSUME NEW l \in Line
  PROVE  /\ l.cmd # None => l \in Answer /\ l.cmd \in Command
         /\ l.cmd = None => l \notin Answer /\ l.kind \in {"same", "urc", "sms", "pdu"}
  BY ChannelAssumption DEF Line, Answer
LEMMA OneLineAdded ==
  ASSUME LineType, UNCHANGED line, NEW l \in Line, Send(<<l>>)
  PROVE  /\ Len(Pipe') = Len(Pipe) + 1 /\ Len(Pipe) \in Nat
         /\ \A i \in Place : i \in Place' /\ Pipe'[i] = Pipe[i]
         /\ \A i \in Place' : i \in Place \/ (i = Len(Pipe) + 1 /\ Pipe'[i] = l)
<1>1. <<l>> \in Seq(Line) /\ Len(<<l>>) = 1 /\ <<l>>[1] = l /\ Len(Pipe) \in Nat
  BY PipeIs
<1>2. Added(<<l>>)
  BY <1>1, PipeAdded
<1>3. \A i \in Place' : i \in Place \/ (i = Len(Pipe) + 1 /\ Pipe'[i] = l)
  <2> SUFFICES ASSUME NEW i \in Place', i \notin Place
               PROVE  i = Len(Pipe) + 1 /\ Pipe'[i] = l
    OBVIOUS
  <2> DEFINE lines == <<l>>
  <2>1. Added(lines) /\ Len(lines) = 1 /\ lines[1] = l /\ i \in Nat
    BY <1>1, <1>2 DEF Place
  <2> HIDE DEF lines
  <2>2. i - Len(Pipe) \in 1..Len(lines) /\ Pipe'[i] = lines[i - Len(Pipe)]
    BY <2>1 DEF Added
  <2> QED BY <1>1, <2>1, <2>2
<1> QED BY <1>1, <1>2, <1>3 DEF Added

\* The lines the modem writes of its own accord.
LEMMA UrcAdded ==
  ASSUME LineType, UNCHANGED line, ModemUrc
  PROVE  /\ \A i \in Place : i \in Place' /\ Pipe'[i] = Pipe[i]
         /\ \A i \in Place' : i \in Place \/ (Pipe'[i].cmd = None /\ Pipe'[i] \in Line)
         /\ SmsPaired => SmsPaired'
<1>1. PICK lines \in {<<Own("same")>>, <<Own("urc")>>, <<Own("sms"), Own("pdu")>>} : Send(lines)
  BY DEF ModemUrc
<1>2. /\ \A k \in {"same", "urc", "sms", "pdu"} :
           Own(k) \in Line /\ Own(k).cmd = None /\ Own(k).kind = k
  BY DEF Line, Own
<1>3. /\ lines \in Seq(Line)
      /\ \A k \in 1..Len(lines) : lines[k].cmd = None /\ lines[k] \in Line
      /\ \A k \in 1..Len(lines) :
           lines[k].kind = "sms" => k + 1 \in 1..Len(lines) /\ lines[k + 1].kind = "pdu"
  <2> DEFINE a == Own("same")
             b == Own("urc")
             c == Own("sms")
             d == Own("pdu")
  <2>1. /\ a \in Line /\ b \in Line /\ c \in Line /\ d \in Line
        /\ a.cmd = None /\ b.cmd = None /\ c.cmd = None /\ d.cmd = None
        /\ a.kind = "same" /\ b.kind = "urc" /\ c.kind = "sms" /\ d.kind = "pdu"
        /\ lines \in {<<a>>, <<b>>, <<c, d>>}
    BY <1>1, <1>2
  <2> HIDE DEF a, b, c, d
  <2>2. CASE lines = <<a>>
    BY <2>1, <2>2
  <2>3. CASE lines = <<b>>
    BY <2>1, <2>3
  <2>4. CASE lines = <<c, d>>
    BY <2>1, <2>4
  <2> QED BY <2>1, <2>2, <2>3, <2>4
<1>4. Added(lines) /\ Len(Pipe) \in Nat /\ Len(lines) \in Nat
  BY <1>1, <1>3, PipeAdded, PipeIs
<1>5. \A i \in Place' : i \in Place \/ (Pipe'[i].cmd = None /\ Pipe'[i] \in Line)
  BY <1>3, <1>4 DEF Added
<1>6. ASSUME SmsPaired, NEW i \in Place', Pipe'[i].kind = "sms"
      PROVE  i + 1 \in Place' /\ Pipe'[i + 1].kind = "pdu"
  <2>1. CASE i \in Place
    BY <1>4, <1>6, <2>1 DEF Added, SmsPaired
  <2>2. CASE i \notin Place
    <3> DEFINE k == i - Len(Pipe)
    <3>1. k \in 1..Len(lines) /\ Pipe'[i] = lines[k] /\ i \in Nat
      BY <1>4, <2>2 DEF Added, Place
    <3>2. k + 1 \in 1..Len(lines) /\ lines[k + 1].kind = "pdu"
      BY <1>3, <1>6, <3>1
    <3>3. i + 1 \in Place' /\ i + 1 \notin Place /\ (i + 1) - Len(Pipe) = k + 1
      BY <1>4, <3>1, <3>2 DEF Added, Place
    <3>4. Pipe'[i + 1] = lines[(i + 1) - Len(Pipe)]
      BY <1>4, <3>3 DEF Added
    <3> QED BY <3>2, <3>3, <3>4
  <2> QED BY <2>1, <2>2
<1> QED BY <1>4, <1>5, <1>6 DEF Added, SmsPaired

LEMMA TakenPaired ==
  ASSUME LineType, SmsPaired, NEW n \in Nat, Taken(n), Len(Pipe') \in Nat
  PROVE  SmsPaired'
<1>1. ASSUME NEW i \in Place', Pipe'[i].kind = "sms"
      PROVE  i + 1 \in Place' /\ Pipe'[i + 1].kind = "pdu"
  <2>1. /\ i \in Nat \ {0} /\ i + n \in Place /\ Pipe'[i] = Pipe[i + n] /\ Len(Pipe) \in Nat
        /\ Len(Pipe') + n = Len(Pipe)
    BY <1>1, PipeIs DEF Taken, Place
  <2>2. (i + n) + 1 \in Place /\ Pipe[(i + n) + 1].kind = "pdu"
    BY <1>1, <2>1 DEF SmsPaired
  <2>3. (i + n) + 1 = (i + 1) + n /\ i + 1 \in Place'
    BY <1>1, <2>1, <2>2 DEF Place
  <2>4. Pipe'[i + 1] = Pipe[(i + 1) + n]
    BY <2>3 DEF Taken
  <2> QED BY <2>2, <2>3, <2>4
<1> QED BY <1>1 DEF SmsPaired

\* The text that follows a header is taken with it.
LEMMA SmsTaken ==
  ASSUME LineType, LineType', SmsPaired, ProcessSms
  PROVE  Taken(2) /\ stray' = stray
<1>1. /\ line # None /\ line' = None /\ wire # <<>> /\ wire' = Tail(wire)
      /\ line.kind = "sms" /\ stray' = stray \union ({line, Head(wire)} \intersect Answer)
  BY DEF ProcessSms
<1>2. Taken(2) /\ 1 \in Place /\ 2 \in Place /\ Pipe[1] = line /\ Pipe[2] = Head(wire)
  BY <1>1, PipeTaken
<1>3. Pipe[1].kind = "sms" /\ 1 + 1 = 2
  BY <1>1, <1>2
<1>4. Pipe[2].kind = "pdu"
  BY <1>2, <1>3 DEF SmsPaired
<1>5. line \notin Answer /\ Head(wire) \notin Answer
  BY <1>2, <1>3, <1>4 DEF Answer
<1> QED BY <1>1, <1>2, <1>5

LEMMA LineTaken ==
  ASSUME LineType, LineType', ProcessLine
  PROVE  Taken(1) /\ Pipe[1] = line /\ 1 \in Place /\ line \in Line
  BY PipeTaken DEF ProcessLine, LineType

\* Every step but those of the modem and of the reader leaves the lines alone.
LEMMA PipeStep ==
  ASSUME LineType, [Next]_vars
  PROVE  \/ Pipe' = Pipe /\ Place' = Place
         \/ Modem \/ ProcessSms \/ ProcessLine
<1>1. ASSUME UNCHANGED <<line, wire>>
      PROVE  Pipe' = Pipe /\ Place' = Place
  BY <1>1, PipeKept
<1>2. CASE ReadLine
  BY <1>2, PipeRead
<1> QED
  BY <1>1, <1>2 DEF Next, vars, readerVars, modemVars, Refuse, Lock, Write, WriteFails, SetPending,
     WakeUp, WaitAgain, Finish, Timeout, GiveUp, ReadFails

LEMMA SmsStep ==
  ASSUME LineType, LineType', SmsPaired, [Next]_vars
  PROVE  SmsPaired'
<1>1. Len(Pipe) \in Nat /\ Len(Pipe') \in Nat
  <2>1. line' \in Line \union {None} /\ wire' \in Seq(Line)
    BY DEF LineType
  <2>2. Pipe' = PipeOf(line', wire')
    BY DEF Pipe
  <2> QED BY <2>1, <2>2, PipeIs, PipeOfIs
<1>2. CASE Pipe' = Pipe /\ Place' = Place
  BY <1>2 DEF SmsPaired
<1>3. CASE ProcessSms
  BY <1>1, <1>3, SmsTaken, TakenPaired
<1>4. CASE ProcessLine
  BY <1>1, <1>4, LineTaken, TakenPaired
<1>5. CASE Modem
  <2>1. UNCHANGED line
    BY <1>5 DEF Modem
  <2>2. ASSUME NEW l \in Line, Send(<<l>>), l.kind # "sms"
        PROVE  SmsPaired'
    <3>1. /\ Len(Pipe') = Len(Pipe) + 1
          /\ \A i \in Place : i \in Place' /\ Pipe'[i] = Pipe[i]
          /\ \A i \in Place' : i \in Place \/ (i = Len(Pipe) + 1 /\ Pipe'[i] = l)
      BY <2>1, <2>2, OneLineAdded
    <3> QED BY <2>2, <3>1 DEF SmsPaired
  <2>3. CASE ModemAck \/ ModemInfo \/ ModemFinal
    <3>1. modem # <<>> /\ Head(modem) \in Command
      BY <2>3 DEF ModemAck, ModemInfo, ModemFinal, LineType
    <3>2. \E k \in {"ack", "info", "ok", "error"} : Send(<<[kind |-> k, cmd |-> Head(modem)]>>)
      BY <2>3 DEF ModemAck, ModemInfo, ModemFinal
    <3> QED BY <2>2, <3>1, <3>2, LineKinds
  <2>4. CASE ModemUrc
    BY <2>1, <2>4, UrcAdded
  <2> QED BY <1>5, <2>3, <2>4 DEF Modem
<1> QED BY <1>2, <1>3, <1>4, <1>5, PipeStep
-----------------------------------------------------------------------------
(* One command at a time, until one is given up.                           *)
LEMMA CommandKept ==
  ASSUME OneCommand, Pipe' = Pipe, Place' = Place,
         UNCHANGED <<sender, current, modem, response>>
  PROVE  OneCommand'
  BY DEF OneCommand, Answers

LEMMA AnswerLines ==
  ASSUME LineType
  PROVE  \A i \in Place : /\ Final(Pipe[i]) \/ AckLine(i) \/ Pipe[i].kind = "info" => Answers(i)
                          /\ Answers(i) => Pipe[i].cmd \in Command
<1> TAKE i \in Place
<1>1. Pipe[i] \in Line
  BY PipeIs
<1> QED BY <1>1, LineIs DEF Final, AckLine, Answers

LEMMA SingleModem ==
  ASSUME modem # <<>>, modem \in {<<>>, <<current>>}
  PROVE  modem = <<current>> /\ Head(modem) = current /\ Tail(modem) = <<>>
<1>1. modem = <<current>>
  OBVIOUS
<1> QED BY <1>1

LEMMA CommandSender ==
  ASSUME SenderType, LineType, OneCommand, Pipe' = Pipe, Place' = Place, ~reset',
         \/ \E c \in Command : Refuse(c) \/ Lock(c)
         \/ Write \/ WriteFails \/ SetPending \/ WakeUp \/ WaitAgain \/ Finish
         \/ Timeout \/ GiveUp
  PROVE  OneCommand'
<1> USE DEF contextVars, modemVars
<1>1. NoResponse.final = None
  BY DEF NoResponse
<1>2. ASSUME NEW c \in Command, Refuse(c) PROVE OneCommand'
  BY <1>2, CommandKept DEF Refuse
<1>3. ASSUME NEW c \in Command, Lock(c) PROVE OneCommand'
  BY <1>1, <1>3, AnswerLines DEF Lock, OneCommand, SenderType, Answers
<1>4. CASE Write
  <2>1. modem = <<>> /\ \A i \in Place : ~Answers(i)
    BY <1>4 DEF Write, OneCommand
  <2>2. modem' = <<current>> /\ UNCHANGED <<current, response>> /\ sender' = "pending"
    BY <1>4, <2>1 DEF Write
  <2>3. response.final = None
    BY <1>1, <1>4 DEF Write, SenderType
  <2> QED BY <2>1, <2>2, <2>3, AnswerLines DEF OneCommand, Answers
<1>5. CASE WriteFails
  BY <1>1, <1>5, AnswerLines DEF WriteFails, Return, OneCommand, Answers
<1>6. CASE SetPending
  BY <1>1, <1>6 DEF SetPending, OneCommand, Answers
<1>7. CASE WakeUp \/ Timeout
  BY <1>7 DEF WakeUp, Timeout, OneCommand, Answers
<1>8. CASE WaitAgain
  <2>1. response'.final = response.final
    BY <1>8 DEF WaitAgain, SenderType, Response
  <2> QED BY <1>8, <2>1 DEF WaitAgain, OneCommand, Answers
<1>9. CASE Finish
  <2>1. modem = <<>> /\ \A i \in Place : ~Answers(i)
    BY <1>9 DEF Finish, OneCommand
  <2>2. modem' = <<>> /\ response'.final = None /\ sender' = "idle"
    BY <1>1, <1>9, <2>1 DEF Finish, Return
  <2> QED BY <2>1, <2>2, AnswerLines DEF OneCommand, Answers
<1>10. CASE GiveUp
  BY <1>10, CommandKept DEF GiveUp
<1> QED BY <1>2, <1>3, <1>4, <1>5, <1>6, <1>7, <1>8, <1>9, <1>10

LEMMA CommandModem ==
  ASSUME LineType, LineType', OneCommand, Modem
  PROVE  OneCommand'
<1>1. UNCHANGED <<sender, current, response, line>>
  BY DEF Modem, commandVars, contextVars
<1>2. ASSUME NEW k \in {"ack", "info", "ok", "error"}, modem # <<>>,
             Send(<<[kind |-> k, cmd |-> Head(modem)]>>),
             k = "info" => Info[Head(modem)] # "NO_RESULT",
             modem' = IF k \in {"ok", "error"} THEN Tail(modem) ELSE modem
      PROVE  OneCommand'
  <2> DEFINE l == [kind |-> k, cmd |-> Head(modem)]
  <2>1. modem = <<current>> /\ Head(modem) = current /\ Tail(modem) = <<>> /\ current \in Command
    BY <1>2, SingleModem DEF OneCommand, LineType
  <2>2. l \in Line /\ l.kind = k /\ l.cmd = current /\ Send(<<l>>)
    BY <1>2, <2>1, LineKinds
  <2>3. k = "info" => Info[l.cmd] # "NO_RESULT"
    BY <1>2
  <2> HIDE DEF l
  <2>4. /\ Len(Pipe') = Len(Pipe) + 1 /\ Len(Pipe) \in Nat
        /\ \A i \in Place : i \in Place' /\ Pipe'[i] = Pipe[i]
        /\ \A i \in Place' : i \in Place \/ (i = Len(Pipe) + 1 /\ Pipe'[i] = l)
    BY <1>1, <2>2, OneLineAdded
  <2>5. sender \notin {"idle", "write"} /\ response.final = None
        /\ \A i \in Place : ~Final(Pipe[i])
    BY <1>2 DEF OneCommand
  <2>6. /\ modem' \in {<<>>, <<current'>>}
        /\ \A i \in Place' : Answers(i)' => Pipe'[i].cmd = current'
        /\ \A i \in Place' : Pipe'[i].kind = "info" => Info[Pipe'[i].cmd] # "NO_RESULT"
    BY <1>1, <1>2, <2>1, <2>2, <2>3, <2>4 DEF OneCommand, Answers
  <2>7. \A i \in Place' : Final(Pipe'[i]) =>
          modem' = <<>> /\ \A j \in Place' : i < j => ~Answers(j)'
    <3> SUFFICES ASSUME NEW i \in Place', Final(Pipe'[i])
                 PROVE  modem' = <<>> /\ \A j \in Place' : ~(i < j)
      OBVIOUS
    <3>1. i = Len(Pipe) + 1 /\ Pipe'[i] = l
      BY <2>4, <2>5
    <3>2. modem' = <<>>
      BY <1>2, <2>1, <2>2, <3>1 DEF Final
    <3>3. \A j \in Place' : j <= Len(Pipe) + 1
      BY <2>4 DEF Place
    <3>4. \A j \in Place' : j \in Nat
      BY DEF Place
    <3> QED BY <2>4, <3>1, <3>2, <3>3, <3>4
  <2> QED BY <1>1, <2>5, <2>6, <2>7 DEF OneCommand
<1>3. CASE ModemAck
  BY <1>2, <1>3 DEF ModemAck
<1>4. CASE ModemInfo
  BY <1>2, <1>4 DEF ModemInfo
<1>5. CASE ModemFinal
  <2>1. PICK k \in {"ok", "error"} : Send(<<[kind |-> k, cmd |-> Head(modem)]>>)
    BY <1>5 DEF ModemFinal
  <2>2. modem # <<>> /\ modem' = Tail(modem)
    BY <1>5 DEF ModemFinal
  <2> QED BY <1>2, <2>1, <2>2
<1>6. CASE ModemUrc
  <2>1. /\ \A i \in Place : i \in Place' /\ Pipe'[i] = Pipe[i]
        /\ \A i \in Place' : i \in Place \/ (Pipe'[i].cmd = None /\ Pipe'[i] \in Line)
    BY <1>1, <1>6, UrcAdded
  <2>2. \A i \in Place' : i \in Place \/ (~Answers(i)' /\ ~Final(Pipe'[i]) /\ Pipe'[i].kind # "info")
    BY <2>1, LineIs DEF Answers, Final
  <2>3. UNCHANGED modem /\ \A i \in Place : Answers(i)' <=> Answers(i)
    BY <1>6, <2>1 DEF ModemUrc, Answers
  <2> QED BY <1>1, <2>1, <2>2, <2>3 DEF OneCommand
<1> QED BY <1>3, <1>4, <1>5, <1>6 DEF Modem

\* The reader takes lines away, and may find the final one.
LEMMA CommandTaken ==
  ASSUME LineType, OneCommand, NEW n \in Nat, Taken(n), UNCHANGED <<sender, current, modem>>,
         \/ response'.final = response.final
         \/ response'.final = current /\ modem = <<>> /\ \A i \in Place' : ~Answers(i)'
  PROVE  OneCommand'
<1>1. \A i \in Place' : i + n \in Place /\ Pipe'[i] = Pipe[i + n]
  BY DEF Taken
<1>2. \A i \in Place' : Answers(i)' <=> Answers(i + n)
  BY <1>1 DEF Answers
<1>3. \A i, j \in Place' : i < j => i + n < j + n
  BY DEF Place
<1>4. \A i \in Place' : Final(Pipe'[i]) =>
        modem' = <<>> /\ \A j \in Place' : i < j => ~Answers(j)'
  BY <1>1, <1>2, <1>3 DEF OneCommand
<1> QED BY <1>1, <1>2, <1>4 DEF OneCommand

LEMMA CommandLine ==
  ASSUME SenderType, LineType, LineType', OneCommand, ProcessLine
  PROVE  OneCommand'
<1>1. /\ Taken(1) /\ Pipe[1] = line /\ 1 \in Place /\ line \in Line
      /\ UNCHANGED <<sender, current, modem>>
  BY LineTaken DEF ProcessLine, commandVars, modemVars
<1>2. CASE response'.final = response.final
  BY <1>1, <1>2, CommandTaken
<1>3. CASE Final(line) /\ StoreFinal(line)
  <2>1. Final(Pipe[1]) /\ Answers(1)
    BY <1>1, <1>3, AnswerLines
  <2>2. response'.final = current
    BY <1>1, <1>3, <2>1 DEF StoreFinal, SenderType, Response, OneCommand
  <2>3. modem = <<>> /\ \A j \in Place : 1 < j => ~Answers(j)
    BY <1>1, <2>1 DEF OneCommand
  <2>4. \A i \in Place' : i + 1 \in Place /\ 1 < i + 1 /\ Pipe'[i] = Pipe[i + 1]
    BY <1>1 DEF Taken, Place
  <2>5. \A i \in Place' : ~Answers(i)'
    BY <2>3, <2>4 DEF Answers
  <2> QED BY <1>1, <2>2, <2>3, <2>5, CommandTaken
<1> QED
  BY <1>2, <1>3 DEF ProcessLine, PassOn, StoreAck, StoreInfo, Final, contextVars, SenderType, Response

LEMMA CommandStep ==
  ASSUME SenderType, LineType, LineType', SmsPaired, OneCommand, [Next]_vars, ~reset'
  PROVE  OneCommand'
<1>1. CASE Modem
  BY <1>1, CommandModem
<1>2. CASE ProcessLine
  BY <1>2, CommandLine
<1>3. CASE ProcessSms
  BY <1>3, SmsTaken, CommandTaken DEF ProcessSms, commandVars, contextVars, modemVars
<1>4. CASE (Pipe' = Pipe /\ Place' = Place) /\ UNCHANGED <<sender, current, modem, response>>
  BY <1>4, CommandKept
<1>5. CASE /\ Pipe' = Pipe /\ Place' = Place
           /\ \/ \E c \in Command : Refuse(c) \/ Lock(c)
              \/ Write \/ WriteFails \/ SetPending \/ WakeUp \/ WaitAgain \/ Finish
              \/ Timeout \/ GiveUp
  BY <1>5, CommandSender
<1> QED
  BY <1>1, <1>2, <1>3, <1>4, <1>5, PipeStep
  DEF Next, vars, commandVars, contextVars, modemVars, ReadLine, ReadFails
-----------------------------------------------------------------------------
(* The acknowledgements.                                                   *)
LEMMA AckKept ==
  ASSUME OneAck, Pipe' = Pipe, Place' = Place,
         UNCHANGED <<sender, current, result, acked, response, modem, told>>
  PROVE  OneAck'
  BY DEF OneAck, AckLine, Unsent

\* What atSendCommand has returned is not sent again.
LEMMA AckReturn ==
  ASSUME SenderType, ResultType, LineType, OneCommand, OneAck, Pipe' = Pipe, Place' = Place,
         NEW error, error # "unsent", Return(error), UNCHANGED <<acked, modem, told>>,
         modem = <<>>, \A i \in Place : ~Answers(i)
  PROVE  OneAck'
<1>1. /\ current' = None /\ sender' = "idle" /\ ~response'.ack
      /\ \A c \in Command : c # current => result'[c] = result[c]
      /\ current \in Command => result'[current].error = error
  BY DEF Return, NoResponse, ResultType
<1>2. \A c \in Command : Unsent(c)' => c # current /\ Unsent(c)
  BY <1>1 DEF Unsent
<1>3. \A i \in Place : ~AckLine(i)
  BY AnswerLines
<1> QED BY <1>1, <1>2, <1>3 DEF OneAck, AckLine

LEMMA AckSender ==
  ASSUME SenderType, ResultType, LineType, OneCommand, OneAck, Pipe' = Pipe, Place' = Place,
         ~reset',
         \/ \E c \in Command : Refuse(c) \/ Lock(c)
         \/ Write \/ WriteFails \/ SetPending \/ WakeUp \/ WaitAgain \/ Finish
         \/ Timeout \/ GiveUp
  PROVE  OneAck'
<1> USE DEF contextVars, modemVars
<1>1. ~NoResponse.ack
  BY DEF NoResponse
<1>2. ASSUME NEW c \in Command, Refuse(c) PROVE OneAck'
  <2>1. \A d \in Command : Unsent(d)' => Unsent(d)
    BY <1>2 DEF Refuse, Unsent, ResultType
  <2>2. current = None /\ UNCHANGED <<sender, current, acked, response, modem, told>>
    BY <1>2 DEF Refuse, SenderType
  <2> QED BY <2>1, <2>2 DEF OneAck, AckLine
<1>3. ASSUME NEW c \in Command, Lock(c) PROVE OneAck'
  <2>1. modem = <<>> /\ \A i \in Place : ~AckLine(i)
    BY <1>3, AnswerLines DEF Lock, OneCommand
  <2>2. current = None /\ ~response.ack /\ Unsent(c)
    BY <1>1, <1>3 DEF Lock, SenderType
  <2>3. \A d \in Command : Unsent(d)' <=> Unsent(d)
    BY <1>3 DEF Lock, Unsent
  <2>4. \A d \in Command : Unsent(d) => acked[d] = 0
    BY <2>2, ChannelAssumption DEF OneAck
  <2> QED BY <1>3, <2>1, <2>2, <2>3, <2>4 DEF Lock, OneAck, AckLine
<1>4. CASE Write
  <2>1. \A i \in Place : ~AckLine(i)
    BY <1>4, AnswerLines DEF Write, OneCommand
  <2>2. current \in Command /\ ~response.ack
    BY <1>1, <1>4 DEF Write, SenderType
  <2>3. acked[current] = 0
    BY <1>4, <2>2, ChannelAssumption DEF Write, OneAck
  <2>4. \A d \in Command : Unsent(d)' <=> Unsent(d)
    BY <1>4 DEF Write, Unsent
  <2>5. (current # None => Unsent(current)) /\ UNCHANGED <<current, acked, response, told>>
        /\ sender' = "pending"
    BY <1>4 DEF Write, OneAck
  <2> QED BY <2>1, <2>2, <2>3, <2>4, <2>5 DEF OneAck, AckLine, Unsent
<1>5. CASE WriteFails
  BY <1>5, AckReturn DEF WriteFails, OneCommand
<1>6. CASE SetPending \/ WakeUp \/ Timeout
  <2>1. UNCHANGED <<current, result, acked, modem, told>> /\ sender' # "write"
    BY <1>6 DEF SetPending, WakeUp, Timeout
  <2>2. response' = response \/ ~response'.ack
    BY <1>1, <1>6 DEF SetPending, WakeUp, Timeout
  <2> QED BY <2>1, <2>2 DEF OneAck, AckLine, Unsent
<1>7. CASE WaitAgain
  <2>1. /\ UNCHANGED <<current, result, modem, told>> /\ sender' = "waiting"
        /\ current \in Command /\ ~response'.ack /\ response.ack \in BOOLEAN
        /\ acked' = [acked EXCEPT ![current] = IF response.ack THEN acked[current] + 1
                                                               ELSE acked[current]]
    BY <1>7 DEF WaitAgain, SenderType, Response
  <2>2. \A c \in Command : Unsent(c)' <=> Unsent(c)
    BY <2>1 DEF Unsent
  <2>3. CASE response.ack
    <3>1. /\ acked'[current] = 1 /\ \A c \in Command : c # current => acked'[c] = acked[c]
      BY <2>1, <2>3 DEF ResultType, OneAck
    <3>2. ~(modem # <<>> /\ told = {}) /\ \A i \in Place : ~AckLine(i)
      BY <2>3 DEF OneAck
    <3> QED BY <2>1, <2>2, <3>1, <3>2 DEF OneAck, AckLine, Unsent
  <2>4. CASE ~response.ack
    <3>1. \A c \in Command : acked'[c] = acked[c]
      BY <2>1, <2>4 DEF ResultType
    <3> QED BY <2>1, <2>2, <2>4, <3>1 DEF OneAck, AckLine, Unsent
  <2> QED BY <2>3, <2>4
<1>8. CASE Finish
  <2>1. modem = <<>> /\ \A i \in Place : ~Answers(i)
    BY <1>8 DEF Finish, OneCommand
  <2> QED BY <1>8, <2>1, AckReturn DEF Finish
<1>9. CASE GiveUp
  BY <1>9, AckKept DEF GiveUp
<1> QED BY <1>2, <1>3, <1>4, <1>5, <1>6, <1>7, <1>8, <1>9

LEMMA AckModem ==
  ASSUME LineType, OneCommand, OneAck, Modem
  PROVE  OneAck'
<1>1. UNCHANGED <<sender, current, result, acked, response, line>>
  BY DEF Modem, commandVars, contextVars
<1>2. ASSUME NEW k \in {"ack", "info", "ok", "error"}, modem # <<>>,
             Send(<<[kind |-> k, cmd |-> Head(modem)]>>),
             k = "ack" => told = {},
             modem' = <<>> \/ told' # {}
      PROVE  OneAck'
  <2> DEFINE l == [kind |-> k, cmd |-> Head(modem)]
  <2>0. Head(modem) \in Command
    BY <1>2 DEF LineType
  <2>1. l \in Line /\ l.kind = k /\ Send(<<l>>)
    BY <1>2, <2>0, LineKinds
  <2> HIDE DEF l
  <2>2. /\ \A i \in Place : i \in Place' /\ Pipe'[i] = Pipe[i]
        /\ \A i \in Place' : i \in Place \/ (i = Len(Pipe) + 1 /\ Pipe'[i] = l)
    BY <1>1, <2>1, OneLineAdded
  <2>3. CASE k = "ack"
    <3>1. acked[current] = 0 /\ ~response.ack /\ \A i \in Place : ~AckLine(i)
      BY <1>2, <2>3 DEF OneAck
    <3>2. \A i \in Place' : AckLine(i)' => i = Len(Pipe) + 1
      BY <2>2, <3>1 DEF AckLine
    <3>3. \A i, j \in Place' : AckLine(i)' /\ AckLine(j)' => i = j
      BY <3>2
    <3> QED BY <1>1, <1>2, <3>1, <3>3 DEF OneAck, Unsent
  <2>4. CASE k # "ack"
    <3>1. \A i \in Place' : AckLine(i)' => i \in Place /\ AckLine(i)
      BY <2>1, <2>2, <2>4 DEF AckLine
    <3> QED BY <1>1, <1>2, <3>1 DEF OneAck, Unsent
  <2> QED BY <2>3, <2>4
<1>3. CASE ModemAck
  BY <1>2, <1>3 DEF ModemAck
<1>4. CASE ModemInfo
  BY <1>2, <1>4 DEF ModemInfo
<1>5. CASE ModemFinal
  <2>1. PICK k \in {"ok", "error"} : Send(<<[kind |-> k, cmd |-> Head(modem)]>>)
    BY <1>5 DEF ModemFinal
  <2>2. modem # <<>> /\ modem' = <<>>
    BY <1>5, SingleModem DEF ModemFinal, OneCommand
  <2> QED BY <1>2, <2>1, <2>2
<1>6. CASE ModemUrc
  <2>1. /\ \A i \in Place : i \in Place' /\ Pipe'[i] = Pipe[i]
        /\ \A i \in Place' : i \in Place \/ (Pipe'[i].cmd = None /\ Pipe'[i] \in Line)
    BY <1>1, <1>6, UrcAdded
  <2>2. \A i \in Place' : AckLine(i)' => i \in Place /\ AckLine(i)
    BY <2>1, LineIs DEF AckLine
  <2>3. UNCHANGED <<modem, told>>
    BY <1>6 DEF ModemUrc
  <2> QED BY <1>1, <2>2, <2>3 DEF OneAck, Unsent
<1> QED BY <1>3, <1>4, <1>5, <1>6 DEF Modem

\* The reader takes lines away, and may find the acknowledgement.
LEMMA AckTaken ==
  ASSUME OneAck, NEW n \in Nat, Taken(n),
         UNCHANGED <<sender, current, result, acked, modem, told>>,
         response'.ack = response.ack \/ (n = 1 /\ 1 \in Place /\ AckLine(1))
  PROVE  OneAck'
<1>1. \A i \in Place' : i \in Nat \ {0} /\ i + n \in Place /\ Pipe'[i] = Pipe[i + n]
  BY DEF Taken, Place
<1>2. \A i \in Place' : AckLine(i)' <=> AckLine(i + n)
  BY <1>1 DEF AckLine
<1>3. \A i, j \in Place' : AckLine(i)' /\ AckLine(j)' => i = j
  <2> SUFFICES ASSUME NEW i \in Place', NEW j \in Place', AckLine(i)', AckLine(j)'
               PROVE  i = j
    OBVIOUS
  <2>1. i + n = j + n
    BY <1>1, <1>2 DEF OneAck
  <2> QED BY <1>1, <2>1
<1>4. CASE response'.ack = response.ack
  BY <1>1, <1>2, <1>3, <1>4 DEF OneAck, Unsent
<1>5. CASE n = 1 /\ 1 \in Place /\ AckLine(1)
  <2>1. acked[current] = 0 /\ ~(modem # <<>> /\ told = {})
    BY <1>5 DEF OneAck
  <2>2. \A i \in Place' : ~AckLine(i)'
    <3> SUFFICES ASSUME NEW i \in Place', AckLine(i)' PROVE FALSE
      OBVIOUS
    <3>1. i + 1 = 1
      BY <1>1, <1>2, <1>5 DEF OneAck
    <3> QED BY <1>1, <3>1
  <2> QED BY <1>3, <2>1, <2>2 DEF OneAck, Unsent
<1> QED BY <1>4, <1>5

LEMMA AckStep ==
  ASSUME SenderType, ResultType, LineType, LineType', SmsPaired, OneCommand, OneAck,
         [Next]_vars, ~reset'
  PROVE  OneAck'
<1>1. CASE Modem
  BY <1>1, AckModem
<1>2. CASE ProcessLine
  <2>1. /\ Taken(1) /\ Pipe[1] = line /\ 1 \in Place
        /\ UNCHANGED <<sender, current, result, acked, modem, told>>
    BY <1>2, LineTaken DEF ProcessLine, commandVars, modemVars
  <2>2. response'.ack = response.ack \/ AckLine(1)
    BY <1>2, <2>1 DEF ProcessLine, PassOn, StoreAck, StoreInfo, StoreFinal, contextVars, SenderType,
       Response, AckLine
  <2> QED BY <2>1, <2>2, AckTaken
<1>3. CASE ProcessSms
  BY <1>3, SmsTaken, AckTaken DEF ProcessSms, commandVars, contextVars, modemVars
<1>4. CASE /\ Pipe' = Pipe /\ Place' = Place
           /\ UNCHANGED <<sender, current, result, acked, response, modem, told>>
  BY <1>4, AckKept
<1>5. CASE /\ Pipe' = Pipe /\ Place' = Place
           /\ \/ \E c \in Command : Refuse(c) \/ Lock(c)
              \/ Write \/ WriteFails \/ SetPending \/ WakeUp \/ WaitAgain \/ Finish
              \/ Timeout \/ GiveUp
  BY <1>5, AckSender
<1> QED
  BY <1>1, <1>2, <1>3, <1>4, <1>5, PipeStep
  DEF Next, vars, commandVars, contextVars, modemVars, ReadLine, ReadFails
-----------------------------------------------------------------------------
(* What is returned and what is passed on.                                 *)
LEMMA RecordStep ==
  ASSUME SenderType, ResultType, LineType, LineType', SmsPaired, OneCommand, RightFinal,
         NoStrayAnswer, [Next]_vars, ~reset, ~reset'
  PROVE  RightFinal' /\ NoStrayAnswer'
<1> USE DEF commandVars, contextVars, modemVars, readerVars
<1>1. ASSUME UNCHANGED <<result, stray>> PROVE RightFinal' /\ NoStrayAnswer'
  BY <1>1 DEF RightFinal, NoStrayAnswer
<1>2. ASSUME NEW c \in Command, Refuse(c) PROVE RightFinal' /\ NoStrayAnswer'
  <2>1. \A d \in Command : result'[d].final = result[d].final
    BY <1>2 DEF Refuse, ResultType, Result
  <2> QED BY <1>2, <2>1 DEF Refuse, RightFinal, NoStrayAnswer
<1>3. ASSUME NEW error, Return(error), UNCHANGED stray PROVE RightFinal' /\ NoStrayAnswer'
  <2>1. \A c \in Command : result'[c].final = IF c = current THEN response.final
                                                             ELSE result[c].final
    BY <1>3 DEF Return, ResultType
  <2>2. response.final \in {current, None}
    BY DEF OneCommand
  <2> QED BY <1>3, <2>1, <2>2 DEF RightFinal, NoStrayAnswer
<1>4. CASE ProcessSms
  BY <1>1, <1>4, SmsTaken DEF ProcessSms
<1>5. CASE ProcessLine
  <2>1. /\ 1 \in Place /\ Pipe[1] = line /\ line \in Line /\ UNCHANGED result
    BY <1>5, LineTaken DEF ProcessLine
  <2>2. CASE UNCHANGED stray
    BY <1>1, <2>1, <2>2
  <2>3. CASE PassOn(line) /\ line \in Answer /\ stray' # stray
    <3>1. Answers(1) /\ line.cmd = current /\ line.kind \notin {"same", "urc", "sms", "pdu"}
      BY <2>1, <2>3, ChannelAssumption DEF Answers, OneCommand, Answer
    <3>2. type = "REQUEST"
      <4>1. sender \in {"idle", "waiting"} /\ (type = "REQUEST" \/ sender # "waiting")
        BY <1>5, NoneAssumption DEF ProcessLine, SenderType
      <4>2. sender # "idle"
        BY <2>1, <3>1 DEF OneCommand
      <4> QED BY <4>1, <4>2
    <3>3. line.kind = "info" /\ ~TakesInfo(line)
      BY <1>5, <2>3, <3>1, <3>2 DEF ProcessLine
    <3>4. Info[current] # "NO_RESULT" /\ Info[current] # "MULTILINE"
      BY <2>1, <3>1, <3>3 DEF OneCommand, TakesInfo
    <3>5. Info[line.cmd] = "SINGLELINE"
      BY <3>1, <3>4, <2>3, ChannelAssumption DEF Answer
    <3> QED BY <2>1, <2>3, <3>3, <3>5 DEF PassOn, RightFinal, NoStrayAnswer
  <2>4. CASE PassOn(line) /\ line \notin Answer
    BY <1>1, <2>1, <2>4 DEF PassOn
  <2> QED BY <1>5, <2>2, <2>3, <2>4 DEF ProcessLine
<1> QED
  BY <1>1, <1>2, <1>3, <1>4, <1>5
  DEF Next, vars, Lock, Write, WriteFails, SetPending, WakeUp, WaitAgain, Finish, Timeout, GiveUp,
      Modem, ReadLine, ReadFails
-----------------------------------------------------------------------------
LEMMA AnswerInvAlways == Spec => [](AnswerInv /\ TypeOK)
<1>1. Init => AnswerInv
  <2> SUFFICES ASSUME Init PROVE AnswerInv
    OBVIOUS
  <2>1. Place = {}
    BY DEF Init, Place, Pipe, PipeOf
  <2>2. OneCommand
    BY <2>1 DEF Init, OneCommand, NoResponse
  <2>3. OneAck
    BY <2>1 DEF Init, OneAck, NoResponse
  <2> QED BY <2>1, <2>2, <2>3 DEF Init, AnswerInv, SmsPaired, RightFinal, NoStrayAnswer
<1>2. TypeOK /\ TypeOK' /\ AnswerInv /\ [Next]_vars => AnswerInv'
  <2> SUFFICES ASSUME SenderType, ResultType, LineType, LineType', AnswerInv, [Next]_vars
               PROVE  AnswerInv'
    <3>1. TypeOK' <=> SenderType' /\ ResultType' /\ LineType'
      BY DEF TypeOK, SenderType, ResultType, LineType
    <3> QED BY <3>1, TypeParts
  <2>1. SmsPaired'
    BY SmsStep DEF AnswerInv
  <2>2. reset => reset'
    BY DEF Next, vars, commandVars, Refuse, Lock, Write, WriteFails, SetPending, WakeUp, WaitAgain,
       Finish, Timeout, GiveUp, Modem, ReadLine, ReadFails, ProcessSms, ProcessLine
  <2>3. ASSUME ~reset'
        PROVE  OneCommand' /\ OneAck' /\ RightFinal' /\ NoStrayAnswer'
    BY <2>2, <2>3, CommandStep, AckStep, RecordStep DEF AnswerInv
  <2> QED BY <2>1, <2>3 DEF AnswerInv
<1> QED BY <1>1, <1>2, ChannelTypeCorrect, PTL DEF Spec

(* A command returns its own final response or none, unless an earlier one *)
(* was given up and the modem is being reset: while atSendCommand waits,   *)
(* the only final line that can come is that of the command it wrote.      *)
THEOREM RightFinalAlways == Spec => []RightFinal
<1>1. AnswerInv => RightFinal
  BY DEF AnswerInv, RightFinal
<1> QED BY <1>1, AnswerInvAlways, PTL

(* RfxReader passes no answer of the modem on as unsolicited, but for the  *)
(* intermediate line of a single-line command that already has one.        *)
THEOREM NoStrayAnswerAlways == Spec => []NoStrayAnswer
<1>1. AnswerInv => NoStrayAnswer
  BY DEF AnswerInv, NoStrayAnswer
<1> QED BY <1>1, AnswerInvAlways, PTL

(* The framework hears of an acknowledgement at most once per request: the *)
(* sender takes it out of the response in the hold of m_commandMutex in    *)
(* which it reports it.                                                    *)
THEOREM AckOnceAlways == Spec => []AckOnce
<1>1. AnswerInv => AckOnce
  BY DEF AnswerInv, OneAck, AckOnce
<1> QED BY <1>1, AnswerInvAlways, PTL
=============================================================================
