------------------------------ MODULE AtChannel ------------------------------
(***************************************************************************)
(* One AT channel (src/ril/fusion/mtk-ril/framework/core): the RfxSender   *)
(* thread writes a command and waits for its final response, the RfxReader *)
(* thread reads the modem's lines and either stores them in the pending    *)
(* RfxAtResponse or passes them on as unsolicited. The two share an        *)
(* RfxChannelContext: m_commandMutex, m_commandCondition, m_type and       *)
(* m_response. A line carries no identity of the command it answers: the   *)
(* model records it (cmd) for the properties, the code cannot see it.      *)
(***************************************************************************)
EXTENDS Naturals, Sequences

CONSTANTS
  Command,        \* the commands handlers send on this channel, each once
  Info,           \* AtCommandType: Info[c] says which intermediate lines fit
  None,
  MaxUrc,         \* bound: unsolicited lines the modem sends
  MaxSpurious     \* bound: wake-ups of the sender without a signal

ASSUME ChannelAssumption ==
  /\ None \notin Command
  /\ Info \in [Command -> {"NO_RESULT", "SINGLELINE", "MULTILINE"}]
  /\ MaxUrc \in Nat
  /\ MaxSpurious \in Nat

\* What the modem writes: answers to a command, and lines of its own. One of
\* these has the prefix of the pending command's intermediate lines ("same") or
\* another one ("urc"), or is a text message: a header "sms" and its "pdu".
Answer == [kind : {"ack", "info", "ok", "error"}, cmd : Command]
Line == Answer \union [kind : {"same", "urc", "sms", "pdu"}, cmd : {None}]
Own(kind) == [kind |-> kind, cmd |-> None]

\* None is neither a line nor the holder of the mutex.
ASSUME NoneAssumption == None \notin Line /\ None # "sender"

\* RfxAtResponse; final is the command whose final line it stored.
Response == [ack : BOOLEAN, info : Seq(Command \union {None}),
             final : Command \union {None}, success : BOOLEAN]
NoResponse == [ack |-> FALSE, info |-> <<>>, final |-> None, success |-> FALSE]

\* What atSendCommand has returned; "unsent" if nothing so far.
Result == [error : {"unsent", "none", "unavailable", "closed", "timeout", "invalid"},
           info : Seq(Command \union {None}), final : Command \union {None}]

VARIABLES
  userLoad,       \* isUserLoad() and not isInternalLoad(): fixed by the build
  halted,         \* the process has exited
  mutex,          \* the sender if it holds m_commandMutex
  sender,         \* what the sender is doing
  current,        \* the command it is sending
  type,           \* m_type
  response,       \* m_response
  signalled,      \* m_commandCondition was signalled since the sender waits
  result,         \* per command
  acked,          \* RFX_onRequestAck calls per command
  reset,          \* ril.muxreport asks for a reset of the modem
  modem,          \* commands the modem has received and not finished
  told,           \* lines it has sent for the first of them
  urcs,           \* lines of its own the modem has sent
  wire,           \* lines on their way to the reader
  line,           \* the line the reader holds
  stray,          \* answers passed on as URCs (history)
  spurious        \* wake-ups without a signal so far

commandVars == <<mutex, sender, current, result, acked, reset>>
contextVars == <<type, response, signalled>>
modemVars == <<modem, told, urcs>>
readerVars == <<wire, line, stray>>
vars == <<userLoad, halted, commandVars, contextVars, modemVars, readerVars, spurious>>

TypeOK ==
  /\ userLoad \in BOOLEAN /\ halted \in BOOLEAN
  /\ sender \in {"idle", "write", "pending", "waiting", "woken", "expired"}
  /\ current \in Command \union {None}
  /\ sender = "idle" <=> current = None
  /\ mutex = IF sender \in {"idle", "waiting"} THEN None ELSE "sender"
  /\ type = IF sender \in {"waiting", "woken", "expired"} THEN "REQUEST" ELSE "NONE"
  /\ response \in Response
  /\ type = "NONE" => response = NoResponse
  /\ signalled \in BOOLEAN
  /\ result \in [Command -> Result]
  /\ acked \in [Command -> Nat]
  /\ reset \in BOOLEAN
  /\ modem \in Seq(Command)
  /\ told \in SUBSET {"ack", "info"}
  /\ urcs \in 0 .. MaxUrc
  /\ wire \in Seq(Line)
  /\ line \in Line \union {None}
  /\ stray \in SUBSET Answer
  /\ spurious \in 0 .. MaxSpurious

Init ==
  /\ userLoad \in BOOLEAN
  /\ halted = FALSE
  /\ mutex = None
  /\ sender = "idle"
  /\ current = None
  /\ type = "NONE"
  /\ response = NoResponse
  /\ signalled = FALSE
  /\ result = [c \in Command |-> [error |-> "unsent", info |-> <<>>, final |-> None]]
  /\ acked = [c \in Command |-> 0]
  /\ reset = FALSE
  /\ modem = <<>>
  /\ told = {}
  /\ urcs = 0
  /\ wire = <<>>
  /\ line = None
  /\ stray = {}
  /\ spurious = 0
-----------------------------------------------------------------------------
(* The sender: RfxSender::atSendCommandFullAck and its callee.              *)

Unsent(c) == result[c].error = "unsent"

\* A modem that is off refuses most commands, before any lock is taken.
Refuse(c) ==
  /\ sender = "idle"
  /\ Unsent(c)
  /\ result' = [result EXCEPT ![c].error = "unavailable"]
  /\ UNCHANGED <<userLoad, halted, mutex, sender, current, acked, reset, contextVars,
                 modemVars, readerVars, spurious>>

\* m_commandMutex.lock(): the reader holds it only inside ProcessLine.
Lock(c) ==
  /\ sender = "idle"
  /\ Unsent(c)
  /\ sender' = "write"
  /\ mutex' = "sender"
  /\ current' = c
  /\ UNCHANGED <<userLoad, halted, result, acked, reset, contextVars, modemVars,
                 readerVars, spurious>>

\* Mutant: setType(NONE) is forgotten.
ReturnPending(error) == sender' = "idle" /\ mutex' = None /\ current' = None
  /\ response' = NoResponse /\ UNCHANGED type
  /\ result' = [result EXCEPT ![current] = [error |-> error, info |-> response.info,
                                            final |-> response.final]]

\* The function returns: nothing is pending, m_commandMutex is unlocked.
Return(error) ==
  /\ sender' = "idle"
  /\ mutex' = None
  /\ current' = None
  /\ type' = "NONE"
  /\ response' = NoResponse
  /\ result' = [result EXCEPT ![current] = [error |-> error, info |-> response.info,
                                            final |-> response.final]]

\* Mutant: the mutex is released between the write and the registration of the
\* pending response.
WriteUnlocked == sender = "write" /\ sender' = "pending" /\ mutex' = None
  /\ modem' = Append(modem, current)
  /\ UNCHANGED <<userLoad, halted, current, result, acked, reset, contextVars,
                 told, urcs, readerVars, spurious>>

\* writeline, which fails on a closed channel or a failing write.
Write ==
  /\ sender = "write"
  /\ sender' = "pending"
  /\ modem' = Append(modem, current)
  /\ UNCHANGED <<userLoad, halted, mutex, current, result, acked, reset, contextVars,
                 told, urcs, readerVars, spurious>>

WriteFails ==
  /\ sender = "write"
  /\ Return("closed")
  /\ UNCHANGED <<userLoad, halted, acked, reset, signalled, modemVars, readerVars,
                 spurious>>

\* setType, setResponse, and the wait, which releases m_commandMutex.
SetPending ==
  /\ sender = "pending"
  /\ type' = "REQUEST"
  /\ response' = NoResponse
  /\ sender' = "waiting"
  /\ mutex' = None
  /\ signalled' = FALSE
  /\ UNCHANGED <<userLoad, halted, current, result, acked, reset, modemVars,
                 readerVars, spurious>>

\* m_commandCondition.waitRelative returns 0 with m_commandMutex locked.
WakeUp ==
  /\ sender = "waiting"
  /\ \/ signalled /\ UNCHANGED spurious
     \/ ~signalled /\ spurious < MaxSpurious /\ spurious' = spurious + 1
  /\ sender' = "woken"
  /\ mutex' = "sender"
  /\ UNCHANGED <<userLoad, halted, current, result, acked, reset, contextVars,
                 modemVars, readerVars>>

\* Mutant: the acknowledgement stays in the response.
WaitAgainAcked == sender = "woken" /\ response.final = None
  /\ acked' = [acked EXCEPT ![current] = IF response.ack THEN @ + 1 ELSE @]
  /\ sender' = "waiting" /\ mutex' = None /\ signalled' = FALSE
  /\ UNCHANGED <<userLoad, halted, current, result, reset, type, response, modemVars,
                 readerVars, spurious>>

\* One turn of the loop: no final response yet, so the sender reports the
\* modem's acknowledgement and waits again.
WaitAgain ==
  /\ sender = "woken"
  /\ response.final = None
  /\ acked' = [acked EXCEPT ![current] = IF response.ack THEN @ + 1 ELSE @]
  /\ response' = [response EXCEPT !.ack = FALSE]
  /\ sender' = "waiting"
  /\ mutex' = None
  /\ signalled' = FALSE
  /\ UNCHANGED <<userLoad, halted, current, result, reset, type, modemVars,
                 readerVars, spurious>>

\* atSendCommandSinglelineAck: a success without an intermediate line is an error.
Finish ==
  /\ sender = "woken"
  /\ response.final # None
  /\ Return(IF Info[current] = "SINGLELINE" /\ response.success /\ response.info = <<>>
              THEN "invalid" ELSE "none")
  /\ UNCHANGED <<userLoad, halted, acked, reset, signalled, modemVars, readerVars,
                 spurious>>

\* Mutant: a timeout counts only before the acknowledgement.
TimeoutUnlessAcked == sender = "waiting" /\ acked[current] = 0
  /\ sender' = "expired" /\ mutex' = "sender"
  /\ UNCHANGED <<userLoad, halted, current, result, acked, reset, contextVars,
                 modemVars, readerVars, spurious>>

\* waitRelative returns -ETIMEDOUT, whatever was stored in the meantime.
Timeout ==
  /\ sender = "waiting"
  /\ sender' = "expired"
  /\ mutex' = "sender"
  /\ UNCHANGED <<userLoad, halted, current, result, acked, reset, contextVars,
                 modemVars, readerVars, spurious>>

\* Mutant: a build that should exit goes on.
GiveUpQuietly == sender = "expired" /\ Return("timeout") /\ reset' = (reset \/ userLoad)
  /\ UNCHANGED <<userLoad, halted, acked, signalled, modemVars, readerVars, spurious>>

\* A user build asks for a reset of the modem and goes on; any other one exits.
GiveUp ==
  /\ sender = "expired"
  /\ IF userLoad
       THEN Return("timeout") /\ reset' = TRUE /\ UNCHANGED <<halted, signalled>>
       ELSE halted' = TRUE
            /\ UNCHANGED <<mutex, sender, current, result, reset, contextVars>>
  /\ UNCHANGED <<userLoad, acked, modemVars, readerVars, spurious>>
-----------------------------------------------------------------------------
(* The modem: it answers the commands in the order it received them.       *)
Send(lines) == wire' = wire \o lines

ModemAck ==
  /\ modem # <<>> /\ told = {}
  /\ told' = {"ack"}
  /\ Send(<<[kind |-> "ack", cmd |-> Head(modem)]>>)
  /\ UNCHANGED <<modem, urcs>>

\* One intermediate line; a URC with its prefix stands for a second one.
ModemInfo ==
  /\ modem # <<>>
  /\ Info[Head(modem)] # "NO_RESULT"
  /\ "info" \notin told
  /\ told' = told \union {"info"}
  /\ Send(<<[kind |-> "info", cmd |-> Head(modem)]>>)
  /\ UNCHANGED <<modem, urcs>>

ModemFinal ==
  /\ modem # <<>>
  /\ modem' = Tail(modem)
  /\ told' = {}
  /\ \E k \in {"ok", "error"} : Send(<<[kind |-> k, cmd |-> Head(modem)]>>)
  /\ UNCHANGED urcs

ModemUrc ==
  /\ urcs < MaxUrc
  /\ urcs' = urcs + 1
  /\ \E lines \in {<<Own("same")>>, <<Own("urc")>>, <<Own("sms"), Own("pdu")>>} : Send(lines)
  /\ UNCHANGED <<modem, told>>

Modem ==
  /\ ModemAck \/ ModemInfo \/ ModemFinal \/ ModemUrc
  /\ UNCHANGED <<userLoad, halted, commandVars, contextVars, line, stray, spurious>>
-----------------------------------------------------------------------------
(* The reader: RfxReader::readerLoop.                                       *)

ReadLine ==
  /\ line = None
  /\ wire # <<>>
  /\ line' = Head(wire)
  /\ wire' = Tail(wire)
  /\ UNCHANGED <<userLoad, halted, commandVars, contextVars, modemVars, stray,
                 spurious>>

\* The channel is closed, as it is when the modem is reset: the process exits.
ReadFails ==
  /\ line # None => line.kind = "sms"
  /\ halted' = TRUE
  /\ UNCHANGED <<userLoad, commandVars, contextVars, modemVars, readerVars, spurious>>

\* The header of a text message and the line after it go on as one URC,
\* without m_commandMutex.
ProcessSms ==
  /\ line # None
  /\ line.kind = "sms"
  /\ wire # <<>>
  /\ stray' = stray \union ({line, Head(wire)} \intersect Answer)
  /\ wire' = Tail(wire)
  /\ line' = None
  /\ UNCHANGED <<userLoad, halted, commandVars, contextVars, modemVars, spurious>>

\* The intermediate lines the pending command's type takes.
TakesInfo(l) ==
  /\ l.kind \in {"info", "same"}
  /\ \/ Info[current] = "MULTILINE"
     \/ Info[current] = "SINGLELINE" /\ response.info = <<>>

\* handleUnsolicited, handleRequestAck, setIntermediates, handleFinalResponse.
PassOn(l) == stray' = stray \union ({l} \intersect Answer) /\ UNCHANGED contextVars
StoreAck == response' = [response EXCEPT !.ack = TRUE] /\ signalled' = TRUE
StoreInfo(l) == response' = [response EXCEPT !.info = Append(@, l.cmd)] /\ UNCHANGED signalled
\* Mutant: the final response is stored without a signal.
StoreFinalQuietly(l) == UNCHANGED signalled
  /\ response' = [response EXCEPT !.final = l.cmd, !.success = (l.kind = "ok")]

StoreFinal(l) ==
  /\ response' = [response EXCEPT !.final = l.cmd, !.success = (l.kind = "ok")]
  /\ signalled' = TRUE

\* RfxReader::processLine, under m_commandMutex.
ProcessLine ==
  /\ line # None
  /\ line.kind # "sms"
  /\ mutex = None
  /\ line' = None
  /\ \/ type = "NONE" /\ PassOn(line)
     \/ /\ type = "REQUEST"
        /\ \/ line.kind \in {"info", "same", "urc", "pdu"} /\ ~TakesInfo(line) /\ PassOn(line)
           \/ /\ \/ line.kind = "ack" /\ StoreAck
                 \/ TakesInfo(line) /\ StoreInfo(line)
                 \/ line.kind \in {"ok", "error"} /\ StoreFinal(line)
              /\ UNCHANGED <<type, stray>>
  /\ UNCHANGED <<userLoad, halted, commandVars, modemVars, wire, spurious>>
-----------------------------------------------------------------------------
Next ==
  /\ ~halted
  /\ \/ \E c \in Command : Refuse(c) \/ Lock(c)
     \/ Write \/ WriteFails \/ SetPending \/ WakeUp \/ WaitAgain \/ Finish
     \/ Timeout \/ GiveUp
     \/ Modem
     \/ ReadLine \/ ReadFails \/ ProcessSms \/ ProcessLine

\* The two threads run, and a wait with a timeout ends. The modem owes nothing.
Fairness ==
  /\ WF_vars(~halted /\ (Write \/ WriteFails \/ SetPending \/ WaitAgain \/ Finish \/ GiveUp))
  /\ WF_vars(~halted /\ (WakeUp \/ Timeout))
  /\ WF_vars(~halted /\ (ReadLine \/ ProcessSms)) /\ WF_vars(~halted /\ ProcessLine)

Spec == Init /\ [][Next]_vars
FairSpec == Spec /\ Fairness
-----------------------------------------------------------------------------
\* A command returns its own final response, unless an earlier one was given
\* up: its late answer is then taken for the next command's, and the modem is
\* being reset. (handleFinalResponse stores whatever final line comes.)
RightFinal == \A c \in Command : result[c].final \in {c, None} \/ reset

\* No answer of the modem goes astray: only the line of a single-line command
\* whose place a URC with the same prefix took is passed on as a URC.
NoStrayAnswer ==
  \A l \in stray :
    reset \/ (l.kind = "info" /\ Info[l.cmd] = "SINGLELINE")

\* While the sender waits for a final response that is already stored, its
\* wake-up is on its way: signal and wait are ordered by m_commandMutex.
NoLostSignal == sender = "waiting" /\ response.final # None => signalled

\* The framework hears of an acknowledgement at most once per request.
AckOnce == \A c \in Command : acked[c] <= 1 \/ reset

\* The sender thread is never stuck in a command: it returns, or the process
\* exits, whatever the modem does (m_atTimeoutMsec is 5 minutes by default).
EveryCommandReturns == sender # "idle" ~> sender = "idle" \/ halted
=============================================================================
