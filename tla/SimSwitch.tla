------------------------------ MODULE SimSwitch ------------------------------
(***************************************************************************)
(* Switching the SIM that has the main protocol stack                      *)
(* (mdcomm/capabilityswitch): the sender thread of a slot's CMD_9 channel  *)
(* stops the other channels, tells the modem (AT+ESIMMAP) and exchanges    *)
(* the devices and the readers of the channels, so that each slot keeps    *)
(* its channels while the modem's devices change places. A modem that      *)
(* need not be reset says +ESIMMAP on a URC channel, and the sender thread *)
(* of that channel exchanges the URC and the CMD_11 channels.              *)
(***************************************************************************)
EXTENDS Naturals, Sequences

CONSTANTS
  Slots,        \* RfxRilUtils::getSimCount()
  Busy,         \* bound: channels on which messages and lines come
  MaxSwitch,    \* bound: switches
  Switcher,     \* the switching thread
  None

\* The channels of a slot; CMD_1 stands for all that are treated as it is.
URC == 0
CMD_1 == 1
CMD_9 == 2
CMD_11 == 3
Offset == 4     \* RIL_CHANNEL_OFFSET

Slot == 0 .. Slots - 1
Channel == 0 .. Offset * Slots - 1
OfClass(k) == {ch \in Channel : ch % Offset = k}
UrcChannel == OfClass(URC)

ASSUME SwitchAssumption ==
  /\ Slots \in Nat \ {0}
  /\ Busy \subseteq Channel
  /\ MaxSwitch \in Nat
  /\ None \notin Channel
  /\ Switcher \notin Channel

\* The threads that lock channels other than their own: the switching one and
\* the senders of the URC channels.
Worker == {Switcher} \union UrcChannel

VARIABLES
  noReset,      \* isDssNoResetSupport(): fixed by the build
  halted,       \* resetRadio: rild is started again
  major,        \* RFX_STATUS_KEY_MAIN_CAPABILITY_SLOT
  flag,         \* RFX_STATUS_KEY_CAPABILITY_SWITCH_URC_CHANNEL
  fd,           \* the device a channel's sender writes to
  reader,       \* the device its RfxReader reads
  context,      \* the channel, and RfxChannelContext, of the reader of a device
  need,         \* m_needWaitRestartCondition, per channel
  restart,      \* m_restartMutex is locked
  readerLock,   \* m_readerMutex is locked
  sender,       \* what a channel's sender does
  reading,      \* devices whose reader has locked m_readerMutex for a line
  work,         \* where each worker is, and the channels it has left
  own,          \* channel of the switching thread
  old, new,     \* old_major_slot, new_major_slot
  mapUrc,       \* +ESIMMAP lines that wait for the sender of a URC channel
  switches      \* switches started

buildVars == <<noReset, halted>>
statusVars == <<major, flag>>
pathVars == <<fd, reader, context>>
lockVars == <<need, restart, readerLock, sender>>
switchVars == <<own, old, new, switches>>
vars == <<buildVars, statusVars, pathVars, lockVars, reading, work, switchVars, mapUrc>>

\* The modem's devices are named after the channels they serve when slot 0 has
\* the main protocol; the slot that has it exchanges them with slot 0.
Exchange(f, a, b) == [f EXCEPT ![a] = f[b], ![b] = f[a]]
PathFor(m) == [ch \in Channel |->
  LET s == ch \div Offset IN
  (ch % Offset) + Offset * (IF s = m THEN 0 ELSE IF s = 0 THEN m ELSE s)]

Idle == [step |-> "idle", todo |-> {}, old |-> 0, new |-> 0]

TypeOK ==
  /\ noReset \in BOOLEAN /\ halted \in BOOLEAN
  /\ major \in Slot /\ flag \in BOOLEAN
  /\ fd \in [Channel -> Channel]
  /\ reader \in [Channel -> Channel]
  /\ context \in [Channel -> Channel]
  /\ need \in [Channel -> BOOLEAN]
  /\ restart \in [Channel -> BOOLEAN]
  /\ readerLock \in [Channel -> BOOLEAN]
  /\ sender \in [Channel -> {"idle", "handling", "waiting", "woken"}]
  /\ reading \subseteq Channel
  /\ work \in [Worker ->
       [step : {"idle", "efun", "need", "restart", "reader", "esimmap", "wait",
                "prop", "sim", "swap", "free", "entered", "readers", "freeReaders"},
        todo : SUBSET Channel, old : Slot, new : Slot]]
  /\ own \in Channel \union {None}
  /\ old \in Slot /\ new \in Slot
  /\ mapUrc \in [UrcChannel -> Seq(Slot)]
  /\ switches \in 0 .. MaxSwitch

\* RfxChannelManager::initMuxPath: the property names the slot with the main
\* protocol, and the handlers' constructor makes the status agree with it.
Init ==
  /\ noReset \in BOOLEAN
  /\ halted = FALSE
  /\ major \in Slot
  /\ flag = FALSE
  /\ fd = PathFor(major)
  /\ reader = fd
  /\ context = [d \in Channel |-> CHOOSE ch \in Channel : reader[ch] = d]
  /\ need = [ch \in Channel |-> FALSE]
  /\ restart = [ch \in Channel |-> FALSE]
  /\ readerLock = [ch \in Channel |-> FALSE]
  /\ sender = [ch \in Channel |-> "idle"]
  /\ reading = {}
  /\ work = [w \in Worker |-> Idle]
  /\ own = None
  /\ old = 0 /\ new = 0
  /\ mapUrc = [u \in UrcChannel |-> <<>>]
  /\ switches = 0
-----------------------------------------------------------------------------
(* RfxSender::processMessage on every channel.                              *)

\* It locks m_restartMutex and handles a message.
TakeMessage(ch) ==
  /\ sender[ch] = "idle"
  /\ ~restart[ch]
  /\ restart' = [restart EXCEPT ![ch] = TRUE]
  /\ sender' = [sender EXCEPT ![ch] = "handling"]

Handle(ch) ==
  /\ ch \in Busy
  /\ TakeMessage(ch)
  /\ UNCHANGED <<buildVars, statusVars, pathVars, need, readerLock, reading, work,
                 switchVars, mapUrc>>

\* "Wait Capability switch finish": the wait releases m_restartMutex.
Done(ch) ==
  /\ restart' = [restart EXCEPT ![ch] = FALSE]
  /\ sender' = [sender EXCEPT ![ch] = IF need[ch] THEN "waiting" ELSE "idle"]

Finish(ch) ==
  /\ sender[ch] = "handling"
  /\ ch # own
  /\ ch \in UrcChannel => work[ch].step = "idle"
  /\ Done(ch)
  /\ UNCHANGED <<buildVars, statusVars, pathVars, need, readerLock, reading, work,
                 switchVars, mapUrc>>

\* The wait ends, with a signal or without one, and the mutex is locked again.
Spurious(ch) ==
  /\ sender[ch] = "waiting"
  /\ sender' = [sender EXCEPT ![ch] = "woken"]
  /\ UNCHANGED <<buildVars, statusVars, pathVars, need, restart, readerLock, reading, work,
                 switchVars, mapUrc>>

Resume(ch) ==
  /\ sender[ch] = "woken"
  /\ ~restart[ch]
  /\ sender' = [sender EXCEPT ![ch] = "idle"]
  /\ UNCHANGED <<buildVars, statusVars, pathVars, need, restart, readerLock, reading, work,
                 switchVars, mapUrc>>

(* RfxReader::readerLoop: m_readerMutex of the reader's context is held while *)
(* a line is processed, and what is unlocked is that of its context by then.  *)
Read(d) ==
  /\ d \notin reading
  /\ ~readerLock[context[d]]
  /\ reading' = reading \union {d}
  /\ readerLock' = [readerLock EXCEPT ![context[d]] = TRUE]
  /\ IF context[d] = own
       THEN work[Switcher].step = "wait" /\ work' = [work EXCEPT ![Switcher].step = "prop"]
       ELSE context[d] \in Busy /\ UNCHANGED work
  /\ UNCHANGED <<buildVars, statusVars, pathVars, need, restart, sender, switchVars, mapUrc>>

Release(d) ==
  /\ d \in reading
  /\ reading' = reading \ {d}
  /\ readerLock' = [readerLock EXCEPT ![context[d]] = FALSE]
  /\ UNCHANGED <<buildVars, statusVars, pathVars, need, restart, sender, work, switchVars,
                 mapUrc>>
-----------------------------------------------------------------------------
(* lockRestartMutex and unlockRestartMutex on the worker's next channel: the *)
(* channels are visited by their numbers, URC channels after all others. The *)
(* steps of the first that may block are actions of their own.               *)
Turn(ch) == IF ch % Offset = URC THEN ch + Offset * Slots ELSE ch
First(todo) == CHOOSE ch \in todo : \A other \in todo : Turn(ch) <= Turn(other)
Next1(w) == First(work[w].todo)
Later(w) == [work[w] EXCEPT !.todo = @ \ {Next1(w)}]

SetNeed(w) ==
  /\ work[w].step = "need" /\ work[w].todo # {}
  /\ need' = [need EXCEPT ![Next1(w)] = TRUE]
  /\ work' = [work EXCEPT ![w].step = "restart"]
  /\ UNCHANGED <<buildVars, statusVars, pathVars, restart, readerLock, sender, reading,
                 switchVars, mapUrc>>

\* Mutant: the switch does not wait for the sender's message.
LockRestartAnyway(w) == work[w].step = "restart"
  /\ restart' = [restart EXCEPT ![Next1(w)] = TRUE]
  /\ work' = [work EXCEPT ![w].step = "reader"]
  /\ UNCHANGED <<buildVars, statusVars, pathVars, need, readerLock, sender, reading,
                 switchVars, mapUrc>>

LockRestart(w) ==
  /\ work[w].step = "restart"
  /\ ~restart[Next1(w)]
  /\ restart' = [restart EXCEPT ![Next1(w)] = TRUE]
  /\ work' = [work EXCEPT ![w].step = "reader"]
  /\ UNCHANGED <<buildVars, statusVars, pathVars, need, readerLock, sender, reading,
                 switchVars, mapUrc>>

\* Mutant: the reader is not stopped.
LockReaderAnyway(w) == work[w].step \in {"reader", "readers"} /\ work[w].todo # {}
  /\ readerLock' = [readerLock EXCEPT ![Next1(w)] = TRUE]
  /\ work' = [work EXCEPT ![w] = IF @.step = "reader" THEN [Later(w) EXCEPT !.step = "need"]
                                                     ELSE Later(w)]
  /\ UNCHANGED <<buildVars, statusVars, pathVars, need, restart, sender, reading,
                 switchVars, mapUrc>>

LockReader(w) ==
  /\ work[w].step \in {"reader", "readers"} /\ work[w].todo # {}
  /\ ~readerLock[Next1(w)]
  /\ readerLock' = [readerLock EXCEPT ![Next1(w)] = TRUE]
  /\ work' = [work EXCEPT ![w] = IF @.step = "reader" THEN [Later(w) EXCEPT !.step = "need"]
                                                     ELSE Later(w)]
  /\ UNCHANGED <<buildVars, statusVars, pathVars, need, restart, sender, reading,
                 switchVars, mapUrc>>

Woken(ch) == [sender EXCEPT ![ch] = IF @ = "waiting" THEN "woken" ELSE @]

\* Mutant: m_restartCondition is not signalled.
UnlockQuietly(w) == work[w].step = "free" /\ work[w].todo # {}
  /\ need' = [need EXCEPT ![Next1(w)] = FALSE]
  /\ readerLock' = [readerLock EXCEPT ![Next1(w)] = FALSE]
  /\ restart' = [restart EXCEPT ![Next1(w)] = FALSE]
  /\ work' = [work EXCEPT ![w] = Later(w)]
  /\ UNCHANGED <<buildVars, statusVars, pathVars, sender, reading, switchVars, mapUrc>>

Unlock(w) ==
  /\ work[w].step = "free" /\ work[w].todo # {}
  /\ need' = [need EXCEPT ![Next1(w)] = FALSE]
  /\ readerLock' = [readerLock EXCEPT ![Next1(w)] = FALSE]
  /\ sender' = Woken(Next1(w))
  /\ restart' = [restart EXCEPT ![Next1(w)] = FALSE]
  /\ work' = [work EXCEPT ![w] = Later(w)]
  /\ UNCHANGED <<buildVars, statusVars, pathVars, reading, switchVars, mapUrc>>

\* Mutant: only the exchange from the old main slot to slot 0.
SwitchHalf(k, o, n) ==
  LET b == k + o * Offset
  IN IF o = n THEN UNCHANGED pathVars
     ELSE /\ fd' = Exchange(fd, k, b) /\ reader' = Exchange(reader, k, b)
          /\ context' = Exchange(context, reader[k], reader[b])

\* Mutant: the readers keep their contexts.
SwitchPaths(k, o, n) ==
  LET To(f, s) == Exchange(f, k, k + s * Offset)
  IN IF o = n THEN UNCHANGED pathVars
     ELSE fd' = To(To(fd, o), n) /\ reader' = To(To(reader, o), n) /\ UNCHANGED context

\* switchChannel: the main protocol's device goes from slot o to slot 0 and
\* from slot 0 to slot n.
SwitchChannel(k, o, n) ==
  LET To(f, s) == Exchange(f, k, k + s * Offset)
      ContextTo(c, r, s) == Exchange(c, r[k], r[k + s * Offset])
  IN IF o = n THEN UNCHANGED pathVars
     ELSE /\ fd' = To(To(fd, o), n)
          /\ reader' = To(To(reader, o), n)
          /\ context' = ContextTo(ContextTo(context, reader, o), To(reader, o), n)
-----------------------------------------------------------------------------
(* RmcCapabilitySwitchRequestHandler::requestSetRadioCapability.            *)

\* The channels it locks and unlocks.
Plain(ch) == ch # own /\ ch % Offset # URC /\ ~(noReset /\ ch % Offset = CMD_11)
Locked == {ch \in Channel : Plain(ch)} \union (IF noReset THEN {} ELSE OfClass(URC))
At(step) == work[Switcher].step = step
To(step, todo) == work' = [work EXCEPT ![Switcher].step = step, ![Switcher].todo = todo]

Start ==
  /\ own = None
  /\ switches < MaxSwitch
  /\ \E s \in Slot : own' = CMD_9 + s * Offset
  /\ TakeMessage(own')
  /\ old' = major
  /\ new' \in Slot
  /\ switches' = switches + 1
  /\ To("efun", {})
  /\ UNCHANGED <<buildVars, statusVars, pathVars, need, readerLock, reading, mapUrc>>

\* AT+EFUN=0 fails: the request is answered with an error, nothing is locked.
EfunFails ==
  /\ At("efun")
  /\ Done(own)
  /\ own' = None
  /\ To("idle", {})
  /\ UNCHANGED <<buildVars, statusVars, pathVars, need, readerLock, reading, old, new,
                 switches, mapUrc>>

EfunDone ==
  /\ At("efun")
  /\ To("need", Locked)
  /\ UNCHANGED <<buildVars, statusVars, pathVars, lockVars, reading, switchVars, mapUrc>>

\* The URC channels are exchanged at once, or left to the +ESIMMAP handler.
LocksDone ==
  /\ At("need") /\ work[Switcher].todo = {}
  /\ IF noReset THEN flag' = TRUE /\ UNCHANGED pathVars
                ELSE SwitchChannel(URC, old, new) /\ UNCHANGED flag
  /\ To("esimmap", {})
  /\ UNCHANGED <<buildVars, major, lockVars, reading, switchVars, mapUrc>>

\* AT+ESIMMAP, sent until it succeeds, and AT+CSRA: the answer is one line of
\* the own channel. The modem says +ESIMMAP on one or more URC channels.
Esimmap ==
  /\ At("esimmap")
  /\ To("wait", {})
  /\ \E where \in SUBSET UrcChannel :
       /\ where # {} <=> noReset
       /\ mapUrc' = [u \in UrcChannel |-> IF u \in where THEN Append(mapUrc[u], new)
                                                        ELSE mapUrc[u]]
  /\ UNCHANGED <<buildVars, statusVars, pathVars, lockVars, reading, switchVars>>

Classes == IF noReset THEN {CMD_1, CMD_9} ELSE {CMD_1, CMD_9, CMD_11}

\* Mutant: the status gets the number of the property, which counts from 1.
SetSimSwitchFromOne == At("prop") /\ major' = new + 1
  /\ (IF noReset THEN To("sim", {}) ELSE To("swap", Classes))
  /\ UNCHANGED <<buildVars, flag, pathVars, lockVars, reading, switchVars, mapUrc>>

SetSimSwitchProp ==
  /\ At("prop")
  /\ major' = new
  /\ IF noReset THEN To("sim", {}) ELSE To("swap", Classes)
  /\ UNCHANGED <<buildVars, flag, pathVars, lockVars, reading, switchVars, mapUrc>>

\* waitSIMInitDone: every SIM is initialised within 5 s, or the radio is reset
\* and the handler returns with everything locked.
SimInitDone ==
  /\ At("sim")
  /\ To("swap", Classes)
  /\ UNCHANGED <<buildVars, statusVars, pathVars, lockVars, reading, switchVars, mapUrc>>

SimInitTimeout ==
  /\ At("sim")
  /\ halted' = TRUE
  /\ UNCHANGED <<noReset, statusVars, pathVars, lockVars, reading, work, switchVars, mapUrc>>

Swap ==
  /\ At("swap") /\ work[Switcher].todo # {}
  /\ SwitchChannel(Next1(Switcher), old, new)
  /\ To("swap", work[Switcher].todo \ {Next1(Switcher)})
  /\ UNCHANGED <<buildVars, statusVars, lockVars, reading, switchVars, mapUrc>>

Free ==
  /\ At("swap") /\ work[Switcher].todo = {}
  /\ To("free", Locked)
  /\ UNCHANGED <<buildVars, statusVars, pathVars, lockVars, reading, switchVars, mapUrc>>

Reply ==
  /\ At("free") /\ work[Switcher].todo = {}
  /\ Done(own)
  /\ own' = None
  /\ To("idle", {})
  /\ UNCHANGED <<buildVars, statusVars, pathVars, need, readerLock, reading, old, new,
                 switches, mapUrc>>
-----------------------------------------------------------------------------
(* RmcCapabilitySwitchURCHandler::handleSimSwitchUrc on URC channel u.      *)
UrcStep(u, step, todo) == [work EXCEPT ![u].step = step, ![u].todo = todo]

\* It reads the old main slot before it looks at the flag.
Entered(u) ==
  /\ mapUrc[u] # <<>>
  /\ TakeMessage(u)
  /\ mapUrc' = [mapUrc EXCEPT ![u] = Tail(@)]
  /\ work' = [work EXCEPT ![u] = [step |-> "entered", todo |-> {}, old |-> major,
                                  new |-> Head(mapUrc[u])]]
  /\ UNCHANGED <<buildVars, statusVars, pathVars, need, readerLock, reading, switchVars>>

CheckIfSwitch(u) ==
  /\ work[u].step = "entered"
  /\ flag' = FALSE
  /\ work' = IF flag THEN UrcStep(u, "readers", OfClass(URC)) ELSE [work EXCEPT ![u] = Idle]
  /\ UNCHANGED <<buildVars, major, pathVars, lockVars, reading, switchVars, mapUrc>>

SwapUrc(u) ==
  /\ work[u].step = "readers" /\ work[u].todo = {}
  /\ SwitchChannel(URC, work[u].old, work[u].new)
  /\ work' = UrcStep(u, "need", OfClass(CMD_11))
  /\ UNCHANGED <<buildVars, statusVars, lockVars, reading, switchVars, mapUrc>>

SwapCmd11(u) ==
  /\ work[u].step = "need" /\ work[u].todo = {}
  /\ SwitchChannel(CMD_11, work[u].old, work[u].new)
  /\ work' = UrcStep(u, "free", OfClass(CMD_11))
  /\ UNCHANGED <<buildVars, statusVars, lockVars, reading, switchVars, mapUrc>>

FreeReaders(u) ==
  /\ work[u].step = "free" /\ work[u].todo = {}
  /\ work' = UrcStep(u, "freeReaders", OfClass(URC))
  /\ UNCHANGED <<buildVars, statusVars, pathVars, lockVars, reading, switchVars, mapUrc>>

UnlockReader(u) ==
  /\ work[u].step = "freeReaders"
  /\ IF work[u].todo = {}
       THEN work' = [work EXCEPT ![u] = Idle] /\ UNCHANGED readerLock
       ELSE /\ work' = [work EXCEPT ![u] = Later(u)]
            /\ readerLock' = [readerLock EXCEPT ![Next1(u)] = FALSE]
  /\ UNCHANGED <<buildVars, statusVars, pathVars, need, restart, sender, reading, switchVars,
                 mapUrc>>
-----------------------------------------------------------------------------
Senders == \E ch \in Channel : Handle(ch) \/ Finish(ch) \/ Spurious(ch) \/ Resume(ch)
Readers == \E d \in Channel : Read(d) \/ Release(d)
Locking(w) == SetNeed(w) \/ LockRestart(w) \/ LockReader(w) \/ Unlock(w)
Switching ==
  \/ EfunFails \/ EfunDone \/ LocksDone \/ Esimmap \/ SetSimSwitchProp
  \/ SimInitDone \/ SimInitTimeout \/ Swap \/ Free \/ Reply
HandleUrc(u) ==
  \/ CheckIfSwitch(u) \/ SwapUrc(u) \/ SwapCmd11(u) \/ FreeReaders(u) \/ UnlockReader(u)

Next ==
  /\ ~halted
  /\ \/ Senders \/ Readers
     \/ Start \/ Switching
     \/ \E u \in UrcChannel : Entered(u) \/ HandleUrc(u)
     \/ \E w \in Worker : Locking(w)

\* A message is handled in finite time and the modem answers. A blocking lock
\* is not starved by threads that take the mutex over and over: messages and
\* lines come with pauses.
Fairness ==
  /\ WF_vars(~halted /\ Switching)
  /\ WF_vars(~halted /\ \E u \in UrcChannel : HandleUrc(u))
  /\ \A ch \in Busy : WF_vars(~halted /\ Finish(ch)) /\ SF_vars(~halted /\ Resume(ch))
  /\ WF_vars(~halted /\ \E d \in Channel : Release(d))
  /\ SF_vars(~halted /\ \E d \in Channel : context[d] = own /\ Read(d))
  /\ \A w \in Worker : SF_vars(~halted /\ Locking(w))

Spec == Init /\ [][Next]_vars
FairSpec == Spec /\ Fairness
-----------------------------------------------------------------------------
\* Nobody is about to exchange channels.
Settled == own = None /\ (\A w \in Worker : work[w].step = "idle")
             /\ (\A u \in UrcChannel : mapUrc[u] = <<>>)

\* A channel writes to the device its reader reads, and that reader stores the
\* lines in the channel's context: switchChannelByRealId keeps the three in step.
Paired == \A ch \in Channel : reader[ch] = fd[ch] /\ context[reader[ch]] = ch

\* When no switch runs, every channel that the switching thread exchanges is on
\* the device of its slot's protocol.
PathFollowsMajor ==
  own = None /\ ~halted =>
    \A ch \in Channel : \/ noReset /\ ch % Offset \in {URC, CMD_11}
                        \/ fd[ch] = PathFor(major)[ch]

\* A sender's device does not change under it while it handles a message: the
\* answer would come to another channel. (The URC senders are not stopped
\* when the modem is not reset.)
FdStable ==
  [][\A ch \in Channel :
       \/ sender[ch] # "handling" \/ ch = own
       \/ noReset /\ ch % Offset = URC
       \/ fd'[ch] = fd[ch]]_vars

\* Nor does the context under a reader that processes a line, save that of the
\* switching thread's channel, which is not locked.
ContextStable ==
  [][\A d \in reading : context[d] = own \/ context'[d] = context[d]]_vars

\* The reader of the switching thread's channel unlocks m_readerMutex of its
\* context; if the exchange came first, that is another channel's.
Orphaned ==
  /\ own = None /\ \A w \in Worker : work[w].step = "idle"
  /\ \E ch \in Channel : readerLock[ch] /\ \A d \in reading : context[d] # ch

\* A sender stopped by a switch goes on after it, unless the radio is reset or
\* a reader is locked out.
SendersResume ==
  \A ch \in Busy : sender[ch] = "waiting" ~> sender[ch] = "idle" \/ halted \/ Orphaned

\* switchChannel's comments: "Switch main protocol channel from old main slot
\* to slot 0", "from 0 to new main slot id". So every channel of the main slot
\* is on the main protocol's device once the switch and the URC are handled.
AllFollowMajor == Settled /\ ~halted => fd = PathFor(major)

\* RmcCommSimUrcHandler: "We have to notify the capability switch module the
\* event and the proxy channels will unlock". So no reader is locked out of a
\* channel after the switch.
ProxyChannelsUnlock == noReset /\ Settled => ~Orphaned
=============================================================================
