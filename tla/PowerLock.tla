----------------------------- MODULE PowerLock -----------------------------
(***************************************************************************)
(* Who may switch the radios and the modem off (telcore/power, telcore/wp, *)
(* telcore/capabilityswitch). Four controllers of the main thread share    *)
(* two status keys: MODEM_OFF_STATE says which of them has the modem, and  *)
(* a RADIO_LOCK per slot which of them has its radio. A controller looks   *)
(* at the keys when a message comes, takes them, sends a request to MCL    *)
(* and gives them back when the response comes; what it may not handle is  *)
(* suspended until it may (RfxRequest), so here it is handled at any time  *)
(* its guard allows.                                                       *)
(***************************************************************************)
EXTENDS Naturals, Sequences, FiniteSets

CONSTANTS
  Slots,          \* RfxRilUtils::getSimCount()
  ModemRequest,   \* modem power requests of RILJ, each sent at most once
  Op,             \* and which request each one is
  Budget,         \* bound: radio power requests, sessions, world mode URCs
  MaxRetry,       \* WP_COMMAND_MAX_RETRY_COUNT
  None

Slot == 0 .. Slots - 1

ASSUME PowerAssumption ==
  /\ Slots \in Nat \ {0}
  /\ Op \in [ModemRequest -> {"POWERON", "POWEROFF", "RESET_RADIO"}]
  /\ Budget \in [radio : Nat, session : Nat, urc : Nat]
  /\ MaxRetry \in Nat
  /\ "MAJOR_SIM" \notin ModemRequest
  /\ None \notin BOOLEAN

VARIABLES
  off,            \* RFX_STATUS_KEY_MODEM_OFF_STATE
  lock,           \* RFX_STATUS_KEY_RADIO_LOCK of each slot
  modemOff,       \* RFX_STATUS_KEY_MODEM_POWER_OFF
  hadOff,         \* RFX_STATUS_KEY_HAD_POWER_OFF_MD
  power,          \* RFX_STATUS_KEY_REQUEST_RADIO_POWER of each slot
  booted,         \* the card types are known: BOOT_TURN_ON_RADIO was sent
  crossed,        \* the slot whose RADIO_LOCK it took from another one, if any
  asked,          \* the RADIO_POWER of RILJ that waits, per slot
  sent,           \* modem requests RILJ has sent, handled or not
  radio,          \* radio requests in MCL, per slot: who sent them
  cmd9,           \* requests for the CMD_9 channel of the main slot
  answers,        \* its responses on their way to the main thread
  count,          \* m_request_count
  toApply,        \* slots whose APPLY is still to come in this session
  urcs,           \* world mode URCs not handled yet
  pendedByCall,   \* the world mode change waits for a call to end
  worldMode,      \* RFX_STATUS_KEY_WORLD_MODE_STATE
  closeCount,     \* closeRadioCount
  backup,         \* backupRadioPower
  resuming,       \* WORLD_MODE_RESUMING requests in MCL
  retries,        \* mRetryResumeCount
  timer,          \* mWpTimerHandle
  left            \* what is left of Budget

keyVars == <<off, lock>>
modemVars == <<modemOff, hadOff>>
bootVars == <<booted, crossed>>
radioVars == <<asked, power, radio, bootVars>>
simVars == <<count, toApply>>
channelVars == <<cmd9, answers>>
wpVars == <<urcs, pendedByCall, worldMode, closeCount, backup, resuming, retries, timer>>
vars == <<keyVars, modemVars, radioVars, sent, simVars, channelVars, wpVars, left>>

\* A request in MCL: of RILJ or of the boot, or of RtcWpController with its
\* action (wpOff) or without one (wpOn).
Sender == {"rilj", "boot", "wpOff", "wpOn"}
Answer == [req : ModemRequest \union {"MAJOR_SIM"}, ok : BOOLEAN]

TypeOK ==
  /\ off \in {"IDLE", "POWER_OFF", "SIM_SWITCH", "RESET_RADIO", "WORLD_PHONE"}
  /\ lock \in [Slot -> {"IDLE", "RADIO", "WORLD_MODE", "SIM_SWITCH"}]
  /\ modemOff \in BOOLEAN /\ hadOff \in BOOLEAN /\ booted \in BOOLEAN
  /\ crossed \in SUBSET Slot
  /\ power \in [Slot -> BOOLEAN] /\ backup \in [Slot -> BOOLEAN]
  /\ asked \in [Slot -> BOOLEAN \union {None}]
  /\ sent \in SUBSET ModemRequest
  /\ radio \in [Slot -> Seq(Sender)]
  /\ cmd9 \in Seq(ModemRequest \union {"MAJOR_SIM"})
  /\ answers \in Seq(Answer)
  /\ count \in 0 .. Slots - 1
  /\ toApply \in SUBSET Slot
  /\ urcs \in 0 .. Budget.urc
  /\ pendedByCall \in BOOLEAN /\ timer \in BOOLEAN
  /\ worldMode \in {"START", "END"}
  /\ closeCount \in 0 .. Slots - 1
  /\ resuming \in Nat
  /\ retries \in 0 .. MaxRetry
  /\ left \in [radio : 0 .. Budget.radio, session : 0 .. Budget.session, urc : 0 .. Budget.urc]

Init ==
  /\ off = "IDLE"
  /\ lock = [s \in Slot |-> "IDLE"]
  /\ modemOff = FALSE /\ hadOff = FALSE /\ booted = FALSE /\ crossed = {}
  /\ power = [s \in Slot |-> FALSE] /\ backup = [s \in Slot |-> FALSE]
  /\ asked = [s \in Slot |-> None]
  /\ sent = {}
  /\ radio = [s \in Slot |-> <<>>]
  /\ cmd9 = <<>> /\ answers = <<>>
  /\ count = 0 /\ toApply = {}
  /\ urcs = 0
  /\ pendedByCall = FALSE /\ timer = FALSE
  /\ worldMode = "END"
  /\ closeCount = 0
  /\ resuming = 0 /\ retries = 0
  /\ left = Budget

AllLocks(k) == [s \in Slot |-> k]
LockedAll(k) == \A s \in Slot : lock[s] = k
Spend(what) == left[what] > 0 /\ left' = [left EXCEPT ![what] = @ - 1]
-----------------------------------------------------------------------------
(* RtcRadioController                                                       *)

\* onSimStateChanged of the last slot whose card type comes: it sends
\* BOOT_TURN_ON_RADIO with the lock, whoever has the lock and the modem.
Boot(s) ==
  /\ ~booted
  /\ booted' = TRUE
  /\ crossed' = IF lock[s] = "IDLE" THEN crossed ELSE crossed \union {s}
  /\ lock' = [lock EXCEPT ![s] = "RADIO"]
  /\ radio' = [radio EXCEPT ![s] = Append(@, "boot")]
  /\ UNCHANGED <<off, modemVars, asked, power, sent, simVars, channelVars, wpVars, left>>

AskRadio(s) ==
  /\ asked[s] = None
  /\ Spend("radio")
  /\ \E on \in BOOLEAN : asked' = [asked EXCEPT ![s] = on]
  /\ UNCHANGED <<keyVars, modemVars, power, radio, bootVars, sent, simVars, channelVars, wpVars>>

\* Mutant: the lock is not looked at.
AlwaysHandleRadio(s) == asked[s] # None

\* canHandleRequest, for a RADIO_POWER of RILJ.
CanHandleRadio(s) == asked[s] # None /\ lock[s] = "IDLE"

\* requestRadioPower. Once a POWEROFF came, RILJ is answered and the lock kept.
\* (MODEM_POWER_OFF it looks up among the slot's keys, where nobody sets it.)
RequestRadioPower(s) ==
  /\ CanHandleRadio(s)
  /\ lock' = [lock EXCEPT ![s] = "RADIO"]
  /\ asked' = [asked EXCEPT ![s] = None]
  /\ IF hadOff
       THEN UNCHANGED <<power, radio>>
       ELSE /\ power' = [power EXCEPT ![s] = asked[s]]
            /\ radio' = [radio EXCEPT ![s] = Append(@, "rilj")]
  /\ UNCHANGED <<off, modemVars, bootVars, sent, simVars, channelVars, wpVars, left>>

\* Mutant: the world mode change resumes with the first radio that is off.
RadioOffDoneEarly(s) == lock' = [lock EXCEPT ![s] = "WORLD_MODE"]
  /\ closeCount' = 0 /\ resuming' = resuming + 1

\* RtcWpController::onRequestRadioOffDone.
RadioOffDone(s) ==
  /\ lock' = [lock EXCEPT ![s] = "WORLD_MODE"]
  /\ IF closeCount + 1 = Slots
       THEN closeCount' = 0 /\ resuming' = resuming + 1
       ELSE closeCount' = closeCount + 1 /\ UNCHANGED resuming

\* handleRadioPowerResponse, of a success or of an error: the lock is given
\* back, and the action of the request runs in the same handler.
RadioPowerResponse(s) ==
  /\ radio[s] # <<>>
  /\ radio' = [radio EXCEPT ![s] = Tail(@)]
  /\ IF Head(radio[s]) = "wpOff"
       THEN RadioOffDone(s)
       ELSE lock' = [lock EXCEPT ![s] = "IDLE"] /\ UNCHANGED <<closeCount, resuming>>
  /\ UNCHANGED <<off, modemVars, asked, power, bootVars, sent, simVars, channelVars, urcs,
                 pendedByCall, worldMode, backup, retries, timer, left>>

\* Its retry after OEM_ERROR_1 or REQUEST_NOT_SUPPORTED.
RadioPowerRetry(s) ==
  /\ radio[s] # <<>>
  /\ lock' = [lock EXCEPT ![s] = "RADIO"]
  /\ radio' = [radio EXCEPT ![s] = Append(Tail(@), Head(@))]
  /\ UNCHANGED <<off, modemVars, asked, power, bootVars, sent, simVars, channelVars, wpVars, left>>

\* moduleRequestRadioPower for every slot, from RtcWpController: the lock is
\* taken, whoever has it, and the request is sent, even to a modem that is off
\* (again MODEM_POWER_OFF of the slot is looked up).
ModuleRequest(who) ==
  /\ lock' = AllLocks("RADIO")
  /\ radio' = [s \in Slot |-> Append(radio[s], who)]
-----------------------------------------------------------------------------
(* RtcModemController, and RmcModemRequestHandler on CMD_9.                 *)

\* Mutant: MODEM_OFF_STATE is not looked at.
AlwaysHandleModem == TRUE

CanHandleModem == off \in {"IDLE", "POWER_OFF"}

Forward(r) == cmd9' = Append(cmd9, r)

\* onHandleRequest. POWERON leaves the key alone, and a second RESET_RADIO, or
\* one during a POWEROFF, is dropped.
HandleModemRequest(r) ==
  /\ CanHandleModem
  /\ r \notin sent
  /\ sent' = sent \union {r}
  /\ \/ /\ Op[r] = "POWERON"
        /\ Forward(r)
        /\ UNCHANGED <<off, hadOff>>
     \/ /\ Op[r] = "POWEROFF"
        /\ off' = "POWER_OFF"
        /\ hadOff' = TRUE
        /\ IF modemOff THEN UNCHANGED cmd9 ELSE Forward(r)
     \/ /\ Op[r] = "RESET_RADIO"
        /\ off' = IF off = "IDLE" THEN "RESET_RADIO" ELSE off
        /\ IF off = "IDLE" THEN Forward(r) ELSE UNCHANGED cmd9
        /\ UNCHANGED hadOff
  /\ UNCHANGED <<lock, modemOff, radioVars, simVars, answers, wpVars, left>>

\* responseModemPower. REQUEST_NOT_SUPPORTED has it sent again, unless the
\* modem is off by now; of RESET_RADIO, RILJ gets every response.
ModemResponse ==
  /\ answers # <<>> /\ Head(answers).req # "MAJOR_SIM"
  /\ answers' = Tail(answers)
  /\ LET r == Head(answers).req
     IN IF Head(answers).ok
          THEN /\ off' = IF Op[r] = "RESET_RADIO" THEN off ELSE "IDLE"
               /\ UNCHANGED cmd9
          ELSE /\ IF Op[r] = "POWERON" \/ (Op[r] = "POWEROFF" /\ ~modemOff)
                    THEN Forward(r) ELSE UNCHANGED cmd9
               /\ UNCHANGED off
  /\ UNCHANGED <<lock, modemVars, radioVars, sent, simVars, wpVars, left>>

\* RESET_RADIO first powers the modem off, if it is on.
ModemGoesOff ==
  /\ cmd9 # <<>> /\ Head(cmd9) # "MAJOR_SIM"
  /\ Op[Head(cmd9)] = "RESET_RADIO" /\ ~modemOff
  /\ modemOff' = TRUE
  /\ UNCHANGED <<keyVars, hadOff, radioVars, sent, simVars, channelVars, wpVars, left>>

\* A request on CMD_9 is executed, or nobody is registered for it yet. The new
\* power state overtakes the response (a STATUS_SYNC message).
Reply(ok) == cmd9' = Tail(cmd9) /\ answers' = Append(answers, [req |-> Head(cmd9), ok |-> ok])

ModemAnswers ==
  /\ cmd9 # <<>> /\ Head(cmd9) # "MAJOR_SIM"
  /\ \/ /\ Op[Head(cmd9)] = "RESET_RADIO" => modemOff
        /\ modemOff' = (Op[Head(cmd9)] = "POWEROFF")
        /\ Reply(TRUE)
     \/ Reply(FALSE) /\ UNCHANGED modemOff
  /\ UNCHANGED <<keyVars, hadOff, radioVars, sent, simVars, wpVars, left>>

\* RmcCapabilitySwitchRequestHandler (SimSwitch) on the same channel.
SimSwitchAnswers(ok) ==
  /\ cmd9 # <<>> /\ Head(cmd9) = "MAJOR_SIM"
  /\ Reply(ok)
  /\ UNCHANGED <<keyVars, modemVars, radioVars, sent, simVars, wpVars, left>>
-----------------------------------------------------------------------------
(* RtcCapabilitySwitchController                                            *)

MajorSimInMcl ==
  \/ \E i \in 1 .. Len(cmd9) : cmd9[i] = "MAJOR_SIM"
  \/ \E i \in 1 .. Len(answers) : answers[i].req = "MAJOR_SIM"

\* Mutant: only MODEM_OFF_STATE is looked at.
ReadyIgnoringLocks(start) == start => off \in {"IDLE", "SIM_SWITCH"}

\* isReadyForMessage, for a START or an APPLY. (Nobody sets
\* CAPABILITY_SWITCH_WAIT_MODULE; no emergency call.)
IsReady(start) ==
  /\ \A s \in Slot : lock[s] \in {"IDLE", "SIM_SWITCH"}
  /\ start => off \in {"IDLE", "SIM_SWITCH"}

\* START of slot 0. RILJ may start a session again while the APPLYs of the last
\* one are missing, not while SET_MAJOR_SIM is executed.
StartSession ==
  /\ ~MajorSimInMcl
  /\ IsReady(TRUE)
  /\ Spend("session")
  /\ IF off = "IDLE"
       THEN off' = "SIM_SWITCH" /\ lock' = AllLocks("SIM_SWITCH")
       ELSE UNCHANGED keyVars
  /\ count' = 0
  /\ toApply' = Slot
  /\ UNCHANGED <<modemVars, radioVars, sent, channelVars, wpVars>>

\* Mutant: m_request_count is not reset.
CountOn(s) == count' = count + 1 /\ (IF count + 1 = Slots THEN Forward("MAJOR_SIM") ELSE UNCHANGED cmd9)

Count(s) ==
  IF count + 1 = Slots
    THEN count' = 0 /\ Forward("MAJOR_SIM")
    ELSE count' = count + 1 /\ UNCHANGED cmd9

\* APPLY of slot s; the last one sends SET_MAJOR_SIM.
Apply(s) ==
  /\ s \in toApply
  /\ IsReady(FALSE)
  /\ toApply' = toApply \ {s}
  /\ Count(s)
  /\ UNCHANGED <<keyVars, modemVars, radioVars, sent, answers, wpVars, left>>

\* Mutant: RADIO_LOCK is not given back.
UnlockModemOnly == off' = "IDLE" /\ UNCHANGED lock

Unlock == off' = "IDLE" /\ lock' = AllLocks("IDLE")

\* processSetMajorSimResponse: what fails is sent again.
MajorSimResponse ==
  /\ answers # <<>> /\ Head(answers).req = "MAJOR_SIM"
  /\ answers' = Tail(answers)
  /\ IF Head(answers).ok
       THEN /\ IF off = "SIM_SWITCH" THEN Unlock ELSE UNCHANGED keyVars
            /\ UNCHANGED cmd9
       ELSE Forward("MAJOR_SIM") /\ UNCHANGED keyVars
  /\ UNCHANGED <<modemVars, radioVars, sent, simVars, wpVars, left>>
-----------------------------------------------------------------------------
(* RtcWpController                                                          *)

\* The modem says +ECSRA.
ModemUrc ==
  /\ ~modemOff
  /\ Spend("urc")
  /\ urcs' = urcs + 1
  /\ UNCHANGED <<keyVars, modemVars, radioVars, sent, simVars, channelVars, pendedByCall,
                 worldMode, closeCount, backup, resuming, retries, timer>>

\* resumeWorldModeChangeWithRadioOff, requestRadioOff.
CloseRadios ==
  /\ worldMode' = "START"
  /\ backup' = power
  /\ ModuleRequest("wpOff")

\* onHandleUrc, if canhandleMessage: MODEM_OFF_STATE and every RADIO_LOCK are
\* taken. A call has the change wait until it has ended.
HandleUrc ==
  /\ urcs > 0
  /\ off = "IDLE" /\ LockedAll("IDLE")
  /\ urcs' = urcs - 1
  /\ off' = "WORLD_PHONE"
  /\ \/ /\ pendedByCall' = TRUE
        /\ lock' = AllLocks("WORLD_MODE")
        /\ UNCHANGED <<worldMode, backup, radio>>
     \/ CloseRadios /\ UNCHANGED pendedByCall
  /\ UNCHANGED <<modemVars, asked, power, bootVars, sent, simVars, channelVars, closeCount,
                 resuming, retries, timer, left>>

\* onCallCountChanged.
CallEnds ==
  /\ pendedByCall
  /\ pendedByCall' = FALSE
  /\ CloseRadios
  /\ UNCHANGED <<off, modemVars, asked, power, bootVars, sent, simVars, channelVars, urcs,
                 closeCount, resuming, retries, timer, left>>

\* processWorldModeResumingResponse of an error, with retries left.
ResumeFails ==
  /\ resuming > 0 /\ retries < MaxRetry
  /\ resuming' = resuming - 1
  /\ retries' = retries + 1
  /\ timer' = TRUE
  /\ UNCHANGED <<keyVars, modemVars, radioVars, sent, simVars, channelVars, urcs, pendedByCall,
                 worldMode, closeCount, backup, left>>

ResumeAgain ==
  /\ timer
  /\ timer' = FALSE
  /\ resuming' = resuming + 1
  /\ UNCHANGED <<keyVars, modemVars, radioVars, sent, simVars, channelVars, urcs, pendedByCall,
                 worldMode, closeCount, backup, retries, left>>

\* Mutant: MODEM_OFF_STATE is not reset.
KeepModem == UNCHANGED off

\* setBlockedWorldModeStatusKeyValue(WP_LOCK_IDLE), if the change has them all.
ReleaseModem ==
  off' = IF off = "WORLD_PHONE" /\ LockedAll("WORLD_MODE") THEN "IDLE" ELSE off

\* It succeeds, or the retries are used up: the radios get their power back.
\* (What RADIO_LOCK is meanwhile nobody sees.)
ResumeDone ==
  /\ resuming > 0
  /\ resuming' = resuming - 1
  /\ retries' = 0
  /\ timer' = FALSE
  /\ worldMode' = "END"
  /\ ReleaseModem
  /\ ModuleRequest("wpOn")
  /\ UNCHANGED <<modemVars, asked, power, bootVars, sent, simVars, channelVars, urcs,
                 pendedByCall, closeCount, backup, left>>
-----------------------------------------------------------------------------
Next ==
  \/ \E s \in Slot : \/ Boot(s) \/ AskRadio(s) \/ RequestRadioPower(s)
                     \/ RadioPowerResponse(s) \/ RadioPowerRetry(s) \/ Apply(s)
  \/ \E r \in ModemRequest : HandleModemRequest(r)
  \/ ModemResponse \/ ModemGoesOff \/ ModemAnswers
  \/ StartSession \/ MajorSimResponse \/ \E ok \in BOOLEAN : SimSwitchAnswers(ok)
  \/ ModemUrc \/ HandleUrc \/ CallEnds \/ ResumeFails \/ ResumeAgain \/ ResumeDone

\* The main thread and the MCL run, a call ends, RILJ applies what it started
\* and a request that is repeated succeeds in the end.
Fairness ==
  /\ \A s \in Slot :
       /\ SF_vars(RequestRadioPower(s))
       /\ SF_vars(RadioPowerResponse(s)) /\ WF_vars(Apply(s))
  /\ WF_vars(ModemResponse) /\ WF_vars(ModemAnswers) /\ WF_vars(MajorSimResponse)
  /\ SF_vars(SimSwitchAnswers(TRUE))
  /\ WF_vars(CallEnds) /\ WF_vars(ResumeFails \/ ResumeDone) /\ WF_vars(ResumeAgain)

Spec == Init /\ [][Next]_vars
FairSpec == Spec /\ Fairness
-----------------------------------------------------------------------------
\* A SIM switch lasts from START to the response of SET_MAJOR_SIM; a POWEROFF
\* until its response; a world mode change until the response of RESUMING.
SimSwitching == toApply # {} \/ MajorSimInMcl
PoweringOff ==
  \/ \E i \in 1 .. Len(cmd9) : cmd9[i] # "MAJOR_SIM" /\ Op[cmd9[i]] = "POWEROFF"
  \/ \E i \in 1 .. Len(answers) :
       answers[i].req # "MAJOR_SIM" /\ Op[answers[i].req] = "POWEROFF"
WorldModeChanging == pendedByCall \/ worldMode = "START"

\* "set modem off state as world phone, it is mux with sim switch and power"
\* (RtcWpController): whoever switches the modem off has the key all the while.
ModemOffMux ==
  /\ SimSwitching => off = "SIM_SWITCH"
  /\ PoweringOff => off = "POWER_OFF"
  /\ WorldModeChanging => off = "WORLD_PHONE"

\* The boot request takes a slot's RADIO_LOCK from the one who has it and, with
\* its response, gives it away: what the lock was to keep is lost on that slot,
\* and on that slot only.
Uncrossed == Slot \ crossed
RadioInMcl(s, who) == \E i \in 1 .. Len(radio[s]) : radio[s][i] = who

\* No radio is switched during a SIM switch: nobody's request is in MCL, and
\* nobody else's lock makes RILJ's requests pass.
NoRadioInSimSwitch ==
  SimSwitching => \A s \in Uncrossed : lock[s] = "SIM_SWITCH" /\ radio[s] = <<>>

\* The modem is told to go on with its change of world mode, once, only when
\* every radio has answered that it is off, and while none may be switched on.
RadiosOffFirst ==
  resuming > 0 \/ timer =>
    /\ resuming = IF timer THEN 0 ELSE 1
    /\ \A s \in Slot : ~RadioInMcl(s, "wpOff")
    /\ \A s \in Uncrossed : lock[s] = "WORLD_MODE" /\ radio[s] = <<>>

\* A slot's RADIO_LOCK is RtcRadioController's exactly while one request of the
\* slot is in MCL; but a request that comes after a POWEROFF is answered at
\* once and the lock stays.
LockIsRequest ==
  /\ \A s \in Uncrossed :
       /\ Len(radio[s]) <= 1
       /\ radio[s] # <<>> => lock[s] = "RADIO"
       /\ lock[s] = "RADIO" => radio[s] # <<>> \/ hadOff
  /\ \A s \in crossed : Len(radio[s]) <= 2

\* A RADIO_POWER of RILJ is not suspended for ever by a SIM switch, a world mode
\* change, the boot or another one, as long as the modem is not powered off.
RadioPowerHandled ==
  \A s \in Slot : asked[s] # None ~> asked[s] = None \/ hadOff

\* A SIM switch or a change of world mode gives the modem back, even one that
\* was suspended by a POWEROFF and comes when the modem is off. If the boot
\* request took its RADIO_LOCK, a change of world mode keeps the modem
\* (ReleaseModem), and a SIM switch when a RADIO_POWER took the lock for good.
ModemReleased ==
  /\ off = "SIM_SWITCH" ~> off = "IDLE" \/ (crossed # {} /\ hadOff)
  /\ off = "WORLD_PHONE" ~> off = "IDLE" \/ crossed # {}

\* moduleRequestRadioPower: "modemPowerOff, do not execute
\* moduleRequestRadioPower". So it sends no radio a request while the modem is
\* off, even after the one who switched it off is done.
NoRequestWhenOff ==
  [][modemOff /\ off = "IDLE" =>
       \A s \in Slot, who \in {"wpOff", "wpOn"} : RadioInMcl(s, who)' => RadioInMcl(s, who)]_vars
=============================================================================
