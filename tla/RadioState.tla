----------------------------- MODULE RadioState -----------------------------
(***************************************************************************)
(* The radio state of one slot, from the modem to RILJ, over the two       *)
(* copies of StatusSync.  The radio handler in MCL executes RADIO_POWER    *)
(* and the request of the boot on the slot's channel and sets RADIO_STATE  *)
(* from what it finds; the modem handler, on the channel of another slot,  *)
(* sets it when the modem goes off; RtcRadioController takes RADIO_LOCK    *)
(* for a request and sets REQUEST_RADIO_POWER; a SIM switch sets           *)
(* RADIO_STATE in TelCore.  A change of TelCore's copy is what libril and  *)
(* RILJ are told (setRadioState).                                          *)
(*                                                                         *)
(* Responses reach the main thread by a queue and a thread of their own,   *)
(* in no order with the values of the keys their handler set before.       *)
(***************************************************************************)
EXTENDS StatusSync

CONSTANTS
    Radio, Modem,   \* the two threads of MCL
    MaxRequests,    \* bound: RADIO_POWER requests of RILJ
    MaxFaults       \* bound: refused commands, SIM switches, the power-off

ASSUME RadioAssumption ==
    /\ Writer = {Radio, Modem} /\ Radio # Modem
    /\ Key = {"radio", "power"}
    /\ Value = {"UNSET", "UNAVAILABLE", "OFF", "ON"}
    /\ Request = {"POWER_ON", "POWER_OFF", "BOOT", "MODEM_OFF"}
    /\ NoKey = "none"
    /\ {MaxRequests, MaxFaults} \subseteq Nat

VARIABLES
    lock,       \* RADIO_LOCK: idle, radio or switch
    asked,      \* RILJ's requests that TelCore has not taken up yet
    retries,    \* requests to be repeated after RETRY_TIME_MS
    responses,  \* dispatchResponseQueue
    told,       \* s_radio_state of libril
    inbox,      \* the queues of the two channels
    job,        \* what the handler of a channel is at
    modem,      \* the modem: its radio, or POWERED_OFF
    once,       \* what happens once: init, boot, modemOff
    requests, faults    \* the bounded counters

radioVars == <<lock, asked, retries, responses, told, inbox, job, modem, once,
               requests, faults>>
vars == <<syncVars, radioVars>>

NoJob == [op |-> "none", at |-> FALSE, cur |-> "OFF", todo |-> <<>>, err |-> "ok"]
Job(op, cur) == [op |-> op, at |-> TRUE, cur |-> cur, todo |-> <<>>, err |-> "ok"]
Answer == [op : Request, err : {"ok", "failed", "retry"}]

TypeOK ==
    /\ SyncTypeOK
    /\ lock \in {"idle", "radio", "switch"}
    /\ asked \in Seq({"POWER_ON", "POWER_OFF"})
    /\ retries \in Seq({"POWER_ON", "POWER_OFF"})
    /\ responses \in Seq(Answer)
    /\ told \in {"UNAVAILABLE", "OFF", "ON"}
    /\ inbox \in [Writer -> Seq(Request)]
    /\ job \in [Writer -> [op : Request \cup {"none", "construct"}, at : BOOLEAN,
                           cur : {"UNAVAILABLE", "OFF", "ON"},
                           todo : Seq(Update), err : {"ok", "failed", "retry"}]]
    /\ modem \in {"OFF", "ON", "POWERED_OFF"}
    /\ once \subseteq {"init", "boot", "modemOff"}
    /\ requests \in 0..MaxRequests
    /\ faults \in 0..MaxFaults

\* rild has started; the constructor of the radio handler talks to the modem.
\* REQUEST_RADIO_POWER has its default, RADIO_STATE has none.
Init ==
    /\ SyncInit /\ tel = [k \in Key |-> IF k = "radio" THEN "UNSET" ELSE "OFF"]
    /\ lock = "idle"
    /\ asked = <<>> /\ retries = <<>> /\ responses = <<>>
    /\ told = "UNAVAILABLE"
    /\ inbox = [w \in Writer |-> <<>>]
    /\ job = [w \in Writer |-> IF w = Radio THEN Job("construct", "OFF") ELSE NoJob]
    /\ modem \in {"OFF", "ON"}
    /\ once = {}
    /\ requests = 0 /\ faults = 0

Once(step) == step \notin once /\ once' = once \cup {step}
Fault == faults < MaxFaults /\ faults' = faults + 1
telVars == <<inbox, job, modem, requests>>      \* what TelCore leaves alone
mclVars == <<lock, asked, retries, told, once, requests>>   \* and MCL

(***************************************************************************)
(* The main thread of TelCore.  A callback on a change runs before the     *)
(* main thread takes its next message.                                     *)
(***************************************************************************)
Running == "init" \in once

\* onRadioStateChanged: an ON nobody asked for is not passed on.
ToldAfter(old, new) ==
    IF \/ tel'["power"] = "OFF" /\ new = "ON" /\ old # "UNAVAILABLE"
       \/ new = old
    THEN told ELSE new

OnInitNoValue ==            \* Mutant: without a first value.
    /\ Once("init")
    /\ UNCHANGED <<syncVars, lock, asked, retries, responses, told, telVars, faults>>
\* The first value, before the controller registers its callback.
OnInit ==
    /\ Once("init")
    /\ TelSet("radio", "UNAVAILABLE", <<>>)
    /\ UNCHANGED <<lock, asked, retries, responses, told, telVars, faults>>

SyncArrives ==
    /\ Running
    /\ TelApply
    /\ told' = IF Head(syncQueue).key = "radio"
               THEN ToldAfter(tel["radio"], Head(syncQueue).value) ELSE told
    /\ UNCHANGED <<lock, asked, retries, responses, once, telVars, faults>>

Ask(request) ==
    /\ requests < MaxRequests
    /\ requests' = requests + 1
    /\ asked' = Append(asked, request)
    /\ UNCHANGED <<syncVars, lock, retries, responses, told, inbox, job, modem,
                   once, faults>>
\* requestRadioPower; while the lock is held requests are suspended. Once the
\* modem was to go off (HAD_POWER_OFF_MD) RILJ is answered and the lock stays.
RequestRadioPower ==
    /\ Running /\ lock = "idle" /\ asked # <<>>
    /\ lock' = "radio"
    /\ asked' = Tail(asked)
    /\ IF "modemOff" \in once
       THEN UNCHANGED syncVars
       ELSE TelSet("power", IF Head(asked) = "POWER_ON" THEN "ON" ELSE "OFF",
                   <<Carry(Head(asked))>>)
    /\ UNCHANGED <<retries, responses, told, once, telVars, faults>>
\* onSimStateChanged, when the types of all cards are known: whoever has the
\* lock.
BootRequest ==
    /\ Running /\ Once("boot")
    /\ lock' = "radio"
    /\ TelSend("BOOT")
    /\ UNCHANGED <<asked, retries, responses, told, telVars, faults>>
Retry ==
    /\ Running /\ retries # <<>>
    /\ retries' = Tail(retries)
    /\ TelSend(Head(retries))
    /\ UNCHANGED <<lock, asked, responses, told, once, telVars, faults>>

\* handleRadioPowerResponse, responseModemPower
HandleResponse ==
    /\ Running /\ responses # <<>>
    /\ responses' = Tail(responses)
    /\ LET answer == Head(responses) IN
       \/ /\ answer.op = "MODEM_OFF"
          /\ UNCHANGED <<lock, retries>>
       \/ /\ answer.op # "MODEM_OFF" /\ answer.err # "retry"
          /\ lock' = "idle" /\ UNCHANGED retries
       \/ /\ answer.err = "retry"
          /\ lock' = "radio" /\ retries' = Append(retries, answer.op)
    /\ UNCHANGED <<syncVars, asked, told, once, telVars, faults>>

\* A SIM switch of the build that resets the modem starts; if it fails the lock
\* is given back and the radio state stays, if not rild starts again.
StartSwitch ==
    /\ Running /\ lock = "idle" /\ Fault
    /\ lock' = "switch"
    /\ TelSet("radio", "UNAVAILABLE", <<>>)
    /\ told' = ToldAfter(tel["radio"], "UNAVAILABLE")
    /\ UNCHANGED <<asked, retries, responses, once, telVars>>
SwitchFails ==
    /\ Running /\ lock = "switch"
    /\ lock' = "idle"
    /\ UNCHANGED <<syncVars, asked, retries, responses, told, once, telVars, faults>>

\* MODEM_POWEROFF looks at no RADIO_LOCK.
RequestModemOff ==
    /\ Running /\ lock # "switch" /\ Once("modemOff") /\ Fault
    /\ TelSend("MODEM_OFF")
    /\ UNCHANGED <<lock, asked, retries, responses, told, telVars>>

(***************************************************************************)
(* MCL.                                                                    *)
(***************************************************************************)
Channel(r) == IF r = "MODEM_OFF" THEN Modem ELSE Radio
Dispatch ==
    /\ \/ MclApply /\ UNCHANGED inbox
       \/ \E r \in Request :
             /\ MclTake(r)
             /\ inbox' = [inbox EXCEPT ![Channel(r)] = Append(@, r)]
    /\ UNCHANGED <<mclVars, responses, job, modem, faults>>

\* A handler begins: the radio handler reads the state it may set again.
Begin(w) ==
    /\ job[w] = NoJob /\ inbox[w] # <<>>
    /\ inbox' = [inbox EXCEPT ![w] = Tail(@)]
    /\ job' = [job EXCEPT ![w] = Job(Head(inbox[w]), mcl["radio"])]
    /\ UNCHANGED <<syncVars, mclVars, responses, modem, faults>>

Finish(w, todo, err) ==
    job' = [job EXCEPT ![w].at = FALSE, ![w].todo = todo, ![w].err = err]
At(w, op) == job[w].at /\ job[w].op = op /\ UNCHANGED <<syncVars, mclVars, inbox, responses>>
SetRadio(v) == <<Sync("radio", v)>>

\* AT+EFUN=0 of the constructor (on the main slot).
Construct ==
    /\ At(Radio, "construct")
    /\ modem' \in {modem, "OFF"}
    /\ Finish(Radio, SetRadio("OFF"), "ok")
    /\ UNCHANGED faults
\* requestRadioPower: the command is executed.
PowerDone(on) ==
    /\ At(Radio, IF on THEN "POWER_ON" ELSE "POWER_OFF")
    /\ modem # "POWERED_OFF"
    /\ modem' = IF on THEN "ON" ELSE "OFF"
    /\ Finish(Radio, SetRadio(modem'), "ok")
    /\ UNCHANGED faults
\* It is refused: the state that was read is set again, unless the modem says
\* it is in another one, or the query fails, too.
PowerFails(op) ==
    /\ At(Radio, op)
    /\ op \in {"POWER_ON", "POWER_OFF"}
    /\ IF modem = "POWERED_OFF" THEN UNCHANGED faults ELSE Fault
    /\ UNCHANGED modem
    /\ LET cur == job[Radio].cur IN
       \/ Finish(Radio, SetRadio(cur), "failed")
       \/ Finish(Radio, <<>>, "failed")
       \/ modem # "POWERED_OFF" /\ Finish(Radio, SetRadio(cur), "retry")
       \/ modem = "OFF" /\ cur # "OFF" /\ Finish(Radio, SetRadio("OFF"), "ok")
       \/ modem = "ON" /\ cur = "OFF" /\ Finish(Radio, SetRadio("ON"), "ok")
\* Mutant: RADIO_STATE is set before REQUEST_RADIO_POWER.
BootStateFirst ==
    /\ At(Radio, "BOOT")
    /\ \/ Finish(Radio, SetRadio("OFF"), "failed") /\ UNCHANGED <<modem, faults>>
       \/ /\ modem # "POWERED_OFF" /\ modem' = "ON"
          /\ Finish(Radio, <<Sync("radio", "ON"), Sync("power", "ON")>>, "ok")
          /\ UNCHANGED faults
\* bootupSetRadioPower: in airplane mode, or with the slot off, or on, or refused.
BootDone ==
    /\ At(Radio, "BOOT")
    /\ \/ Finish(Radio, SetRadio("OFF"), "failed") /\ UNCHANGED <<modem, faults>>
       \/ /\ modem # "POWERED_OFF" /\ modem' = "OFF"
          /\ Finish(Radio, SetRadio("OFF"), "ok") /\ UNCHANGED faults
       \/ /\ modem # "POWERED_OFF" /\ modem' = "ON"
          /\ Finish(Radio, <<Sync("power", "ON"), Sync("radio", "ON")>>, "ok")
          /\ UNCHANGED faults
       \/ /\ UNCHANGED modem
          /\ IF modem = "POWERED_OFF" THEN UNCHANGED faults ELSE Fault
          /\ Finish(Radio, <<>>, "failed")
ModemOffDone ==
    /\ At(Modem, "MODEM_OFF")
    /\ modem' = "POWERED_OFF"
    /\ Finish(Modem, SetRadio("OFF"), "ok")
    /\ UNCHANGED faults

StoreOnly(w) ==           \* Mutant: the value is not sent to TelCore.
    /\ ~job[w].at /\ job[w].todo # <<>> /\ stored[w] = <<>>
    /\ mcl' = [mcl EXCEPT ![Head(job[w].todo).key] = Head(job[w].todo).value]
    /\ job' = [job EXCEPT ![w].todo = Tail(@)]
    /\ UNCHANGED <<tel, toMcl, stored, syncQueue, crossed>>
    /\ UNCHANGED <<mclVars, responses, inbox, modem, faults>>
Store(w) ==
    /\ ~job[w].at /\ job[w].todo # <<>>
    /\ MclStore(w, Head(job[w].todo).key, Head(job[w].todo).value)
    /\ job' = [job EXCEPT ![w].todo = Tail(@)]
    /\ UNCHANGED <<mclVars, responses, inbox, modem, faults>>
SendSync(w) ==
    /\ MclSend(w)
    /\ UNCHANGED radioVars
Reply(w) ==
    /\ job[w].op # "none" /\ ~job[w].at /\ job[w].todo = <<>> /\ stored[w] = <<>>
    /\ job' = [job EXCEPT ![w] = NoJob]
    /\ responses' = IF job[w].op = "construct" THEN responses
                    ELSE Append(responses, [op |-> job[w].op, err |-> job[w].err])
    /\ UNCHANGED <<syncVars, mclVars, inbox, modem, faults>>

TelCore == OnInit \/ SyncArrives \/ RequestRadioPower \/ BootRequest \/ Retry
           \/ HandleResponse \/ StartSwitch \/ SwitchFails \/ RequestModemOff
Handler(w) == Begin(w) \/ Store(w) \/ SendSync(w) \/ Reply(w)
Mcl == Dispatch \/ Construct \/ (\E on \in BOOLEAN : PowerDone(on))
       \/ (\E op \in Request : PowerFails(op)) \/ BootDone \/ ModemOffDone
       \/ (\E w \in Writer : Handler(w))
Rilj == \E request \in {"POWER_ON", "POWER_OFF"} : Ask(request)

Next == TelCore \/ Mcl \/ Rilj

Spec == Init /\ [][Next]_vars

(***************************************************************************)
(* Properties.                                                             *)
(***************************************************************************)
\* Nothing is asked for or on its way.
Quiet ==
    /\ Running /\ lock = "idle"
    /\ asked = <<>> /\ retries = <<>> /\ responses = <<>>
    /\ \A k \in Key : ~Up(k) /\ ~Down(k)
    /\ toMcl = <<>>
    /\ \A w \in Writer : job[w] = NoJob /\ inbox[w] = <<>>

\* The handlers, the controllers and the boot use the status keys as two sides
\* of StatusSync do, whatever else they wait for in between.
ImplementsSync == SyncSpec

\* What RILJ believes.  It never takes the radio for on when TelCore would refuse
\* its requests; and if the modem has refused nothing and is not powered off, it
\* knows the state once all is done, although an ON it did not ask for is kept
\* from it: late values and overtaking responses do not leave it at the old one.
RiljKnows ==
    /\ told = "ON" => tel["radio"] = "ON"
    /\ Quiet /\ faults = 0 => told = tel["radio"]
=============================================================================
