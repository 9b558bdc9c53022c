# A TLA+ development of the fusion RIL and the GNSS daemon

This directory holds TLA+ models of the core of MediaTek's "fusion" radio
interface layer (`src/ril/fusion/mtk-ril`) and of its GNSS daemon
(`src/connectivity/gps/mtk_mnld_5_5`), the TLC configurations that check them
and TLAPS proofs about them. The repository is a whole vendor tree of HALs and
daemons; these two are the parts whose own logic is concurrent: a dozen threads,
several queues, locks that are held over many messages, a modem or a positioning
engine at the other end that answers late, twice or not at all, and processes
that end and start again.

## 1. The system

### The fusion RIL

    RILJ, SAP, ATCI (clients)
       | enqueueRequestMessage                    ^ RFX_onRequestComplete
       v                                          |
    RfxDispatchThread: request, response, URC and status threads
       |                                          ^ enqueueResponseMessage
       v                                          | (matched with pendingQueue)
    RfxMainThread: RfxRootController, the RtcXxx controllers  (TelCore)
       | requestToMcl                             |
       v                                          |
    RfxMclDispatcherThread                        |
       | one looper per channel                   |
       v                                          |
    RfxSender of a channel: the RmcXxx handlers   (MCL, "mdcomm")
       | AT commands                              ^ lines
       v                                          |
    modem devices (one per channel)  ---------> RfxReader of a channel

| Component | State | Operations |
|---|---|---|
| Request path (`framework/core`) | dispatch queues, `pendingQueue`, main looper, suspended list, MCL looper, channel loopers | enqueue, dequeue, preview, suspend, resume, reject, forward, match the response, answer |
| Serialising controllers (`RtcDataAllowController` and others) | a flag for the request in flight | `onPreviewMessage`, `onHandleRequest`, `onHandleResponse`, `onCheckIfResumeMessage` |
| AT channel (`RfxSender`, `RfxReader`, `RfxChannelContext`) | `m_commandMutex`, `m_commandCondition`, `m_type`, `m_response` | send and wait, timeout, acknowledge; read, classify, store or pass on |
| SIM switch in MCL (`mdcomm/capabilityswitch`) | device, reader and context of every channel, restart and reader mutexes, main slot | stop the channels, tell the modem, exchange, start them again; the `+ESIMMAP` handler |
| Power, world mode and SIM switch in TelCore (`telcore/power`, `wp`, `capabilityswitch`) | `MODEM_OFF_STATE`, `RADIO_LOCK` per slot, counters, a retry timer | RADIO_POWER, POWERON, POWEROFF, RESET_RADIO, SET_RADIO_CAPABILITY, the world mode URC |
| Status managers | two copies of every status key | set, notify, STATUS_SYNC in both directions |

### The GNSS daemon

    GPS HAL   AGPS daemon   FLP and geofence HAL     (processes of their own)
       | start, stop, reset      | batching
       v                         v
    main thread of mnld: mnld_fsm  <->  FLP library (same process)
       | START, STOP, RESET      ^ START_DONE, STOP_DONE, RESET_DONE,
       v                         | NMEA timeout
    GPS control thread           |
       v                         |
    engine (libmnl): callbacks on a thread of its own

| Component | State | Operations |
|---|---|---|
| `mnld_fsm` (`mnld.c`) | state, per client: used, open, close and reset acknowledgement; two offload sessions; five timers | the requests of the clients, the engine's events, the watchdogs |
| GPS control thread (`gps_controller.c`) | its socket, `gps_restart` and a condition | start, stop, delete aiding data and wait for the restart |
| FLP library (`mnl_flp_interface`) | `fgMnldStatus`, mode flag, session, running source, start messages held back | start and stop of a batching, open and close done, session update, boot-up |
| HALs (`gps_hal`, `flp_hal`) | what their users want | start, stop, recover after a reboot message, wake lock |

In the RIL the request path carries everything; a controller decides
about a message by status keys, so the controllers of the last but one row
communicate only through keys; the handlers of a channel run on the thread of
its `RfxSender` and use the AT channel; the SIM switch is such a handler and
stops the threads of all other channels.

What is hard here, and what must hold in spite of it:

* *Hand-over between threads without a common lock.* A request passes six
  threads. It must never be lost, doubled or answered by two of them.
* *Suspension.* A controller suspends requests and the framework resumes them
  after the next message that allows it: no lost wake-up, no reordering, one
  request in flight.
* *An answer carries no identity.* The reader decides by the pending command
  alone what a line belongs to; after a timeout the next command gets the late
  answer.
* *Exchange of channels under running threads.* Two threads of the switch stop
  readers and senders one mutex after the other, while the stopped threads
  hold mutexes of their own.
* *Two copies of the status.* TelCore and MCL set keys independently and send
  the values to each other, on ways that messages and responses overtake.
* *An engine with many users.* Clients open and close it while it starts and
  stops; each must get its acknowledgement, the engine must run exactly when
  somebody uses it, and what the clients want must survive the end of the daemon.
* *Locks that are status keys.* They are taken in one message and given back in
  another one, several messages, retries and failures later, by the handler
  that believes it owns them.

`PROJECT.json` lists the hazards line by line, and the components that are not
modelled with the reason.

## 2. The modules

| Module | Models | Composition |
|---|---|---|
| `RequestReply` | what a client is promised: each request answered once | abstract |
| `RfxRequest` | the request path and a serialising controller | implements `RequestReply` |
| `MCRfxRequest` | values for the constants of `RfxRequest` | EXTENDS it |
| `RfxRequestProofs` | its types, the wake-ups and where a request is, proved; the safety half of the refinement | EXTENDS `RfxRequest` and TLAPS |
| `RfxOrderProofs` | the order of a controller's requests, proved | EXTENDS `RfxRequestProofs` |
| `AtChannel`, `MCAtChannel` | one AT channel | stands for what a handler of `RfxRequest` does in `StartHandler .. FinishHandler` |
| `AtChannelProofs` | its types, the signals and which command an answer reaches, proved | EXTENDS `AtChannel` and TLAPS |
| `SimSwitch` | the switch of the main SIM on all channels | the AT channel is a step here, the locks around it are not |
| `SimSwitchProofs` | what the locks protect, proved | EXTENDS `SimSwitch` and TLAPS |
| `PowerLock`, `MCPowerLock` | four controllers that share two kinds of keys | suspension is abstracted: `RfxRequest` shows that what is suspended is resumed |
| `PowerLockProofs` | the exclusion of the controllers, proved | EXTENDS `PowerLock` and TLAPS |
| `StatusSync` | the two copies of the status keys and their messages | abstract |
| `RadioState` | the radio state: the controllers and handlers that set it, and what RILJ is told | EXTENDS `StatusSync` and implements it |
| `StatusSyncProofs`, `RadioStateProofs` | theorems about the two | the second carries the first's over by the refinement |
| `MnldFsm` | the state machine of mnld and the FLP library, as operators | used by `Mnld` |
| `Mnld` | the daemon's threads and watchdogs, its clients, the engine, init | EXTENDS `MnldFsm` |
| `MnldProofs` | types, the safety properties of the daemon on every chip | EXTENDS `Mnld` |

### RfxRequest

A request is its token, since `RfxMessage::obtainRequest` draws a fresh one and
everything downstream matches by it. The variables are the queues under their
names in the code; `looper` and `front` are the one looper of the main thread,
split into the messages sent in time order and those sent at time 0 (which keep
their order among themselves). A thread's `dequeue` and the following `enqueue`
are two actions (`TakeRequest`, `PostRequest`), as is the matching of a response
and its enqueueing (`MatchPending` in `HandlerReply`, then `EnqueueResponse`),
and `addMessageToPendingQueue` and the post to MCL (`ForwardRequest`,
`EnqueueMcl`). `processSuspendedMessage` is taken one list entry at a time, as
other threads run meanwhile.

`CanHandle` and `Rejects` are those of `RtcDataAllowController`, the controller
that serialises with a flag; a request without a controller goes the way of
`RfxRootController::processMessage` for requests nobody is registered for. STATUS_SYNC
messages appear as changes of the radio and modem state between two messages.
`issued` and `forwarded` are histories. Every request is issued once, so all
queues are bounded; `MaxReply` bounds how often a handler answers.

Left out: SAP and ATCI messages, URCs, delayed sends, messages their sender adds
at the front, the wait-response mechanism of `RfxController`, responses without
data, and the multi-allow retry of `RtcDataAllowController`. The main thread's
test for messages older than a time stamp (`RfxMainThread.cpp:205-221`) and
`RfxDispatchThread::clearPendingQueue` (`:287-299`) are left out because nobody
uses them in this RIL: only the RIL proxy calls `clearMessages` and
`clearPendingQueue`, and without it the time stamp stays -1.

### AtChannel

The sender's states are its places in `atSendCommandFullNolockAck`; `mutex` is
`m_commandMutex` when the sender holds it. The reader holds it only inside
`processLine`, one action. `cmd` in a line says which command it answers: the
properties need it, the code does not see it. The modem answers commands in
order, with or without an acknowledgement, one intermediate line and a final
one, or not at all, and may say lines of its own: with the prefix of the pending
command, with another one, or a text message in two lines. `waitRelative` may
return without a signal (`MaxSpurious`) and may time out at any moment. A user
build resets the modem after a timeout and goes on, any other build exits
(`userLoad`). The two commands of the run are a single-line and a multi-line one
because the reader treats just these kinds of line differently.

### SimSwitch

Each channel has its device (`fd`), its reader's device, and each device the
channel whose context its reader uses. `SwitchChannel` is `switchChannel`: two
exchanges through slot 0. The steps of `lockRestartMutex` that may block are
actions of their own, and so is everything between two of them; a `Worker` is a thread
that locks other threads' channels. The loops of a worker go over a set of
channels (`todo`) in the order of `Turn`: by number, the URC channels last, as the
handler's second loop has them. One AT command is one line on the own
channel, since what matters is that its reader holds `m_readerMutex` for it.
`noReset` (a build property) and the initial main slot are chosen in `Init`.
When the SIMs are not initialised in time the handler returns with everything
locked and the radio is reset (`halted`).

CMD_1 stands for all channels treated alike, `Slots` is 2 and `Busy` names the
channels on which ordinary messages and lines come: one of each kind, on both
slots, in `sim_switch` (0 is URC, 1 is CMD_1, 7 is CMD_11 of the second slot),
CMD_1 in `sim_switch_live` and none in the runs of the findings, which do not need them. One request
(`MaxSwitch`) switches every channel of both slots. Left out: the vsim branch,
mock mode and the other requests of the handlers.

### PowerLock

One variable per status key, one per request on its way in MCL. A message that
a controller does not accept is suspended and handled whenever its guard holds,
since `RfxRequest` resumes it after the message that makes the guard true. A
handler is one action with everything it calls: `HandleUrc` takes the keys,
saves the power of the radios and sends the requests; `RadioPowerResponse` gives
the lock back and runs the world mode controller's action.

Which key is meant matters: a slot controller's `getStatusManager()` is the one
of its slot. `HAD_POWER_OFF_MD` is set by a non-slot controller and read with
the non-slot manager; `MODEM_POWER_OFF` is set on the non-slot manager but read
by `RtcRadioController` on the slot's, so that its two tests of it are never
true and do not appear as guards.

`Boot` is the radio request of `onSimStateChanged`. It comes once, for any slot,
at any moment, and takes `RADIO_LOCK` whoever has it: in the middle of a
RADIO_POWER, a SIM switch or a change of world mode. `crossed` is a history: the
slot whose lock it took from an owner. On that slot two radio requests share
one lock, and the response of the first gives it away; what the lock was to keep
is lost there, and the properties except that slot. What they say instead is
that the damage stays on it: the other slots, `MODEM_OFF_STATE`,
`closeRadioCount` and the number of requests are as if there had been no boot
request, but for the release of the modem (section 4).

Bounds of `power_lock`: `Budget` has one RADIO_POWER of RILJ, two sessions and two URCs, so that a
session or a change of world mode can meet another one; a radio request meets those of the
other slot, of the boot and of the world mode controller. `Slots` is 2,
`MaxRetry` is 1 where the code has 30, and every modem request is sent once.
RILJ does not open a new session while SET_MAJOR_SIM is executed.
SHUTDOWN is like POWEROFF. `WP_SWITCHING_SECOND_URC` cannot be reached (the
second URC is suspended), `blockWorldModeChanged` has no callers and nobody sets
`CAPABILITY_SWITCH_WAIT_MODULE`. The process restarts after a POWEROFF or a
RESET_RADIO, which the model does not do: until then a slot's lock may stay
taken, the exception `hadOff` in three properties.

### StatusSync and RadioState

`StatusSync` has one action per place where a copy is read or written: `TelSet`
and `TelApply` on the main thread, `MclStore` and `MclSend` on a thread of MCL
(the message is sent after the key's mutex is released), `MclApply` and `MclTake`
in MCL's dispatcher. `toMcl` is the looper values share with requests. Towards
TelCore the values have a queue and a thread of their own; the main looper orders
them with responses only by chance, so `syncQueue` stands for the queue and for
their part of the looper. `crossed` is a history: the keys that were set while a
value of the other side, or of another thread, was on its way, until a set that
met nothing repaired them. For those the code promises nothing.

`RadioState` is the one slot of `RtcRadioController` and `RmcRadioRequestHandler`
with the keys RADIO_STATE and REQUEST_RADIO_POWER. A handler is: begin (it reads
the state it may set again), the AT command with its outcome, then one store and
one send per key it sets, then the response. `told` is what RILJ has been told:
`onRadioStateChanged` keeps an ON from it when the requested power is OFF.
`lock` is RADIO_LOCK of the slot; the boot request takes it without a look, as in
the code. Of the two lookups in `requestRadioPower`, the one of MODEM_POWER_OFF
is made on the slot's manager, where the key is never set, and counts as false;
the one of HAD_POWER_OFF_MD is made on the non-slot manager, so that after a
POWEROFF a request is answered, takes the lock and goes nowhere. Faults (`MaxFaults`) are a command the modem refuses, a
POWEROFF and a SIM switch that fails; `MaxRequests` bounds what RILJ asks for.
Left out: COMMAND_BEFORE_RADIO_POWER, the other slots, mock mode.

### MnldFsm and Mnld

`MnldFsm` writes `mnld_fsm` as the functions it consists of: an operator per
state, with the context before the event as its argument and the context after it
as its value, and an operator per step the states share (`AckOpens` is
`do_gps_started_hdlr`, `NewSession` the block that renews the two offload
sessions, `LowPower` the head of `mnld_fsm`). The FLP library is called
synchronously by the daemon and calls back, so that it belongs to the same step;
`LibraryStart` and `LibraryStop` are its two entries. A context is a record with
the fields of `g_mnld_ctx.gps_status`, the sessions, the library of each link and
what was sent to the GPS thread and to the HALs.

What outlives the daemon is not in its memory: `wake` is what the GPS HAL was told
of the wake lock, and `ntf` are the reboot messages that wait in the FLP HAL's
socket. Both survive a restart of the daemon, and a new GPS HAL process has been
told nothing.

`Mnld` says who calls what. The main thread is one actor; the GPS control thread
takes one message at a time and, for RESET, waits between two steps of its own
(`GpsReset`, `GpsWait`, `GpsResetDone`: the restart goes to the engine before
`gps_restart` is set); the engine calls back; the offload timer's and libmnl's
thread enter `mnld_fsm` without a lock, so their call is two actions (`Enter`
reads the state and sets the low power mode, `OffStop` acts on what was read).
libmnl hands the engine's answer to the stop of a link to both libraries, one
after the other, and each closes its link (`StopAnswered`). A
watchdog may expire when it is armed and nothing will come, or, as a fault, early
(`Expire`); the process is then gone, init starts it (`Respawn`), its main thread
runs before the reboot messages are sent (`TellClients`), and the HALs repeat what
they want (`HalRead`, `HalResend`, `LinkRecover`), the GPS HAL in two steps, since
the mutex around its intent is commented out. CRASH_TO_DEBUG sets `bad` and ends
the process as well.

`auto` chooses between a chip that switches the offload mode by itself and one
without offload (`mnld_offload_check_capability`). The clients are the GPS HAL,
the AGPS daemon, which is not in the repository and may send anything, and two
links that behave like FLP; the geofence library is built the same way and
differs in that it also holds back the changes of each fence and drops its fences
on a switch, which is not modelled, nor are the FLP test, factory and AT clients,
which are host clients without a HAL. `MaxRequests` = 3 lets two clients meet
with a third request between them, and `MaxNmea` and `MaxFaults` = 1 let each
kind of failure hit any of their steps. `MaxCallbacks` bounds the restarts the
engine still has to report.

## 3. The runs

| Run | Configuration | Shows | States, time |
|---|---|---|---|
| `request` | `RfxRequest.cfg` | `OncePlaced`, `PendingIffInMcl`, `OneInFlight`: two requests of a controller, one of which no MCL handler executes, one on another channel and one of an unknown id; radio and modem go off and on, handlers answer twice | 1 750 000, 110 s |
| `request_serial` | `RfxRequestSerial.cfg` | `NoLostWakeup`, `InIssueOrder`, `EventuallyAnswered`, `ImplementsPromise` (refinement of `RequestReply`): three requests of a controller, so two are suspended together, and one nobody executes | 201 000, 60 s |
| `at_channel` | `AtChannel.cfg` | `RightFinal`, `NoStrayAnswer`, `NoLostSignal`, `AckOnce`, `EveryCommandReturns` | 1 750 000, 80 s |
| `sim_switch` | `SimSwitch.cfg` | `Paired`, `PathFollowsMajor`, `FdStable`, `ContextStable` | 1 630 000, 50 s |
| `sim_switch_live` | `SimSwitchLive.cfg` | `SendersResume` | 224 000, 100 s |
| `power_lock` | `PowerLock.cfg` | `ModemOffMux`, `NoRadioInSimSwitch`, `RadiosOffFirst`, `LockIsRequest`, `RadioPowerHandled`, `ModemReleased` | 170 000, 105 s |
| `radio_state` | `RadioState.cfg` | `CopiesAgree`, `RiljKnows`, `ImplementsSync` (refinement of `StatusSync`) | 437 000, 20 s |
| `mnld` | `Mnld.cfg` | `HostNeverCrashes`, `EngineFollowsUsers`, `AcksSettled`, `HalServed`, `HostLinks`, `HostWatched`, `Awake`, `Settles` | 1 100 000, 120 s |
| `sim_switch_urc` | `SimSwitchUrc.cfg` | violation of `AllFollowMajor` | |
| `sim_switch_lock` | `SimSwitchLock.cfg` | violation of `ProxyChannelsUnlock` | |
| `power_lock_on` | `PowerLockOn.cfg` | violation of `ModemOffMux` | |
| `power_lock_off` | `PowerLockOff.cfg` | violation of `NoRequestWhenOff` | |

Every property of a passing run has a mutant: an operator of the model changed
as a plausible bug would change it, under which TLC finds the property violated
(`PROJECT.json`, "mutants"; the operators stand before the ones they change, marked `Mutant`).

Deadlock is checked in the runs of `RfxRequest`, where the radio goes off and on
for ever. In the others the system may really come to rest: the commands, the
switches, the requests or the budgets are used up, or the process has exited.

Fairness, and why the code justifies it:

* `RfxRequest`: weak fairness of each thread's steps, since each is a loop over
  a blocking wait. Strong fairness of the main thread's step for requests and
  responses: its looper takes messages in time order, so that status messages,
  which the model lets come at any time, cannot keep it from the others. A
  handler owes an answer and its return; clients and radio owe nothing.
* `AtChannel`: weak fairness of the two threads, and of the end of a wait, which
  has a timeout. The modem owes nothing.
* `SimSwitch`: weak fairness of the threads; strong fairness of taking a mutex,
  since a message or a line that takes it comes with a pause after the one
  before, and a blocked thread is not passed over for ever.
* `PowerLock`: weak fairness of the handlers. Strong fairness of a suspended
  RADIO_POWER (its guard is true again and again, and resumed messages go
  to the front of the looper), of the success of a request that is repeated (the
  modem accepts EFUN and ESIMMAP in the end; the code repeats them without a
  bound), a call ends, and RILJ applies a session it started.
* `Mnld`: weak fairness of the threads, of the engine's callback and of the HALs'
  recovery, all loops over a blocking read; of an armed timer that expires; of
  init, which starts a service that ended. Clients owe nothing. That is what
  `Settles` needs: the daemon comes to rest after the last request, if necessary
  through its own end.

## 4. Findings

1. **URC channels may stay behind in a switch** (`sim_switch_urc`). The
   `+ESIMMAP` handler reads the old main slot from the status key that the
   switching thread sets after AT+ESIMMAP. Started later, it finds the new one,
   and the exchange of the URC and CMD_11 channels does nothing.
2. **A reader may stay locked out** (`sim_switch_lock`). `readerLoop` unlocks
   the mutex of the context it has after the line, not of the one it locked, and
   the switching thread does not stop its own channel's reader.
3. **POWERON takes the modem from a SIM switch** (`power_lock_on`). Its response
   resets `MODEM_OFF_STATE`, which it never took. The response of SET_MAJOR_SIM
   then leaves `RADIO_LOCK` taken on every slot.
4. **Radio requests to a modem that is off** (`power_lock_off`).
   `RtcRadioController` looks `MODEM_POWER_OFF` up on its slot, where it is never
   set, so its test never stops a request.

Two weaker observations, in the passing properties: an answer goes astray when a
URC with the prefix of a pending single-line command takes its place
(`NoStrayAnswer`), and in a build that need not reset the modem the URC senders
are not stopped while their devices are exchanged (`FdStable`).

The properties of `radio_state` and `mnld` hold, but say where they had to make
room for the code. Of the radio state:

* Two sets of one key that cross leave the copies different until the next set
  (`crossed`).
* An ON that MCL sets by itself (the modem refused the OFF and said it is on) is
  kept from RILJ, and as the following POWER_ON changes nothing RILJ goes on
  believing OFF. `RiljKnows` therefore asks for agreement only when the modem has
  refused nothing and was not powered off.

Of `power_lock`: a change of world mode whose `RADIO_LOCK` the boot request takes
does not find all locks its own at the end (`RtcWpController.cpp:473-523`) and keeps
`MODEM_OFF_STATE` for good; a SIM switch it crosses gives the modem back, but may
wait for a lock that a RADIO_POWER after a POWEROFF keeps (`ModemReleased`).

Of the GNSS daemon, with automatic switching of the offload mode:

* `mnld_fsm` entered by two threads can reach CRASH_TO_DEBUG: libmnl's thread
  reads OFL_STARTED, a client's start turns it to OFL_STOPPING, the first thread
  sends a second STOP, and the second STOP_DONE is unexpected (`HostNeverCrashes`
  is stated for the other chips).
* A restart for links is not watched, so that one that fails leaves the state at
  STARTING (`EngineFollowsUsers`, `HostWatched`).
* A link opened on the chip while the engine already runs is not acknowledged and
  holds its start messages back (`AcksSettled`): with the other link on the chip, or
  with a host client after a switch that the library took note of too late, since
  a library that was open on the host keeps its mode when the session returns
  there (`mtk_flp_mnl_interface.c:298-303`). The second way takes four requests,
  more than the run makes; it came to light with the proof.
* The stop of a link is lost while the engine is off.
* The answer to the stop of one link is handed to both libraries and closes the
  other link as well, which then goes without the engine although its batching
  was never stopped (`mtk_flp_mnl_interface.c:410-423`).

And on every chip: after a reboot message the library still takes its source for
running, so that a repeated batching goes without the engine, and so does one
that starts before the session is known (`HostLinks`); a stop between the two
steps of the GPS HAL's recovery is undone; a RESET whose callback comes before
`gps_restart` is set hangs the GPS thread until its watchdog ends the process; and
a GPS HAL process that starts anew in the middle of a session is not told to hold
the wake lock (`Awake` names this as the only way to an engine in use without it).

## 5. The proofs

`RfxRequestProofs` proves, for any sets of requests, controllers and channels
that satisfy `RequestAssumption` (the owner and the home of a request are among
them, `None` is fresh, and an unknown request has no owner):

* `TypeCorrect`: `Spec => []TypeOK`. One step per disjunct of `Next`, under each
  one per part of `TypeOK`. The part that is more than typing says that the main
  thread holds a request exactly while it forwards it.
* `NoLostWakeupAlways`: `Spec => []NoLostWakeup`. The property is not inductive:
  it says nothing while `processSuspendedMessage` runs. `WakeInv` adds that the
  entries behind its index belong to busy controllers (it passes an entry only in
  that case, and removing one does not advance the index), that the index is 1
  whenever it does not run, and that a suspended request has a controller. A new
  request of a busy controller is appended in a state in which the flag is
  set, and a response, which resets the flag, starts the walk. `TypeOK` is used
  for the ranges.

The lemmas `RemoveAtType`, `AppendType` and `PollType` state what the sequence
operators return.

`RfxRequestProofs` goes on, from the same assumption and `TypeCorrect`, with:

* `OncePlacedAlways`: `Spec => []OncePlaced`. Together with `TypeOK` the property
  is inductive. `OnceStep` proves more than that: a step takes at most one request,
  from one place to another one, along an edge of `QuietEdge` (the hand-overs) or, when
  the main thread processes a message, of `ProcessEdge` (`PlaceStep`). The
  theorems below use these edges instead of the actions.
* `OneInFlightAlways`: `Spec => []OneInFlight`. The places of a request in flight
  (`FlightPlace`) are entered and left by `processMessage` only, along
  `ProcessEdge`, and exactly those steps set and reset the flag.
* `PendingIffInMclAlways`: `Spec => []PendingIffInMcl`. The property needs that the MCL
  side holds a request at one site (`SiteInv`: the post of the main thread, the
  dispatcher's looper, a channel's looper or its handler) and none that has not
  been forwarded: otherwise the answer of one handler would end the entry in
  `pendingQueue` of a request another one still holds.
* `KeepsPromise`: `Spec => Promise!Init /\ [][Promise!Next]_(Promise!vars)`, the
  safety half of `ImplementsRequestReply`.

`RfxOrderProofs` proves `InIssueOrderAlways`: `Spec => []InIssueOrder`. The
property speaks of what has been forwarded, so `OrderInv` adds what is still to
come: each queue on the way (the request queue, the looper, the suspended
requests, the front of the looper) is in the order of issue itself, what is
forwarded comes before what is waiting, and that before what is coming. The
delicate part is `Turn`: a request that was resumed and one that is still suspended
may belong to one controller, and which of the two was issued first depends on
the flag of the controller. While it is free, the walk is passing its suspended
requests in their order, so the resumed one is first; once one of them has been
forwarded it is busy, and a suspended one was taken out of the front of the
looper before the one that is still there.

`AtChannelProofs` proves, for any commands and any bounds that satisfy
`ChannelAssumption`:

* `ChannelTypeCorrect`: `Spec => []TypeOK`. `TypeOK` is split into the part of
  the sender and its context, what has been returned and the lines (`TypeParts`).
  More than typing, it says where the sender holds `m_commandMutex`, that
  `m_type` is REQUEST exactly while it waits or has just stopped waiting, and
  that nothing is stored otherwise.
* `NoLostSignalAlways`: `Spec => []NoLostSignal`. Given `TypeOK` the property is
  inductive as it stands: a wait starts with no final response stored, and the
  step that stores one signals.

Its second part proves `RightFinalAlways`, `NoStrayAnswerAlways` and
`AckOnceAlways`, from the same assumption and `NoneAssumption` (`None` is neither
a line nor the holder of the mutex). A line does not say which command it
answers, so the three rest on what is on its way: `AnswerInv` speaks of the lines
the reader has not processed (`Pipe`, the line it holds and those on the wire).
It says that a header of a text message is followed by its text, so that the reader never
takes an answer for the text (`SmsPaired`), and, until a reset is asked for,
that the modem works on the command that is being sent and no other one, whose
final line ends what is on its way (`OneCommand`), and where its one
acknowledgement is: to come, on its way, stored or reported (`OneAck`). That the
sender holds the mutex from the write until it waits is what keeps an early
answer from being taken for unsolicited.

`SimSwitchProofs` proves, for any number of slots, any `Busy` channels and any
number of switches that satisfy the assumptions of `SimSwitch`, in both builds:

* `SwitchTypeCorrect`: `Spec => []TypeOK`, with `WorkInv` (which channels a
  worker has still to visit at each of its steps, and which threads may be at
  which step at all).
* `PairedAlways`: `Spec => []Paired`. `PathsLinked` states the pairing as an
  inverse: an exchange moves device, reader and context along the same
  permutation of the channels.
* `PathFollowsMajorAlways`: `Spec => []PathFollowsMajor`. The property says nothing
  while a switch runs; `PathInv` adds how far the exchange has come: a class of
  channels that is still in `todo` is on the path of the old main slot, every
  other one on that of the new slot, and two exchanges through slot 0 amount to
  one of the two main slots.
* `FdStableAlways` and `ContextStableAlways`: the two action properties.
  `RestartInv` says whose `m_restartMutex` the switching thread holds: a thread
  that is in a handler holds its own, so a channel that was locked has none.
  `ReaderInv` says the same of `m_readerMutex`, but cannot say it always: the
  reader of the switching thread's channel is not locked, and when the CMD_9
  channels have been exchanged under it, it unlocks the mutex of another channel
  (run `sim_switch_lock`). What saves the property is `Inv9`: from then on the
  mutex that reader had locked is never unlocked, the lock loop of every later
  switch stops at it, or the command before it never gets its answer, so that
  nothing is exchanged again while the wrongly unlocked mutex matters.

`StatusSyncProofs` proves, for any keys, values, requests and writers that
satisfy `SyncAssumption` (`NoKey` is not a key):

* `SyncTypeCorrect`: `SyncSpec => []SyncTypeOK`.
* `CopiesAlwaysAgree`: `SyncSpec => []CopiesAgree`. `CopiesAgree` speaks of the
  moment nothing is on its way; the invariant `AgreeInv` says, for a key that is
  not crossed, what will be left when the messages on their way have arrived:
  values go in one direction only, by one writer at a time, and the last one of
  them is the value of the side it came from.

`RadioStateProofs` proves, for any bounds:

* `RadioImplementsSync`: `Spec => SyncSpec`, by `RadioInv` (the types, and that
  a handler's list of keys to set has the type of updates): each action of the
  controllers and handlers is a `TelSet`, `TelSend`, ... or leaves `syncVars`
  alone.
* `RadioCopiesAgree`: `Spec => []CopiesAgree`, from the two theorems.
* `RadioTypeCorrect`: `Spec => []TypeOK`, by `RealInv`. RADIO_STATE has no default
  in MCL, and the handler sets again what it read when it began. `FirstValue` says
  why it never reads nothing: the first value of the controller is the first
  message in the looper of MCL, and until it is applied no channel has a request.
* `RiljKnowsAlways`: `Spec => []RiljKnows`. `Knows` says that RILJ is behind
  TelCore's copy in one way only: it was told OFF and the copy is ON (`Behind`).
  The second half of the property needs all that is on the way from the looper of MCL
  through the queue and the handler of the channel to `dispatchStatusSyncQueue`,
  in its order: unless REQUEST_RADIO_POWER is ON in TelCore, each ON on it has its
  own update of that key before it or an OFF behind it (`Cover`); and while RILJ
  is behind, an OFF is on its way (`OffOnWay`). The step that keeps an ON from RILJ
  finds REQUEST_RADIO_POWER false, so by `Cover` the OFF is there. When all is
  done nothing is on the way, so RILJ is not behind. `Smooth` says that without a
  fault nothing else is set, repeated or refused.

`PowerLockProofs` proves, for any slots, modem requests and bounds that satisfy
the assumptions of `PowerLock`:

* `PowerTypeCorrect`: `Spec => []TypeOK`, with `UrcBudget` (the URCs that wait and
  those still to come are within the budget) as the strengthening.
* `ModemOffMuxAlways`, `NoRadioInSimSwitchAlways`, `RadiosOffFirstAlways` and
  `LockIsRequestAlways`, from `OnePowerOff`: no POWERON and at most one POWEROFF
  come. Without it the first is false (run `power_lock_on`) and the invariant the
  other three rest on fails: the response of a POWERON or of a second POWEROFF
  gives back a key that is another controller's.
  `PowerInv` is inductive. `OnceInMcl`: a request is on CMD_9 or answered, once,
  so that no key is given back by an answer that comes twice. `SessionCount`:
  `m_request_count` and the slots that have still to APPLY make up the session,
  so that SET_MAJOR_SIM is sent after the last one. `ResumeCount`:
  `closeRadioCount` is the number of slots whose radio the change of world mode
  has closed, and the modem is resumed once. `ModeInv`: what the value of
  MODEM_OFF_STATE says of each slot's RADIO_LOCK and of its requests in MCL; none
  of the four is inductive without it, because a lock that is taken shows whose it
  is only together with that key. It says so of a slot with its own lock
  (`OwnMode`) and of the one the boot request has crossed (`CrossedMode`): there
  only the number of requests is bounded, and an idle lock in a SIM switch means
  that none is left. No assumption on the moment of the boot request is made. The counts are cardinalities of sets of slots
  and rest on `FiniteSetTheorems`.

`MnldProofs` proves every safety property of the run `mnld`, for any clients and
links that satisfy `ClientAssumption` (the GPS HAL and the AGPS daemon are two
different host clients, and no link is one) and any bounds:

* `MnldTypeCorrect`: `Spec => []TypeOK`.
* `HalServedAlways`: `Spec => []HalServed`, on every chip. `HalCovered` says that
  a HAL that wants the engine is a user, or a reboot message or its repeated
  start is on the way, or the daemon has still to tell it. It is preserved because
  nothing the state machine does by itself takes a host client from the users
  (`FsmHosts`); only the NMEA timeout does, and it tells the HAL.
* `HostNeverCrashesAlways`, `HostWatchedAlways`, `AwakeAlways`, `HostLinksAlways`:
  the properties of a chip without automatic switching, from `HostInv`. There the
  sessions stay on the host and only the main thread runs `mnld_fsm` (`HostMode`),
  so that `HostFlow` can say of each state what is in the queue of the GPS control
  thread, in the engine and in the queue of the main thread: nothing in IDLE, one
  START that is not taken or one started engine in STARTING, only resets in
  STARTED, and resets, one STOP or its answer in STOPPING. An event a state does
  not expect is on the way in none of them, and where nothing is on the way a
  timer runs. `HostUse` relates the state to the users and the acknowledgements,
  `HostLink` the users among the links to what the HAL and the library believe.
  `HostHolds(told)` is the invariant with or without the part that the HAL has been
  told of the wake lock: a new HAL process ends that part, so that `HostInv` is
  the one without, and `AwakeAlways`, an action property, follows from the steps of
  the one with it.
* `EngineFollowsUsersAlways` and `AcksSettledAlways`, on every chip: from
  `HostInv` where the mode does not switch, and from `ChipInv` where it does and
  nothing has failed. There two threads may be in `mnld_fsm`, and a thread acts in a state
  another one has left. `ChipStopped`, `ChipAsked`, `ChipStarted` and `ChipEnded`
  say what each event may do in each state: leave it (`Stays`), send a STOP or a
  START as the last message (`Halts`, `Begins`), come to rest, or run. `ChipUse`
  says why a state without users is left in the end: a thread that has read this
  state is about to act in it. `ChipFlow` says that the last START or STOP on its
  way, or else the engine, is what the state says, and that a START or a STOP, or
  its answer, is on the way while the state is between.

The `mnld` run checks the properties on its instance; `HostInv` and `ChipInv` were
checked there as well before they were proved.

Only model-checked: liveness (`EventuallyAnswered`, `EveryCommandReturns`, `SendersResume`,
`RadioPowerHandled`, `ModemReleased`, `Settles`) and the fairness part of the
refinement, which are outside what the proof system does.

## 6. Plan

Modelling, in this order:

1. The multi-allow retry of `RtcDataAllowController` (`:186-273`) as a
   controller beside `RfxRequest`, with several slots and a peer detach that fails.
2. The wait-response mechanism (`RfxController.cpp:71-82, 377-468`) and the
   message tokens with their width (`RfxMessage.cpp:126-158`).
3. `RtcModeSwitchController` together with `PowerLock`; restart of the process
   after a POWEROFF or RESET_RADIO; a second POWEROFF in flight.
4. The EPO and QEPO downloads of mnld, which post to its main thread as the GPS
   control thread does; the always-on offload mode.
5. The GSM 07.10 multiplexer (`gsm0710muxd.c`).

Proofs: `ModemOffMux` and the others of `PowerLock` once the model has a second
POWEROFF, and the invariants of what 1 to 4 add.

Not planned: the handlers that translate between RIL structures and AT commands,
the older RIL stacks, and the HALs for audio, display, video, sensors and the
like, which are device control and data processing; `PROJECT.json` gives the
reason for each.
