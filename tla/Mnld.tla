------------------------------- MODULE Mnld -------------------------------
(***************************************************************************)
(* The GNSS daemon mnld with its clients.  The main thread runs the state  *)
(* machine of MnldFsm on the messages of the clients and on the events the *)
(* GPS control thread posts to it; the GPS control thread starts, stops    *)
(* and resets the engine, one message after the other; the engine calls    *)
(* back on a thread of its own; two more threads enter the state machine,  *)
(* the one of the timer that switches to the offload mode and libmnl's,    *)
(* which closes a link.  A watchdog that expires ends the process, init    *)
(* starts it again, and the daemon then asks its clients to repeat what    *)
(* they want.                                                              *)
(*                                                                         *)
(* The GPS HAL and the FLP HAL remember what their users want; the AGPS    *)
(* daemon is outside the repository and may ask for anything.              *)
(***************************************************************************)
EXTENDS MnldFsm, FiniteSets

CONSTANTS
    Switch,         \* the thread of timer_switch_ofl_mode
    MaxRequests,    \* bound: what the clients ask for in a behaviour
    MaxNmea,        \* bound: expiries of the NMEA monitor
    MaxFaults       \* bound: failed starts and stops, engine restarts of its
                    \* own, answers slower than their watchdog

ASSUME BoundAssumption ==
    /\ Switch \notin Client
    /\ {MaxRequests, MaxNmea, MaxFaults} \subseteq Nat

VARIABLES
    m,          \* the context of the daemon (MnldFsm)
    toMain,     \* MNLD_MAIN_SOCKET: what the other threads post
    gps,        \* the GPS control thread and the engine
    off,        \* the threads, not the main one, that call mnld_fsm
    phase,      \* the process: booting, running or down
    want,       \* the HALs' intents: GPSHAL_STATE_START, ~gFlpFirstBatch
    halNtf,     \* the reboot message on its way to the GPS HAL
    halStart,   \* the HAL's worker read the intent and will send the start
    requests, nmeas, faults     \* the bounded counters

vars == <<m, toMain, gps, off, phase, want, halNtf, halStart,
          requests, nmeas, faults>>
counters == <<requests, nmeas, faults>>
hals == <<want, halNtf, halStart>>

Thread == Link \cup {Switch}
MaxCallbacks == 3       \* bound: start callbacks under way at a time

NoGps == [pc |-> "idle", restart |-> FALSE, cond |-> FALSE,
          cb |-> 0, on |-> FALSE]
AtRest == [o \in Thread |-> [pc |-> "idle", st |-> "IDLE"]]

TypeOK ==
    /\ m \in Context
    /\ toMain \in Seq({"START_DONE", "STOP_DONE", "RESET_DONE",
                       "NMEA_TIMEOUT"})
    /\ gps \in [pc : {"idle", "set", "wait"}, restart : BOOLEAN,
                cond : BOOLEAN, cb : 0..MaxCallbacks, on : BOOLEAN]
    /\ off \in [Thread -> [pc : {"idle", "due", "read"}, st : State]]
    /\ phase \in {"booting", "running", "down"}
    /\ want \subseteq {Hal} \cup Link
    /\ halNtf \in BOOLEAN /\ halStart \in BOOLEAN
    /\ requests \in 0..MaxRequests
    /\ nmeas \in 0..MaxNmea
    /\ faults \in 0..MaxFaults

\* The daemon has booted and its clients know it; nothing is asked for yet.
Init ==
    /\ \E auto \in BOOLEAN :
          m = [RebootLibraries(Boot(auto, FALSE, {})) EXCEPT !.ntf = {}]
    /\ toMain = <<>>
    /\ gps = NoGps
    /\ off = AtRest
    /\ phase = "running"
    /\ want = {}
    /\ halNtf = FALSE /\ halStart = FALSE
    /\ requests = 0 /\ nmeas = 0 /\ faults = 0

Alive == phase # "down" /\ ~m.bad

Request == requests < MaxRequests /\ requests' = requests + 1
Fault == faults < MaxFaults /\ faults' = faults + 1
Send(c) == m' = IF Alive THEN c ELSE m      \* lost when nobody listens

(***************************************************************************)
(* The clients.                                                            *)
(***************************************************************************)
\* gpsinf_start, gpsinf_stop: the intent first, then the message.
HalStart ==
    /\ Request
    /\ want' = want \cup {Hal}
    /\ Send(Open(m, Hal))
    /\ UNCHANGED <<toMain, gps, off, phase, halNtf, halStart, nmeas, faults>>
HalStop ==
    /\ Request
    /\ want' = want \ {Hal}
    /\ Send(Close(m, Hal))
    /\ UNCHANGED <<toMain, gps, off, phase, halNtf, halStart, nmeas, faults>>

\* The process of the GPS HAL starts again; the new one has been told nothing.
HalReboot ==
    /\ Request
    /\ want' = want \ {Hal}
    /\ halNtf' = FALSE /\ halStart' = FALSE
    /\ LET s == [m EXCEPT !.wake = FALSE]
       IN  m' = IF Alive THEN ClientReboot(s, Hal) ELSE s
    /\ UNCHANGED <<toMain, gps, off, phase, nmeas, faults>>

\* The HAL's worker takes the reboot message: it reads the intent, and sends
\* what it read later, with no lock between the two.
HalRead ==
    /\ halNtf
    /\ halNtf' = FALSE
    /\ halStart' = (Hal \in want)
    /\ UNCHANGED <<m, toMain, gps, off, phase, want, counters>>
HalResend ==
    /\ halStart
    /\ halStart' = FALSE
    /\ Send(Open(m, Hal))
    /\ UNCHANGED <<toMain, gps, off, phase, want, halNtf, counters>>

\* The AGPS daemon opens, closes, resets and reboots.
AgpsRequest ==
    /\ Alive /\ Request
    /\ m' \in {Open(m, Agps), Close(m, Agps), ClientReboot(m, Agps),
               DeleteAiding(m, Agps)}
    /\ UNCHANGED <<toMain, gps, off, phase, hals, nmeas, faults>>
HalDeleteAiding ==
    /\ Alive /\ Request
    /\ m' = DeleteAiding(m, Hal)
    /\ UNCHANGED <<toMain, gps, off, phase, hals, nmeas, faults>>

\* The FLP HAL starts its first batching and stops its last; a message it
\* cannot send changes nothing.
LinkStart(l) ==
    /\ Alive /\ Request
    /\ l \notin want
    /\ want' = want \cup {l}
    /\ m' = LibraryStart(m, l)
    /\ UNCHANGED <<toMain, gps, off, phase, halNtf, halStart, nmeas, faults>>
\* On the chip the stop goes to the engine, whose answer, whichever link it is
\* for, libmnl hands to every library.
LinkStop(l) ==
    /\ Alive /\ Request
    /\ l \in want
    /\ want' = want \ {l}
    /\ IF m.lib[l].sys = "OFL"
       THEN /\ off' = [o \in Thread |->
                        IF gps.on /\ o \in Link /\ off[o].pc = "idle"
                        THEN [off[o] EXCEPT !.pc = "due"] ELSE off[o]]
            /\ UNCHANGED m
       ELSE m' = LibraryStop(m, l) /\ UNCHANGED off
    /\ UNCHANGED <<toMain, gps, phase, halNtf, halStart, nmeas, faults>>
\* flphal2mnl_flp_reboot_done_ntf: the message waited in the HAL's socket, and
\* the start is lost when the daemon has gone meanwhile.
LinkRecover(l) ==
    /\ l \in m.ntf
    /\ LET s == [m EXCEPT !.ntf = @ \ {l}]
       IN  m' = IF Alive /\ l \in want THEN LibraryStart(s, l) ELSE s
    /\ UNCHANGED <<toMain, gps, off, phase, hals, counters>>

(***************************************************************************)
(* The main thread on the events of the other threads.                     *)
(***************************************************************************)
MainEvent ==
    /\ Alive /\ toMain # <<>>
    /\ toMain' = Tail(toMain)
    /\ LET ev == Head(toMain) IN
       \/ /\ ev \in {"START_DONE", "STOP_DONE"}
          /\ m' = Fsm(m, ev)
          /\ UNCHANGED halNtf
       \/ /\ ev = "RESET_DONE"
          /\ m' = [m EXCEPT !.timerReset = FALSE, !.resetAck = FALSE]
          /\ UNCHANGED halNtf
       \/ /\ ev = "NMEA_TIMEOUT" /\ m.state = "STARTED"
          /\ m' = RebootLibraries(Fsm([m EXCEPT !.used = {}], "STOP"))
          /\ halNtf' = TRUE
       \/ /\ ev = "NMEA_TIMEOUT" /\ m.state # "STARTED"
          /\ UNCHANGED <<m, halNtf>>
    /\ UNCHANGED <<gps, off, phase, want, halStart, counters>>

(***************************************************************************)
(* The GPS control thread: one message at a time.                          *)
(***************************************************************************)
Take(ev) ==
    /\ Alive /\ gps.pc = "idle" /\ m.toGps # <<>> /\ Head(m.toGps) = ev
    /\ m' = [m EXCEPT !.toGps = Tail(@)]

GpsStart ==
    /\ Take("START")
    /\ \/ gps' = [gps EXCEPT !.on = TRUE, !.cb = 1] /\ UNCHANGED faults
       \/ gps' = [gps EXCEPT !.on = FALSE, !.cb = 0] /\ Fault
    /\ UNCHANGED <<toMain, off, phase, hals, requests, nmeas>>
\* The answers of an engine that is off are lost, but for one that libmnl is
\* handing on; STOP_DONE is posted only when everything was released.
GpsStop ==
    /\ Take("STOP")
    /\ gps' = [gps EXCEPT !.on = FALSE, !.cb = 0]
    /\ \/ off' = [o \in Thread |-> IF off[o].pc = "due" THEN AtRest[o]
                                                        ELSE off[o]]
       \/ UNCHANGED off
    /\ \/ toMain' = Append(toMain, "STOP_DONE") /\ UNCHANGED faults
       \/ UNCHANGED toMain /\ Fault
    /\ UNCHANGED <<phase, hals, requests, nmeas>>
\* mnld_gps_delete_aiding_data: the restart goes to the engine before
\* gps_restart is set, and the thread waits for the callback.
GpsReset ==
    /\ Take("RESET")
    /\ gps' = [gps EXCEPT !.pc = "set",
                          !.cb = IF gps.on /\ @ < MaxCallbacks THEN @ + 1
                                                               ELSE @]
    /\ UNCHANGED <<toMain, off, phase, hals, counters>>
GpsWait ==
    /\ Alive /\ gps.pc = "set"
    /\ gps' = [gps EXCEPT !.pc = "wait", !.restart = TRUE]
    /\ UNCHANGED <<m, toMain, off, phase, hals, counters>>
GpsResetDone ==
    /\ Alive /\ gps.pc = "wait" /\ gps.cond
    /\ gps' = [gps EXCEPT !.pc = "idle", !.restart = FALSE, !.cond = FALSE]
    /\ toMain' = Append(toMain, "RESET_DONE")
    /\ UNCHANGED <<m, off, phase, hals, counters>>

(***************************************************************************)
(* The engine.                                                             *)
(***************************************************************************)
\* Mutant: a callback nobody asked for.
CallbackAnytime ==
    /\ Alive
    /\ gps' = [gps EXCEPT !.cb = @ - 1, !.cond = @ \/ gps.restart]
    /\ toMain' = Append(toMain, "START_DONE")
    /\ UNCHANGED <<m, off, phase, hals, counters>>

\* MTK_AGPS_CB_START_REQ, or the first heart beat of an engine that runs the
\* links, which does not release the thread that waits.
Callback ==
    /\ Alive /\ gps.cb > 0
    /\ \E released \in IF AutoMode(m) THEN BOOLEAN ELSE {TRUE} :
          gps' = [gps EXCEPT !.cb = @ - 1,
                             !.cond = @ \/ (gps.restart /\ released)]
    /\ toMain' = Append(toMain, "START_DONE")
    /\ UNCHANGED <<m, off, phase, hals, counters>>

\* The engine restarts by itself ("MNL restart").
EngineRestart ==
    /\ Alive /\ gps.on /\ gps.cb = 0 /\ Fault
    /\ gps' = [gps EXCEPT !.cb = 1]
    /\ UNCHANGED <<m, toMain, off, phase, hals, requests, nmeas>>

\* No NMEA data for too long; in the offload mode nobody waits for any.
NmeaTimeout ==
    /\ Alive /\ gps.on /\ ~(AutoMode(m) /\ OnlyLinks(m))
    /\ nmeas < MaxNmea
    /\ nmeas' = nmeas + 1
    /\ toMain' = Append(toMain, "NMEA_TIMEOUT")
    /\ UNCHANGED <<m, gps, off, phase, hals, requests, faults>>

(***************************************************************************)
(* The other threads in mnld_fsm: flags and low power mode, the state read *)
(* at entry; then what that state does with STOP.                          *)
(***************************************************************************)
Enter(o, c) ==
    /\ m' = LowPower(c)
    /\ off' = [off EXCEPT ![o] = [pc |-> "read", st |-> m.state]]
SwitchExpires ==
    /\ Alive /\ m.timerSwitch /\ off[Switch].pc = "idle"
    /\ LET s == [m EXCEPT !.timerSwitch = FALSE]
       IN  IF HbdExists(s) THEN m' = s /\ UNCHANGED off
                           ELSE Enter(Switch, DropLinks(s))
    /\ UNCHANGED <<toMain, gps, phase, hals, counters>>
\* MTK_FLP_MSG_HAL_STOP_RSP: one library after the other, on libmnl's thread.
StopAnswered(l) ==
    /\ Alive /\ off[l].pc = "due"
    /\ \A k \in Link : off[k].pc # "read"
    /\ Enter(l, CloseFlags(m, l))
    /\ UNCHANGED <<toMain, gps, phase, hals, counters>>
OffStop(o) ==
    /\ Alive /\ off[o].pc = "read"
    /\ LET s == FsmIn(m, off[o].st, "STOP")
       IN  m' = IF o = Switch THEN s ELSE [s EXCEPT !.lib[o].status = "OFL_CLOSE"]
    /\ off' = [off EXCEPT ![o] = AtRest[o]]
    /\ UNCHANGED <<toMain, gps, phase, hals, counters>>

(***************************************************************************)
(* The process.                                                            *)
(***************************************************************************)
Watched == m.timerStart \/ m.timerStop \/ m.timerReset \/ gps.pc = "wait"
\* Nothing is under way that could still answer.
Silent ==
    /\ toMain = <<>> /\ gps.cb = 0
    /\ \/ gps.pc = "idle" /\ m.toGps = <<>>
       \/ gps.pc = "wait" /\ ~gps.cond

\* A watchdog expires: mnld_block_exit.
Expire ==
    /\ Alive /\ Watched
    /\ \/ Silent /\ UNCHANGED faults
       \/ ~Silent /\ Fault
    /\ phase' = "down"
    /\ UNCHANGED <<m, toMain, gps, off, hals, requests, nmeas>>
\* init starts the daemon again; its main thread runs before it has told the
\* clients.
Respawn ==
    /\ ~Alive
    /\ m' = Boot(m.auto, m.wake, m.ntf)
    /\ toMain' = <<>> /\ gps' = NoGps /\ off' = AtRest
    /\ phase' = "booting"
    /\ UNCHANGED <<hals, counters>>
TellLinksOnly ==    \* Mutant: the GPS HAL is not told.
    /\ Alive /\ phase = "booting"
    /\ m' = RebootLibraries(m)
    /\ phase' = "running"
    /\ UNCHANGED <<toMain, gps, off, hals, counters>>
TellClients ==
    /\ Alive /\ phase = "booting"
    /\ m' = RebootLibraries(m)
    /\ halNtf' = TRUE
    /\ phase' = "running"
    /\ UNCHANGED <<toMain, gps, off, want, halStart, counters>>

Recover == HalRead \/ HalResend \/ \E l \in Link : LinkRecover(l)
GpsThread == GpsStart \/ GpsStop \/ GpsReset \/ GpsWait \/ GpsResetDone
OffMain == SwitchExpires \/ (\E l \in Link : StopAnswered(l))
           \/ (\E o \in Thread : OffStop(o))
Process == Expire \/ Respawn \/ TellClients
Clients == HalStart \/ HalStop \/ HalReboot \/ AgpsRequest \/ HalDeleteAiding
           \/ (\E l \in Link : LinkStart(l) \/ LinkStop(l))

Next == Clients \/ Recover \/ MainEvent \/ GpsThread \/ Callback
        \/ EngineRestart \/ NmeaTimeout \/ OffMain \/ Process

Spec == Init /\ [][Next]_vars

\* Threads run, the engine calls back, a timer that is armed expires, init
\* starts a service that ended.
Fairness ==
    /\ WF_vars(HalRead) /\ WF_vars(HalResend)
    /\ \A l \in Link : WF_vars(LinkRecover(l))
    /\ WF_vars(MainEvent) /\ WF_vars(GpsThread) /\ WF_vars(Callback)
    /\ WF_vars(SwitchExpires)
    /\ \A l \in Link : WF_vars(StopAnswered(l))
    /\ \A o \in Thread : WF_vars(OffStop(o))
    /\ WF_vars(Expire) /\ WF_vars(Respawn) /\ WF_vars(TellClients)

FairSpec == Spec /\ Fairness

(***************************************************************************)
(* Properties.                                                             *)
(***************************************************************************)
\* No message, no callback and no thread is under way.
Quiet ==
    /\ Alive /\ phase = "running"
    /\ Silent /\ gps.pc = "idle"
    /\ \A o \in Thread : off[o].pc = "idle"
    /\ m.ntf = {} /\ ~halNtf /\ ~halStart /\ ~m.timerSwitch
    /\ ~Watched

\* On a chip without automatic switching no interleaving of requests, engine
\* callbacks, resets and restarts reaches the CRASH_TO_DEBUG of a state that
\* does not expect the event.
HostNeverCrashes == ~m.auto => ~m.bad

\* When nothing is under way the engine runs exactly when somebody uses it,
\* and the state says so.  (With automatic switching only if nothing fails: the
\* restart for links is not watched, so one that fails is never noticed.)
EngineFollowsUsers ==
    Quiet /\ (m.auto => faults = 0) =>
        /\ m.state \in {"IDLE", "STARTED", "OFL_STARTED"}
        /\ (m.state = "IDLE") = (m.used = {})
        /\ gps.on = (m.used # {})

\* When nothing is under way no open a client still wants is unanswered, and
\* no close is once the engine is off.  Only a link opened on the chip while the
\* engine already runs, for the host or for another link, is left without an
\* answer, and its library holds back the start messages: neither STARTED nor
\* OFL_STARTED expects GPS_EVENT_OFFLOAD_START.
AcksSettled ==
    Quiet /\ (m.auto => faults = 0) =>
        /\ m.openAck \cap m.used \subseteq {l \in Link : m.auto /\ m.lib[l].held}
        /\ m.state = "IDLE" => m.closeAck = {}

\* The GPS HAL, whose intent survives a restart of the daemon, gets the
\* engine back whatever happened to the daemon.
HalServed == Quiet /\ Hal \in want => Hal \in m.used

\* On a host no link keeps the engine for a batching that ended, and a batching
\* that was told to start again goes without the engine only when the library
\* takes its source for running, after a reboot it was told of or before it
\* knew the session: mtk_flp_controller_reset_status is not called then.
HostLinks ==
    Quiet /\ ~m.auto =>
        /\ m.used \cap Link \subseteq want
        /\ \A l \in want \cap Link : l \in m.used \/ m.lib[l].running

\* A transition the engine will not answer is watched by a timer.
HostWatched ==
    ~m.auto /\ Alive /\ Silent /\ m.state \notin {"IDLE", "STARTED"} => Watched

\* The engine is never in use with the HAL untold to hold the wake lock, unless
\* its process is a new one, started in the middle of a session: the daemon
\* tells it only when the engine leaves IDLE.
Asleep == m.state # "IDLE" /\ ~m.wake
Awake == [][~m.auto /\ Asleep' => Asleep \/ HalReboot]_vars

\* Whatever the engine, the watchdogs and the other threads do, the daemon
\* comes to rest after the last request.
Settles == <>[]Quiet
=============================================================================
