----------------------------- MODULE MnldProofs -----------------------------
(***************************************************************************)
(* The GNSS daemon with any set of clients, any number of requests, NMEA   *)
(* timeouts and faults: its types, the GPS HAL that is served, and two     *)
(* inductive invariants, HostInv of a chip without automatic switching and *)
(* ChipInv of one with it, from which what holds at rest follows.          *)
(***************************************************************************)
EXTENDS Mnld, TLAPS

LEMMA OpenedType ==
  ASSUME NEW b \in Library, NEW ofl \in BOOLEAN
  PROVE  Opened(b, ofl) \in Library /\ Closed(b, ofl) \in Library
  BY DEF Opened, Closed, Library, Status

LEMMA SessionUpdateType ==
  ASSUME NEW b \in Library, NEW mode \in Mode
  PROVE  SessionUpdate(b, mode) \in Library
  BY DEF SessionUpdate, Library, Status, Mode, Offloads

LEMMA StartGpsType ==
  ASSUME NEW c \in Context, NEW state \in State, NEW w \in BOOLEAN
  PROVE  StartGps(c, state, w) \in Context /\ StopGps(c, state) \in Context
<1>1. Append(c.toGps, "START") \in Seq({"START", "STOP", "RESET"})
  BY DEF Context
<1>2. Append(c.toGps, "STOP") \in Seq({"START", "STOP", "RESET"})
  BY DEF Context
<1> QED BY <1>1, <1>2 DEF StartGps, StopGps, Context

LEMMA FlagsType ==
  ASSUME NEW c \in Context, NEW x \in Client
  PROVE  OpenFlags(c, x) \in Context /\ CloseFlags(c, x) \in Context /\ DropLinks(c) \in Context
  BY DEF OpenFlags, CloseFlags, DropLinks, Context

LEMMA AckType ==
  ASSUME NEW c \in Context
  PROVE  AckOpens(c) \in Context /\ AckCloses(c) \in Context
<1>1. AutoMode(c) \in BOOLEAN
  BY DEF AutoMode, Context
<1>2. [l \in Link |-> IF l \in c.openAck THEN Opened(c.lib[l], AutoMode(c)) ELSE c.lib[l]] \in [Link -> Library]
  BY <1>1, OpenedType DEF Context
<1>3. [l \in Link |-> IF l \in c.closeAck THEN Closed(c.lib[l], AutoMode(c)) ELSE c.lib[l]] \in [Link -> Library]
  BY <1>1, OpenedType DEF Context
<1>4. Append(c.toGps, "RESET") \in Seq({"START", "STOP", "RESET"})
  BY DEF Context
<1> QED BY <1>2, <1>3, <1>4 DEF AckOpens, AckCloses, Context

LEMMA ModeType ==
  ASSUME NEW c \in Context
  PROVE  AutoMode(c) \in BOOLEAN /\ HbdExists(c) \in BOOLEAN /\ OnlyLinks(c) \in BOOLEAN
  BY DEF AutoMode, HbdExists, OnlyLinks, Context

LEMMA WakeType ==
  ASSUME NEW c \in Context
  PROVE  /\ Acquire(c) \in Context /\ Release(c) \in Context
         /\ Unexpected(c) \in Context /\ LowPower(c) \in Context
<1>1. Acquire(c) \in Context /\ Release(c) \in Context
  BY ModeType DEF Acquire, Release, Context
<1>2. Unexpected(c) \in Context
  BY DEF Unexpected, Context
<1>3. LowPower(c) \in Context
  <2> DEFINE w == c.wake /\ ~c.fwk
  <2>1. w \in BOOLEAN
    OBVIOUS
  <2>2. LowPower(c) = IF ~AutoMode(c) \/ OnlyLinks(c) = c.lp THEN c
                      ELSE IF OnlyLinks(c)
                           THEN [c EXCEPT !.lp = TRUE, !.fwk = FALSE, !.wake = w]
                           ELSE [c EXCEPT !.lp = FALSE, !.fwk = TRUE, !.wake = TRUE]
    BY DEF LowPower
  <2> HIDE DEF w
  <2>3. /\ [c EXCEPT !.lp = TRUE, !.fwk = FALSE, !.wake = w] \in Context
        /\ [c EXCEPT !.lp = FALSE, !.fwk = TRUE, !.wake = TRUE] \in Context
    BY <2>1 DEF Context
  <2> QED BY <2>2, <2>3
<1> QED BY <1>1, <1>2, <1>3

LEMMA SessionType ==
  ASSUME NEW c \in Context
  PROVE  /\ \A mode \in Mode : NewSession(c, mode) \in Context
         /\ RebootLibraries(c) \in Context
<1>1. ASSUME NEW mode \in Mode PROVE NewSession(c, mode) \in Context
  <2> DEFINE moved == {l \in Link : c.pre[l] # mode}
             lib == [l \in Link |-> IF l \in moved THEN SessionUpdate(c.lib[l], mode) ELSE c.lib[l]]
             ntf == c.ntf \cup {l \in moved : Switched(c.lib[l], mode)}
             used == c.used \ moved
  <2>1. lib \in [Link -> Library]
    BY SessionUpdateType DEF Context
  <2>2. ntf \in SUBSET Link /\ used \in SUBSET Client
    BY DEF Context
  <2>3. [l \in Link |-> mode] \in [Link -> Mode]
    OBVIOUS
  <2>4. NewSession(c, mode) = [c EXCEPT !.type = [l \in Link |-> mode], !.pre = [l \in Link |-> mode],
                                   !.used = used, !.lib = lib, !.ntf = ntf]
    BY DEF NewSession
  <2> HIDE DEF moved, lib, ntf, used
  <2> QED BY <2>1, <2>2, <2>3, <2>4 DEF Context
<1>2. RebootLibraries(c) \in Context
  <2>1. \A l \in Link : [SessionUpdate(c.lib[l], c.type[l]) EXCEPT !.status = "ATTACH_DONE"] \in Library
    <3>1. \A b \in Library : [b EXCEPT !.status = "ATTACH_DONE"] \in Library
      BY DEF Library, Status
    <3>2. \A l \in Link : SessionUpdate(c.lib[l], c.type[l]) \in Library
      BY SessionUpdateType DEF Context
    <3> QED BY <3>1, <3>2
  <2> QED BY <2>1 DEF RebootLibraries, Context
<1> QED BY <1>1, <1>2

LEMMA BootType ==
  ASSUME NEW auto \in BOOLEAN, NEW wake \in BOOLEAN, NEW ntf \in SUBSET Link
  PROVE  Boot(auto, wake, ntf) \in Context
  BY DEF Boot, Context, State, Mode, Library, Status

\* The fields that the states set themselves.
LEMMA FieldType ==
  ASSUME NEW c \in Context
  PROVE  /\ \A st \in State : [c EXCEPT !.state = st] \in Context
         /\ \A b \in BOOLEAN : /\ [c EXCEPT !.timerStart = b] \in Context
                               /\ [c EXCEPT !.timerStop = b] \in Context
                               /\ [c EXCEPT !.timerSwitch = b] \in Context
                               /\ [c EXCEPT !.resetAck = b] \in Context
         /\ [c EXCEPT !.timerReset = TRUE, !.aiding = FALSE, !.toGps = Append(@, "RESET")] \in Context
<1>1. Append(c.toGps, "RESET") \in Seq({"START", "STOP", "RESET"})
  BY DEF Context
<1> QED BY <1>1 DEF Context

LEMMA RestartType ==
  ASSUME NEW c \in Context, NEW state \in State
  PROVE  Restart(c, state) \in Context
  BY ModeType, StartGpsType DEF Restart

LEMMA IdleType ==
  ASSUME NEW c \in Context, NEW ev
  PROVE  Idle(c, ev) \in Context
<1>1. {"STARTING", "OFL_STARTING"} \subseteq State
  BY DEF State
<1> QED BY <1>1, WakeType, StartGpsType, AckType, FieldType DEF Idle

LEMMA StartingType ==
  ASSUME NEW c \in Context, NEW ev
  PROVE  Starting(c, ev) \in Context
<1> DEFINE s == AckOpens([c EXCEPT !.timerStart = FALSE])
           t == [s EXCEPT !.state = "STARTED"]
<1>1. s \in Context /\ t \in Context
  BY AckType, FieldType DEF State
<1>2. StopGps(s, "STOPPING") \in Context /\ NewSession(t, "AP") \in Context
  BY <1>1, StartGpsType, SessionType DEF State, Mode
<1>3. [t EXCEPT !.type = [l \in Link |-> "AP"], !.pre = [l \in Link |-> "AP"],
                !.timerSwitch = TRUE] \in Context
  BY <1>1 DEF Context, Mode
<1>4. Unexpected(c) \in Context
  BY WakeType
<1> HIDE DEF s, t
<1> QED BY <1>2, <1>3, <1>4 DEF Starting, s, t

LEMMA StartedType ==
  ASSUME NEW c \in Context, NEW ev
  PROVE  Started(c, ev) \in Context
<1>1. AckOpens(c) \in Context /\ AckCloses(c) \in Context /\ Unexpected(c) \in Context
  BY AckType, WakeType
<1>2. [StopGps(c, "STOPPING") EXCEPT !.timerSwitch = FALSE] \in Context
  BY StartGpsType, FieldType DEF State
<1>3. (AckCloses(c).timerSwitch \/ (c.auto /\ ~HbdExists(c))) \in BOOLEAN
  BY <1>1 DEF Context
<1>4. [AckCloses(c) EXCEPT !.timerSwitch = @ \/ (c.auto /\ ~HbdExists(c))] \in Context
  BY <1>1, <1>3, FieldType
<1> QED BY <1>1, <1>2, <1>4, FieldType DEF Started

LEMMA StoppingType ==
  ASSUME NEW c \in Context, NEW ev
  PROVE  Stopping(c, ev) \in Context
<1> DEFINE s == AckCloses([c EXCEPT !.timerStop = FALSE])
           t == [Release(s) EXCEPT !.state = "IDLE"]
<1>1. s \in Context /\ t \in Context
  BY AckType, WakeType, FieldType DEF State
<1>2. Restart(s, "STARTING") \in Context /\ NewSession(t, "AP_OFL") \in Context
  BY <1>1, RestartType, SessionType DEF State, Mode
<1>3. [c EXCEPT !.resetAck = FALSE] \in Context
  BY FieldType
<1> HIDE DEF s, t
<1> QED BY <1>1, <1>2, <1>3 DEF Stopping, s, t

LEMMA OflStartingType ==
  ASSUME NEW c \in Context, NEW ev
  PROVE  OflStarting(c, ev) \in Context
<1> DEFINE s == AckOpens([c EXCEPT !.timerStart = FALSE])
<1>1. s \in Context
  BY AckType, FieldType
<1>2. StopGps(s, "OFL_STOPPING") \in Context /\ Unexpected(c) \in Context
  BY <1>1, StartGpsType, WakeType DEF State
<1>3. [s EXCEPT !.state = "OFL_STARTED", !.type = [l \in Link |-> "OFL"]] \in Context
  BY <1>1 DEF Context, State, Mode
<1> HIDE DEF s
<1> QED BY <1>2, <1>3 DEF OflStarting, s

LEMMA OflStartedType ==
  ASSUME NEW c \in Context, NEW ev
  PROVE  OflStarted(c, ev) \in Context
<1> DEFINE s == AckOpens(c)
<1>1. s \in Context /\ AckCloses(c) \in Context /\ Unexpected(c) \in Context
  BY AckType, WakeType
<1>2. DropLinks(s) \in Context
  BY <1>1 DEF DropLinks, Context
<1>3. StopGps(DropLinks(s), "OFL_STOPPING") \in Context /\ StopGps(c, "OFL_STOPPING") \in Context
  BY <1>2, StartGpsType DEF State
<1> HIDE DEF s
<1> QED BY <1>1, <1>3 DEF OflStarted, s

LEMMA OflStoppingType ==
  ASSUME NEW c \in Context, NEW ev
  PROVE  OflStopping(c, ev) \in Context
<1> DEFINE s == AckCloses([c EXCEPT !.timerStop = FALSE])
           t == [Release(s) EXCEPT !.state = "IDLE"]
<1>1. s \in Context /\ t \in Context
  BY AckType, WakeType, FieldType DEF State
<1>2. Restart(s, "OFL_STARTING") \in Context /\ NewSession(t, "AP_OFL") \in Context
  BY <1>1, RestartType, SessionType DEF State, Mode
<1>3. Idle(LowPower(NewSession(t, "AP")), "START") \in Context
  BY <1>1, SessionType, WakeType, IdleType DEF Mode
<1>4. [c EXCEPT !.resetAck = FALSE] \in Context
  BY FieldType
<1> HIDE DEF s, t
<1> QED BY <1>1, <1>2, <1>3, <1>4 DEF OflStopping, s, t

LEMMA FsmType ==
  ASSUME NEW c \in Context, NEW ev
  PROVE  /\ \A st \in State : FsmIn(c, st, ev) \in Context
         /\ Fsm(c, ev) \in Context
<1>1. \A d \in Context, st \in State : FsmIn(d, st, ev) \in Context
  BY IdleType, StartingType, StartedType, StoppingType, OflStartingType, OflStartedType,
     OflStoppingType DEF FsmIn, State
<1>2. LowPower(c) \in Context /\ c.state \in State
  BY WakeType DEF Context
<1> QED BY <1>1, <1>2 DEF Fsm

LEMMA RequestType ==
  ASSUME NEW c \in Context, NEW x \in Client
  PROVE  /\ Open(c, x) \in Context /\ Close(c, x) \in Context
         /\ ClientReboot(c, x) \in Context /\ DeleteAiding(c, x) \in Context
<1>1. [CloseFlags(c, x) EXCEPT !.closeAck = @ \ {x}, !.resetAck = @ /\ x # Agps] \in Context
  <2> DEFINE d == CloseFlags(c, x)
             cl == d.closeAck \ {x}
             rs == d.resetAck /\ x # Agps
  <2>1. d \in Context
    BY FlagsType
  <2>2. cl \in SUBSET Client /\ rs \in BOOLEAN
    BY <2>1 DEF Context
  <2>3. [d EXCEPT !.closeAck = cl, !.resetAck = rs] \in Context
    <3> HIDE DEF d, cl, rs
    <3> QED BY <2>1, <2>2 DEF Context
  <2> QED BY <2>3
<1>2. [c EXCEPT !.aiding = TRUE, !.resetAck = @ \/ x = Agps] \in Context
  BY DEF Context
<1> QED BY <1>1, <1>2, FlagsType, FsmType DEF Open, Close, ClientReboot, DeleteAiding

LEMMA LibFieldType ==
  ASSUME NEW c \in Context, NEW l \in Link
  PROVE  /\ \A st \in Status : [c EXCEPT !.lib[l].status = st] \in Context
         /\ \A b \in BOOLEAN : /\ [c EXCEPT !.lib[l].running = b] \in Context
                               /\ [c EXCEPT !.lib[l].held = b] \in Context
<1>1. \A b \in Library : /\ \A st \in Status : [b EXCEPT !.status = st] \in Library
                         /\ \A x \in BOOLEAN : /\ [b EXCEPT !.running = x] \in Library
                                               /\ [b EXCEPT !.held = x] \in Library
  BY DEF Library
<1>2. c.lib[l] \in Library
  BY DEF Context
<1>3. \A b \in Library : [c EXCEPT !.lib = [c.lib EXCEPT ![l] = b]] \in Context
  BY DEF Context
<1>4. \A st \in Status : [c EXCEPT !.lib[l].status = st] \in Context
  BY <1>1, <1>2 DEF Context
<1>5. \A b \in BOOLEAN : [c EXCEPT !.lib[l].running = b] \in Context
  BY <1>1, <1>2 DEF Context
<1>6. \A b \in BOOLEAN : [c EXCEPT !.lib[l].held = b] \in Context
  BY <1>1, <1>2 DEF Context
<1> QED BY <1>4, <1>5, <1>6

LEMMA OflLinkOpenType ==
  ASSUME NEW c \in Context, NEW l \in Link
  PROVE  OflLinkOpen(c, l) \in Context
<1>1. l \in Client
  BY DEF Client
<1>2. OpenFlags(c, l) \in Context
  BY <1>1, FlagsType
<1>3. [OpenFlags(c, l) EXCEPT !.type[l] = "OFL"] \in Context
  BY <1>2 DEF Context, Mode
<1> QED BY <1>3, FsmType DEF OflLinkOpen

LEMMA LibraryType ==
  ASSUME NEW c \in Context, NEW l \in Link
  PROVE  LibraryStart(c, l) \in Context /\ LibraryStop(c, l) \in Context
<1> DEFINE b == c.lib[l]
           asked == [c EXCEPT !.lib[l].status = IF b.sys = "OFL" THEN "OFL_OPEN" ELSE "HBD_OPEN"]
           sent == IF ~b.synced THEN asked
                   ELSE IF b.sys = "OFL" THEN OflLinkOpen(asked, l) ELSE Open(asked, l)
           closed == [c EXCEPT !.lib[l].status = "HBD_CLOSE"]
           left == IF c.lib[l].synced THEN Close(closed, l) ELSE closed
<1>1. l \in Client
  BY DEF Client
<1>2. asked \in Context /\ closed \in Context
  BY LibFieldType DEF Status
<1> HIDE DEF asked, closed
<1>3. sent \in Context /\ left \in Context
  BY <1>1, <1>2, OflLinkOpenType, RequestType
<1> HIDE DEF sent, left
<1>4. [(IF b.held THEN c ELSE sent) EXCEPT !.lib[l].held = TRUE] \in Context
  BY <1>3, LibFieldType
<1>5. [sent EXCEPT !.lib[l].running = TRUE] \in Context /\ [left EXCEPT !.lib[l].running = FALSE] \in Context
  BY <1>3, LibFieldType
<1> QED BY <1>4, <1>5 DEF LibraryStart, LibraryStop, asked, sent, closed, left

-----------------------------------------------------------------------------
Event == {"START_DONE", "STOP_DONE", "RESET_DONE", "NMEA_TIMEOUT"}
Engine == [pc : {"idle", "set", "wait"}, restart : BOOLEAN,
           cond : BOOLEAN, cb : 0..MaxCallbacks, on : BOOLEAN]
Slot == [pc : {"idle", "due", "read"}, st : State]

LEMMA CountType ==
  ASSUME TypeOK
  PROVE  /\ Request => requests' \in 0..MaxRequests
         /\ Fault => faults' \in 0..MaxFaults
         /\ (nmeas < MaxNmea /\ nmeas' = nmeas + 1) => nmeas' \in 0..MaxNmea
<1>1. MaxRequests \in Nat /\ MaxNmea \in Nat /\ MaxFaults \in Nat
  BY BoundAssumption
<1> QED BY <1>1 DEF TypeOK, Request, Fault

LEMMA SendType ==
  ASSUME TypeOK, NEW c \in Context, Send(c)
  PROVE  m' \in Context
BY DEF TypeOK, Send

\* What a new process of the GPS HAL changes before its message is handled.
LEMMA NewHal ==
  ASSUME TypeOK
  PROVE  LET s == [m EXCEPT !.wake = FALSE]
         IN  /\ s \in Context /\ s.auto = m.auto /\ s.bad = m.bad /\ s.timerSwitch = m.timerSwitch
             /\ s.type = m.type /\ s.pre = m.pre /\ s.ntf = m.ntf /\ s.lib = m.lib /\ s.state = m.state
             /\ s.timerStart = m.timerStart /\ s.timerStop = m.timerStop /\ s.toGps = m.toGps
             /\ s.used = m.used /\ s.openAck = m.openAck /\ s.closeAck = m.closeAck
BY DEF TypeOK, Context

LEMMA ClientType ==
  ASSUME TypeOK, Clients
  PROVE  TypeOK'
<1>1. m \in Context /\ Hal \in Client /\ Agps \in Client /\ \A l \in Link : l \in Client /\ l \in Thread
  BY ClientAssumption DEF TypeOK, Client, Thread
<1>2. CASE HalStart
  BY <1>1, <1>2, CountType, RequestType, SendType DEF HalStart, TypeOK
<1>3. CASE HalStop
  BY <1>1, <1>3, CountType, RequestType, SendType DEF HalStop, TypeOK
<1>4. CASE HalReboot
  <2> DEFINE s == [m EXCEPT !.wake = FALSE]
  <2>1. s \in Context
    BY NewHal
  <2>2. m' = (IF Alive THEN ClientReboot(s, Hal) ELSE s)
    BY <1>4 DEF HalReboot
  <2> HIDE DEF s
  <2>3. m' \in Context
    BY <1>1, <2>1, <2>2, RequestType
  <2> QED BY <2>3, <1>4, CountType DEF HalReboot, TypeOK
<1>5. CASE AgpsRequest
  <2>1. m' \in Context
    BY <1>1, <1>5, RequestType DEF AgpsRequest
  <2> QED BY <2>1, <1>5, CountType DEF AgpsRequest, TypeOK, hals
<1>6. CASE HalDeleteAiding
  <2>1. m' \in Context
    BY <1>1, <1>6, RequestType DEF HalDeleteAiding
  <2> QED BY <2>1, <1>6, CountType DEF HalDeleteAiding, TypeOK, hals
<1>7. ASSUME NEW l \in Link, LinkStart(l) PROVE TypeOK'
  <2>1. m' \in Context
    BY <1>1, <1>7, LibraryType DEF LinkStart
  <2> QED BY <2>1, <1>7, CountType DEF LinkStart, TypeOK
<1>8. ASSUME NEW l \in Link, LinkStop(l) PROVE TypeOK'
  <2>1. m' \in Context
    BY <1>1, <1>8, LibraryType DEF LinkStop
  <2>2. off' \in [Thread -> Slot]
    BY <1>1, <1>8 DEF LinkStop, TypeOK, Slot
  <2> QED BY <2>1, <2>2, <1>8, CountType DEF LinkStop, TypeOK, Slot
<1> QED BY <1>2, <1>3, <1>4, <1>5, <1>6, <1>7, <1>8 DEF Clients

LEMMA RecoverType ==
  ASSUME TypeOK, Recover
  PROVE  TypeOK'
<1>1. CASE HalRead
  <2>1. (Hal \in want) \in BOOLEAN
    OBVIOUS
  <2> QED BY <2>1, <1>1 DEF HalRead, TypeOK, counters
<1>2. CASE HalResend
  <2>1. m' \in Context
    BY <1>2, RequestType, SendType, ClientAssumption DEF HalResend, TypeOK, Client
  <2> QED BY <2>1, <1>2 DEF HalResend, TypeOK, counters
<1>3. ASSUME NEW l \in Link, LinkRecover(l) PROVE TypeOK'
  <2>1. [m EXCEPT !.ntf = @ \ {l}] \in Context
    BY DEF TypeOK, Context
  <2>2. m' \in Context
    BY <1>3, <2>1, LibraryType DEF LinkRecover
  <2> QED BY <2>2, <1>3 DEF LinkRecover, TypeOK, hals, counters
<1> QED BY <1>1, <1>2, <1>3 DEF Recover

LEMMA EventType ==
  ASSUME TypeOK, MainEvent
  PROVE  TypeOK'
<1> DEFINE ev == Head(toMain)
<1>1. toMain \in Seq(Event) /\ toMain # <<>> /\ m \in Context
  BY DEF MainEvent, TypeOK, Event
<1>2. toMain' \in Seq(Event)
  BY <1>1 DEF MainEvent
<1>3. m' \in Context /\ halNtf' \in BOOLEAN
  <2>1. CASE m' = Fsm(m, ev) /\ UNCHANGED halNtf
    BY <2>1, <1>1, FsmType DEF TypeOK
  <2>2. CASE m' = [m EXCEPT !.timerReset = FALSE, !.resetAck = FALSE] /\ UNCHANGED halNtf
    BY <2>2, <1>1 DEF TypeOK, Context
  <2>3. CASE m' = RebootLibraries(Fsm([m EXCEPT !.used = {}], "STOP")) /\ halNtf' = TRUE
    <3>1. [m EXCEPT !.used = {}] \in Context
      BY <1>1 DEF Context
    <3> QED BY <2>3, <3>1, FsmType, SessionType
  <2>4. CASE UNCHANGED <<m, halNtf>>
    BY <2>4 DEF TypeOK
  <2> QED BY <2>1, <2>2, <2>3, <2>4 DEF MainEvent
<1> QED BY <1>2, <1>3 DEF MainEvent, TypeOK, counters, Event

LEMMA TakeType ==
  ASSUME TypeOK, NEW ev, Take(ev)
  PROVE  m' \in Context
<1>1. m.toGps \in Seq({"START", "STOP", "RESET"}) /\ m.toGps # <<>>
  BY DEF Take, TypeOK, Context
<1>2. Tail(m.toGps) \in Seq({"START", "STOP", "RESET"})
  BY <1>1
<1> QED BY <1>2 DEF Take, TypeOK, Context

LEMMA PostType ==
  ASSUME TypeOK
  PROVE  \A ev \in Event : Append(toMain, ev) \in Seq(Event)
BY DEF TypeOK, Event

LEMMA GpsType ==
  ASSUME TypeOK, GpsThread \/ Callback \/ EngineRestart \/ NmeaTimeout
  PROVE  TypeOK'
<1>0. gps \in Engine /\ 0 \in 0..MaxCallbacks /\ 1 \in 0..MaxCallbacks
  BY DEF TypeOK, Engine, MaxCallbacks
<1>1. CASE GpsStart
  <2>0. /\ [gps EXCEPT !.on = TRUE, !.cb = 1] \in Engine
        /\ [gps EXCEPT !.on = FALSE, !.cb = 0] \in Engine
    BY <1>0 DEF Engine
  <2>1. gps' \in Engine /\ faults' \in 0..MaxFaults
    BY <1>1, <2>0, CountType DEF GpsStart, TypeOK
  <2>2. m' \in Context
    BY <1>1, TakeType DEF GpsStart
  <2> QED BY <2>1, <2>2, <1>1 DEF GpsStart, TypeOK, Engine, hals
<1>2. CASE GpsStop
  <2>1. gps' \in Engine
    BY <1>0, <1>2 DEF GpsStop, Engine
  <2>2. m' \in Context
    BY <1>2, TakeType DEF GpsStop
  <2>3. off' \in [Thread -> Slot]
    BY <1>2 DEF GpsStop, TypeOK, Slot, AtRest, State
  <2>4. toMain' \in Seq(Event) /\ faults' \in 0..MaxFaults
    BY <1>2, PostType, CountType DEF GpsStop, TypeOK, Event
  <2> QED BY <2>1, <2>2, <2>3, <2>4, <1>2 DEF GpsStop, TypeOK, Engine, Slot, Event, hals
<1>3. CASE GpsReset
  <2>1. gps' \in Engine
    <3> DEFINE cb == IF gps.on /\ gps.cb < MaxCallbacks THEN gps.cb + 1 ELSE gps.cb
    <3>1. cb \in 0..MaxCallbacks
      BY <1>0 DEF Engine, MaxCallbacks
    <3>2. gps' = [gps EXCEPT !.pc = "set", !.cb = cb]
      BY <1>3 DEF GpsReset
    <3> HIDE DEF cb
    <3> QED BY <1>0, <3>1, <3>2 DEF Engine
  <2>2. m' \in Context
    BY <1>3, TakeType DEF GpsReset
  <2> QED BY <2>1, <2>2, <1>3 DEF GpsReset, TypeOK, Engine, hals, counters
<1>4. CASE GpsWait
  BY <1>4 DEF GpsWait, TypeOK, hals, counters
<1>5. CASE GpsResetDone
  <2>1. toMain' \in Seq(Event)
    BY <1>5, PostType DEF GpsResetDone, Event
  <2> QED BY <2>1, <1>5 DEF GpsResetDone, TypeOK, Event, hals, counters
<1>6. CASE Callback
  <2>1. toMain' \in Seq(Event)
    BY <1>6, PostType DEF Callback, Event
  <2>2. gps' \in Engine
    <3>1. PICK released : gps' = [gps EXCEPT !.cb = @ - 1, !.cond = @ \/ (gps.restart /\ released)]
      BY <1>6 DEF Callback
    <3> DEFINE cond == gps.cond \/ (gps.restart /\ released)
    <3>2. cond \in BOOLEAN /\ gps.cb - 1 \in 0..MaxCallbacks
      <4>1. cond \in BOOLEAN
        OBVIOUS
      <4>2. gps.cb > 0
        BY <1>6 DEF Callback
      <4>3. gps.cb - 1 \in 0..MaxCallbacks
        BY <1>0, <4>2 DEF Engine, MaxCallbacks
      <4> QED BY <4>1, <4>3
    <3>3. gps' = [gps EXCEPT !.cb = gps.cb - 1, !.cond = cond]
      BY <3>1 DEF TypeOK
    <3> HIDE DEF cond
    <3> QED BY <1>0, <3>2, <3>3 DEF Engine
  <2> QED BY <2>1, <2>2, <1>6 DEF Callback, TypeOK, Engine, Event, hals, counters
<1>7. CASE EngineRestart
  <2>1. gps' \in Engine
    BY <1>7 DEF EngineRestart, TypeOK, Engine, MaxCallbacks
  <2> QED BY <2>1, <1>7, CountType DEF EngineRestart, TypeOK, Engine, hals
<1>8. CASE NmeaTimeout
  <2>1. toMain' \in Seq(Event)
    BY <1>8, PostType DEF NmeaTimeout, Event
  <2> QED BY <2>1, <1>8, CountType DEF NmeaTimeout, TypeOK, Event, hals
<1> QED BY <1>1, <1>2, <1>3, <1>4, <1>5, <1>6, <1>7, <1>8 DEF GpsThread

LEMMA EnterType ==
  ASSUME TypeOK, NEW o \in Thread, NEW c \in Context, Enter(o, c)
  PROVE  m' \in Context /\ off' \in [Thread -> Slot]
<1>1. m.state \in State
  BY DEF TypeOK, Context
<1> QED BY <1>1, WakeType DEF Enter, TypeOK, Slot

LEMMA OffType ==
  ASSUME TypeOK, OffMain
  PROVE  TypeOK'
<1>1. m \in Context /\ off \in [Thread -> Slot]
  BY DEF TypeOK, Slot
<1>2. CASE SwitchExpires
  <2> DEFINE s == [m EXCEPT !.timerSwitch = FALSE]
  <2>1. s \in Context /\ DropLinks(s) \in Context
    <3>1. s \in Context
      BY <1>1, FieldType
    <3> HIDE DEF s
    <3> QED BY <3>1 DEF DropLinks, Context
  <2>2. Switch \in Thread
    BY DEF Thread
  <2>3. m' \in Context /\ off' \in [Thread -> Slot]
    <3> HIDE DEF s
    <3> QED BY <1>1, <1>2, <2>1, <2>2, EnterType DEF SwitchExpires, s
  <2> QED BY <2>3, <1>2 DEF SwitchExpires, TypeOK, Slot, hals, counters
<1>3. ASSUME NEW l \in Link, StopAnswered(l) PROVE TypeOK'
  <2>1. m' \in Context /\ off' \in [Thread -> Slot]
    BY <1>1, <1>3, FlagsType, EnterType DEF StopAnswered, Thread, Client
  <2> QED BY <2>1, <1>3 DEF StopAnswered, TypeOK, Slot, hals, counters
<1>4. ASSUME NEW o \in Thread, OffStop(o) PROVE TypeOK'
  <2> DEFINE s == FsmIn(m, off[o].st, "STOP")
  <2>1. off[o].st \in State
    BY <1>1 DEF Slot
  <2>2. s \in Context
    BY <1>1, <2>1, FsmType
  <2>3. m' \in Context
    <3> HIDE DEF s
    <3>1. o # Switch => o \in Link
      BY DEF Thread
    <3>2. CASE o = Switch
      BY <1>4, <2>2, <3>2 DEF OffStop, s
    <3>3. CASE o # Switch
      BY <1>4, <2>2, <3>1, <3>3, LibFieldType DEF OffStop, Status, s
    <3> QED BY <3>2, <3>3
  <2>4. off' \in [Thread -> Slot]
    BY <1>1, <1>4 DEF OffStop, AtRest, Slot, State
  <2> QED BY <2>3, <2>4, <1>4 DEF OffStop, TypeOK, Slot, hals, counters
<1> QED BY <1>2, <1>3, <1>4 DEF OffMain

LEMMA ProcessType ==
  ASSUME TypeOK, Process
  PROVE  TypeOK'
<1>1. CASE Expire
  BY <1>1, CountType DEF Expire, TypeOK, hals
<1>2. CASE Respawn
  <2>1. m' \in Context
    BY <1>2, BootType DEF Respawn, TypeOK, Context
  <2>2. gps' \in Engine /\ off' \in [Thread -> Slot] /\ toMain' \in Seq(Event)
    BY <1>2 DEF Respawn, NoGps, AtRest, Engine, Slot, State, MaxCallbacks
  <2> QED BY <2>1, <2>2, <1>2 DEF Respawn, TypeOK, Engine, Slot, Event, hals, counters
<1>3. CASE TellClients
  BY <1>3, SessionType DEF TellClients, TypeOK, counters
<1> QED BY <1>1, <1>2, <1>3 DEF Process

LEMMA InitType == Init => TypeOK
<1> SUFFICES ASSUME Init PROVE TypeOK
  OBVIOUS
<1>1. PICK auto \in BOOLEAN : m = [RebootLibraries(Boot(auto, FALSE, {})) EXCEPT !.ntf = {}]
  BY DEF Init
<1>2. RebootLibraries(Boot(auto, FALSE, {})) \in Context
  BY BootType, SessionType
<1>3. m \in Context
  BY <1>1, <1>2 DEF Context
<1>4. gps \in Engine /\ off \in [Thread -> Slot] /\ toMain \in Seq(Event)
  BY DEF Init, NoGps, AtRest, Engine, Slot, State, MaxCallbacks
<1>5. 0 \in 0..MaxRequests /\ 0 \in 0..MaxNmea /\ 0 \in 0..MaxFaults
  BY BoundAssumption
<1> QED BY <1>3, <1>4, <1>5 DEF Init, TypeOK, Engine, Slot, Event

LEMMA NextType == TypeOK /\ [Next]_vars => TypeOK'
<1> SUFFICES ASSUME TypeOK, [Next]_vars PROVE TypeOK'
  OBVIOUS
<1>1. CASE UNCHANGED vars
  BY <1>1 DEF TypeOK, vars
<1> QED BY <1>1, ClientType, RecoverType, EventType, GpsType, OffType, ProcessType DEF Next

(***************************************************************************)
(* Every action of the daemon, its clients and its threads keeps the       *)
(* context, the queues and the threads within their types; with the        *)
(* bounds any set of clients and any number of requests may have.          *)
(***************************************************************************)
THEOREM MnldTypeCorrect == Spec => []TypeOK
BY InitType, NextType, PTL DEF Spec

(***************************************************************************)
(* The GPS HAL is served.  Nothing the state machine does by itself takes  *)
(* a host based client from the users, only links are dropped; and the     *)
(* chip stays the one it is.                                               *)
(***************************************************************************)
Lasting(c) == <<c.auto, c.used \cap Hbd>>
Hosts(c) == c.used \cap Hbd

LEMMA LastingKeptBySteps ==
  ASSUME NEW c \in Context
  PROVE  /\ \A st \in State, w \in BOOLEAN : Lasting(StartGps(c, st, w)) = Lasting(c)
         /\ \A st \in State : Lasting(StopGps(c, st)) = Lasting(c) /\ Lasting(Restart(c, st)) = Lasting(c)
         /\ Lasting(AckOpens(c)) = Lasting(c) /\ Lasting(AckCloses(c)) = Lasting(c)
         /\ Lasting(Acquire(c)) = Lasting(c) /\ Lasting(Release(c)) = Lasting(c)
         /\ Lasting(DropLinks(c)) = Lasting(c) /\ Lasting(Unexpected(c)) = Lasting(c)
         /\ Lasting(LowPower(c)) = Lasting(c)
         /\ \A mode \in Mode : Lasting(NewSession(c, mode)) = Lasting(c)
         /\ Lasting(RebootLibraries(c)) = Lasting(c)
<1> USE DEF Lasting
<1>1. \A st \in State, w \in BOOLEAN : StartGps(c, st, w).used = c.used /\ StartGps(c, st, w).auto = c.auto
  BY DEF StartGps, Context
<1>2. \A st \in State : /\ StopGps(c, st).used = c.used /\ Restart(c, st).used = c.used
                       /\ StopGps(c, st).auto = c.auto /\ Restart(c, st).auto = c.auto
  BY DEF StopGps, Restart, StartGps, Context
<1>3. /\ AckOpens(c).used = c.used /\ AckCloses(c).used = c.used
      /\ AckOpens(c).auto = c.auto /\ AckCloses(c).auto = c.auto
  BY DEF AckOpens, AckCloses, Context
<1>4. /\ Acquire(c).used = c.used /\ Release(c).used = c.used
      /\ Unexpected(c).used = c.used
      /\ Acquire(c).auto = c.auto /\ Release(c).auto = c.auto
      /\ Unexpected(c).auto = c.auto
  BY DEF Acquire, Release, Unexpected, Context
<1>5. LowPower(c).used = c.used /\ LowPower(c).auto = c.auto
  BY DEF LowPower, Context
<1>6. DropLinks(c).used = c.used \ Link /\ DropLinks(c).auto = c.auto
  BY DEF DropLinks, Context
<1>7. RebootLibraries(c).used = c.used /\ RebootLibraries(c).auto = c.auto
  BY DEF RebootLibraries, Context
<1>8. \A mode \in Mode : \E moved \in SUBSET Link : /\ NewSession(c, mode).used = c.used \ moved
                                                   /\ NewSession(c, mode).auto = c.auto
  <2> TAKE mode \in Mode
  <2> WITNESS {l \in Link : c.pre[l] # mode} \in SUBSET Link
  <2> QED BY DEF NewSession, Context
<1>9. \A moved \in SUBSET Link : (c.used \ moved) \cap Hbd = c.used \cap Hbd
  BY ClientAssumption
<1> QED BY <1>1, <1>2, <1>3, <1>4, <1>5, <1>6, <1>7, <1>8, <1>9

LEMMA LastingKeptByFields ==
  ASSUME NEW c \in Context
  PROVE  /\ \A st \in State : Lasting([c EXCEPT !.state = st]) = Lasting(c)
         /\ \A b \in BOOLEAN : /\ Lasting([c EXCEPT !.timerStart = b]) = Lasting(c)
                               /\ Lasting([c EXCEPT !.timerStop = b]) = Lasting(c)
                               /\ Lasting([c EXCEPT !.timerSwitch = b]) = Lasting(c)
                               /\ Lasting([c EXCEPT !.resetAck = b]) = Lasting(c)
         /\ Lasting([c EXCEPT !.timerReset = TRUE, !.aiding = FALSE, !.toGps = Append(@, "RESET")]) = Lasting(c)
BY DEF Lasting, Context

LEMMA IdleLasting ==
  ASSUME NEW c \in Context, NEW ev
  PROVE  Lasting(Idle(c, ev)) = Lasting(c)
<1>1. {"STARTING", "OFL_STARTING"} \subseteq State
  BY DEF State
<1>2. Acquire(c) \in Context /\ Lasting(Acquire(c)) = Lasting(c)
  BY WakeType, LastingKeptBySteps
<1>3. \A st \in State : Lasting(StartGps(Acquire(c), st, TRUE)) = Lasting(c)
  BY <1>2, LastingKeptBySteps
<1>4. /\ Lasting(AckCloses(c)) = Lasting(c) /\ Lasting(Unexpected(c)) = Lasting(c)
      /\ Lasting([c EXCEPT !.resetAck = FALSE]) = Lasting(c)
  BY LastingKeptBySteps, LastingKeptByFields
<1> QED BY <1>1, <1>3, <1>4 DEF Idle

LEMMA FsmInLasting ==
  ASSUME NEW c \in Context, NEW ev, NEW st \in State
  PROVE  Lasting(FsmIn(c, st, ev)) = Lasting(c)
<1>0. State = {"IDLE", "STARTING", "STARTED", "STOPPING", "OFL_STARTING", "OFL_STARTED", "OFL_STOPPING"}
      /\ {"AP", "AP_OFL"} \subseteq Mode
  BY DEF State, Mode
<1>1. Lasting(Starting(c, ev)) = Lasting(c)
  <2> DEFINE s == AckOpens([c EXCEPT !.timerStart = FALSE])
             t == [s EXCEPT !.state = "STARTED"]
  <2>1. s \in Context /\ t \in Context /\ Lasting(s) = Lasting(c) /\ Lasting(t) = Lasting(c)
    <3> DEFINE d == [c EXCEPT !.timerStart = FALSE]
    <3>1. d \in Context /\ Lasting(d) = Lasting(c)
      BY FieldType, LastingKeptByFields
    <3> HIDE DEF d
    <3>2. AckOpens(d) \in Context /\ Lasting(AckOpens(d)) = Lasting(c)
      BY <3>1, AckType, LastingKeptBySteps
    <3> QED BY <1>0, <3>2, FieldType, LastingKeptByFields DEF d
  <2>2. Lasting([t EXCEPT !.type = [l \in Link |-> "AP"], !.pre = [l \in Link |-> "AP"],
                        !.timerSwitch = TRUE]) = Lasting(t)
    BY <2>1 DEF Lasting, Context
  <2> HIDE DEF s, t
  <2> QED BY <1>0, <2>1, <2>2, LastingKeptBySteps DEF Starting, s, t
<1>2. Lasting(Started(c, ev)) = Lasting(c)
  <2>1. AckCloses(c) \in Context /\ StopGps(c, "STOPPING") \in Context
    BY <1>0, AckType, StartGpsType
  <2>2. (AckCloses(c).timerSwitch \/ (c.auto /\ ~HbdExists(c))) \in BOOLEAN
    BY <2>1 DEF Context
  <2>3. Lasting([AckCloses(c) EXCEPT !.timerSwitch = @ \/ (c.auto /\ ~HbdExists(c))]) = Lasting(c)
    BY ZenonT(60), <2>1, <2>2, LastingKeptBySteps, LastingKeptByFields
  <2>4. Lasting([StopGps(c, "STOPPING") EXCEPT !.timerSwitch = FALSE]) = Lasting(c)
    BY ZenonT(60), <1>0, <2>1, LastingKeptBySteps, LastingKeptByFields
  <2>5. /\ Lasting(AckOpens(c)) = Lasting(c) /\ Lasting(Unexpected(c)) = Lasting(c)
        /\ Lasting([c EXCEPT !.timerReset = TRUE, !.aiding = FALSE, !.toGps = Append(@, "RESET")]) = Lasting(c)
    BY LastingKeptBySteps, LastingKeptByFields
  <2> QED BY <2>3, <2>4, <2>5 DEF Started
<1>3. Lasting(Stopping(c, ev)) = Lasting(c)
  <2> DEFINE s == AckCloses([c EXCEPT !.timerStop = FALSE])
             t == [Release(s) EXCEPT !.state = "IDLE"]
  <2>1. s \in Context /\ t \in Context /\ Lasting(s) = Lasting(c) /\ Lasting(t) = Lasting(c)
    <3> DEFINE d == [c EXCEPT !.timerStop = FALSE]
    <3>1. d \in Context /\ Lasting(d) = Lasting(c)
      BY FieldType, LastingKeptByFields
    <3> HIDE DEF d
    <3>2. AckCloses(d) \in Context /\ Lasting(AckCloses(d)) = Lasting(c)
      BY <3>1, AckType, LastingKeptBySteps
    <3>3. Release(AckCloses(d)) \in Context /\ Lasting(Release(AckCloses(d))) = Lasting(c)
      BY <3>2, WakeType, LastingKeptBySteps
    <3> QED BY <1>0, <3>2, <3>3, FieldType, LastingKeptByFields DEF d
  <2> HIDE DEF s, t
  <2> QED BY <1>0, <2>1, LastingKeptBySteps, LastingKeptByFields DEF Stopping, s, t
<1>4. Lasting(OflStarting(c, ev)) = Lasting(c)
  <2> DEFINE s == AckOpens([c EXCEPT !.timerStart = FALSE])
  <2>1. s \in Context /\ Lasting(s) = Lasting(c)
    BY AckType, FieldType, LastingKeptBySteps, LastingKeptByFields
  <2>2. Lasting([s EXCEPT !.state = "OFL_STARTED", !.type = [l \in Link |-> "OFL"]]) = Lasting(s)
    BY <2>1 DEF Lasting, Context
  <2> HIDE DEF s
  <2> QED BY <1>0, <2>1, <2>2, LastingKeptBySteps DEF OflStarting, s
<1>5. Lasting(OflStarted(c, ev)) = Lasting(c)
  <2>1. /\ AckOpens(c) \in Context /\ DropLinks(AckOpens(c)) \in Context
        /\ Lasting(AckOpens(c)) = Lasting(c) /\ Lasting(DropLinks(AckOpens(c))) = Lasting(c)
    <3>1. AckOpens(c) \in Context
      BY AckType
    <3>2. DropLinks(AckOpens(c)) \in Context
      BY <3>1, ClientAssumption, FlagsType DEF Client
    <3> QED BY <3>1, <3>2, LastingKeptBySteps
  <2> QED BY <1>0, <2>1, LastingKeptBySteps DEF OflStarted
<1>6. Lasting(OflStopping(c, ev)) = Lasting(c)
  <2> DEFINE s == AckCloses([c EXCEPT !.timerStop = FALSE])
             t == [Release(s) EXCEPT !.state = "IDLE"]
             u == NewSession(t, "AP")
  <2>1. s \in Context /\ t \in Context /\ Lasting(s) = Lasting(c) /\ Lasting(t) = Lasting(c)
    <3> DEFINE d == [c EXCEPT !.timerStop = FALSE]
    <3>1. d \in Context /\ Lasting(d) = Lasting(c)
      BY FieldType, LastingKeptByFields
    <3> HIDE DEF d
    <3>2. AckCloses(d) \in Context /\ Lasting(AckCloses(d)) = Lasting(c)
      BY <3>1, AckType, LastingKeptBySteps
    <3>3. Release(AckCloses(d)) \in Context /\ Lasting(Release(AckCloses(d))) = Lasting(c)
      BY <3>2, WakeType, LastingKeptBySteps
    <3> QED BY <1>0, <3>2, <3>3, FieldType, LastingKeptByFields DEF d
  <2> HIDE DEF s, t
  <2>2. u \in Context /\ Lasting(u) = Lasting(c)
    BY <1>0, <2>1, SessionType, LastingKeptBySteps
  <2> HIDE DEF u
  <2>3. Lasting(Idle(LowPower(u), "START")) = Lasting(c)
    BY <2>2, WakeType, IdleLasting, LastingKeptBySteps
  <2> QED BY <1>0, <2>1, <2>3, LastingKeptBySteps, LastingKeptByFields DEF OflStopping, s, t, u
<1> QED BY <1>0, <1>1, <1>2, <1>3, <1>4, <1>5, <1>6, IdleLasting DEF FsmIn

LEMMA FsmLasting ==
  ASSUME NEW c \in Context, NEW ev
  PROVE  Lasting(Fsm(c, ev)) = Lasting(c)
<1>1. c.state \in State
  BY DEF Context
<1> QED BY <1>1, WakeType, LastingKeptBySteps, FsmInLasting DEF Fsm

LEMMA FsmHosts ==
  ASSUME NEW c \in Context, NEW ev
  PROVE  /\ Hosts(Fsm(c, ev)) = Hosts(c) /\ Fsm(c, ev).auto = c.auto
         /\ \A st \in State : /\ Hosts(FsmIn(c, st, ev)) = Hosts(c)
                              /\ FsmIn(c, st, ev).auto = c.auto
BY FsmLasting, FsmInLasting DEF Lasting, Hosts

LEMMA StepHosts ==
  ASSUME NEW c \in Context
  PROVE  \A d \in {LowPower(c), DropLinks(c), RebootLibraries(c), [c EXCEPT !.timerSwitch = FALSE]} :
            Hosts(d) = Hosts(c) /\ d.auto = c.auto
BY ZenonT(60), LastingKeptBySteps, LastingKeptByFields DEF Lasting, Hosts

LEMMA RequestHosts ==
  ASSUME NEW c \in Context, NEW x \in Client
  PROVE  /\ Hosts(Open(c, x)) = Hosts(c) \cup ({x} \cap Hbd)
         /\ Hosts(Close(c, x)) = Hosts(c) \ {x}
         /\ Hosts(ClientReboot(c, x)) = Hosts(c) \ {x}
         /\ Hosts(DeleteAiding(c, x)) = Hosts(c)
         /\ Open(c, x).auto = c.auto /\ Close(c, x).auto = c.auto
         /\ ClientReboot(c, x).auto = c.auto /\ DeleteAiding(c, x).auto = c.auto
<1>1. Hosts(OpenFlags(c, x)) = Hosts(c) \cup ({x} \cap Hbd) /\ OpenFlags(c, x).auto = c.auto
  BY DEF OpenFlags, Hosts, Context
<1>2. Hosts(CloseFlags(c, x)) = Hosts(c) \ {x} /\ CloseFlags(c, x).auto = c.auto
  BY DEF CloseFlags, Hosts, Context
<1>3. \A d \in Context, b \in BOOLEAN :
        LET e == [d EXCEPT !.closeAck = @ \ {x}, !.resetAck = b]
        IN  e \in Context /\ Hosts(e) = Hosts(d) /\ e.auto = d.auto
  BY DEF Hosts, Context
<1>4. LET e == [CloseFlags(c, x) EXCEPT !.closeAck = @ \ {x}, !.resetAck = @ /\ x # Agps]
      IN  e \in Context /\ Hosts(e) = Hosts(c) \ {x} /\ e.auto = c.auto
  <2>1. (CloseFlags(c, x).resetAck /\ x # Agps) \in BOOLEAN
    OBVIOUS
  <2> QED BY <1>2, <1>3, <2>1, FlagsType
<1>5. LET e == [c EXCEPT !.aiding = TRUE, !.resetAck = @ \/ x = Agps]
      IN  e \in Context /\ Hosts(e) = Hosts(c) /\ e.auto = c.auto
  <2>1. (c.resetAck \/ x = Agps) \in BOOLEAN
    OBVIOUS
  <2>2. \A b \in BOOLEAN : LET e == [c EXCEPT !.aiding = TRUE, !.resetAck = b]
                           IN  e \in Context /\ Hosts(e) = Hosts(c) /\ e.auto = c.auto
    BY DEF Hosts, Context
  <2> QED BY <2>1, <2>2
<1> QED BY ZenonT(60), <1>1, <1>2, <1>4, <1>5, FlagsType, FsmHosts DEF Open, Close, ClientReboot, DeleteAiding

LEMMA LibraryHosts ==
  ASSUME NEW c \in Context, NEW l \in Link
  PROVE  /\ Hosts(LibraryStart(c, l)) = Hosts(c) /\ LibraryStart(c, l).auto = c.auto
         /\ Hosts(LibraryStop(c, l)) = Hosts(c) /\ LibraryStop(c, l).auto = c.auto
<1> DEFINE b == c.lib[l]
           asked == [c EXCEPT !.lib[l].status = IF b.sys = "OFL" THEN "OFL_OPEN" ELSE "HBD_OPEN"]
           sent == IF ~b.synced THEN asked
                   ELSE IF b.sys = "OFL" THEN OflLinkOpen(asked, l) ELSE Open(asked, l)
           closed == [c EXCEPT !.lib[l].status = "HBD_CLOSE"]
           left == IF c.lib[l].synced THEN Close(closed, l) ELSE closed
<1>1. l \in Client /\ l \notin Hbd
  BY ClientAssumption DEF Client
<1>2. /\ asked \in Context /\ Hosts(asked) = Hosts(c) /\ asked.auto = c.auto
      /\ closed \in Context /\ Hosts(closed) = Hosts(c) /\ closed.auto = c.auto
  <2>1. \A st \in Status : LET d == [c EXCEPT !.lib[l].status = st]
                           IN  d \in Context /\ d.used = c.used /\ d.auto = c.auto
    BY LibFieldType DEF Context
  <2> QED BY <2>1 DEF Status, Hosts
<1> HIDE DEF asked, closed
<1>3. /\ OflLinkOpen(asked, l) \in Context /\ Hosts(OflLinkOpen(asked, l)) = Hosts(c)
      /\ OflLinkOpen(asked, l).auto = c.auto
  <2> DEFINE o == OpenFlags(asked, l)
             e == [o EXCEPT !.type[l] = "OFL"]
  <2>1. o \in Context /\ Hosts(o) = Hosts(c) /\ o.auto = c.auto
    <3>1. o \in Context
      BY <1>1, <1>2, FlagsType
    <3>2. o.used = asked.used \cup {l} /\ o.auto = asked.auto
      BY <1>2 DEF OpenFlags, Context
    <3> QED BY <1>1, <1>2, <3>1, <3>2 DEF Hosts
  <2> HIDE DEF o
  <2>2. e \in Context /\ Hosts(e) = Hosts(c) /\ e.auto = c.auto
    BY <2>1 DEF Hosts, Context, Mode
  <2>3. OflLinkOpen(asked, l) = Fsm(e, "OFFLOAD_START")
    BY DEF OflLinkOpen, e, o
  <2> HIDE DEF e
  <2> QED BY <2>2, <2>3, FsmType, FsmHosts
<1>4. /\ sent \in Context /\ Hosts(sent) = Hosts(c) /\ sent.auto = c.auto
      /\ left \in Context /\ Hosts(left) = Hosts(c) /\ left.auto = c.auto
  <2>1. /\ Open(asked, l) \in Context /\ Hosts(Open(asked, l)) = Hosts(c) \cup ({l} \cap Hbd)
        /\ Open(asked, l).auto = c.auto
    <3>1. Open(asked, l) \in Context
      BY <1>1, <1>2, RequestType
    <3>2. Hosts(Open(asked, l)) = Hosts(asked) \cup ({l} \cap Hbd) /\ Open(asked, l).auto = asked.auto
      BY <1>1, <1>2, RequestHosts
    <3> QED BY <1>2, <3>1, <3>2
  <2>2. /\ Close(closed, l) \in Context /\ Hosts(Close(closed, l)) = Hosts(c) \ {l}
        /\ Close(closed, l).auto = c.auto
    <3>1. Close(closed, l) \in Context
      BY <1>1, <1>2, RequestType
    <3>2. Hosts(Close(closed, l)) = Hosts(closed) \ {l} /\ Close(closed, l).auto = closed.auto
      BY <1>1, <1>2, RequestHosts
    <3> QED BY <1>2, <3>1, <3>2
  <2>3. Hosts(c) \cup ({l} \cap Hbd) = Hosts(c) /\ Hosts(c) \ {l} = Hosts(c)
    BY <1>1 DEF Hosts
  <2> QED BY <1>2, <1>3, <2>1, <2>2, <2>3
<1> HIDE DEF sent, left
<1>5. LET d == [(IF b.held THEN c ELSE sent) EXCEPT !.lib[l].held = TRUE]
      IN  Hosts(d) = Hosts(c) /\ d.auto = c.auto
  BY <1>4 DEF Hosts, Context
<1>6. LET d == [sent EXCEPT !.lib[l].running = TRUE]
          e == [left EXCEPT !.lib[l].running = FALSE]
      IN  Hosts(d) = Hosts(c) /\ d.auto = c.auto /\ Hosts(e) = Hosts(c) /\ e.auto = c.auto
  BY <1>4 DEF Hosts, Context
<1> QED BY <1>5, <1>6 DEF LibraryStart, LibraryStop, asked, sent, closed, left

(***************************************************************************)
(* What the GPS HAL wants is with the daemon, or on its way to it: the     *)
(* HAL is being told to repeat it, has read it and will, or the process is *)
(* gone or has not told its clients yet.                                   *)
(***************************************************************************)
HalCovered ==
    Hal \in want => Hal \in m.used \/ halNtf \/ halStart \/ ~Alive \/ phase = "booting"

LEMMA HalUsed ==
  \A c : (Hal \in Hosts(c)) = (Hal \in c.used)
BY ClientAssumption DEF Hosts

LEMMA ClientCovers ==
  ASSUME TypeOK, HalCovered, Clients
  PROVE  HalCovered'
<1>1. m \in Context /\ Hal \in Client /\ Agps \in Client /\ Hal # Agps /\ Hal \in Hbd /\ Hal \notin Link
  BY ClientAssumption DEF TypeOK, Client
<1>2. CASE HalStart
  <2>1. Hal \in Open(m, Hal).used
    BY <1>1, RequestHosts, HalUsed
  <2> QED BY <1>2, <2>1 DEF HalStart, HalCovered, Send, Alive
<1>3. CASE HalStop
  BY <1>3 DEF HalStop, HalCovered
<1>4. CASE HalReboot
  BY <1>4 DEF HalReboot, HalCovered
<1>5. ASSUME UNCHANGED <<phase, halNtf, halStart>>, Alive, Hosts(m) \ {Agps} \subseteq Hosts(m'),
             (Hal \in want') => Hal \in want
      PROVE  HalCovered'
  <2>1. Hal \in m.used => Hal \in m'.used
    BY <1>1, <1>5, HalUsed
  <2> QED BY <1>5, <2>1 DEF HalCovered, Alive
<1>6. CASE AgpsRequest
  <2>1. Hosts(m) \ {Agps} \subseteq Hosts(m')
    BY <1>1, <1>6, RequestHosts DEF AgpsRequest
  <2> QED BY <1>5, <1>6, <2>1 DEF AgpsRequest, hals
<1>7. CASE HalDeleteAiding
  <2>1. Hosts(m) \ {Agps} \subseteq Hosts(m')
    BY <1>1, <1>7, RequestHosts DEF HalDeleteAiding
  <2> QED BY <1>5, <1>7, <2>1 DEF HalDeleteAiding, hals
<1>8. ASSUME NEW l \in Link, LinkStart(l) PROVE HalCovered'
  <2>1. Hosts(m') = Hosts(m)
    BY <1>1, <1>8, LibraryHosts DEF LinkStart
  <2> QED BY <1>1, <1>5, <1>8, <2>1 DEF LinkStart
<1>9. ASSUME NEW l \in Link, LinkStop(l) PROVE HalCovered'
  <2>1. Hosts(m') = Hosts(m)
    BY <1>1, <1>9, LibraryHosts DEF LinkStop
  <2> QED BY <1>1, <1>5, <1>9, <2>1 DEF LinkStop
<1> QED BY <1>2, <1>3, <1>4, <1>6, <1>7, <1>8, <1>9 DEF Clients

LEMMA DaemonCovers ==
  ASSUME TypeOK, HalCovered, Recover \/ MainEvent \/ OffMain
  PROVE  HalCovered'
<1>1. m \in Context /\ Hal \in Client /\ Hal \in Hbd /\ off \in [Thread -> Slot]
  BY ClientAssumption DEF TypeOK, Client, Slot
<1>2. ASSUME UNCHANGED <<phase, want, halStart>>, halNtf => halNtf', Alive,
             Hosts(m) \subseteq Hosts(m') \/ halNtf'
      PROVE  HalCovered'
  <2>1. Hal \in m.used => Hal \in m'.used \/ halNtf'
    BY <1>1, <1>2, HalUsed
  <2> QED BY <1>2, <2>1 DEF HalCovered, Alive
<1>3. CASE HalRead
  BY <1>3 DEF HalRead, HalCovered, Alive
<1>4. CASE HalResend
  <2>1. Hal \in Open(m, Hal).used
    BY <1>1, RequestHosts, HalUsed
  <2> QED BY <1>4, <2>1 DEF HalResend, HalCovered, Send, Alive
<1>5. ASSUME NEW l \in Link, LinkRecover(l) PROVE HalCovered'
  <2> DEFINE s == [m EXCEPT !.ntf = @ \ {l}]
  <2>1. s \in Context /\ Hosts(s) = Hosts(m)
    BY <1>1 DEF Context, Hosts
  <2>2. m' = IF Alive /\ l \in want THEN LibraryStart(s, l) ELSE s
    BY <1>5 DEF LinkRecover
  <2>0. s.used = m.used /\ s.bad = m.bad
    BY <1>1 DEF Context
  <2> HIDE DEF s
  <2>3. Hosts(m') = Hosts(m)
    BY <2>1, <2>2, LibraryHosts
  <2>4. CASE Alive
    BY <1>2, <1>5, <2>3, <2>4 DEF LinkRecover, hals
  <2>5. CASE ~Alive
    <3>1. m' = s /\ UNCHANGED <<phase, want, halNtf, halStart>>
      BY <1>5, <2>2, <2>5 DEF LinkRecover, hals
    <3> QED BY <2>0, <2>5, <3>1 DEF HalCovered, Alive
  <2> QED BY <2>4, <2>5
<1>6. CASE MainEvent
  <2> DEFINE ev == Head(toMain)
  <2>1. CASE m' = Fsm(m, ev) /\ UNCHANGED halNtf
    BY <1>1, <1>2, <1>6, <2>1, FsmHosts DEF MainEvent
  <2>2. CASE m' = [m EXCEPT !.timerReset = FALSE, !.resetAck = FALSE] /\ UNCHANGED halNtf
    <3>1. Hosts(m') = Hosts(m)
      BY <1>1, <2>2 DEF Context, Hosts
    <3> QED BY <1>2, <1>6, <2>2, <3>1 DEF MainEvent
  <2>3. CASE halNtf' = TRUE
    BY <1>2, <1>6, <2>3 DEF MainEvent
  <2>4. CASE UNCHANGED <<m, halNtf>>
    BY <1>2, <1>6, <2>4 DEF MainEvent
  <2> QED BY <1>6, <2>1, <2>2, <2>3, <2>4 DEF MainEvent
<1>7. ASSUME NEW o \in Thread, NEW c \in Context, Hosts(c) = Hosts(m), Enter(o, c)
      PROVE  Hosts(m') = Hosts(m)
  BY <1>7, StepHosts DEF Enter
<1>8. CASE SwitchExpires
  <2> DEFINE s == [m EXCEPT !.timerSwitch = FALSE]
  <2>1. s \in Context /\ Hosts(s) = Hosts(m)
    BY <1>1, FieldType, StepHosts
  <2>2. m' = s \/ Enter(Switch, DropLinks(s))
    BY <1>8 DEF SwitchExpires
  <2> HIDE DEF s
  <2>3. DropLinks(s) \in Context /\ Hosts(DropLinks(s)) = Hosts(m)
    BY <1>1, <2>1, FlagsType, StepHosts
  <2>4. Hosts(m') = Hosts(m)
    BY <1>7, <2>1, <2>2, <2>3 DEF Thread
  <2> QED BY <1>2, <1>8, <2>4 DEF SwitchExpires, hals
<1>9. ASSUME NEW l \in Link, StopAnswered(l) PROVE HalCovered'
  <2>1. CloseFlags(m, l) \in Context /\ CloseFlags(m, l).used = m.used \ {l} /\ l \notin Hbd
    <3>1. l \in Client /\ l \notin Hbd
      BY ClientAssumption DEF Client
    <3>2. CloseFlags(m, l) \in Context
      BY <1>1, <3>1, FlagsType
    <3>3. CloseFlags(m, l).used = m.used \ {l}
      BY <1>1 DEF CloseFlags, Context
    <3> QED BY <3>1, <3>2, <3>3
  <2>2. Hosts(CloseFlags(m, l)) = Hosts(m)
    BY <2>1 DEF Hosts
  <2>3. Hosts(m') = Hosts(m)
    BY <1>7, <1>9, <2>1, <2>2 DEF StopAnswered, Thread
  <2> QED BY <1>2, <1>9, <2>3 DEF StopAnswered, hals
<1>10. ASSUME NEW o \in Thread, OffStop(o) PROVE HalCovered'
  <2> DEFINE s == FsmIn(m, off[o].st, "STOP")
  <2>1. s \in Context /\ Hosts(s) = Hosts(m)
    BY <1>1, FsmType, FsmHosts DEF Slot
  <2>2. m' = IF o = Switch THEN s ELSE [s EXCEPT !.lib[o].status = "OFL_CLOSE"]
    BY <1>10 DEF OffStop
  <2> HIDE DEF s
  <2>3. Hosts(m') = Hosts(m)
    BY <2>1, <2>2 DEF Hosts, Context
  <2> QED BY <1>2, <1>10, <2>3 DEF OffStop, hals
<1> QED BY <1>3, <1>4, <1>5, <1>6, <1>8, <1>9, <1>10 DEF Recover, OffMain

LEMMA EngineCovers ==
  ASSUME TypeOK, HalCovered,
         GpsThread \/ Callback \/ EngineRestart \/ NmeaTimeout \/ Process
  PROVE  HalCovered'
<1>1. ASSUME NEW ev, Take(ev) PROVE m'.used = m.used /\ Alive
  BY <1>1 DEF Take, TypeOK, Context
<1>2. ASSUME UNCHANGED <<phase, hals>>, Alive, m'.used = m.used PROVE HalCovered'
  BY <1>2 DEF HalCovered, Alive, hals
<1>3. CASE GpsStart
  BY <1>1, <1>2, <1>3 DEF GpsStart
<1>4. CASE GpsStop
  BY <1>1, <1>2, <1>4 DEF GpsStop
<1>5. CASE GpsReset
  BY <1>1, <1>2, <1>5 DEF GpsReset
<1>6. CASE GpsWait \/ GpsResetDone \/ Callback \/ EngineRestart \/ NmeaTimeout
  BY <1>2, <1>6 DEF GpsWait, GpsResetDone, Callback, EngineRestart, NmeaTimeout
<1>7. CASE Process
  BY <1>7 DEF Process, Expire, Respawn, TellClients, HalCovered, Alive, hals
<1> QED BY <1>3, <1>4, <1>5, <1>6, <1>7 DEF GpsThread

LEMMA HalCoveredAlways == Spec => []HalCovered
<1>1. Init => HalCovered
  BY DEF Init, HalCovered
<1>2. TypeOK /\ HalCovered /\ [Next]_vars => HalCovered'
  <2>1. CASE UNCHANGED vars
    BY <2>1 DEF HalCovered, vars, Alive
  <2> QED BY <2>1, ClientCovers, DaemonCovers, EngineCovers DEF Next
<1> QED BY <1>1, <1>2, MnldTypeCorrect, PTL DEF Spec

(***************************************************************************)
(* Whatever happened to the daemon, its threads and its engine, when       *)
(* nothing is under way a GPS HAL that wants the engine is one of its      *)
(* users.                                                                  *)
(***************************************************************************)
THEOREM HalServedAlways == Spec => []HalServed
<1>1. HalCovered => HalServed
  BY DEF HalCovered, HalServed, Quiet
<1> QED BY <1>1, HalCoveredAlways, PTL

(***************************************************************************)
(* A chip without automatic switching.  The sessions stay on the host, so  *)
(* the offload states, the timer that leads to them and the threads that   *)
(* enter the state machine beside the main one never come into play.       *)
(***************************************************************************)
HostMode(c) ==
    /\ ~c.auto /\ ~c.bad /\ ~c.timerSwitch
    /\ c.state \in {"IDLE", "STARTING", "STARTED", "STOPPING"}
    /\ \A l \in Link : c.type[l] = "AP" /\ c.pre[l] = "AP" /\ c.lib[l].sys = "AP"

\* Posted by an engine that was started and not yet stopped.
Running == {"START_DONE", "RESET_DONE", "NMEA_TIMEOUT"}
AllIn(q, S) == \A i \in 1..Len(q) : q[i] \in S
EndsWith(q, S, last) ==
    q # <<>> /\ q[Len(q)] = last /\ \A i \in 1..(Len(q) - 1) : q[i] \in S
Off(g) == g.pc = "idle" /\ ~g.on /\ g.cb = 0

\* The state against what the GPS control thread g has still to do, and what
\* it has posted, q: one start, then resets, then one stop; and told, the wake
\* lock of a GPS HAL whose process is not newer than the session.
HostFlow(c, g, q, told) ==
    /\ c.state = "STARTING" => c.timerStart
    /\ c.state = "STOPPING" => c.timerStop
    /\ told /\ c.state # "IDLE" => c.wake
    /\ c.state = "IDLE" => Off(g) /\ c.toGps = <<>> /\ q = <<>>
    /\ c.state = "STARTING" =>
          \/ Off(g) /\ c.toGps = <<"START">> /\ q = <<>>
          \/ /\ g.pc = "idle" /\ c.toGps = <<>> /\ AllIn(q, Running)
             /\ ~g.on => g.cb = 0 /\ q = <<>>
    /\ c.state = "STARTED" => g.on /\ AllIn(c.toGps, {"RESET"}) /\ AllIn(q, Running)
    /\ c.state = "STOPPING" =>
          \/ g.on /\ EndsWith(c.toGps, {"RESET"}, "STOP") /\ AllIn(q, Running)
          \/ /\ Off(g) /\ c.toGps = <<>>
             /\ AllIn(q, Running) \/ EndsWith(q, Running, "STOP_DONE")

\* The state against the users and the answers they wait for.
HostUse(c) ==
    /\ c.state = "IDLE" => c.used = {} /\ c.closeAck = {}
    /\ c.state = "STARTED" => c.used # {} /\ c.openAck = {}

\* The links that are users are those whose HAL batches and whose source runs;
\* a HAL that batches without is going to be told to start again.
HostLink(c, w, p) ==
    \A l \in Link :
        /\ l \in c.used => l \in w /\ c.lib[l].running /\ c.lib[l].synced
        /\ l \in w => c.lib[l].running \/ l \in c.ntf \/ p # "running"

HostGood(c, g, q, told) == HostMode(c) /\ HostUse(c) /\ HostFlow(c, g, q, told)

HostHolds(told) ==
    ~m.auto => /\ HostGood(m, gps, toMain, told) /\ HostLink(m, want, phase)
               /\ \A o \in Thread : off[o].pc = "idle"

HostInv == HostHolds(FALSE)

LEMMA HostOnly ==
  ASSUME NEW c \in Context, HostMode(c)
  PROVE  AutoMode(c) = FALSE /\ LowPower(c) = c
BY DEF HostMode, AutoMode, LowPower

\* What no event changes on a host; whom the daemon serves is up to the clients.
Kept(c, d) ==
    /\ d \in Context /\ d.auto = c.auto /\ d.bad = c.bad /\ d.timerSwitch = c.timerSwitch
    /\ d.type = c.type /\ d.pre = c.pre /\ d.ntf = c.ntf /\ d.used = c.used
    /\ \A l \in Link : /\ d.lib[l].sys = c.lib[l].sys
                       /\ d.lib[l].running = c.lib[l].running
                       /\ d.lib[l].synced = c.lib[l].synced
Same(c, d) ==
    /\ d.state = c.state /\ d.wake = c.wake
    /\ d.timerStart = c.timerStart /\ d.timerStop = c.timerStop

LEMMA HostAckOpens ==
  ASSUME NEW c \in Context, AutoMode(c) = FALSE
  PROVE  LET d == AckOpens(c)
         IN  /\ Kept(c, d) /\ Same(c, d) /\ d.openAck = {} /\ d.closeAck = c.closeAck
             /\ d.toGps = c.toGps \/ d.toGps = Append(c.toGps, "RESET")
<1> DEFINE lib == [l \in Link |-> IF l \in c.openAck THEN Opened(c.lib[l], FALSE) ELSE c.lib[l]]
           s == [c EXCEPT !.openAck = {}, !.resetAck = FALSE, !.lib = lib]
           t == [s EXCEPT !.timerReset = TRUE, !.aiding = FALSE, !.toGps = Append(@, "RESET")]
           d == AckOpens(c)
<1>1. d = IF c.aiding THEN t ELSE s
  BY DEF AckOpens
<1>2. \A l \in Link : lib[l].sys = c.lib[l].sys /\ lib[l].running = c.lib[l].running /\ lib[l].synced = c.lib[l].synced
  BY DEF Opened, Context, Library
<1>3. d \in Context
  BY AckType
<1>4. d.lib = lib
  BY <1>1 DEF Context
<1> HIDE DEF lib
<1>5. /\ d.auto = c.auto /\ d.bad = c.bad /\ d.timerSwitch = c.timerSwitch
      /\ d.type = c.type /\ d.pre = c.pre /\ d.ntf = c.ntf /\ d.used = c.used
      /\ Same(c, d) /\ d.openAck = {} /\ d.closeAck = c.closeAck
      /\ d.toGps = c.toGps \/ d.toGps = Append(c.toGps, "RESET")
  BY <1>1 DEF Context, Same
<1> HIDE DEF d
<1> QED BY <1>2, <1>3, <1>4, <1>5 DEF Kept, d

LEMMA HostAckCloses ==
  ASSUME NEW c \in Context, AutoMode(c) = FALSE
  PROVE  LET d == AckCloses(c)
         IN  /\ Kept(c, d) /\ Same(c, d) /\ d.closeAck = {} /\ d.openAck = c.openAck
             /\ d.toGps = c.toGps
<1> DEFINE lib == [l \in Link |-> IF l \in c.closeAck THEN Closed(c.lib[l], FALSE) ELSE c.lib[l]]
           d == AckCloses(c)
<1>1. d = [c EXCEPT !.closeAck = {}, !.resetAck = FALSE, !.lib = lib]
  BY DEF AckCloses
<1>2. \A l \in Link : lib[l].sys = c.lib[l].sys /\ lib[l].running = c.lib[l].running /\ lib[l].synced = c.lib[l].synced
  BY DEF Closed, Context, Library
<1>3. d \in Context
  BY AckType
<1>4. d.lib = lib
  BY <1>1 DEF Context
<1> HIDE DEF lib
<1>5. /\ d.auto = c.auto /\ d.bad = c.bad /\ d.timerSwitch = c.timerSwitch
      /\ d.type = c.type /\ d.pre = c.pre /\ d.ntf = c.ntf /\ d.used = c.used
      /\ Same(c, d) /\ d.closeAck = {} /\ d.openAck = c.openAck /\ d.toGps = c.toGps
  BY <1>1 DEF Context, Same
<1> HIDE DEF d
<1> QED BY <1>2, <1>3, <1>4, <1>5 DEF Kept, d

\* A request and what it does in each of the four states.
HostRequested(c, d, ev) ==
    /\ Kept(c, d)
    /\ c.state = "IDLE" /\ ev = "START" =>
          /\ d.state = "STARTING" /\ d.timerStart /\ d.wake
          /\ d.toGps = Append(c.toGps, "START")
    /\ c.state = "IDLE" /\ ev # "START" =>
          /\ Same(c, d) /\ d.toGps = c.toGps
          /\ d.closeAck = IF ev = "STOP" THEN {} ELSE c.closeAck
    /\ c.state \in {"STARTING", "STOPPING"} => Same(c, d) /\ d.toGps = c.toGps
    /\ c.state = "STARTED" /\ ~(ev = "STOP" /\ c.used = {}) =>
          /\ Same(c, d)
          /\ d.toGps = c.toGps \/ d.toGps = Append(c.toGps, "RESET")
          /\ d.openAck = IF ev = "START" THEN {} ELSE c.openAck
    /\ c.state = "STARTED" /\ ev = "STOP" /\ c.used = {} =>
          /\ d.state = "STOPPING" /\ d.timerStop /\ d.wake = c.wake
          /\ d.toGps = Append(c.toGps, "STOP")

LEMMA HostRequest ==
  ASSUME NEW c \in Context, HostMode(c), NEW ev \in {"START", "STOP", "RESET"}
  PROVE  HostRequested(c, Fsm(c, ev), ev)
<1> DEFINE d == Fsm(c, ev)
<1>1. d \in Context /\ d = FsmIn(c, c.state, ev) /\ AutoMode(c) = FALSE /\ ~c.auto
  BY HostOnly, FsmType DEF Fsm, HostMode
<1> DEFINE r == [c EXCEPT !.resetAck = FALSE]
           s == [c EXCEPT !.timerReset = TRUE, !.aiding = FALSE, !.toGps = Append(@, "RESET")]
<1>0. SUFFICES HostRequested(c, d, ev)
  OBVIOUS
<1>2. Kept(c, c) /\ Same(c, c)
  BY DEF Kept, Same
<1>3. Kept(c, r) /\ Same(c, r) /\ r.toGps = c.toGps /\ r.closeAck = c.closeAck
  <2>1. r \in Context
    BY FieldType
  <2> QED BY <2>1 DEF Kept, Same, Context
<1>4. Kept(c, s) /\ Same(c, s) /\ s.toGps = Append(c.toGps, "RESET") /\ s.openAck = c.openAck
  <2>1. s \in Context
    BY FieldType
  <2> QED BY <2>1 DEF Kept, Same, Context
<1> HIDE DEF r, s
<1>5. CASE c.state = "IDLE"
  <2>1. d = Idle(c, ev)
    BY <1>1, <1>5 DEF FsmIn
  <2>2. CASE ev = "START"
    <3>1. d = StartGps(Acquire(c), "STARTING", TRUE)
      BY <2>1, <2>2 DEF Idle
    <3>2. /\ Kept(c, d) /\ d.state = "STARTING" /\ d.timerStart /\ d.wake
          /\ d.toGps = Append(c.toGps, "START")
      BY <1>1, <3>1 DEF StartGps, Acquire, Kept, Context
    <3> QED BY <1>5, <2>2, <3>2 DEF HostRequested
  <2>3. CASE ev = "STOP"
    <3>1. d = AckCloses(c)
      BY <2>1, <2>3 DEF Idle
    <3> HIDE DEF d
    <3> QED BY <1>1, <1>5, <2>3, <3>1, HostAckCloses DEF HostRequested
  <2>4. CASE ev = "RESET"
    <3>1. d = r
      BY <2>1, <2>4 DEF Idle, r
    <3> HIDE DEF d
    <3> QED BY <1>3, <1>5, <2>4, <3>1 DEF HostRequested
  <2> QED BY <2>2, <2>3, <2>4
<1>6. CASE c.state = "STARTING"
  <2>1. d = c
    BY <1>1, <1>6 DEF FsmIn, Starting
  <2> HIDE DEF d
  <2> QED BY <1>2, <1>6, <2>1 DEF HostRequested
<1>7. CASE c.state = "STOPPING"
  <2>1. d = c \/ d = r
    BY <1>1, <1>7 DEF FsmIn, Stopping, r
  <2> HIDE DEF d
  <2> QED BY <1>2, <1>3, <1>7, <2>1 DEF HostRequested
<1>8. CASE c.state = "STARTED"
  <2>1. d = Started(c, ev)
    BY <1>1, <1>8 DEF FsmIn
  <2>2. CASE ev = "START"
    <3>1. d = AckOpens(c)
      BY <2>1, <2>2 DEF Started
    <3> HIDE DEF d
    <3> QED BY <1>1, <1>8, <2>2, <3>1, HostAckOpens DEF HostRequested
  <2>3. CASE ev = "STOP" /\ c.used = {}
    <3>1. d = [StopGps(c, "STOPPING") EXCEPT !.timerSwitch = FALSE]
      BY <2>1, <2>3 DEF Started
    <3>2. /\ Kept(c, d) /\ d.state = "STOPPING" /\ d.timerStop /\ d.wake = c.wake
          /\ d.toGps = Append(c.toGps, "STOP")
      BY ZenonT(60), <1>1, <3>1 DEF StopGps, Kept, Context, HostMode
    <3> QED BY <1>8, <2>3, <3>2 DEF HostRequested
  <2>4. CASE ev = "STOP" /\ c.used # {}
    <3> DEFINE e == AckCloses(c)
    <3>1. Kept(c, e) /\ Same(c, e) /\ e.closeAck = {} /\ e.openAck = c.openAck /\ e.toGps = c.toGps
      BY <1>1, HostAckCloses
    <3>2. d = [e EXCEPT !.timerSwitch = @ \/ (c.auto /\ ~HbdExists(c))]
      BY <2>1, <2>4 DEF Started
    <3> HIDE DEF e
    <3>3. e \in Context /\ (e.timerSwitch \/ (c.auto /\ ~HbdExists(c))) = e.timerSwitch
      BY <1>1, <3>1 DEF Kept, Context
    <3>4. d = e
      BY <3>2, <3>3 DEF Context
    <3> HIDE DEF d
    <3> QED BY <1>8, <2>4, <3>1, <3>4 DEF HostRequested
  <2>5. CASE ev = "RESET"
    <3>1. d = c \/ d = s
      BY <2>1, <2>5 DEF Started, s
    <3> HIDE DEF d
    <3> QED BY <1>2, <1>4, <1>8, <2>5, <3>1 DEF HostRequested
  <2> QED BY <2>2, <2>3, <2>4, <2>5
<1> QED BY <1>5, <1>6, <1>7, <1>8 DEF HostMode

\* The engine's answers, in the states that expect them.
HostAnswered(c, d, ev) ==
    /\ Kept(c, d)
    /\ ev = "START_DONE" /\ c.state \in {"STARTED", "STOPPING"} => d = c
    /\ ev = "START_DONE" /\ c.state = "STARTING" =>
          /\ d.wake = c.wake /\ d.openAck = {} /\ d.closeAck = c.closeAck
          /\ \E q \in {c.toGps, Append(c.toGps, "RESET")} :
                IF c.used = {}
                THEN d.state = "STOPPING" /\ d.timerStop /\ d.toGps = Append(q, "STOP")
                ELSE d.state = "STARTED" /\ d.toGps = q
    /\ ev = "STOP_DONE" /\ c.state = "STOPPING" =>
          /\ d.closeAck = {} /\ d.openAck = c.openAck
          /\ IF c.used = {}
             THEN d.state = "IDLE" /\ d.toGps = c.toGps
             ELSE /\ d.state = "STARTING" /\ d.timerStart /\ d.wake = c.wake
                  /\ d.toGps = Append(c.toGps, "START")

LEMMA KeptMode ==
  ASSUME NEW c, NEW d, HostMode(c), Kept(c, d),
         d.state \in {"IDLE", "STARTING", "STARTED", "STOPPING"}
  PROVE  HostMode(d)
BY DEF HostMode, Kept

LEMMA HostSession ==
  ASSUME NEW c \in Context, HostMode(c)
  PROVE  LET d == NewSession(c, "AP")
         IN  /\ Kept(c, d) /\ Same(c, d) /\ d.toGps = c.toGps
             /\ d.openAck = c.openAck /\ d.closeAck = c.closeAck
<1> DEFINE ap == [l \in Link |-> "AP"]
           d == NewSession(c, "AP")
<1>1. c.type = ap /\ c.pre = ap
  BY DEF HostMode, Context
<1>2. {l \in Link : c.pre[l] # "AP"} = {}
  BY DEF HostMode
<1>3. [l \in Link |-> IF l \in {} THEN SessionUpdate(c.lib[l], "AP") ELSE c.lib[l]] = c.lib
  BY DEF Context
<1>4. d = [c EXCEPT !.type = ap, !.pre = ap, !.used = @ \ {}, !.lib = c.lib,
                    !.ntf = @ \cup {l \in {} : Switched(c.lib[l], "AP")}]
  BY <1>2, <1>3 DEF NewSession
<1>5. d \in Context
  BY SessionType DEF Mode
<1>6. {l \in {} : Switched(c.lib[l], "AP")} = {} /\ c.used \ {} = c.used /\ c.ntf \cup {} = c.ntf
  OBVIOUS
<1>7. d = [c EXCEPT !.type = ap, !.pre = ap, !.used = c.used, !.lib = c.lib, !.ntf = c.ntf]
  BY <1>4, <1>6
<1> HIDE DEF ap, d
<1>8. /\ d.auto = c.auto /\ d.bad = c.bad /\ d.timerSwitch = c.timerSwitch
      /\ d.type = c.type /\ d.pre = c.pre /\ d.ntf = c.ntf /\ d.used = c.used /\ d.lib = c.lib
      /\ Same(c, d) /\ d.toGps = c.toGps /\ d.openAck = c.openAck /\ d.closeAck = c.closeAck
  BY <1>1, <1>7 DEF Context, Same
<1> QED BY <1>5, <1>8 DEF Kept, d

LEMMA HostStartDone ==
  ASSUME NEW c \in Context, HostMode(c), c.state # "IDLE"
  PROVE  HostAnswered(c, Fsm(c, "START_DONE"), "START_DONE")
<1> DEFINE d == Fsm(c, "START_DONE")
           r == [c EXCEPT !.timerStart = FALSE]
           s == AckOpens(r)
           t == [s EXCEPT !.state = "STARTED"]
<1>0. SUFFICES HostAnswered(c, d, "START_DONE")
  OBVIOUS
<1>1. d \in Context /\ d = FsmIn(c, c.state, "START_DONE") /\ ~c.auto
  BY HostOnly, FsmType DEF Fsm, HostMode
<1>2. CASE c.state = "STARTING"
  <2>1. d = IF s.used = {} THEN StopGps(s, "STOPPING")
            ELSE IF HbdExists(s) \/ ~c.auto THEN NewSession(t, "AP")
            ELSE [t EXCEPT !.type = [l \in Link |-> "AP"], !.pre = [l \in Link |-> "AP"],
                           !.timerSwitch = TRUE]
    BY <1>1, <1>2 DEF FsmIn, Starting
  <2>2. r \in Context /\ Kept(c, r) /\ r.wake = c.wake /\ r.toGps = c.toGps
        /\ r.closeAck = c.closeAck /\ r.state = c.state /\ HostMode(r)
    <3>1. r \in Context
      BY FieldType
    <3> QED BY <3>1, <1>2 DEF Kept, Context, HostMode
  <2> HIDE DEF r
  <2>3. /\ Kept(r, s) /\ Same(r, s) /\ s.openAck = {} /\ s.closeAck = r.closeAck
        /\ s.toGps = r.toGps \/ s.toGps = Append(r.toGps, "RESET")
    BY <2>2, HostOnly, HostAckOpens
  <2> HIDE DEF s
  <2>4. /\ Kept(c, s) /\ s.wake = c.wake /\ s.openAck = {} /\ s.closeAck = c.closeAck
        /\ s.toGps \in {c.toGps, Append(c.toGps, "RESET")}
    BY <2>2, <2>3 DEF Kept, Same
  <2>5. CASE c.used = {}
    <3>1. d = StopGps(s, "STOPPING")
      BY <2>1, <2>4, <2>5 DEF Kept
    <3>2. /\ Kept(c, d) /\ d.wake = c.wake /\ d.openAck = {} /\ d.closeAck = c.closeAck
          /\ d.state = "STOPPING" /\ d.timerStop /\ d.toGps = Append(s.toGps, "STOP")
      <4>1. s \in Context
        BY <2>4 DEF Kept
      <4>2. /\ d.auto = s.auto /\ d.bad = s.bad /\ d.timerSwitch = s.timerSwitch
            /\ d.type = s.type /\ d.pre = s.pre /\ d.ntf = s.ntf /\ d.used = s.used /\ d.lib = s.lib
            /\ d.openAck = s.openAck /\ d.closeAck = s.closeAck
            /\ d.wake = s.wake /\ d.state = "STOPPING" /\ d.timerStop /\ d.toGps = Append(s.toGps, "STOP")
        BY <4>1, <3>1 DEF StopGps, Context
      <4> HIDE DEF d
      <4>3. d \in Context
        BY <1>1 DEF d
      <4> QED BY <2>4, <4>2, <4>3 DEF Kept
    <3> HIDE DEF d
    <3> QED BY <1>2, <2>4, <2>5, <3>2 DEF HostAnswered
  <2>6. CASE c.used # {}
    <3>1. t \in Context /\ Kept(c, t) /\ t.state = "STARTED" /\ t.wake = c.wake /\ t.openAck = {}
          /\ t.closeAck = c.closeAck /\ t.toGps = s.toGps
      <4>1. t \in Context
        BY <2>4, FieldType DEF Kept, State
      <4> QED BY <4>1, <2>4 DEF Kept, Context
    <3>2. d = NewSession(t, "AP")
      BY <1>1, <2>1, <2>4, <2>6 DEF Kept
    <3>3. HostMode(t)
      BY <3>1, KeptMode
    <3> HIDE DEF t
    <3>4. Kept(t, d) /\ Same(t, d) /\ d.toGps = t.toGps /\ d.openAck = t.openAck
          /\ d.closeAck = t.closeAck
      BY <3>1, <3>2, <3>3, HostSession
    <3>5. /\ Kept(c, d) /\ d.wake = c.wake /\ d.openAck = {} /\ d.closeAck = c.closeAck
          /\ d.state = "STARTED" /\ d.toGps = s.toGps
      BY <3>1, <3>4 DEF Kept, Same
    <3> HIDE DEF d
    <3> QED BY <1>2, <2>4, <2>6, <3>5 DEF HostAnswered
  <2> QED BY <2>5, <2>6
<1>3. CASE c.state \in {"STARTED", "STOPPING"}
  <2>1. d = c
    BY <1>1, <1>3 DEF FsmIn, Started, Stopping
  <2> HIDE DEF d
  <2> QED BY <1>3, <2>1 DEF HostAnswered, Kept
<1> QED BY <1>2, <1>3 DEF HostMode

LEMMA HostStopDone ==
  ASSUME NEW c \in Context, HostMode(c), c.state = "STOPPING"
  PROVE  HostAnswered(c, Fsm(c, "STOP_DONE"), "STOP_DONE")
<1> DEFINE d == Fsm(c, "STOP_DONE")
           r == [c EXCEPT !.timerStop = FALSE]
           s == AckCloses(r)
           t == [Release(s) EXCEPT !.state = "IDLE"]
<1>0. SUFFICES HostAnswered(c, d, "STOP_DONE")
  OBVIOUS
<1>1. d \in Context /\ d = FsmIn(c, c.state, "STOP_DONE") /\ ~c.auto
  BY HostOnly, FsmType DEF Fsm, HostMode
<1>2. d = IF s.used # {} THEN Restart(s, "STARTING")
          ELSE IF c.auto THEN NewSession(t, "AP_OFL") ELSE t
  BY <1>1 DEF FsmIn, Stopping
<1>3. r \in Context /\ Kept(c, r) /\ r.wake = c.wake /\ r.toGps = c.toGps
      /\ r.openAck = c.openAck /\ r.state = c.state /\ HostMode(r)
  <2>1. r \in Context
    BY FieldType
  <2> QED BY <2>1 DEF Kept, Context, HostMode
<1> HIDE DEF r
<1>4. /\ Kept(r, s) /\ Same(r, s) /\ s.closeAck = {} /\ s.openAck = r.openAck /\ s.toGps = r.toGps
  BY <1>3, HostOnly, HostAckCloses
<1> HIDE DEF s
<1>5. /\ Kept(c, s) /\ s.wake = c.wake /\ s.closeAck = {} /\ s.openAck = c.openAck
      /\ s.toGps = c.toGps /\ s.state = "STOPPING"
  BY <1>3, <1>4 DEF Kept, Same
<1>6. CASE c.used # {}
  <2>0. AutoMode(s) = FALSE
    <3>1. HostMode(s) /\ s \in Context
      BY <1>5, KeptMode DEF Kept
    <3> QED BY <3>1, HostOnly
  <2>1. d = StartGps(s, "STARTING", TRUE)
    BY <1>2, <1>5, <1>6, <2>0 DEF Kept, Restart
  <2>2. /\ Kept(c, d) /\ d.closeAck = {} /\ d.openAck = c.openAck
        /\ d.state = "STARTING" /\ d.timerStart /\ d.wake = c.wake
        /\ d.toGps = Append(c.toGps, "START")
    <3>1. s \in Context
      BY <1>5 DEF Kept
    <3>2. /\ d.auto = s.auto /\ d.bad = s.bad /\ d.timerSwitch = s.timerSwitch
          /\ d.type = s.type /\ d.pre = s.pre /\ d.ntf = s.ntf /\ d.used = s.used /\ d.lib = s.lib
          /\ d.openAck = s.openAck /\ d.closeAck = s.closeAck
          /\ d.wake = s.wake /\ d.state = "STARTING" /\ d.timerStart /\ d.toGps = Append(s.toGps, "START")
      BY <3>1, <2>1 DEF StartGps, Context
    <3> HIDE DEF d
    <3>3. d \in Context
      BY <1>1 DEF d
    <3> QED BY <1>5, <3>2, <3>3 DEF Kept
  <2> HIDE DEF d
  <2> QED BY <1>6, <2>2 DEF HostAnswered
<1>7. CASE c.used = {}
  <2>1. d = t
    BY <1>1, <1>2, <1>5, <1>7 DEF Kept
  <2>2. /\ Kept(c, d) /\ d.closeAck = {} /\ d.openAck = c.openAck
        /\ d.state = "IDLE" /\ d.toGps = c.toGps
    <3>1. s \in Context
      BY <1>5 DEF Kept
    <3>2. /\ d.auto = s.auto /\ d.bad = s.bad /\ d.timerSwitch = s.timerSwitch
          /\ d.type = s.type /\ d.pre = s.pre /\ d.ntf = s.ntf /\ d.used = s.used /\ d.lib = s.lib
          /\ d.openAck = s.openAck /\ d.closeAck = s.closeAck
          /\ d.state = "IDLE" /\ d.toGps = s.toGps
      BY <3>1, <2>1 DEF Release, Context
    <3> HIDE DEF d
    <3>3. d \in Context
      BY <1>1 DEF d
    <3> QED BY <1>5, <3>2, <3>3 DEF Kept
  <2> HIDE DEF d
  <2> QED BY <1>7, <2>2 DEF HostAnswered
<1> QED BY <1>6, <1>7

\* The queues.
LEMMA Queue ==
  ASSUME NEW T, NEW q \in Seq(T), NEW S, NEW x \in T
  PROVE  /\ AllIn(q, S) /\ x \in S => AllIn(Append(q, x), S)
         /\ AllIn(q, S) => EndsWith(Append(q, x), S, x)
         /\ q # <<>> /\ AllIn(q, S) => Head(q) \in S /\ AllIn(Tail(q), S)
         /\ EndsWith(q, S, x) =>
               IF Len(q) = 1 THEN Head(q) = x /\ Tail(q) = <<>>
               ELSE Head(q) \in S /\ EndsWith(Tail(q), S, x)
         /\ AllIn(<<>>, S)
<1>1. AllIn(q, S) /\ x \in S => AllIn(Append(q, x), S)
  BY DEF AllIn
<1>2. AllIn(q, S) => EndsWith(Append(q, x), S, x)
  <2> DEFINE a == Append(q, x)
  <2>1. /\ a \in Seq(T) /\ Len(a) = Len(q) + 1 /\ a[Len(q) + 1] = x
        /\ \A i \in 1..Len(q) : a[i] = q[i]
    OBVIOUS
  <2>2. a # <<>> /\ Len(a) - 1 = Len(q)
    <3>1. Len(q) \in Nat /\ Len(<<>>) = 0
      OBVIOUS
    <3> HIDE DEF a
    <3> QED BY <2>1, <3>1
  <2> HIDE DEF a
  <2> QED BY <2>1, <2>2 DEF AllIn, EndsWith, a
<1>3. q # <<>> /\ AllIn(q, S) => Head(q) \in S /\ AllIn(Tail(q), S)
  BY DEF AllIn
<1>4. ASSUME EndsWith(q, S, x), Len(q) = 1 PROVE Head(q) = x /\ Tail(q) = <<>>
  <2>1. q[1] = x
    BY <1>4 DEF EndsWith
  <2>2. q # <<>>
    BY <1>4 DEF EndsWith
  <2>3. Tail(q) \in Seq(T) /\ Len(Tail(q)) = Len(q) - 1 /\ Head(q) = q[1]
    BY <2>2
  <2>4. Tail(q) = <<>>
    <3>1. Len(Tail(q)) = 0
      BY <1>4, <2>3
    <3>2. \A t \in Seq(T) : Len(t) = 0 => t = <<>>
      OBVIOUS
    <3> QED BY <2>3, <3>1, <3>2
  <2> QED BY <2>1, <2>3, <2>4
<1>5. ASSUME EndsWith(q, S, x), Len(q) # 1 PROVE Head(q) \in S /\ EndsWith(Tail(q), S, x)
  <2>0. q # <<>> /\ q[Len(q)] = x /\ \A i \in 1..(Len(q) - 1) : q[i] \in S
    BY <1>5 DEF EndsWith
  <2>1. Len(q) > 1 /\ q # <<>> /\ q[Len(q)] = x /\ \A i \in 1..(Len(q) - 1) : q[i] \in S
    <3>1. Len(q) \in Nat /\ (Len(q) = 0 => q = <<>>)
      OBVIOUS
    <3>2. Len(q) > 1
      <4>1. Len(q) # 0
        BY <2>0, <3>1
      <4> QED BY <1>5, <3>1, <4>1
    <3> QED BY <2>0, <3>2
  <2>2. Head(q) = q[1] /\ Len(Tail(q)) = Len(q) - 1 /\ \A i \in 1..(Len(q) - 1) : Tail(q)[i] = q[i + 1]
    BY <2>1
  <2>3. \A i \in 1..(Len(q) - 2) : i + 1 \in 1..(Len(q) - 1) /\ i \in 1..(Len(q) - 1)
    BY <2>1
  <2>4. Tail(q)[Len(q) - 1] = q[Len(q)] /\ Tail(q) # <<>>
    <3>1. Len(q) - 1 \in 1..(Len(q) - 1) /\ (Len(q) - 1) + 1 = Len(q)
      BY <2>1
    <3>2. Len(Tail(q)) # 0 /\ Len(<<>>) = 0
      BY <2>1, <2>2
    <3>3. Tail(q) # <<>>
      BY <3>2
    <3> QED BY <2>2, <3>1, <3>3
  <2> QED BY <2>1, <2>2, <2>3, <2>4 DEF EndsWith
<1>6. AllIn(<<>>, S)
  BY DEF AllIn
<1> QED BY <1>1, <1>2, <1>3, <1>4, <1>5, <1>6

Message == {"START", "STOP", "RESET"}

\* The state, the timers, the wake lock and the GPS control thread's messages
\* are all that HostFlow looks at.
LEMMA FlowSame ==
  ASSUME NEW told, NEW c, NEW d, NEW g, NEW q, HostFlow(c, g, q, told), Same(c, d), d.toGps = c.toGps
  PROVE  HostFlow(d, g, q, told)
BY DEF HostFlow, Same

LEMMA RequestFlow ==
  ASSUME NEW told, NEW c \in Context, NEW d, NEW g, NEW q \in Seq(Event), NEW ev \in {"START", "STOP", "RESET"},
         HostMode(c), HostFlow(c, g, q, told), HostRequested(c, d, ev)
  PROVE  HostMode(d) /\ HostFlow(d, g, q, told)
<1>1. c.toGps \in Seq(Message)
  BY DEF Context, Message
<1>2. CASE c.state = "IDLE" /\ ev = "START"
  <2>1. d.toGps = <<"START">> /\ d.state = "STARTING" /\ d.timerStart /\ d.wake /\ Off(g) /\ q = <<>>
    BY <1>2 DEF HostRequested, HostFlow
  <2> QED BY <1>2, <2>1, KeptMode DEF HostFlow, HostRequested
<1>3. CASE (c.state = "IDLE" /\ ev # "START") \/ c.state \in {"STARTING", "STOPPING"}
  <2>1. Same(c, d) /\ d.toGps = c.toGps /\ Kept(c, d)
    BY <1>3 DEF HostRequested
  <2> QED BY <2>1, FlowSame, KeptMode DEF Same, HostMode
<1>4. CASE c.state = "STARTED" /\ ~(ev = "STOP" /\ c.used = {})
  <2>1. /\ Same(c, d) /\ Kept(c, d)
        /\ d.toGps = c.toGps \/ d.toGps = Append(c.toGps, "RESET")
    BY <1>4 DEF HostRequested
  <2>2. AllIn(c.toGps, {"RESET"}) /\ g.on /\ AllIn(q, Running)
    BY <1>4 DEF HostFlow
  <2>3. AllIn(d.toGps, {"RESET"})
    <3>1. "RESET" \in {"RESET"} /\ "RESET" \in Message
      BY DEF Message
    <3>2. AllIn(Append(c.toGps, "RESET"), {"RESET"})
      BY <1>1, <2>2, <3>1, Queue
    <3> QED BY <2>1, <2>2, <3>2
  <2>4. d.state = "STARTED" /\ (told => d.wake)
    BY <1>4, <2>1 DEF Same, HostFlow
  <2> QED BY <2>1, <2>2, <2>3, <2>4, KeptMode DEF HostFlow
<1>5. CASE c.state = "STARTED" /\ ev = "STOP" /\ c.used = {}
  <2>1. /\ Kept(c, d) /\ d.state = "STOPPING" /\ d.timerStop /\ d.wake = c.wake
        /\ d.toGps = Append(c.toGps, "STOP")
    BY <1>5 DEF HostRequested
  <2>2. AllIn(c.toGps, {"RESET"}) /\ g.on /\ AllIn(q, Running) /\ (told => c.wake)
    BY <1>5 DEF HostFlow
  <2>3. EndsWith(d.toGps, {"RESET"}, "STOP")
    BY <1>1, <2>1, <2>2, Queue DEF Message
  <2> QED BY <2>1, <2>2, <2>3, KeptMode DEF HostFlow
<1> QED BY <1>2, <1>3, <1>4, <1>5 DEF HostMode

LEMMA RequestUse ==
  ASSUME NEW c, NEW d, NEW ev, HostMode(c), HostRequested(c, d, ev),
         ev = "START" => c.used # {},
         ev # "START" /\ c.state = "IDLE" => c.used = {} /\ (ev = "STOP" \/ c.closeAck = {}),
         ev # "START" /\ c.state = "STARTED" => c.openAck = {} /\ (ev = "STOP" \/ c.used # {})
  PROVE  HostUse(d)
<1>1. Kept(c, d)
  BY DEF HostRequested
<1>2. d.used = c.used
  BY <1>1 DEF Kept
<1> QED BY <1>2 DEF HostRequested, HostUse, Same, HostMode

\* What a client's call does to the links and to the users: those of the
\* context c, changed to the set u.
Linked(c, d, u) ==
    /\ d \in Context /\ d.auto = c.auto /\ d.used = u /\ d.ntf = c.ntf
    /\ \A l \in Link : /\ d.lib[l].running = c.lib[l].running
                       /\ d.lib[l].synced = c.lib[l].synced
                       /\ d.lib[l].sys = c.lib[l].sys

LEMMA HostCall ==
  ASSUME NEW told, NEW c \in Context, NEW e \in Context, NEW g, NEW q \in Seq(Event),
         NEW ev \in {"START", "STOP", "RESET"}, HostGood(c, g, q, told),
         e.auto = c.auto, e.bad = c.bad, e.timerSwitch = c.timerSwitch, e.type = c.type,
         e.pre = c.pre, e.ntf = c.ntf, e.lib = c.lib, Same(c, e), e.toGps = c.toGps,
         ev = "START" => e.used # {},
         ev = "STOP" => e.used \subseteq c.used /\ e.openAck \subseteq c.openAck,
         ev = "RESET" => e.used = c.used /\ e.openAck = c.openAck /\ e.closeAck = c.closeAck
  PROVE  HostGood(Fsm(e, ev), g, q, told) /\ Linked(c, Fsm(e, ev), e.used)
<1>1. HostMode(e) /\ HostFlow(e, g, q, told)
  BY FlowSame DEF HostGood, HostMode, Same
<1>2. HostRequested(e, Fsm(e, ev), ev)
  BY <1>1, HostRequest
<1> DEFINE d == Fsm(e, ev)
<1> HIDE DEF d
<1>3. HostMode(d) /\ HostFlow(d, g, q, told)
  BY <1>1, <1>2, RequestFlow DEF d
<1>4. /\ ev # "START" /\ e.state = "IDLE" => e.used = {} /\ (ev = "STOP" \/ e.closeAck = {})
      /\ ev # "START" /\ e.state = "STARTED" => e.openAck = {} /\ (ev = "STOP" \/ e.used # {})
  BY DEF HostGood, HostUse, Same
<1>5. HostUse(d)
  BY <1>1, <1>2, <1>4, RequestUse DEF d
<1>6. Linked(c, d, e.used)
  BY <1>2 DEF HostRequested, Kept, Linked, d
<1> QED BY <1>3, <1>5, <1>6 DEF HostGood, d

LEMMA HostClient ==
  ASSUME NEW told, NEW c \in Context, NEW g, NEW q \in Seq(Event), HostGood(c, g, q, told), NEW x \in Client
  PROVE  /\ HostGood(Open(c, x), g, q, told) /\ Linked(c, Open(c, x), c.used \cup {x})
         /\ HostGood(Close(c, x), g, q, told) /\ Linked(c, Close(c, x), c.used \ {x})
         /\ HostGood(ClientReboot(c, x), g, q, told) /\ Linked(c, ClientReboot(c, x), c.used \ {x})
         /\ HostGood(DeleteAiding(c, x), g, q, told) /\ Linked(c, DeleteAiding(c, x), c.used)
<1>1. HostGood(Open(c, x), g, q, told) /\ Linked(c, Open(c, x), c.used \cup {x})
  <2> DEFINE e == OpenFlags(c, x)
  <2>1. /\ e.auto = c.auto /\ e.bad = c.bad /\ e.timerSwitch = c.timerSwitch /\ e.type = c.type
        /\ e.pre = c.pre /\ e.ntf = c.ntf /\ e.lib = c.lib /\ Same(c, e) /\ e.toGps = c.toGps
        /\ e.used = c.used \cup {x}
    BY DEF OpenFlags, Context, Same
  <2>2. e \in Context
    BY FlagsType
  <2> HIDE DEF e
  <2>3. HostGood(Fsm(e, "START"), g, q, told) /\ Linked(c, Fsm(e, "START"), e.used)
    BY <2>1, <2>2, HostCall
  <2> QED BY <2>1, <2>3 DEF Open, e
<1>2. HostGood(Close(c, x), g, q, told) /\ Linked(c, Close(c, x), c.used \ {x})
  <2> DEFINE e == CloseFlags(c, x)
  <2>1. /\ e.auto = c.auto /\ e.bad = c.bad /\ e.timerSwitch = c.timerSwitch /\ e.type = c.type
        /\ e.pre = c.pre /\ e.ntf = c.ntf /\ e.lib = c.lib /\ Same(c, e) /\ e.toGps = c.toGps
        /\ e.used = c.used \ {x} /\ e.openAck = c.openAck \ {x}
    BY DEF CloseFlags, Context, Same
  <2>2. e \in Context
    BY FlagsType
  <2> HIDE DEF e
  <2>3. HostGood(Fsm(e, "STOP"), g, q, told) /\ Linked(c, Fsm(e, "STOP"), e.used)
    BY <2>1, <2>2, HostCall
  <2> QED BY <2>1, <2>3 DEF Close, e
<1>3. HostGood(ClientReboot(c, x), g, q, told) /\ Linked(c, ClientReboot(c, x), c.used \ {x})
  <2> DEFINE f == CloseFlags(c, x)
             b == f.resetAck /\ x # Agps
             e == [f EXCEPT !.closeAck = @ \ {x}, !.resetAck = b]
  <2>1. f \in Context /\ b \in BOOLEAN
    BY FlagsType
  <2>2. /\ f.auto = c.auto /\ f.bad = c.bad /\ f.timerSwitch = c.timerSwitch /\ f.type = c.type
        /\ f.pre = c.pre /\ f.ntf = c.ntf /\ f.lib = c.lib /\ Same(c, f) /\ f.toGps = c.toGps
        /\ f.used = c.used \ {x} /\ f.openAck = c.openAck \ {x}
    BY DEF CloseFlags, Context, Same
  <2>3. e = [CloseFlags(c, x) EXCEPT !.closeAck = @ \ {x}, !.resetAck = @ /\ x # Agps]
    BY <2>1 DEF Context
  <2> HIDE DEF f, b
  <2>4. /\ e \in Context
        /\ e.auto = c.auto /\ e.bad = c.bad /\ e.timerSwitch = c.timerSwitch /\ e.type = c.type
        /\ e.pre = c.pre /\ e.ntf = c.ntf /\ e.lib = c.lib /\ Same(c, e) /\ e.toGps = c.toGps
        /\ e.used = c.used \ {x} /\ e.openAck = c.openAck \ {x}
    BY <2>1, <2>2 DEF Context, Same
  <2> HIDE DEF e
  <2>5. HostGood(Fsm(e, "STOP"), g, q, told) /\ Linked(c, Fsm(e, "STOP"), e.used)
    BY <2>4, HostCall
  <2> QED BY <2>3, <2>4, <2>5 DEF ClientReboot
<1>4. HostGood(DeleteAiding(c, x), g, q, told) /\ Linked(c, DeleteAiding(c, x), c.used)
  <2> DEFINE b == c.resetAck \/ x = Agps
             e == [c EXCEPT !.aiding = TRUE, !.resetAck = b]
  <2>1. b \in BOOLEAN
    OBVIOUS
  <2>2. e = [c EXCEPT !.aiding = TRUE, !.resetAck = @ \/ x = Agps]
    BY DEF Context
  <2> HIDE DEF b
  <2>3. /\ e \in Context
        /\ e.auto = c.auto /\ e.bad = c.bad /\ e.timerSwitch = c.timerSwitch /\ e.type = c.type
        /\ e.pre = c.pre /\ e.ntf = c.ntf /\ e.lib = c.lib /\ Same(c, e) /\ e.toGps = c.toGps
        /\ e.used = c.used /\ e.openAck = c.openAck /\ e.closeAck = c.closeAck
    BY <2>1 DEF Context, Same
  <2> HIDE DEF e
  <2>4. HostGood(Fsm(e, "RESET"), g, q, told) /\ Linked(c, Fsm(e, "RESET"), e.used)
    BY <2>3, HostCall
  <2> QED BY <2>2, <2>3, <2>4 DEF DeleteAiding
<1> QED BY <1>1, <1>2, <1>3, <1>4

\* A change of the libraries alone that leaves their mode.
LEMMA HostLibStatus ==
  ASSUME NEW told, NEW c \in Context, NEW g, NEW q, HostGood(c, g, q, told), NEW l \in Link, NEW st \in Status
  PROVE  LET d == [c EXCEPT !.lib[l].status = st]
         IN  HostGood(d, g, q, told) /\ Linked(c, d, c.used)
<1> DEFINE d == [c EXCEPT !.lib[l].status = st]
<1>1. d \in Context
  BY LibFieldType
<1>2. \A k \in Link : /\ d.lib[k].sys = c.lib[k].sys
                      /\ d.lib[k].running = c.lib[k].running /\ d.lib[k].synced = c.lib[k].synced
  BY DEF Context, Library
<1>3. /\ d.auto = c.auto /\ d.bad = c.bad /\ d.timerSwitch = c.timerSwitch /\ d.type = c.type
      /\ d.pre = c.pre /\ d.ntf = c.ntf /\ Same(c, d) /\ d.toGps = c.toGps
      /\ d.used = c.used /\ d.openAck = c.openAck /\ d.closeAck = c.closeAck
  BY DEF Context, Same
<1> HIDE DEF d
<1>4. HostGood(d, g, q, told)
  BY <1>2, <1>3, FlowSame DEF HostGood, HostMode, HostUse, Same
<1> QED BY <1>1, <1>2, <1>3, <1>4 DEF Linked, d

LEMMA HostLibRunning ==
  ASSUME NEW told, NEW c \in Context, NEW g, NEW q, HostGood(c, g, q, told), NEW l \in Link, NEW b \in BOOLEAN
  PROVE  LET e == [c EXCEPT !.lib[l].running = b]
         IN  /\ HostGood(e, g, q, told) /\ e \in Context /\ e.used = c.used /\ e.ntf = c.ntf
             /\ e.lib[l].running = b /\ e.auto = c.auto
             /\ \A k \in Link : /\ e.lib[k].synced = c.lib[k].synced
                                /\ k # l => e.lib[k].running = c.lib[k].running
<1> DEFINE e == [c EXCEPT !.lib[l].running = b]
<1>1. e \in Context
  BY LibFieldType
<1>2. \A k \in Link : /\ e.lib[k].sys = c.lib[k].sys /\ e.lib[k].synced = c.lib[k].synced
                      /\ k # l => e.lib[k].running = c.lib[k].running
  BY DEF Context, Library
<1>3. e.lib[l].running = b
  BY DEF Context, Library
<1>4. /\ e.auto = c.auto /\ e.bad = c.bad /\ e.timerSwitch = c.timerSwitch /\ e.type = c.type
      /\ e.pre = c.pre /\ e.ntf = c.ntf /\ Same(c, e) /\ e.toGps = c.toGps
      /\ e.used = c.used /\ e.openAck = c.openAck /\ e.closeAck = c.closeAck
  BY DEF Context, Same
<1> HIDE DEF e
<1>5. HostGood(e, g, q, told)
  BY <1>2, <1>4, FlowSame DEF HostGood, HostMode, HostUse, Same
<1> QED BY <1>1, <1>2, <1>3, <1>4, <1>5 DEF e

\* What a start and a stop of library l leave alone, and what they leave of it.
Beside(c, d, l) ==
  /\ d.auto = c.auto /\ d.ntf = c.ntf
  /\ \A k \in Link : /\ d.lib[k].synced = c.lib[k].synced
                     /\ k # l => d.lib[k].running = c.lib[k].running
                     /\ k # l => (k \in d.used) = (k \in c.used)
LibraryStarted(c, d, l) == Beside(c, d, l) /\ d.lib[l].running /\ (l \in d.used => c.lib[l].synced)
LibraryStopped(c, d, l) == Beside(c, d, l) /\ l \notin d.used

LEMMA HostLibrary ==
  ASSUME NEW told, NEW c \in Context, NEW g, NEW q \in Seq(Event), HostGood(c, g, q, told), NEW l \in Link,
         l \in c.used => c.lib[l].running /\ c.lib[l].synced
  PROVE  /\ HostGood(LibraryStart(c, l), g, q, told) /\ LibraryStarted(c, LibraryStart(c, l), l)
         /\ HostGood(LibraryStop(c, l), g, q, told) /\ LibraryStopped(c, LibraryStop(c, l), l)
<1>1. c.lib[l].sys = "AP" /\ l \in Client
  BY DEF HostGood, HostMode, Client
<1> DEFINE asked == [c EXCEPT !.lib[l].status = "HBD_OPEN"]
           sent == IF c.lib[l].synced THEN Open(asked, l) ELSE asked
           closing == [c EXCEPT !.lib[l].status = "HBD_CLOSE"]
           left == IF c.lib[l].synced THEN Close(closing, l) ELSE closing
           d == LibraryStart(c, l)
           e == LibraryStop(c, l)
<1>2. /\ d = IF c.lib[l].running THEN c ELSE [sent EXCEPT !.lib[l].running = TRUE]
      /\ e = IF c.lib[l].running THEN [left EXCEPT !.lib[l].running = FALSE] ELSE c
  BY <1>1 DEF LibraryStart, LibraryStop
<1>3. /\ HostGood(asked, g, q, told) /\ Linked(c, asked, c.used)
      /\ HostGood(closing, g, q, told) /\ Linked(c, closing, c.used)
  BY HostLibStatus DEF Status
<1> HIDE DEF asked, closing, d, e
<1>4. /\ HostGood(Open(asked, l), g, q, told) /\ Linked(asked, Open(asked, l), asked.used \cup {l})
      /\ HostGood(Close(closing, l), g, q, told) /\ Linked(closing, Close(closing, l), closing.used \ {l})
  <2> HIDE DEF sent, left
  <2>1. asked \in Context /\ closing \in Context
    BY <1>3 DEF Linked
  <2>2. HostGood(Open(asked, l), g, q, told) /\ Linked(asked, Open(asked, l), asked.used \cup {l})
    BY <1>1, <1>3, <2>1, HostClient
  <2>3. HostGood(Close(closing, l), g, q, told) /\ Linked(closing, Close(closing, l), closing.used \ {l})
    BY <1>1, <1>3, <2>1, HostClient
  <2> QED BY <2>2, <2>3
<1>5. /\ HostGood(sent, g, q, told)
      /\ Linked(c, sent, IF c.lib[l].synced THEN c.used \cup {l} ELSE c.used)
  BY ZenonT(60), <1>3, <1>4 DEF Linked
<1>6. /\ HostGood(left, g, q, told)
      /\ Linked(c, left, IF c.lib[l].synced THEN c.used \ {l} ELSE c.used)
  BY ZenonT(60), <1>3, <1>4 DEF Linked
<1> HIDE DEF sent, left
<1>7. /\ HostGood(d, g, q, told) /\ d.auto = c.auto /\ d.ntf = c.ntf
      /\ \A k \in Link : /\ d.lib[k].synced = c.lib[k].synced
                         /\ k # l => d.lib[k].running = c.lib[k].running
                         /\ k # l => (k \in d.used) = (k \in c.used)
      /\ d.lib[l].running /\ (l \in d.used => c.lib[l].synced)
  <2>1. CASE c.lib[l].running
    BY <1>2, <2>1
  <2>2. CASE ~c.lib[l].running
    <3> DEFINE r == [sent EXCEPT !.lib[l].running = TRUE]
    <3>1. sent \in Context /\ HostGood(sent, g, q, told)
      BY <1>5 DEF Linked
    <3>2. /\ HostGood(r, g, q, told) /\ r.used = sent.used /\ r.ntf = sent.ntf /\ r.auto = sent.auto
          /\ r.lib[l].running = TRUE
          /\ \A k \in Link : /\ r.lib[k].synced = sent.lib[k].synced
                             /\ k # l => r.lib[k].running = sent.lib[k].running
      <4>1. \A b \in BOOLEAN :
               LET f == [sent EXCEPT !.lib[l].running = b]
               IN  /\ HostGood(f, g, q, told) /\ f \in Context /\ f.used = sent.used /\ f.ntf = sent.ntf
                   /\ f.lib[l].running = b /\ f.auto = sent.auto
                   /\ \A k \in Link : /\ f.lib[k].synced = sent.lib[k].synced
                                      /\ k # l => f.lib[k].running = sent.lib[k].running
        BY <3>1, HostLibRunning
      <4>2. TRUE \in BOOLEAN
        OBVIOUS
      <4> QED BY Zenon, <4>1, <4>2
    <3>3. d = r
      BY <1>2, <2>2
    <3> HIDE DEF r
    <3> QED BY <1>5, <2>2, <3>2, <3>3 DEF Linked
  <2> QED BY <2>1, <2>2
<1>8. /\ HostGood(e, g, q, told) /\ e.auto = c.auto /\ e.ntf = c.ntf
      /\ \A k \in Link : /\ e.lib[k].synced = c.lib[k].synced
                         /\ k # l => e.lib[k].running = c.lib[k].running
                         /\ k # l => (k \in e.used) = (k \in c.used)
      /\ l \notin e.used
  <2>1. CASE ~c.lib[l].running
    BY <1>2, <2>1
  <2>2. CASE c.lib[l].running
    <3> DEFINE r == [left EXCEPT !.lib[l].running = FALSE]
    <3>1. left \in Context /\ HostGood(left, g, q, told)
      BY <1>6 DEF Linked
    <3>2. /\ HostGood(r, g, q, told) /\ r.used = left.used /\ r.ntf = left.ntf /\ r.auto = left.auto
          /\ \A k \in Link : /\ r.lib[k].synced = left.lib[k].synced
                             /\ k # l => r.lib[k].running = left.lib[k].running
      <4>1. \A b \in BOOLEAN :
               LET f == [left EXCEPT !.lib[l].running = b]
               IN  /\ HostGood(f, g, q, told) /\ f \in Context /\ f.used = left.used /\ f.ntf = left.ntf
                   /\ f.lib[l].running = b /\ f.auto = left.auto
                   /\ \A k \in Link : /\ f.lib[k].synced = left.lib[k].synced
                                      /\ k # l => f.lib[k].running = left.lib[k].running
        BY <3>1, HostLibRunning
      <4>2. FALSE \in BOOLEAN
        OBVIOUS
      <4> QED BY Zenon, <4>1, <4>2
    <3>3. e = r
      BY <1>2, <2>2
    <3> HIDE DEF r
    <3> QED BY <1>6, <2>2, <3>2, <3>3 DEF Linked
  <2> QED BY <2>1, <2>2
<1> QED BY <1>7, <1>8 DEF d, e, Beside, LibraryStarted, LibraryStopped

LEMMA HostReboot ==
  ASSUME NEW told, NEW c \in Context, NEW g, NEW q, HostMode(c), HostFlow(c, g, q, told)
  PROVE  LET d == RebootLibraries(c)
         IN  /\ d \in Context /\ HostMode(d) /\ HostFlow(d, g, q, told) /\ d.auto = c.auto
             /\ (HostUse(c) => HostUse(d)) /\ d.used = c.used /\ d.ntf = Link
             /\ \A l \in Link : d.lib[l].running = c.lib[l].running /\ d.lib[l].synced
<1> DEFINE lib == [l \in Link |-> [SessionUpdate(c.lib[l], c.type[l]) EXCEPT !.status = "ATTACH_DONE"]]
           d == RebootLibraries(c)
<1>1. d = [c EXCEPT !.lib = lib, !.ntf = Link]
  BY DEF RebootLibraries
<1>2. \A l \in Link : lib[l].sys = "AP" /\ lib[l].running = c.lib[l].running /\ lib[l].synced
  <2> SUFFICES ASSUME NEW l \in Link
               PROVE  lib[l].sys = "AP" /\ lib[l].running = c.lib[l].running /\ lib[l].synced
    OBVIOUS
  <2>1. c.lib[l] \in Library /\ c.type[l] = "AP" /\ ~Offloads("AP")
    BY DEF Context, HostMode, Offloads
  <2>2. \A b \in Library : LET r == SessionUpdate(b, "AP")
                           IN  r \in Library /\ r.sys = (IF b.status = "HBD_OPEN_DONE" THEN b.sys ELSE "AP")
                               /\ r.running = b.running /\ r.synced
    BY <2>1 DEF SessionUpdate, Library
  <2>3. c.lib[l].sys = "AP"
    BY DEF HostMode
  <2> QED BY <2>1, <2>2, <2>3 DEF Library
<1>3. d.lib = lib
  BY <1>1 DEF Context
<1> HIDE DEF lib
<1>4. /\ d.auto = c.auto /\ d.bad = c.bad /\ d.timerSwitch = c.timerSwitch /\ d.type = c.type
      /\ d.pre = c.pre /\ d.ntf = Link /\ Same(c, d) /\ d.toGps = c.toGps
      /\ d.used = c.used /\ d.openAck = c.openAck /\ d.closeAck = c.closeAck
  BY <1>1 DEF Context, Same
<1>5. d \in Context
  BY SessionType
<1> HIDE DEF d
<1>6. HostMode(d)
  BY <1>2, <1>3, <1>4 DEF HostMode, Same
<1>7. HostFlow(d, g, q, told)
  BY <1>4, FlowSame
<1>8. HostUse(c) => HostUse(d)
  BY <1>4 DEF HostUse, Same
<1> QED BY <1>2, <1>3, <1>4, <1>5, <1>6, <1>7, <1>8 DEF d

\* The chip is what it was when the daemon first started.
LEMMA SameChip ==
  ASSUME TypeOK, [Next]_vars
  PROVE  m'.auto = m.auto
<1>1. m \in Context /\ Hal \in Client /\ Agps \in Client /\ off \in [Thread -> Slot]
      /\ \A l \in Link : l \in Client /\ l \in Thread
  BY ClientAssumption DEF TypeOK, Client, Thread, Slot
<1>2. CASE Clients
  <2>1. CASE HalStart \/ HalStop
    BY <1>1, <2>1, RequestHosts DEF HalStart, HalStop, Send
  <2>4. CASE HalReboot
    <3> DEFINE s == [m EXCEPT !.wake = FALSE]
    <3>1. s \in Context /\ s.auto = m.auto
      BY NewHal
    <3>2. m' = (IF Alive THEN ClientReboot(s, Hal) ELSE s)
      BY <2>4 DEF HalReboot
    <3> HIDE DEF s
    <3> QED BY <1>1, <3>1, <3>2, RequestHosts
  <2>2. CASE AgpsRequest \/ HalDeleteAiding
    BY <1>1, <2>2, RequestHosts DEF AgpsRequest, HalDeleteAiding
  <2>3. ASSUME NEW l \in Link, LinkStart(l) \/ LinkStop(l) PROVE m'.auto = m.auto
    BY <1>1, <2>3, LibraryHosts DEF LinkStart, LinkStop
  <2> QED BY <1>2, <2>1, <2>2, <2>3, <2>4 DEF Clients
<1>3. CASE Recover
  <2>1. CASE HalRead
    BY <2>1 DEF HalRead
  <2>2. CASE HalResend
    BY <1>1, <2>2, RequestHosts DEF HalResend, Send
  <2>3. ASSUME NEW l \in Link, LinkRecover(l) PROVE m'.auto = m.auto
    <3> DEFINE s == [m EXCEPT !.ntf = @ \ {l}]
    <3>1. s \in Context /\ s.auto = m.auto
      BY <1>1 DEF Context
    <3>2. m' = IF Alive /\ l \in want THEN LibraryStart(s, l) ELSE s
      BY <2>3 DEF LinkRecover
    <3> HIDE DEF s
    <3> QED BY <3>1, <3>2, LibraryHosts
  <2> QED BY <1>3, <2>1, <2>2, <2>3 DEF Recover
<1>4. CASE MainEvent
  <2>1. [m EXCEPT !.used = {}] \in Context /\ [m EXCEPT !.used = {}].auto = m.auto
    BY <1>1 DEF Context
  <2> DEFINE e == Fsm([m EXCEPT !.used = {}], "STOP")
  <2>2. e \in Context /\ e.auto = m.auto
    BY <2>1, FsmType, FsmHosts
  <2> HIDE DEF e
  <2>3. RebootLibraries(e).auto = m.auto
    BY <2>2, StepHosts
  <2>4. [m EXCEPT !.timerReset = FALSE, !.resetAck = FALSE].auto = m.auto
    BY <1>1 DEF Context
  <2>5. Fsm(m, Head(toMain)).auto = m.auto
    BY <1>1, FsmHosts
  <2> QED BY <1>4, <2>3, <2>4, <2>5 DEF MainEvent, e
<1>5. CASE GpsThread
  <2>1. ASSUME NEW ev, Take(ev) PROVE m'.auto = m.auto
    BY <1>1, <2>1 DEF Take, Context
  <2> QED BY <1>5, <2>1 DEF GpsThread, GpsStart, GpsStop, GpsReset, GpsWait, GpsResetDone
<1>6. CASE Callback \/ EngineRestart \/ NmeaTimeout
  BY <1>6 DEF Callback, EngineRestart, NmeaTimeout
<1>7. CASE OffMain
  <2>1. ASSUME NEW o, NEW c \in Context, c.auto = m.auto, Enter(o, c) PROVE m'.auto = m.auto
    BY <2>1, StepHosts DEF Enter
  <2>2. CASE SwitchExpires
    <3> DEFINE s == [m EXCEPT !.timerSwitch = FALSE]
    <3>1. s \in Context /\ s.auto = m.auto
      BY <1>1, FieldType, StepHosts
    <3>2. m' = s \/ Enter(Switch, DropLinks(s))
      BY <2>2 DEF SwitchExpires
    <3> HIDE DEF s
    <3>3. DropLinks(s) \in Context /\ DropLinks(s).auto = m.auto
      BY <1>1, <3>1, FlagsType, StepHosts
    <3> QED BY <2>1, <3>1, <3>2, <3>3
  <2>3. ASSUME NEW l \in Link, StopAnswered(l) PROVE m'.auto = m.auto
    <3>1. CloseFlags(m, l) \in Context
      BY <1>1, FlagsType
    <3>2. CloseFlags(m, l).auto = m.auto
      BY <1>1 DEF CloseFlags, Context
    <3> QED BY <2>1, <2>3, <3>1, <3>2 DEF StopAnswered
  <2>4. ASSUME NEW o \in Thread, OffStop(o) PROVE m'.auto = m.auto
    <3> DEFINE s == FsmIn(m, off[o].st, "STOP")
    <3>1. s \in Context /\ s.auto = m.auto
      BY <1>1, FsmType, FsmHosts DEF Slot
    <3>2. m' = IF o = Switch THEN s ELSE [s EXCEPT !.lib[o].status = "OFL_CLOSE"]
      BY <2>4 DEF OffStop
    <3> HIDE DEF s
    <3> QED BY <3>1, <3>2 DEF Context
  <2> QED BY <1>7, <2>2, <2>3, <2>4 DEF OffMain
<1>8. CASE Process
  <2>1. RebootLibraries(m).auto = m.auto
    BY <1>1, StepHosts
  <2>2. Boot(m.auto, m.wake, m.ntf).auto = m.auto
    BY DEF Boot
  <2> QED BY <1>8, <2>1, <2>2 DEF Process, Expire, Respawn, TellClients
<1>9. CASE UNCHANGED vars
  BY <1>9 DEF vars
<1> QED BY <1>2, <1>3, <1>4, <1>5, <1>6, <1>7, <1>8, <1>9 DEF Next

(***************************************************************************)
(* How a step of the engine or of the main thread moves HostFlow.          *)
(***************************************************************************)
LEMMA FlowTaken ==
  ASSUME NEW told, NEW c, NEW g, NEW q \in Seq(Event), HostMode(c), HostFlow(c, g, q, told), q # <<>>
  PROVE  /\ Head(q) \in Running => c.state # "IDLE" /\ HostFlow(c, g, Tail(q), told)
         /\ Head(q) \in Running /\ c.state = "STARTING" => g.on
         /\ Head(q) = "STOP_DONE" =>
               c.state = "STOPPING" /\ Off(g) /\ c.toGps = <<>> /\ Tail(q) = <<>>
<1>1. AllIn(q, Running) => Head(q) \in Running /\ AllIn(Tail(q), Running)
  BY Queue
<1>2. EndsWith(q, Running, "STOP_DONE") =>
         IF Len(q) = 1 THEN Head(q) = "STOP_DONE" /\ Tail(q) = <<>>
         ELSE Head(q) \in Running /\ EndsWith(Tail(q), Running, "STOP_DONE")
  <2>1. "STOP_DONE" \in Event
    BY DEF Event
  <2> QED BY <2>1, Queue
<1>3. "STOP_DONE" \notin Running
  BY DEF Running
<1> HIDE DEF Running
<1>4. CASE c.state = "IDLE"
  BY <1>4 DEF HostFlow
<1>5. CASE c.state = "STARTING"
  BY <1>1, <1>3, <1>5 DEF HostFlow
<1>6. CASE c.state = "STARTED"
  BY <1>1, <1>3, <1>6 DEF HostFlow
<1>7. CASE c.state = "STOPPING"
  BY <1>1, <1>2, <1>3, <1>7 DEF HostFlow
<1> QED BY <1>4, <1>5, <1>6, <1>7 DEF HostMode

LEMMA FlowPosted ==
  ASSUME NEW told, NEW c, NEW g, NEW q \in Seq(Event), HostMode(c), HostFlow(c, g, q, told), g.on,
         NEW ev \in Running
  PROVE  HostFlow(c, g, Append(q, ev), told)
<1>1. ev \in Event
  BY DEF Running, Event
<1>2. AllIn(q, Running) => AllIn(Append(q, ev), Running)
  BY <1>1, Queue
<1> QED BY <1>2 DEF HostFlow, HostMode, Off

LEMMA FlowEngine ==
  ASSUME NEW told, NEW c, NEW g, NEW h, NEW q, HostMode(c), HostFlow(c, g, q, told)
  PROVE  /\ g.cb > 0 /\ g.cb \in Nat => g.on
         /\ g.pc # "idle" => g.on /\ c.state \in {"STARTED", "STOPPING"}
         /\ g.on /\ h.on /\ (h.pc = g.pc \/ c.state \in {"STARTED", "STOPPING"}) => HostFlow(c, h, q, told)
BY DEF HostFlow, HostMode, Off

\* The GPS control thread takes its next message.
LEMMA FlowTake ==
  ASSUME NEW told, NEW c \in Context, NEW g, NEW q, HostMode(c), HostFlow(c, g, q, told),
         g.pc = "idle", c.toGps # <<>>
  PROVE  LET d == [c EXCEPT !.toGps = Tail(@)]
         IN  /\ d \in Context /\ HostMode(d) /\ Same(c, d)
             /\ d.auto = c.auto /\ d.used = c.used /\ d.ntf = c.ntf /\ d.lib = c.lib
             /\ d.openAck = c.openAck /\ d.closeAck = c.closeAck
             /\ Head(c.toGps) = "START" => c.state = "STARTING" /\ d.toGps = <<>> /\ q = <<>>
             /\ Head(c.toGps) = "STOP" => c.state = "STOPPING" /\ d.toGps = <<>> /\ AllIn(q, Running)
             /\ Head(c.toGps) = "RESET" =>
                   /\ g.on /\ c.state \in {"STARTED", "STOPPING"} /\ HostFlow(d, g, q, told)
<1> DEFINE d == [c EXCEPT !.toGps = Tail(@)]
<1>1. c.toGps \in Seq(Message)
  BY DEF Context, Message
<1>2. Tail(c.toGps) \in Seq(Message)
  BY <1>1
<1>3. /\ d.toGps = Tail(c.toGps) /\ d \in Context /\ Same(c, d) /\ d.auto = c.auto /\ d.used = c.used
      /\ d.ntf = c.ntf /\ d.lib = c.lib /\ d.openAck = c.openAck /\ d.closeAck = c.closeAck
      /\ d.bad = c.bad /\ d.timerSwitch = c.timerSwitch /\ d.type = c.type /\ d.pre = c.pre
  BY <1>2 DEF Context, Message, Same
<1> HIDE DEF d
<1>4. HostMode(d)
  BY <1>3 DEF HostMode, Same
<1>5. {"START", "STOP", "RESET"} = Message
  BY DEF Message
<1>6. CASE c.state = "STARTING"
  <2>1. c.toGps = <<"START">> /\ q = <<>>
    BY <1>6 DEF HostFlow
  <2>2. Head(c.toGps) = "START" /\ Tail(c.toGps) = <<>>
    BY <2>1
  <2> QED BY <1>3, <1>4, <1>6, <2>1, <2>2 DEF d
<1>7. CASE c.state = "STARTED"
  <2>1. AllIn(c.toGps, {"RESET"}) /\ g.on /\ AllIn(q, Running) /\ (told => c.wake)
    BY <1>7 DEF HostFlow
  <2>2. Head(c.toGps) = "RESET" /\ AllIn(Tail(c.toGps), {"RESET"})
    <3>1. Head(c.toGps) \in {"RESET"} /\ AllIn(Tail(c.toGps), {"RESET"})
      BY SMTT(30), <1>1, <1>5, <2>1, Queue
    <3> QED BY <3>1
  <2>3. HostFlow(d, g, q, told)
    BY <1>3, <1>7, <2>1, <2>2 DEF HostFlow, Same
  <2> QED BY <1>3, <1>4, <1>7, <2>1, <2>2, <2>3 DEF d
<1>8. CASE c.state = "STOPPING"
  <2>1. EndsWith(c.toGps, {"RESET"}, "STOP") /\ g.on /\ AllIn(q, Running) /\ (told => c.wake) /\ c.timerStop
    BY <1>8 DEF HostFlow
  <2>2. IF Len(c.toGps) = 1 THEN Head(c.toGps) = "STOP" /\ Tail(c.toGps) = <<>>
        ELSE Head(c.toGps) = "RESET" /\ EndsWith(Tail(c.toGps), {"RESET"}, "STOP")
    <3>1. IF Len(c.toGps) = 1 THEN Head(c.toGps) = "STOP" /\ Tail(c.toGps) = <<>>
          ELSE Head(c.toGps) \in {"RESET"} /\ EndsWith(Tail(c.toGps), {"RESET"}, "STOP")
      BY <1>1, <1>5, <2>1, Queue
    <3> QED BY <3>1
  <2>3. Head(c.toGps) = "RESET" => HostFlow(d, g, q, told)
    BY <1>3, <1>8, <2>1, <2>2 DEF HostFlow, Same
  <2> QED BY <1>3, <1>4, <1>8, <2>1, <2>2, <2>3 DEF d
<1>9. CASE c.state = "IDLE"
  BY <1>9 DEF HostFlow
<1> QED BY <1>6, <1>7, <1>8, <1>9 DEF HostMode

\* The main thread takes START_DONE, or STOP_DONE.
LEMMA FlowAnswered ==
  ASSUME NEW told, NEW c \in Context, NEW g, NEW q \in Seq(Event), HostGood(c, g, q, told), q # <<>>,
         Head(q) \in {"START_DONE", "STOP_DONE"}
  PROVE  LET d == Fsm(c, Head(q))
         IN  HostGood(d, g, Tail(q), told) /\ Linked(c, d, c.used)
<1> DEFINE d == Fsm(c, Head(q))
<1> SUFFICES HostGood(d, g, Tail(q), told) /\ Linked(c, d, c.used)
  OBVIOUS
<1>0. HostMode(c) /\ HostFlow(c, g, q, told) /\ HostUse(c) /\ c.toGps \in Seq(Message)
  BY DEF HostGood, Context, Message
<1>1. CASE Head(q) = "START_DONE"
  <2>1. c.state # "IDLE" /\ HostFlow(c, g, Tail(q), told) /\ (c.state = "STARTING" => g.on)
    BY <1>0, <1>1, FlowTaken DEF Running
  <2>2. HostAnswered(c, d, "START_DONE")
    BY <1>0, <1>1, <2>1, HostStartDone
  <2> HIDE DEF d
  <2>3. Linked(c, d, c.used)
    BY <2>2 DEF HostAnswered, Kept, Linked
  <2>4. CASE c.state = "STARTING"
    <3>1. /\ Kept(c, d) /\ d.wake = c.wake /\ d.openAck = {}
          /\ \E r \in {c.toGps, Append(c.toGps, "RESET")} :
                IF c.used = {}
                THEN d.state = "STOPPING" /\ d.timerStop /\ d.toGps = Append(r, "STOP")
                ELSE d.state = "STARTED" /\ d.toGps = r
      BY <2>2, <2>4 DEF HostAnswered
    <3>2. g.on /\ (told => c.wake) /\ AllIn(Tail(q), Running) /\ c.toGps = <<>>
      BY <2>1, <2>4 DEF HostFlow, Off
    <3>3. \A r \in {c.toGps, Append(c.toGps, "RESET")} :
             AllIn(r, {"RESET"}) /\ EndsWith(Append(r, "STOP"), {"RESET"}, "STOP")
      <4>1. c.toGps \in Seq(Message) /\ Append(c.toGps, "RESET") \in Seq(Message) /\ "STOP" \in Message
            /\ "RESET" \in Message
        BY <1>0 DEF Message
      <4>2. AllIn(c.toGps, {"RESET"})
        BY <3>2 DEF AllIn
      <4>3. AllIn(Append(c.toGps, "RESET"), {"RESET"})
        BY <4>1, <4>2, Queue
      <4>4. \A r \in Seq(Message) : AllIn(r, {"RESET"}) => EndsWith(Append(r, "STOP"), {"RESET"}, "STOP")
        BY <4>1, Queue
      <4> QED BY <4>1, <4>2, <4>3, <4>4
    <3>4. d.used = c.used /\ HostMode(d)
      BY <1>0, <3>1, KeptMode DEF Kept
    <3>5. CASE c.used = {}
      <4>1. d.state = "STOPPING" /\ d.timerStop /\ (told => d.wake) /\ EndsWith(d.toGps, {"RESET"}, "STOP")
        BY <3>1, <3>2, <3>3, <3>5
      <4> QED BY <2>3, <3>2, <3>4, <4>1 DEF HostGood, HostFlow, HostUse
    <3>6. CASE c.used # {}
      <4>1. d.state = "STARTED" /\ (told => d.wake) /\ AllIn(d.toGps, {"RESET"}) /\ d.openAck = {}
        BY <3>1, <3>2, <3>3, <3>6
      <4> QED BY <2>3, <3>2, <3>4, <3>6, <4>1 DEF HostGood, HostFlow, HostUse
    <3> QED BY <3>5, <3>6
  <2>5. CASE c.state \in {"STARTED", "STOPPING"}
    <3>1. d = c
      BY <2>2, <2>5 DEF HostAnswered
    <3> QED BY <1>0, <2>1, <2>3, <3>1 DEF HostGood
  <2> QED BY <1>0, <2>1, <2>4, <2>5 DEF HostMode
<1>2. CASE Head(q) = "STOP_DONE"
  <2>1. c.state = "STOPPING" /\ Off(g) /\ c.toGps = <<>> /\ Tail(q) = <<>>
    BY <1>0, <1>2, FlowTaken
  <2>2. HostAnswered(c, d, "STOP_DONE")
    BY <1>0, <1>2, <2>1, HostStopDone
  <2> HIDE DEF d
  <2>3. Linked(c, d, c.used) /\ Kept(c, d) /\ d.used = c.used
    BY <2>2 DEF HostAnswered, Kept, Linked
  <2>4. /\ d.closeAck = {}
        /\ IF c.used = {}
           THEN d.state = "IDLE" /\ d.toGps = c.toGps
           ELSE d.state = "STARTING" /\ d.timerStart /\ d.wake = c.wake /\ d.toGps = Append(c.toGps, "START")
    BY <2>1, <2>2 DEF HostAnswered
  <2>5. HostMode(d)
    BY <1>0, <2>3, <2>4, KeptMode
  <2>6. told => c.wake
    BY <1>0, <2>1 DEF HostFlow
  <2>7. HostFlow(d, g, <<>>, told)
    <3>1. Append(<<>>, "START") = <<"START">>
      OBVIOUS
    <3>2. CASE c.used = {}
      BY <2>1, <2>4, <3>2 DEF HostFlow
    <3>3. CASE c.used # {}
      <4>1. d.state = "STARTING" /\ d.timerStart /\ (told => d.wake) /\ d.toGps = <<"START">>
        BY <2>1, <2>4, <2>6, <3>1, <3>3
      <4> QED BY <2>1, <4>1 DEF HostFlow
    <3> QED BY <3>2, <3>3
  <2> QED BY <2>1, <2>3, <2>4, <2>5, <2>7 DEF HostGood, HostUse
<1> QED BY <1>1, <1>2

\* The links are as they were, or more of them are going to be told.
LEMMA LinkKept ==
  ASSUME NEW c, NEW w, NEW p, HostLink(c, w, p), NEW d, NEW v,
         \A l \in Link : /\ l \in d.used => l \in c.used
                         /\ d.lib[l].running = c.lib[l].running
                         /\ c.lib[l].synced => d.lib[l].synced
                         /\ l \in c.ntf => l \in d.ntf
                         /\ (l \in v) = (l \in w)
  PROVE  HostLink(d, v, p)
BY DEF HostLink

LEMMA HostInvDef ==
  ASSUME NEW told, HostHolds(told), ~m.auto
  PROVE  /\ HostGood(m, gps, toMain, told) /\ HostLink(m, want, phase)
         /\ HostMode(m) /\ HostFlow(m, gps, toMain, told) /\ HostUse(m)
         /\ \A o \in Thread : off[o].pc = "idle"
         /\ Alive = (phase # "down")
BY DEF HostHolds, HostGood, HostMode, Alive

LEMMA HostClientStep ==
  ASSUME NEW told, TypeOK, HostHolds(told), ~m.auto, Clients, HalReboot => ~told
  PROVE  HostHolds(told)'
<1>1. /\ m \in Context /\ Hal \in Client /\ Agps \in Client /\ toMain \in Seq(Event)
      /\ \A l \in Link : l \in Client /\ l \in Thread /\ l # Hal /\ l # Agps
  BY ClientAssumption DEF TypeOK, Client, Thread, Event
<1>2. /\ HostGood(m, gps, toMain, told) /\ HostLink(m, want, phase)
      /\ HostMode(m) /\ \A o \in Thread : off[o].pc = "idle"
  BY HostInvDef
<1>3. ASSUME NEW x \in {Hal, Agps}, NEW d,
             d \in {m, Open(m, x), Close(m, x), ClientReboot(m, x), DeleteAiding(m, x)},
             m' = d, UNCHANGED <<toMain, gps, off, phase>>,
             want' \in {want, want \cup {Hal}, want \ {Hal}}
      PROVE  HostHolds(told)'
  <2>1. /\ HostGood(d, gps, toMain, told)
        /\ d = m \/ \E u \in {m.used, m.used \cup {x}, m.used \ {x}} : Linked(m, d, u)
    <3>1. x \in Client
      BY <1>1
    <3>2. /\ HostGood(Open(m, x), gps, toMain, told) /\ Linked(m, Open(m, x), m.used \cup {x})
          /\ HostGood(Close(m, x), gps, toMain, told) /\ Linked(m, Close(m, x), m.used \ {x})
          /\ HostGood(ClientReboot(m, x), gps, toMain, told) /\ Linked(m, ClientReboot(m, x), m.used \ {x})
          /\ HostGood(DeleteAiding(m, x), gps, toMain, told) /\ Linked(m, DeleteAiding(m, x), m.used)
      BY <1>1, <1>2, <3>1, HostClient
    <3> QED BY <1>2, <1>3, <3>2
  <2>2. \A l \in Link : /\ l \in d.used => l \in m.used
                        /\ d.lib[l].running = m.lib[l].running
                        /\ m.lib[l].synced => d.lib[l].synced
                        /\ l \in m.ntf => l \in d.ntf
                        /\ (l \in want') = (l \in want)
    BY <1>1, <1>3, <2>1 DEF Linked
  <2>3. HostLink(d, want', phase)
    BY <1>2, <2>2, LinkKept
  <2> QED BY <1>2, <1>3, <2>1, <2>3 DEF HostHolds
<1>4. CASE HalStart
  BY <1>3, <1>4 DEF HalStart, Send
<1>5. CASE HalStop
  BY <1>3, <1>5 DEF HalStop, Send
<1>6. CASE HalReboot
  <2> DEFINE s == [m EXCEPT !.wake = FALSE]
             d == ClientReboot(s, Hal)
  <2>1. /\ s \in Context /\ s.auto = m.auto /\ s.bad = m.bad /\ s.timerSwitch = m.timerSwitch
        /\ s.type = m.type /\ s.pre = m.pre /\ s.ntf = m.ntf /\ s.lib = m.lib /\ s.state = m.state
        /\ s.timerStart = m.timerStart /\ s.timerStop = m.timerStop /\ s.toGps = m.toGps
        /\ s.used = m.used /\ s.openAck = m.openAck /\ s.closeAck = m.closeAck
    BY NewHal
  <2>2. /\ m' = (IF Alive THEN d ELSE s) /\ UNCHANGED <<toMain, gps, off, phase>>
        /\ want' = want \ {Hal} /\ ~told
    BY <1>6 DEF HalReboot
  <2> HIDE DEF s
  <2>3. HostMode(s) /\ HostUse(s)
    BY <1>2, <2>1 DEF HostGood, HostMode, HostUse
  <2>4. HostFlow(s, gps, toMain, told)
    BY <1>2, <2>1, <2>2 DEF HostGood, HostFlow
  <2>5. HostGood(s, gps, toMain, told)
    BY <2>3, <2>4 DEF HostGood
  <2>6. HostGood(d, gps, toMain, told) /\ Linked(s, d, s.used \ {Hal})
    BY <1>1, <2>1, <2>5, HostClient
  <2> HIDE DEF d
  <2>7. HostLink(s, want', phase)
    BY <1>1, <1>2, <2>1, <2>2, LinkKept
  <2>8. HostLink(d, want', phase)
    BY <2>6, <2>7, LinkKept DEF Linked
  <2> QED BY <1>2, <2>2, <2>5, <2>6, <2>7, <2>8 DEF HostHolds
<1>7. CASE AgpsRequest
  BY <1>3, <1>7 DEF AgpsRequest, hals
<1>8. CASE HalDeleteAiding
  BY <1>3, <1>8 DEF HalDeleteAiding, hals
<1>9. ASSUME NEW l \in Link, LinkStart(l) \/ LinkStop(l) PROVE HostHolds(told)'
  <2>1. l \in m.used => m.lib[l].running /\ m.lib[l].synced
    BY <1>2 DEF HostLink
  <2>2. /\ HostGood(LibraryStart(m, l), gps, toMain, told) /\ LibraryStarted(m, LibraryStart(m, l), l)
        /\ HostGood(LibraryStop(m, l), gps, toMain, told) /\ LibraryStopped(m, LibraryStop(m, l), l)
    BY <1>1, <1>2, <2>1, HostLibrary
  <2>4. CASE LinkStart(l)
    <3>1. m' = LibraryStart(m, l) /\ want' = want \cup {l} /\ UNCHANGED <<toMain, gps, off, phase>>
      BY <2>4 DEF LinkStart
    <3>2. HostLink(m', want', phase)
      BY <1>2, <2>2, <3>1 DEF HostLink, Beside, LibraryStarted
    <3> QED BY <1>2, <2>2, <3>1, <3>2 DEF HostHolds
  <2>5. CASE LinkStop(l)
    <3>1. /\ m' = LibraryStop(m, l) /\ want' = want \ {l} /\ UNCHANGED <<toMain, gps, off, phase>>
      BY <1>2, <2>5 DEF LinkStop, HostMode
    <3>2. HostLink(m', want', phase)
      BY <1>2, <2>2, <3>1 DEF HostLink, Beside, LibraryStopped
    <3> QED BY <1>2, <2>2, <3>1, <3>2 DEF HostHolds
  <2> QED BY <1>9, <2>4, <2>5
<1> QED BY <1>4, <1>5, <1>6, <1>7, <1>8, <1>9 DEF Clients

LEMMA HostRecoverStep ==
  ASSUME NEW told, TypeOK, HostHolds(told), ~m.auto, Recover
  PROVE  HostHolds(told)'
<1>1. m \in Context /\ Hal \in Client /\ toMain \in Seq(Event) /\ Hal \notin Link
  BY ClientAssumption DEF TypeOK, Client, Event
<1>2. /\ HostGood(m, gps, toMain, told) /\ HostLink(m, want, phase)
      /\ HostMode(m) /\ HostUse(m) /\ HostFlow(m, gps, toMain, told)
      /\ \A o \in Thread : off[o].pc = "idle"
  BY HostInvDef
<1>3. CASE HalRead
  BY <1>3 DEF HalRead, HostHolds
<1>4. CASE HalResend
  <2>1. HostGood(Open(m, Hal), gps, toMain, told) /\ Linked(m, Open(m, Hal), m.used \cup {Hal})
    BY <1>1, <1>2, HostClient
  <2>2. HostLink(Open(m, Hal), want, phase)
    BY <1>1, <1>2, <2>1, LinkKept DEF Linked
  <2> QED BY <1>2, <1>4, <2>1, <2>2 DEF HalResend, Send, HostHolds
<1>5. ASSUME NEW l \in Link, LinkRecover(l) PROVE HostHolds(told)'
  <2> DEFINE s == [m EXCEPT !.ntf = @ \ {l}]
  <2>1. /\ s.auto = m.auto /\ s.bad = m.bad /\ s.timerSwitch = m.timerSwitch /\ s.type = m.type
        /\ s.pre = m.pre /\ s.ntf = m.ntf \ {l} /\ s.lib = m.lib /\ Same(m, s)
        /\ s.toGps = m.toGps /\ s.used = m.used /\ s.openAck = m.openAck /\ s.closeAck = m.closeAck
        /\ s \in Context
    BY <1>1 DEF Context, Same
  <2>2. /\ m' = IF Alive /\ l \in want THEN LibraryStart(s, l) ELSE s
        /\ UNCHANGED <<toMain, gps, off, phase, want>>
    BY <1>5 DEF LinkRecover, hals
  <2> HIDE DEF s
  <2>3. HostGood(s, gps, toMain, told)
    BY <1>2, <2>1, FlowSame DEF HostGood, HostMode, HostUse, Same
  <2>4. l \in s.used => s.lib[l].running /\ s.lib[l].synced
    BY <1>2, <2>1 DEF HostLink
  <2>5. CASE Alive /\ l \in want
    <3> DEFINE d == LibraryStart(s, l)
    <3> HIDE DEF d
    <3>1. HostGood(d, gps, toMain, told) /\ LibraryStarted(s, d, l)
      BY <1>1, <2>1, <2>3, <2>4, HostLibrary DEF d
    <3>2. HostLink(d, want, phase)
      BY <1>2, <2>1, <2>5, <3>1 DEF HostLink, Beside, LibraryStarted
    <3> QED BY <1>2, <2>2, <2>5, <3>1, <3>2 DEF HostHolds, d
  <2>6. CASE ~(Alive /\ l \in want)
    <3>0. l \in want => phase # "running"
      BY <1>2, <2>6 DEF HostMode, Alive
    <3>1. HostLink(s, want, phase)
      BY <1>2, <2>1, <3>0 DEF HostLink
    <3> QED BY <1>2, <2>2, <2>3, <2>6, <3>1 DEF HostHolds
  <2> QED BY <2>5, <2>6
<1> QED BY <1>3, <1>4, <1>5 DEF Recover

LEMMA HostEventStep ==
  ASSUME NEW told, TypeOK, HostHolds(told), ~m.auto, MainEvent
  PROVE  HostHolds(told)'
<1> DEFINE ev == Head(toMain)
           q == Tail(toMain)
<1>1. m \in Context /\ toMain \in Seq(Event) /\ toMain # <<>> /\ toMain' = q
      /\ UNCHANGED <<gps, off, phase, want>> /\ q \in Seq(Event)
  BY DEF TypeOK, Event, MainEvent
<1>2. /\ HostGood(m, gps, toMain, told) /\ HostLink(m, want, phase)
      /\ HostMode(m) /\ HostUse(m) /\ HostFlow(m, gps, toMain, told)
      /\ \A o \in Thread : off[o].pc = "idle"
  BY HostInvDef
<1>3. ASSUME NEW d, m' = d, HostGood(d, gps, q, told), HostLink(d, want, phase) PROVE HostHolds(told)'
  BY <1>1, <1>2, <1>3 DEF HostHolds
<1>4. CASE ev \in {"START_DONE", "STOP_DONE"} /\ m' = Fsm(m, ev)
  <2> DEFINE d == Fsm(m, ev)
  <2>1. HostGood(d, gps, q, told) /\ Linked(m, d, m.used)
    BY <1>1, <1>2, <1>4, FlowAnswered
  <2> HIDE DEF d
  <2>2. HostLink(d, want, phase)
    BY <1>2, <2>1, LinkKept DEF Linked
  <2> QED BY <1>3, <1>4, <2>1, <2>2 DEF d
<1>5. ev \in Running => HostGood(m, gps, q, told)
  BY <1>1, <1>2, FlowTaken DEF HostGood
<1>6. CASE ev = "RESET_DONE" /\ m' = [m EXCEPT !.timerReset = FALSE, !.resetAck = FALSE]
  <2> DEFINE d == [m EXCEPT !.timerReset = FALSE, !.resetAck = FALSE]
  <2>1. /\ d.auto = m.auto /\ d.bad = m.bad /\ d.timerSwitch = m.timerSwitch /\ d.type = m.type
        /\ d.pre = m.pre /\ d.ntf = m.ntf /\ d.lib = m.lib /\ Same(m, d) /\ d.toGps = m.toGps
        /\ d.used = m.used /\ d.openAck = m.openAck /\ d.closeAck = m.closeAck
    BY <1>1 DEF Context, Same
  <2> HIDE DEF d
  <2>2. HostGood(m, gps, q, told)
    BY <1>5, <1>6 DEF Running
  <2>3. HostGood(d, gps, q, told)
    BY <2>1, <2>2, FlowSame DEF HostGood, HostMode, HostUse, Same
  <2>4. HostLink(d, want, phase)
    BY <1>2, <2>1 DEF HostLink
  <2> QED BY <1>3, <1>6, <2>3, <2>4 DEF d
<1>7. CASE ev = "NMEA_TIMEOUT" /\ m' = RebootLibraries(Fsm([m EXCEPT !.used = {}], "STOP"))
  <2> DEFINE e == [m EXCEPT !.used = {}]
             f == Fsm(e, "STOP")
             d == RebootLibraries(f)
  <2>1. /\ e.auto = m.auto /\ e.bad = m.bad /\ e.timerSwitch = m.timerSwitch /\ e.type = m.type
        /\ e.pre = m.pre /\ e.ntf = m.ntf /\ e.lib = m.lib /\ Same(m, e) /\ e.toGps = m.toGps
        /\ e.used = {} /\ e.openAck = m.openAck /\ e \in Context
    BY <1>1 DEF Context, Same
  <2>2. HostGood(m, gps, q, told)
    BY <1>5, <1>7 DEF Running
  <2> HIDE DEF e
  <2>3. HostGood(f, gps, q, told) /\ Linked(m, f, {})
    BY <1>1, <2>1, <2>2, HostCall
  <2> HIDE DEF f
  <2>4. /\ HostMode(d) /\ HostFlow(d, gps, q, told) /\ HostUse(d) /\ d.used = {} /\ d.ntf = Link
        /\ \A l \in Link : d.lib[l].running = f.lib[l].running /\ d.lib[l].synced
    BY <2>3, HostReboot DEF HostGood, Linked
  <2> HIDE DEF d
  <2>5. HostLink(d, want, phase)
    BY <2>4 DEF HostLink
  <2> QED BY <1>3, <1>7, <2>4, <2>5 DEF HostGood, d, e, f
<1>8. CASE ev = "NMEA_TIMEOUT" /\ m' = m
  <2>1. HostGood(m, gps, q, told)
    BY <1>5, <1>8 DEF Running
  <2> QED BY <1>2, <1>3, <1>8, <2>1
<1> QED BY <1>4, <1>6, <1>7, <1>8 DEF MainEvent

LEMMA HostEngineStep ==
  ASSUME NEW told, TypeOK, HostHolds(told), ~m.auto, GpsThread \/ Callback \/ EngineRestart \/ NmeaTimeout
  PROVE  HostHolds(told)'
<1>1. /\ m \in Context /\ toMain \in Seq(Event) /\ gps \in Engine /\ gps.cb \in Nat
      /\ off \in [Thread -> Slot]
  BY DEF TypeOK, Event, Engine, Slot
<1>2. /\ HostGood(m, gps, toMain, told) /\ HostLink(m, want, phase)
      /\ HostMode(m) /\ HostUse(m) /\ HostFlow(m, gps, toMain, told)
      /\ \A o \in Thread : off[o].pc = "idle"
  BY HostInvDef
<1>3. ASSUME NEW h, gps' = h, UNCHANGED <<m, phase, want>>, off' = off,
             HostFlow(m, h, toMain', told)
      PROVE  HostHolds(told)'
  BY <1>2, <1>3 DEF HostHolds, HostGood
<1>4. ASSUME NEW ev, Take(ev)
      PROVE  /\ m' = [m EXCEPT !.toGps = Tail(@)] /\ Head(m.toGps) = ev /\ gps.pc = "idle"
             /\ HostMode(m') /\ Same(m, m') /\ m'.auto = m.auto /\ HostUse(m')
             /\ HostLink(m', want, phase)
             /\ ev = "START" => m.state = "STARTING" /\ m'.toGps = <<>> /\ toMain = <<>>
             /\ ev = "STOP" => m.state = "STOPPING" /\ m'.toGps = <<>> /\ AllIn(toMain, Running)
             /\ ev = "RESET" =>
                   gps.on /\ m.state \in {"STARTED", "STOPPING"} /\ HostFlow(m', gps, toMain, told)
  <2>1. m' = [m EXCEPT !.toGps = Tail(@)] /\ Head(m.toGps) = ev /\ gps.pc = "idle" /\ m.toGps # <<>>
    BY <1>4 DEF Take
  <2>4. LET d == [m EXCEPT !.toGps = Tail(@)]
        IN  /\ d \in Context /\ HostMode(d) /\ Same(m, d)
            /\ d.auto = m.auto /\ d.used = m.used /\ d.ntf = m.ntf /\ d.lib = m.lib
            /\ d.openAck = m.openAck /\ d.closeAck = m.closeAck
            /\ Head(m.toGps) = "START" => m.state = "STARTING" /\ d.toGps = <<>> /\ toMain = <<>>
            /\ Head(m.toGps) = "STOP" => m.state = "STOPPING" /\ d.toGps = <<>> /\ AllIn(toMain, Running)
            /\ Head(m.toGps) = "RESET" =>
                  /\ gps.on /\ m.state \in {"STARTED", "STOPPING"} /\ HostFlow(d, gps, toMain, told)
    <3>1. m \in Context /\ HostMode(m) /\ HostFlow(m, gps, toMain, told) /\ gps.pc = "idle" /\ m.toGps # <<>>
      BY <1>1, <1>2, <2>1
    <3> QED BY ZenonT(60), <3>1, FlowTake
  <2>2. /\ HostMode(m') /\ Same(m, m')
        /\ m'.auto = m.auto /\ m'.used = m.used /\ m'.ntf = m.ntf /\ m'.lib = m.lib
        /\ m'.openAck = m.openAck /\ m'.closeAck = m.closeAck
        /\ ev = "START" => m.state = "STARTING" /\ m'.toGps = <<>> /\ toMain = <<>>
        /\ ev = "STOP" => m.state = "STOPPING" /\ m'.toGps = <<>> /\ AllIn(toMain, Running)
        /\ ev = "RESET" =>
              gps.on /\ m.state \in {"STARTED", "STOPPING"} /\ HostFlow(m', gps, toMain, told)
    BY <2>1, <2>4
  <2>3. HostUse(m') /\ HostLink(m', want, phase)
    BY <1>2, <2>2 DEF HostUse, HostLink, Same
  <2> QED BY <2>1, <2>2, <2>3
<1>5. CASE GpsStart
  <2>1. /\ m.state = "STARTING" /\ m'.toGps = <<>> /\ toMain = <<>> /\ Same(m, m')
        /\ HostMode(m') /\ HostUse(m') /\ HostLink(m', want, phase) /\ gps.pc = "idle"
    BY <1>4, <1>5 DEF GpsStart
  <2>2. /\ gps'.pc = "idle" /\ (gps'.on \/ gps'.cb = 0) /\ toMain' = toMain /\ UNCHANGED <<off, phase, want>>
    BY <1>1, <1>5, <2>1 DEF GpsStart, hals, Engine
  <2>3. HostFlow(m', gps', toMain', told)
    <3>1. AllIn(<<>>, Running)
      BY DEF AllIn
    <3> QED BY <1>2, <2>1, <2>2, <3>1 DEF HostFlow, Same
  <2> QED BY <1>2, <2>1, <2>2, <2>3 DEF HostHolds, HostGood
<1>6. CASE GpsStop
  <2>1. /\ m.state = "STOPPING" /\ m'.toGps = <<>> /\ AllIn(toMain, Running) /\ Same(m, m')
        /\ HostMode(m') /\ HostUse(m') /\ HostLink(m', want, phase) /\ gps.pc = "idle"
    BY <1>4, <1>6 DEF GpsStop
  <2>2. /\ Off(gps') /\ UNCHANGED <<phase, want>>
        /\ toMain' = toMain \/ toMain' = Append(toMain, "STOP_DONE")
    BY <1>1, <1>6, <2>1 DEF GpsStop, hals, Engine, Off
  <2>3. \A o \in Thread : off'[o].pc = "idle"
    BY <1>1, <1>2, <1>6 DEF GpsStop
  <2>4. AllIn(toMain', Running) \/ EndsWith(toMain', Running, "STOP_DONE")
    <3>1. "STOP_DONE" \in Event
      BY DEF Event
    <3>2. EndsWith(Append(toMain, "STOP_DONE"), Running, "STOP_DONE")
      BY <1>1, <2>1, <3>1, Queue
    <3> QED BY <2>1, <2>2, <3>2
  <2>5. HostFlow(m', gps', toMain', told)
    BY <1>2, <2>1, <2>2, <2>4 DEF HostFlow, Same
  <2> QED BY <1>2, <2>1, <2>2, <2>3, <2>5 DEF HostHolds, HostGood
<1>7. CASE GpsReset
  <2>1. /\ gps.on /\ m.state \in {"STARTED", "STOPPING"} /\ HostFlow(m', gps, toMain, told) /\ Same(m, m')
        /\ HostMode(m') /\ HostUse(m') /\ HostLink(m', want, phase)
    BY <1>4, <1>7 DEF GpsReset
  <2>2. gps'.on /\ UNCHANGED <<toMain, off, phase, want>>
    BY <1>1, <1>7, <2>1 DEF GpsReset, hals, Engine
  <2>3. HostFlow(m', gps', toMain, told)
    BY <2>1, <2>2, FlowEngine DEF Same
  <2> QED BY <1>2, <2>1, <2>2, <2>3 DEF HostHolds, HostGood
<1>8. CASE GpsWait \/ GpsResetDone
  <2>1. gps.on /\ m.state \in {"STARTED", "STOPPING"}
    BY <1>2, <1>8, FlowEngine DEF GpsWait, GpsResetDone
  <2>2. gps'.on /\ UNCHANGED <<m, off, phase, want>>
    BY <1>1, <1>8, <2>1 DEF GpsWait, GpsResetDone, hals, Engine
  <2>3. HostFlow(m, gps', toMain, told)
    BY <1>2, <2>1, <2>2, FlowEngine
  <2>4. toMain' = toMain \/ toMain' = Append(toMain, "RESET_DONE")
    BY <1>8 DEF GpsWait, GpsResetDone
  <2>5. HostFlow(m, gps', toMain', told)
    BY <1>1, <1>2, <2>2, <2>3, <2>4, FlowPosted DEF Running
  <2> QED BY <1>3, <2>2, <2>5
<1>9. CASE Callback
  <2>1. gps.on
    BY <1>1, <1>2, <1>9, FlowEngine DEF Callback
  <2>2. gps'.on /\ gps'.pc = gps.pc /\ UNCHANGED <<m, off, phase, want>>
    BY <1>1, <1>9, <2>1 DEF Callback, hals, Engine
  <2>3. HostFlow(m, gps', toMain, told)
    BY <1>2, <2>1, <2>2, FlowEngine
  <2>4. toMain' = Append(toMain, "START_DONE")
    BY <1>9 DEF Callback
  <2>5. HostFlow(m, gps', toMain', told)
    BY <1>1, <1>2, <2>2, <2>3, <2>4, FlowPosted DEF Running
  <2> QED BY <1>3, <2>2, <2>5
<1>10. CASE EngineRestart
  <2>1. gps.on /\ gps'.on /\ gps'.pc = gps.pc /\ UNCHANGED <<m, toMain, off, phase, want>>
    BY <1>1, <1>10 DEF EngineRestart, hals, Engine
  <2>2. HostFlow(m, gps', toMain, told)
    BY <1>2, <2>1, FlowEngine
  <2> QED BY <1>3, <2>1, <2>2
<1>11. CASE NmeaTimeout
  <2>1. gps.on /\ UNCHANGED <<m, gps, off, phase, want>> /\ toMain' = Append(toMain, "NMEA_TIMEOUT")
    BY <1>11 DEF NmeaTimeout, hals
  <2>2. HostFlow(m, gps, toMain', told)
    BY <1>1, <1>2, <2>1, FlowPosted DEF Running
  <2> QED BY <1>3, <2>1, <2>2
<1> QED BY <1>5, <1>6, <1>7, <1>8, <1>9, <1>10, <1>11 DEF GpsThread

LEMMA HostProcessStep ==
  ASSUME NEW told, TypeOK, HostHolds(told), ~m.auto, OffMain \/ Process
  PROVE  HostHolds(told)'
<1>1. m \in Context
  BY DEF TypeOK
<1>2. /\ HostGood(m, gps, toMain, told) /\ HostLink(m, want, phase)
      /\ HostMode(m) /\ HostUse(m) /\ HostFlow(m, gps, toMain, told)
      /\ \A o \in Thread : off[o].pc = "idle"
  BY HostInvDef
<1>3. CASE OffMain
  <2>1. \A l \in Link : l \in Thread
    BY DEF Thread
  <2> QED BY <1>2, <1>3, <2>1 DEF OffMain, SwitchExpires, StopAnswered, OffStop, HostMode
<1>4. CASE Expire
  BY <1>2, <1>4 DEF Expire, HostHolds, HostLink, hals
<1>5. CASE Respawn
  <2> DEFINE d == Boot(FALSE, m.wake, m.ntf)
  <2>1. /\ m' = d /\ toMain' = <<>> /\ gps' = NoGps /\ off' = AtRest /\ phase' = "booting" /\ want' = want
    BY <1>1, <1>2, <1>5 DEF Respawn, hals, HostMode, Context
  <2>2. HostMode(d) /\ d.used = {} /\ d.closeAck = {} /\ d.state = "IDLE" /\ d.toGps = <<>>
    BY DEF Boot, HostMode
  <2> HIDE DEF d
  <2>3. HostGood(d, NoGps, <<>>, told) /\ HostLink(d, want, "booting")
    BY <2>2 DEF HostGood, HostUse, HostFlow, HostLink, Off, NoGps
  <2>4. \A o \in Thread : AtRest[o].pc = "idle"
    BY DEF AtRest
  <2> QED BY <2>1, <2>3, <2>4 DEF HostHolds
<1>6. CASE TellClients
  <2> DEFINE d == RebootLibraries(m)
  <2>1. m' = d /\ phase' = "running" /\ UNCHANGED <<toMain, gps, off, want>>
    BY <1>6 DEF TellClients
  <2>2. /\ HostMode(d) /\ HostFlow(d, gps, toMain, told) /\ HostUse(d) /\ d.used = m.used /\ d.ntf = Link
        /\ \A l \in Link : d.lib[l].running = m.lib[l].running /\ d.lib[l].synced
    BY <1>1, <1>2, HostReboot
  <2> HIDE DEF d
  <2>3. HostLink(d, want, "running")
    BY <1>2, <2>2 DEF HostLink
  <2> QED BY <1>2, <2>1, <2>2, <2>3 DEF HostHolds, HostGood
<1> QED BY <1>3, <1>4, <1>5, <1>6 DEF Process

LEMMA HostInvInit == Init => HostInv
<1> SUFFICES ASSUME Init, ~m.auto PROVE HostInv
  BY DEF HostInv, HostHolds
<1>1. PICK auto \in BOOLEAN : m = [RebootLibraries(Boot(auto, FALSE, {})) EXCEPT !.ntf = {}]
  BY DEF Init
<1> DEFINE b == Boot(auto, FALSE, {})
           r == RebootLibraries(b)
<1>2. b \in Context /\ b.auto = auto
  BY BootType DEF Boot
<1> HIDE DEF b
<1>3. r \in Context /\ r.auto = auto
  BY <1>2, SessionType, StepHosts
<1>4. auto = FALSE
  <2> HIDE DEF r
  <2> QED BY <1>1, <1>3 DEF Context, r, b
<1>5. /\ HostMode(b) /\ HostFlow(b, NoGps, <<>>, FALSE) /\ HostUse(b) /\ b.used = {}
  BY <1>4 DEF b, Boot, HostMode, HostFlow, HostUse, Off, NoGps
<1>6. HostMode(r) /\ HostFlow(r, NoGps, <<>>, FALSE) /\ HostUse(r) /\ r.used = {}
  BY <1>2, <1>5, HostReboot
<1> HIDE DEF r
<1>7. /\ m.auto = r.auto /\ m.bad = r.bad /\ m.timerSwitch = r.timerSwitch /\ m.type = r.type
      /\ m.pre = r.pre /\ m.lib = r.lib /\ Same(r, m) /\ m.toGps = r.toGps
      /\ m.used = r.used /\ m.openAck = r.openAck /\ m.closeAck = r.closeAck
  BY <1>1, <1>3 DEF Context, Same, r, b
<1>8. HostMode(m) /\ HostFlow(m, NoGps, <<>>, FALSE) /\ HostUse(m) /\ m.used = {}
  BY <1>6, <1>7, FlowSame DEF HostMode, HostUse, Same
<1>9. HostLink(m, {}, "running")
  BY <1>8 DEF HostLink
<1>10. \A o \in Thread : AtRest[o].pc = "idle"
  BY DEF AtRest
<1> QED BY <1>8, <1>9, <1>10 DEF Init, HostInv, HostHolds, HostGood

LEMMA HostStep ==
  ASSUME NEW told, TypeOK, HostHolds(told), [Next]_vars, HalReboot => ~told \/ m.auto
  PROVE  HostHolds(told)'
<1>1. CASE UNCHANGED vars
  BY <1>1 DEF HostHolds, vars
<1>2. CASE m.auto
  <2>1. m'.auto = m.auto
    BY SameChip
  <2> QED BY <1>2, <2>1 DEF HostHolds
<1>3. CASE ~m.auto /\ Next
  BY <1>3, HostClientStep, HostRecoverStep, HostEventStep, HostEngineStep, HostProcessStep DEF Next
<1> QED BY <1>1, <1>2, <1>3

LEMMA HostInvAlways == Spec => []HostInv
<1>1. TypeOK /\ HostInv /\ [Next]_vars => HostInv'
  BY HostStep DEF HostInv
<1> QED BY <1>1, HostInvInit, MnldTypeCorrect, PTL DEF Spec

(***************************************************************************)
(* On a host no interleaving of requests, callbacks, resets and restarts   *)
(* makes a state of mnld_fsm meet an event it does not expect.             *)
(***************************************************************************)
THEOREM HostNeverCrashesAlways == Spec => []HostNeverCrashes
<1>1. HostInv => HostNeverCrashes
  BY DEF HostInv, HostHolds, HostGood, HostMode, HostNeverCrashes
<1> QED BY <1>1, HostInvAlways, PTL

(***************************************************************************)
(* A start or a stop that the engine will not answer any more has the      *)
(* timer of its state running.                                             *)
(***************************************************************************)
THEOREM HostWatchedAlways == Spec => []HostWatched
<1>1. HostInv => HostWatched
  BY DEF HostInv, HostHolds, HostGood, HostMode, HostFlow, HostWatched, Watched
<1> QED BY <1>1, HostInvAlways, PTL

(***************************************************************************)
(* The HAL of a host is told to hold the wake lock before the engine       *)
(* leaves IDLE and keeps it until the stop is done, after a restart of the *)
(* daemon too; only a new process of the HAL is left untold.               *)
(***************************************************************************)
THEOREM AwakeAlways == Spec => Awake
<1>1. TypeOK /\ TypeOK' /\ HostInv /\ [Next]_vars
         => [~m.auto /\ Asleep' => Asleep \/ HalReboot]_vars
  <2> SUFFICES ASSUME TypeOK, TypeOK', HostInv, [Next]_vars, ~m.auto, ~Asleep, ~HalReboot
               PROVE  ~Asleep'
    OBVIOUS
  <2>1. HostHolds(TRUE)
    BY DEF HostInv, HostHolds, HostGood, HostFlow, Asleep
  <2>2. HostHolds(TRUE)'
    BY <2>1, HostStep
  <2>3. m'.auto = m.auto
    BY SameChip
  <2> QED BY <2>2, <2>3 DEF HostHolds, HostGood, HostFlow, Asleep
<1> QED BY <1>1, HostInvAlways, MnldTypeCorrect, PTL DEF Spec, Awake

(***************************************************************************)
(* At rest no link keeps the engine for a batching that ended, and a HAL   *)
(* that batches without the engine has a library that takes its source for *)
(* running.                                                                *)
(***************************************************************************)
THEOREM HostLinksAlways == Spec => []HostLinks
<1>1. HostInv => HostLinks
  <2> SUFFICES ASSUME HostInv, Quiet, ~m.auto
               PROVE  /\ m.used \cap Link \subseteq want
                      /\ \A l \in want \cap Link : l \in m.used \/ m.lib[l].running
    BY DEF HostLinks
  <2> QED BY DEF HostInv, HostHolds, HostLink, Quiet
<1> QED BY <1>1, HostInvAlways, PTL

(***************************************************************************)
(* At rest the engine of a host runs exactly when somebody uses it and the *)
(* state says so, failed starts and stops and engine restarts included.    *)
(***************************************************************************)
LEMMA HostFollowsUsers == Spec => [](~m.auto => EngineFollowsUsers)
<1>1. TypeOK /\ HostInv => (~m.auto => EngineFollowsUsers)
  <2> SUFFICES ASSUME TypeOK, HostInv, ~m.auto, Quiet
               PROVE  /\ m.state \in {"IDLE", "STARTED", "OFL_STARTED"}
                      /\ (m.state = "IDLE") = (m.used = {})
                      /\ gps.on = (m.used # {})
    BY DEF EngineFollowsUsers
  <2>1. HostMode(m) /\ HostUse(m) /\ HostFlow(m, gps, toMain, FALSE) /\ ~Watched
    BY DEF HostInv, HostHolds, HostGood, Quiet
  <2>2. m.state \in {"IDLE", "STARTED"}
    BY <2>1 DEF HostMode, HostFlow, Watched
  <2>0. gps.on \in BOOLEAN
    BY DEF TypeOK
  <2>3. CASE m.state = "IDLE"
    BY <2>0, <2>1, <2>3 DEF HostUse, HostFlow, Off
  <2>4. CASE m.state = "STARTED"
    BY <2>0, <2>1, <2>4 DEF HostUse, HostFlow
  <2> QED BY <2>2, <2>3, <2>4
<1> QED BY <1>1, HostInvAlways, MnldTypeCorrect, PTL

(***************************************************************************)
(* At rest no open that a client of a host still wants, and no close, is   *)
(* left without its answer.                                                *)
(***************************************************************************)
LEMMA HostAcksSettled == Spec => [](~m.auto => AcksSettled)
<1>1. HostInv => (~m.auto => AcksSettled)
  <2> SUFFICES ASSUME HostInv, ~m.auto, Quiet
               PROVE  m.openAck \cap m.used = {} /\ (m.state = "IDLE" => m.closeAck = {})
    BY DEF AcksSettled
  <2>1. HostMode(m) /\ HostUse(m) /\ HostFlow(m, gps, toMain, FALSE) /\ ~Watched
    BY DEF HostInv, HostHolds, HostGood, Quiet
  <2>2. m.state \in {"IDLE", "STARTED"}
    BY <2>1 DEF HostMode, HostFlow, Watched
  <2> QED BY <2>1, <2>2 DEF HostUse
<1> QED BY <1>1, HostInvAlways, PTL

(***************************************************************************)
(* A chip with automatic switching, as long as nothing fails.  Threads of  *)
(* the library and the switch timer enter mnld_fsm beside the main one and *)
(* act in a state that another may have left; what an event then does to   *)
(* the state is one of five things.                                        *)
(***************************************************************************)
StartStates == {"STARTING", "OFL_STARTING"}
RunStates == {"STARTED", "OFL_STARTED"}
StopStates == {"STOPPING", "OFL_STOPPING"}

\* After its last x the GPS control thread is only asked for resets.
Ends(q, x) == \E i \in 1..Len(q) : q[i] = x /\ \A j \in (i + 1)..Len(q) : q[j] = "RESET"

ToGps(c, d) == d.toGps = c.toGps \/ d.toGps = Append(c.toGps, "RESET")
Stays(c, d) ==
    /\ d.state = c.state /\ d.used = c.used /\ ToGps(c, d)
    /\ d.openAck = c.openAck \/ d.openAck = {}
    /\ d.closeAck = c.closeAck \/ d.closeAck = {}
    /\ \A l \in d.openAck \cap Link : d.lib[l].held = c.lib[l].held
Halts(d) == d.state \in StopStates /\ Ends(d.toGps, "STOP")
Begins(d) == d.state \in StartStates /\ Ends(d.toGps, "START")
Rests(c, d) ==
    /\ c.state \in StopStates /\ d.state = "IDLE"
    /\ d.used = {} /\ d.closeAck = {} /\ d.toGps = c.toGps
Runs(c, d) ==
    /\ c.state \in StartStates /\ d.state \in RunStates
    /\ d.used # {} /\ d.openAck = {} /\ ToGps(c, d)

\* Nothing that the users, their answers and the engine see.
Even(c, d) ==
    /\ d \in Context /\ d.auto = c.auto /\ d.state = c.state /\ d.used = c.used
    /\ d.toGps = c.toGps /\ d.openAck = c.openAck /\ d.closeAck = c.closeAck
    /\ \A l \in Link : d.lib[l].held = c.lib[l].held

LEMMA EndsAppend ==
  ASSUME NEW c \in Context, NEW x \in Message
  PROVE  Ends(Append(c.toGps, x), x)
<1>1. c.toGps \in Seq(Message)
  BY DEF Context, Message
<1> DEFINE q == c.toGps
           p == Append(q, x)
<1>2. Len(p) = Len(q) + 1 /\ Len(q) \in Nat /\ p[Len(q) + 1] = x
  BY <1>1
<1> HIDE DEF p
<1>3. (Len(q) + 1) \in 1..Len(p) /\ (Len(q) + 2)..Len(p) = {}
  BY <1>2
<1>4. Ends(p, x)
  BY <1>2, <1>3 DEF Ends
<1> QED BY <1>4 DEF p

LEMMA ChipFields ==
  ASSUME NEW c \in Context
  PROVE  /\ \A b \in BOOLEAN : /\ Even(c, [c EXCEPT !.timerStart = b])
                               /\ Even(c, [c EXCEPT !.timerStop = b])
                               /\ Even(c, [c EXCEPT !.timerSwitch = b])
                               /\ Even(c, [c EXCEPT !.resetAck = b])
         /\ Even(c, Acquire(c)) /\ Even(c, Release(c)) /\ Even(c, LowPower(c))
<1>1. \A b \in BOOLEAN : /\ Even(c, [c EXCEPT !.timerStart = b])
                         /\ Even(c, [c EXCEPT !.timerStop = b])
                         /\ Even(c, [c EXCEPT !.timerSwitch = b])
                         /\ Even(c, [c EXCEPT !.resetAck = b])
  <2> TAKE b \in BOOLEAN
  <2>1. /\ [c EXCEPT !.timerStart = b] \in Context /\ [c EXCEPT !.timerStop = b] \in Context
        /\ [c EXCEPT !.timerSwitch = b] \in Context /\ [c EXCEPT !.resetAck = b] \in Context
    BY FieldType
  <2> QED BY <2>1 DEF Even, Context
<1>2. Even(c, Acquire(c)) /\ Even(c, Release(c))
  <2>1. Acquire(c) \in Context /\ Release(c) \in Context
    BY WakeType
  <2> QED BY <2>1 DEF Even, Context, Acquire, Release
<1>3. Even(c, LowPower(c))
  <2> DEFINE d == LowPower(c)
             w == c.wake /\ ~c.fwk
  <2>1. d \in Context
    BY WakeType
  <2>2. \/ d = c \/ d = [c EXCEPT !.lp = TRUE, !.fwk = FALSE, !.wake = w]
        \/ d = [c EXCEPT !.lp = FALSE, !.fwk = TRUE, !.wake = TRUE]
    BY DEF LowPower
  <2> HIDE DEF d, w
  <2>3. Even(c, d)
    BY ZenonT(60), <2>1, <2>2 DEF Even, Context
  <2> QED BY <2>3 DEF d
<1> QED BY <1>1, <1>2, <1>3

LEMMA ChipAckOpens ==
  ASSUME NEW c \in Context
  PROVE  LET d == AckOpens(c)
         IN  /\ d \in Context /\ d.auto = c.auto /\ d.state = c.state /\ d.used = c.used
             /\ ToGps(c, d) /\ d.openAck = {} /\ d.closeAck = c.closeAck /\ Stays(c, d)
<1> DEFINE lib == [l \in Link |-> IF l \in c.openAck THEN Opened(c.lib[l], AutoMode(c)) ELSE c.lib[l]]
           s == [c EXCEPT !.openAck = {}, !.resetAck = FALSE, !.lib = lib]
           t == [s EXCEPT !.timerReset = TRUE, !.aiding = FALSE, !.toGps = Append(@, "RESET")]
           d == AckOpens(c)
<1>1. d = IF c.aiding THEN t ELSE s
  BY DEF AckOpens
<1>2. d \in Context
  BY AckType
<1> HIDE DEF lib
<1>3. /\ d.auto = c.auto /\ d.state = c.state /\ d.used = c.used
      /\ ToGps(c, d) /\ d.openAck = {} /\ d.closeAck = c.closeAck
  BY <1>1 DEF Context, ToGps
<1> HIDE DEF d
<1> QED BY <1>2, <1>3 DEF Stays, d

LEMMA ChipAckCloses ==
  ASSUME NEW c \in Context
  PROVE  LET d == AckCloses(c)
         IN  /\ d \in Context /\ d.auto = c.auto /\ d.state = c.state /\ d.used = c.used
             /\ d.toGps = c.toGps /\ d.openAck = c.openAck /\ d.closeAck = {}
             /\ \A l \in Link : d.lib[l].held = c.lib[l].held
             /\ Stays(c, d)
<1> DEFINE lib == [l \in Link |-> IF l \in c.closeAck THEN Closed(c.lib[l], AutoMode(c)) ELSE c.lib[l]]
           d == AckCloses(c)
<1>1. d = [c EXCEPT !.closeAck = {}, !.resetAck = FALSE, !.lib = lib]
  BY DEF AckCloses
<1>2. d \in Context
  BY AckType
<1>3. \A l \in Link : lib[l].held = c.lib[l].held
  BY DEF Closed, Context, Library
<1> HIDE DEF lib
<1>4. /\ d.auto = c.auto /\ d.state = c.state /\ d.used = c.used /\ d.toGps = c.toGps
      /\ d.openAck = c.openAck /\ d.closeAck = {} /\ d.lib = lib
  BY <1>1 DEF Context
<1> HIDE DEF d
<1> QED BY <1>2, <1>3, <1>4 DEF Stays, ToGps, d

LEMMA ChipEngine ==
  ASSUME NEW c \in Context
  PROVE  /\ \A st \in StartStates, w \in BOOLEAN : Begins(StartGps(c, st, w))
         /\ \A st \in StartStates : Begins(Restart(c, st))
         /\ \A st \in StopStates : Halts(StopGps(c, st))
<1>1. Ends(Append(c.toGps, "START"), "START") /\ Ends(Append(c.toGps, "STOP"), "STOP")
  BY EndsAppend DEF Message
<1>2. \A st \in StartStates, w \in BOOLEAN : Begins(StartGps(c, st, w))
  <2> TAKE st \in StartStates, w \in BOOLEAN
  <2>1. StartGps(c, st, w).state = st /\ StartGps(c, st, w).toGps = Append(c.toGps, "START")
    BY DEF StartGps, Context
  <2> QED BY <1>1, <2>1 DEF Begins
<1>3. \A st \in StopStates : Halts(StopGps(c, st))
  <2> TAKE st \in StopStates
  <2>1. StopGps(c, st).state = st /\ StopGps(c, st).toGps = Append(c.toGps, "STOP")
    BY DEF StopGps, Context
  <2> QED BY <1>1, <2>1 DEF Halts
<1>4. (~(OnlyLinks(c) /\ AutoMode(c))) \in BOOLEAN
  OBVIOUS
<1> QED BY <1>2, <1>3, <1>4 DEF Restart

\* What GPS_EVENT_STOP does in a state st that the thread read before.
ChipStopped(c, d, st) ==
    /\ st = "IDLE" => Stays(c, d) /\ d.closeAck = {}
    /\ st \in RunStates => Halts(d) \/ (c.used # {} /\ Stays(c, d) /\ d.closeAck = {})
    /\ st \in StartStates \cup StopStates => Stays(c, d)

LEMMA ChipStop ==
  ASSUME NEW c \in Context, NEW st \in State
  PROVE  ChipStopped(c, FsmIn(c, st, "STOP"), st)
<1> DEFINE d == FsmIn(c, st, "STOP")
<1>1. SUFFICES ChipStopped(c, d, st)
  OBVIOUS
<1>2. Stays(c, c)
  BY DEF Stays, ToGps
<1>3. Stays(c, AckCloses(c)) /\ AckCloses(c).closeAck = {} /\ AckCloses(c) \in Context
  BY ChipAckCloses
<1>4. Halts(StopGps(c, "STOPPING")) /\ Halts(StopGps(c, "OFL_STOPPING")) /\ StopGps(c, "STOPPING") \in Context
  BY ChipEngine, StartGpsType DEF StopStates, State
<1>5. CASE st = "IDLE"
  <2>1. d = AckCloses(c)
    BY <1>5 DEF FsmIn, Idle
  <2> QED BY <1>3, <1>5, <2>1 DEF ChipStopped, RunStates, StartStates, StopStates
<1>6. CASE st = "STARTED"
  <2> DEFINE e == [StopGps(c, "STOPPING") EXCEPT !.timerSwitch = FALSE]
             b == AckCloses(c).timerSwitch \/ (c.auto /\ ~HbdExists(c))
             f == [AckCloses(c) EXCEPT !.timerSwitch = b]
  <2>1. d = IF c.used = {} THEN e ELSE f
    BY <1>6 DEF FsmIn, Started
  <2>2. Halts(e)
    <3>1. Even(StopGps(c, "STOPPING"), e)
      BY <1>4, ChipFields
    <3> QED BY <1>4, <3>1 DEF Even, Halts
  <2>3. b \in BOOLEAN
    BY <1>3 DEF Context
  <2>4. Even(AckCloses(c), f)
    <3> HIDE DEF b
    <3> QED BY <1>3, <2>3, ChipFields
  <2>5. Stays(c, f) /\ f.closeAck = {}
    <3> HIDE DEF f
    <3> QED BY <1>3, <2>4 DEF Even, Stays, ToGps
  <2> HIDE DEF d, e, f
  <2> QED BY <1>6, <2>1, <2>2, <2>5 DEF ChipStopped, RunStates, StartStates, StopStates
<1>7. CASE st = "OFL_STARTED"
  <2>1. d = IF c.used \cap Link # {} THEN AckCloses(c) ELSE StopGps(c, "OFL_STOPPING")
    BY <1>7 DEF FsmIn, OflStarted
  <2> HIDE DEF d
  <2> QED BY <1>3, <1>4, <1>7, <2>1 DEF ChipStopped, RunStates, StartStates, StopStates
<1>8. CASE st \in StartStates \cup StopStates
  <2>1. d = c
    BY <1>8 DEF FsmIn, Starting, Stopping, OflStarting, OflStopping, StartStates, StopStates
  <2> QED BY <1>2, <1>8, <2>1 DEF ChipStopped, RunStates, StartStates, StopStates
<1> QED BY <1>5, <1>6, <1>7, <1>8 DEF State, StartStates, StopStates

\* The other requests, in the state of the moment.
ChipAsked(c, d, ev) ==
    /\ c.state = "IDLE" => IF ev = "RESET" THEN Stays(c, d) /\ d.closeAck = c.closeAck ELSE Begins(d)
    /\ c.state \in RunStates =>
          \/ Halts(d) /\ ev = "START"
          \/ Stays(c, d) /\ (ev = "START" => d.openAck = {})
    /\ c.state \in StartStates \cup StopStates => Stays(c, d)

LEMMA ChipAsk ==
  ASSUME NEW c \in Context, NEW ev \in {"START", "OFFLOAD_START", "RESET"}
  PROVE  ChipAsked(c, FsmIn(c, c.state, ev), ev)
<1> DEFINE d == FsmIn(c, c.state, ev)
<1>1. SUFFICES ChipAsked(c, d, ev)
  OBVIOUS
<1>2. Stays(c, c) /\ c.state \in State
  BY DEF Stays, ToGps, Context
<1> DEFINE r == [c EXCEPT !.resetAck = FALSE]
<1>3. Stays(c, r) /\ r.closeAck = c.closeAck
  <2>1. Even(c, r)
    BY ChipFields
  <2> HIDE DEF r
  <2> QED BY <2>1, <1>2 DEF Even, Stays, ToGps
<1>4. Stays(c, AckOpens(c)) /\ AckOpens(c).openAck = {} /\ AckOpens(c) \in Context
  BY ChipAckOpens
<1>5. CASE c.state = "IDLE"
  <2>1. Acquire(c) \in Context
    BY WakeType
  <2>2. Begins(StartGps(Acquire(c), "STARTING", TRUE)) /\ Begins(StartGps(Acquire(c), "OFL_STARTING", TRUE))
    BY <2>1, ChipEngine DEF StartStates
  <2>3. \/ ev = "RESET" /\ d = r
        \/ ev = "START" /\ d = StartGps(Acquire(c), "STARTING", TRUE)
        \/ ev = "OFFLOAD_START" /\ d = StartGps(Acquire(c), "OFL_STARTING", TRUE)
    BY <1>5 DEF FsmIn, Idle
  <2> HIDE DEF d, r
  <2> QED BY <1>3, <1>5, <2>2, <2>3 DEF ChipAsked, RunStates, StartStates, StopStates
<1>6. CASE c.state = "STARTED"
  <2> DEFINE e == [c EXCEPT !.timerReset = TRUE, !.aiding = FALSE, !.toGps = Append(@, "RESET")]
  <2>1. \/ ev = "START" /\ d = AckOpens(c)
        \/ ev # "START" /\ (d = c \/ d = e)
    BY <1>6 DEF FsmIn, Started
  <2>2. Stays(c, e)
    BY DEF Stays, ToGps, Context
  <2> HIDE DEF d, e
  <2> QED BY <1>2, <1>4, <1>6, <2>1, <2>2 DEF ChipAsked, RunStates, StartStates, StopStates
<1>7. CASE c.state = "OFL_STARTED"
  <2> DEFINE s == AckOpens(c)
  <2>1. \/ ev = "START" /\ (d = s \/ d = StopGps(DropLinks(s), "OFL_STOPPING"))
        \/ ev # "START" /\ d = c
    BY <1>7 DEF FsmIn, OflStarted
  <2>2. Halts(StopGps(DropLinks(s), "OFL_STOPPING"))
    <3>1. DropLinks(s) \in Context
      BY <1>4, FlagsType, ClientAssumption DEF Client
    <3> QED BY <3>1, ChipEngine DEF StopStates
  <2> HIDE DEF d, s
  <2> QED BY <1>2, <1>4, <1>7, <2>1, <2>2 DEF ChipAsked, RunStates, StartStates, StopStates, s
<1>8. CASE c.state \in StartStates \cup StopStates
  <2>1. d = c \/ d = r
    BY <1>8 DEF FsmIn, Starting, Stopping, OflStarting, OflStopping, StartStates, StopStates
  <2> HIDE DEF d, r
  <2> QED BY <1>2, <1>3, <1>8, <2>1 DEF ChipAsked, RunStates, StartStates, StopStates
<1> QED BY <1>2, <1>5, <1>6, <1>7, <1>8 DEF State, StartStates, StopStates

LEMMA ChipSession ==
  ASSUME NEW c \in Context, NEW mode \in Mode
  PROVE  LET d == NewSession(c, mode)
         IN  /\ d.state = c.state /\ d.toGps = c.toGps
             /\ d.openAck = c.openAck /\ d.closeAck = c.closeAck
             /\ d.used \subseteq c.used /\ Hosts(d) = Hosts(c)
<1> DEFINE d == NewSession(c, mode)
           moved == {l \in Link : c.pre[l] # mode}
           lib == [l \in Link |-> IF l \in moved THEN SessionUpdate(c.lib[l], mode) ELSE c.lib[l]]
           ntf == c.ntf \cup {l \in moved : Switched(c.lib[l], mode)}
           used == c.used \ moved
<1>1. d = [c EXCEPT !.type = [l \in Link |-> mode], !.pre = [l \in Link |-> mode],
                    !.used = used, !.lib = lib, !.ntf = ntf]
  BY DEF NewSession
<1>2. used \subseteq c.used /\ used \cap Hbd = c.used \cap Hbd
  BY ClientAssumption
<1> HIDE DEF moved, lib, ntf, used
<1>3. d.state = c.state /\ d.toGps = c.toGps /\ d.openAck = c.openAck /\ d.closeAck = c.closeAck /\ d.used = used
  BY <1>1 DEF Context
<1> HIDE DEF d
<1> QED BY <1>2, <1>3 DEF d, Hosts

\* The engine has started.
ChipStarted(c, d) ==
    /\ c.state = "IDLE" => d.bad
    /\ c.state \in StartStates => Halts(d) \/ Runs(c, d)
    /\ c.state \in RunStates \cup StopStates => Stays(c, d)

LEMMA ChipStartDone ==
  ASSUME NEW c \in Context, c.auto
  PROVE  ChipStarted(c, FsmIn(c, c.state, "START_DONE"))
<1> DEFINE d == FsmIn(c, c.state, "START_DONE")
           b == [c EXCEPT !.timerStart = FALSE]
           s == AckOpens(b)
<1>1. SUFFICES ChipStarted(c, d)
  OBVIOUS
<1>2. Even(c, b)
  BY ChipFields
<1> HIDE DEF b
<1>3. s \in Context /\ s.auto /\ s.state = c.state /\ s.openAck = {} /\ ToGps(c, s)
  BY <1>2, ChipAckOpens DEF Even, ToGps
<1> HIDE DEF s
<1>4. Halts(StopGps(s, "STOPPING")) /\ Halts(StopGps(s, "OFL_STOPPING"))
  BY <1>3, ChipEngine DEF StopStates
<1>5. CASE c.state = "IDLE"
  <2>1. d = Unexpected(c)
    BY <1>5 DEF FsmIn, Idle
  <2>2. Unexpected(c).bad
    BY DEF Unexpected, Context
  <2> HIDE DEF d
  <2> QED BY <1>5, <2>1, <2>2 DEF ChipStarted, StartStates, RunStates, StopStates
<1>6. CASE c.state = "STARTING"
  <2> DEFINE t == [s EXCEPT !.state = "STARTED"]
             u == [t EXCEPT !.type = [l \in Link |-> "AP"], !.pre = [l \in Link |-> "AP"],
                            !.timerSwitch = TRUE]
  <2>1. /\ t \in Context /\ t.auto /\ t.state = "STARTED" /\ t.openAck = {} /\ t.used = s.used
        /\ t.toGps = s.toGps
    BY <1>3 DEF Context, State
  <2>2. u.state = "STARTED" /\ u.openAck = {} /\ u.used = s.used /\ u.toGps = s.toGps
    BY <1>3, <2>1 DEF Context
  <2>3. d = IF s.used = {} THEN StopGps(s, "STOPPING")
            ELSE IF HbdExists(s) THEN NewSession(t, "AP") ELSE u
    BY <1>3, <1>6 DEF FsmIn, Starting, s, b
  <2> HIDE DEF d, t, u
  <2>4. ASSUME HbdExists(s) PROVE Runs(c, NewSession(t, "AP"))
    <3> DEFINE e == NewSession(t, "AP")
    <3>1. e.state = "STARTED" /\ e.openAck = {} /\ e.toGps = s.toGps /\ Hosts(e) = Hosts(t)
      BY <2>1, ChipSession DEF Mode
    <3>2. e.used # {}
      BY <2>1, <2>4, <3>1 DEF Hosts, HbdExists
    <3> HIDE DEF e
    <3>3. Runs(c, e)
      BY <1>3, <1>6, <3>1, <3>2 DEF Runs, ToGps, StartStates, RunStates
    <3> QED BY <3>3 DEF e
  <2>5. ASSUME s.used # {} PROVE Runs(c, u)
    BY <1>3, <1>6, <2>2, <2>5 DEF Runs, ToGps, StartStates, RunStates
  <2> QED BY <1>4, <1>6, <2>3, <2>4, <2>5 DEF ChipStarted, StartStates, RunStates, StopStates
<1>7. CASE c.state = "OFL_STARTING"
  <2> DEFINE u == [s EXCEPT !.state = "OFL_STARTED", !.type = [l \in Link |-> "OFL"]]
  <2>1. u.state = "OFL_STARTED" /\ u.openAck = {} /\ u.used = s.used /\ u.toGps = s.toGps
    BY <1>3 DEF Context
  <2>2. d = IF s.used = {} \/ HbdExists(s) THEN StopGps(s, "OFL_STOPPING") ELSE u
    BY <1>7 DEF FsmIn, OflStarting, s, b
  <2> HIDE DEF d, u
  <2>3. ASSUME s.used # {} PROVE Runs(c, u)
    BY <1>3, <1>7, <2>1, <2>3 DEF Runs, ToGps, StartStates, RunStates
  <2> QED BY <1>4, <1>7, <2>2, <2>3 DEF ChipStarted, StartStates, RunStates, StopStates
<1>8. CASE c.state \in RunStates \cup StopStates
  <2>1. d = c
    BY <1>8 DEF FsmIn, Started, OflStarted, Stopping, OflStopping, RunStates, StopStates
  <2>2. Stays(c, c)
    BY DEF Stays, ToGps
  <2> HIDE DEF d
  <2> QED BY <1>8, <2>1, <2>2 DEF ChipStarted, StartStates, RunStates, StopStates
<1> QED BY <1>5, <1>6, <1>7, <1>8 DEF Context, State, StartStates, RunStates, StopStates

\* The engine has stopped.
ChipEnded(c, d) ==
    IF c.state \in StopStates THEN Begins(d) \/ Rests(c, d) ELSE d.bad

LEMMA ChipStopDone ==
  ASSUME NEW c \in Context, c.auto
  PROVE  ChipEnded(c, FsmIn(c, c.state, "STOP_DONE"))
<1> DEFINE d == FsmIn(c, c.state, "STOP_DONE")
           b == [c EXCEPT !.timerStop = FALSE]
           s == AckCloses(b)
           r == Release(s)
           t == [r EXCEPT !.state = "IDLE"]
<1>1. SUFFICES ChipEnded(c, d)
  OBVIOUS
<1>2. Even(c, b)
  BY ChipFields
<1> HIDE DEF b
<1>3. s \in Context /\ s.auto /\ s.closeAck = {} /\ s.toGps = c.toGps
  BY <1>2, ChipAckCloses DEF Even
<1> HIDE DEF s
<1>4. Even(s, r)
  BY <1>3, ChipFields
<1> HIDE DEF r
<1>5. /\ t \in Context /\ t.state = "IDLE" /\ t.used = s.used
      /\ t.closeAck = {} /\ t.toGps = c.toGps
  BY <1>3, <1>4 DEF Even, Context, State
<1> HIDE DEF t
<1>6. Begins(Restart(s, "STARTING")) /\ Begins(Restart(s, "OFL_STARTING"))
  BY <1>3, ChipEngine DEF StartStates
<1>7. s.used = {} /\ c.state \in StopStates => Rests(c, NewSession(t, "AP_OFL"))
  <2> SUFFICES ASSUME s.used = {}, c.state \in StopStates PROVE Rests(c, NewSession(t, "AP_OFL"))
    OBVIOUS
  <2> DEFINE e == NewSession(t, "AP_OFL")
  <2>1. e.state = "IDLE" /\ e.used = {} /\ e.closeAck = {} /\ e.toGps = c.toGps
    BY <1>5, ChipSession DEF Mode
  <2> HIDE DEF e
  <2>2. Rests(c, e)
    BY <2>1 DEF Rests
  <2> QED BY <2>2 DEF e
<1>8. CASE c.state = "STOPPING"
  <2>1. d = IF s.used # {} THEN Restart(s, "STARTING") ELSE NewSession(t, "AP_OFL")
    BY <1>3, <1>8 DEF FsmIn, Stopping, s, b, t, r
  <2> HIDE DEF d
  <2> QED BY <1>6, <1>7, <1>8, <2>1 DEF ChipEnded, StopStates
<1>9. CASE c.state = "OFL_STOPPING"
  <2> DEFINE u == LowPower(NewSession(t, "AP"))
  <2>1. d = IF s.used \cap Link # {} /\ ~HbdExists(s) THEN Restart(s, "OFL_STARTING")
            ELSE IF HbdExists(s) THEN Idle(u, "START") ELSE NewSession(t, "AP_OFL")
    BY <1>3, <1>9 DEF FsmIn, OflStopping, s, b, t, r
  <2>2. u \in Context
    BY <1>5, SessionType, WakeType DEF Mode
  <2> HIDE DEF d, u
  <2>3. Begins(Idle(u, "START"))
    <3>1. Acquire(u) \in Context
      BY <2>2, WakeType
    <3>2. Idle(u, "START") = StartGps(Acquire(u), "STARTING", TRUE)
      BY DEF Idle
    <3> QED BY <3>1, <3>2, ChipEngine DEF StartStates
  <2>4. s.used \cap Link = {} /\ ~HbdExists(s) => s.used = {}
    BY <1>3 DEF Context, Client, HbdExists
  <2> QED BY <1>6, <1>7, <1>9, <2>1, <2>3, <2>4 DEF ChipEnded, StopStates
<1>10. CASE c.state \notin StopStates
  <2>1. d = Unexpected(c)
    BY <1>10 DEF FsmIn, Idle, Starting, Started, OflStarting, OflStarted, StopStates, Context, State
  <2>2. Unexpected(c).bad
    BY DEF Unexpected, Context
  <2> HIDE DEF d
  <2> QED BY <1>10, <2>1, <2>2 DEF ChipEnded
<1> QED BY <1>8, <1>9, <1>10 DEF StopStates

(***************************************************************************)
(* The invariant of such a chip.  A state without users that the daemon is *)
(* in all the same is about to be left by a thread that read it.           *)
(***************************************************************************)
Has(q, x) == \E i \in 1..Len(q) : q[i] = x
Reading(slots, st) == \E o \in Thread : slots[o].pc = "read" /\ slots[o].st = st

ChipUse(c, slots) ==
    /\ c.state = "IDLE" => c.used = {} /\ (c.closeAck # {} => Reading(slots, "IDLE"))
    /\ c.state \in RunStates =>
          /\ c.used = {} => Reading(slots, c.state)
          /\ \A x \in c.openAck \cap c.used : x \in Link /\ c.lib[x].held

\* What the engine will be once the thread has done what it is asked, and the
\* answer that a start or a stop still waits for.
ChipFlow(c, g, q) ==
    /\ IF c.state \in StartStates \cup RunStates
       THEN Ends(c.toGps, "START") \/ (g.on /\ AllIn(c.toGps, {"RESET"}))
       ELSE Ends(c.toGps, "STOP") \/ (~g.on /\ AllIn(c.toGps, {"RESET"}))
    /\ c.state \in StopStates => Has(c.toGps, "STOP") \/ Has(q, "STOP_DONE")
    /\ c.state \in StartStates =>
          \/ Has(c.toGps, "STOP") \/ Has(q, "STOP_DONE")
          \/ Has(c.toGps, "START") \/ Has(q, "START_DONE") \/ g.cb > 0

ChipInv ==
    m.auto /\ faults = 0 /\ ~m.bad => ChipUse(m, off) /\ ChipFlow(m, gps, toMain)

LEMMA HasAppend ==
  ASSUME NEW S, NEW q \in Seq(S), NEW y \in S
  PROVE  /\ \A x : Has(q, x) => Has(Append(q, y), x)
         /\ Has(Append(q, y), y)
         /\ \A x : Ends(q, x) => Has(q, x) /\ Ends(Append(q, "RESET"), x)
         /\ AllIn(q, {"RESET"}) => AllIn(Append(q, "RESET"), {"RESET"})
<1>1. \A z : /\ Len(Append(q, z)) = Len(q) + 1 /\ Append(q, z)[Len(q) + 1] = z
             /\ \A i \in 1..Len(q) : Append(q, z)[i] = q[i]
  OBVIOUS
<1>2. Len(q) \in Nat
  OBVIOUS
<1>3. \A x : Has(q, x) => Has(Append(q, y), x)
  BY <1>1, <1>2 DEF Has
<1>4. Has(Append(q, y), y)
  BY <1>1, <1>2 DEF Has
<1>5. ASSUME NEW x, Ends(q, x) PROVE Has(q, x) /\ Ends(Append(q, "RESET"), x)
  <2>1. PICK i \in 1..Len(q) : q[i] = x /\ \A j \in (i + 1)..Len(q) : q[j] = "RESET"
    BY <1>5 DEF Ends
  <2>2. \A j \in (i + 1)..(Len(q) + 1) : Append(q, "RESET")[j] = "RESET"
    <3> TAKE j \in (i + 1)..(Len(q) + 1)
    <3>1. j = Len(q) + 1 \/ (j \in (i + 1)..Len(q) /\ j \in 1..Len(q))
      BY <1>2
    <3> QED BY <1>1, <2>1, <3>1
  <2> QED BY <1>1, <1>2, <2>1, <2>2 DEF Ends, Has
<1>6. AllIn(q, {"RESET"}) => AllIn(Append(q, "RESET"), {"RESET"})
  <2> SUFFICES ASSUME AllIn(q, {"RESET"}), NEW i \in 1..(Len(q) + 1)
               PROVE  Append(q, "RESET")[i] = "RESET"
    BY <1>1 DEF AllIn
  <2>1. i = Len(q) + 1 \/ i \in 1..Len(q)
    BY <1>2
  <2> QED BY <1>1, <2>1 DEF AllIn
<1> QED BY <1>3, <1>4, <1>5, <1>6

LEMMA HasTail ==
  ASSUME NEW S, NEW q \in Seq(S), q # <<>>
  PROVE  /\ \A x : Has(q, x) => Head(q) = x \/ Has(Tail(q), x)
         /\ \A x : Ends(q, x) => \/ Ends(Tail(q), x)
                                 \/ Head(q) = x /\ AllIn(Tail(q), {"RESET"})
         /\ AllIn(q, {"RESET"}) => Head(q) = "RESET" /\ AllIn(Tail(q), {"RESET"})
<1>1. /\ Len(q) \in Nat /\ Len(q) > 0 /\ Len(Tail(q)) = Len(q) - 1 /\ Head(q) = q[1]
      /\ \A i \in 1..(Len(q) - 1) : Tail(q)[i] = q[i + 1]
  OBVIOUS
<1> DEFINE t == Tail(q)
<1>2. /\ Len(t) = Len(q) - 1 /\ \A i \in 1..Len(t) : t[i] = q[i + 1]
      /\ \A i \in 1..Len(q) : i = 1 \/ (i - 1) \in 1..Len(t)
  BY <1>1
<1> HIDE DEF t
<1>3. ASSUME NEW x, Has(q, x) PROVE Head(q) = x \/ Has(t, x)
  <2>1. PICK i \in 1..Len(q) : q[i] = x
    BY <1>3 DEF Has
  <2>2. i # 1 => t[i - 1] = x /\ (i - 1) \in 1..Len(t)
    BY <1>1, <1>2, <2>1
  <2> QED BY <1>1, <2>1, <2>2 DEF Has
<1>4. ASSUME NEW x, Ends(q, x) PROVE Ends(t, x) \/ (Head(q) = x /\ AllIn(t, {"RESET"}))
  <2>1. PICK i \in 1..Len(q) : q[i] = x /\ \A j \in (i + 1)..Len(q) : q[j] = "RESET"
    BY <1>4 DEF Ends
  <2>2. CASE i = 1
    <3>1. \A j \in 1..Len(t) : (j + 1) \in (i + 1)..Len(q)
      BY <1>1, <1>2, <2>2
    <3> QED BY <1>1, <1>2, <2>1, <2>2, <3>1 DEF AllIn
  <2>3. CASE i # 1
    <3>1. t[i - 1] = x /\ (i - 1) \in 1..Len(t)
      BY <1>1, <1>2, <2>1, <2>3
    <3>2. \A j \in ((i - 1) + 1)..Len(t) : j \in 1..Len(t) /\ (j + 1) \in (i + 1)..Len(q)
      BY <1>1, <1>2, <2>3
    <3>3. \A j \in ((i - 1) + 1)..Len(t) : t[j] = "RESET"
      BY <1>2, <2>1, <3>2
    <3> QED BY <3>1, <3>3 DEF Ends
  <2> QED BY <2>2, <2>3
<1>5. AllIn(q, {"RESET"}) => Head(q) = "RESET" /\ AllIn(t, {"RESET"})
  <2>1. \A j \in 1..Len(t) : (j + 1) \in 1..Len(q)
    BY <1>1, <1>2
  <2>2. 1 \in 1..Len(q)
    BY <1>1
  <2> QED BY <1>1, <1>2, <2>1, <2>2 DEF AllIn
<1> QED BY <1>3, <1>4, <1>5 DEF t

LEMMA ChipFlowMoves ==
  ASSUME NEW c \in Context, NEW d \in Context, NEW g, NEW q, ChipFlow(c, g, q),
         Stays(c, d) \/ Halts(d) \/ Begins(d) \/ Rests(c, d) \/ Runs(c, d)
  PROVE  ChipFlow(d, g, q)
<1>1. c.toGps \in Seq(Message) /\ d.toGps \in Seq(Message) /\ "RESET" \in Message
  BY DEF Context, Message
<1>2. CASE Stays(c, d) \/ Runs(c, d)
  <2>1. /\ ToGps(c, d)
        /\ c.state \in StartStates \cup RunStates <=> d.state \in StartStates \cup RunStates
        /\ d.state \in StopStates => c.state \in StopStates
        /\ d.state \in StartStates => c.state \in StartStates
    BY <1>2 DEF Stays, Runs, StartStates, RunStates, StopStates
  <2>2. /\ \A x : Has(c.toGps, x) => Has(d.toGps, x)
        /\ \A x : Ends(c.toGps, x) => Ends(d.toGps, x)
        /\ AllIn(c.toGps, {"RESET"}) => AllIn(d.toGps, {"RESET"})
    <3>1. /\ \A x : Has(c.toGps, x) => Has(Append(c.toGps, "RESET"), x)
          /\ \A x : Ends(c.toGps, x) => Ends(Append(c.toGps, "RESET"), x)
          /\ AllIn(c.toGps, {"RESET"}) => AllIn(Append(c.toGps, "RESET"), {"RESET"})
      BY <1>1, HasAppend
    <3>2. CASE d.toGps = c.toGps
      BY <3>2
    <3>3. CASE d.toGps = Append(c.toGps, "RESET")
      BY <3>1, <3>3
    <3> QED BY <2>1, <3>2, <3>3 DEF ToGps
  <2> QED BY <2>1, <2>2 DEF ChipFlow
<1>3. CASE Rests(c, d)
  BY <1>3 DEF Rests, ChipFlow, StartStates, RunStates, StopStates
<1>4. CASE Halts(d)
  <2>1. Has(d.toGps, "STOP")
    BY <1>1, <1>4, HasAppend DEF Halts
  <2> QED BY <1>4, <2>1 DEF Halts, ChipFlow, StartStates, RunStates, StopStates
<1>5. CASE Begins(d)
  <2>1. Has(d.toGps, "START")
    BY <1>1, <1>5, HasAppend DEF Begins
  <2> QED BY <1>5, <2>1 DEF Begins, ChipFlow, StartStates, RunStates, StopStates
<1> QED BY <1>2, <1>3, <1>4, <1>5

LEMMA ChipUseMoves ==
  ASSUME NEW c, NEW d, NEW slots,
         Halts(d) \/ Begins(d) \/ Rests(c, d) \/ Runs(c, d)
  PROVE  ChipUse(d, slots)
BY DEF Halts, Begins, Rests, Runs, ChipUse, StartStates, RunStates, StopStates

(***************************************************************************)
(* The requests keep the invariant.                                        *)
(***************************************************************************)
ChipGood(c, slots, g, q) == ChipUse(c, slots) /\ ChipFlow(c, g, q)

LEMMA ChipEven ==
  ASSUME NEW c \in Context, NEW d \in Context, NEW slots, NEW g, NEW q, ChipGood(c, slots, g, q),
         d.state = c.state, d.toGps = c.toGps, d.used = c.used,
         d.openAck = c.openAck, d.closeAck = c.closeAck,
         \A l \in Link : c.lib[l].held => d.lib[l].held
  PROVE  ChipGood(d, slots, g, q)
<1>1. ChipFlow(d, g, q)
  BY DEF ChipGood, ChipFlow
<1>2. ChipUse(d, slots)
  BY DEF ChipGood, ChipUse
<1> QED BY <1>1, <1>2 DEF ChipGood

LEMMA ChipLowPower ==
  ASSUME NEW b \in Context, NEW ev
  PROVE  \E e \in Context : Even(b, e) /\ Fsm(b, ev) = FsmIn(e, e.state, ev)
<1>1. Even(b, LowPower(b)) /\ LowPower(b) \in Context
  BY ChipFields DEF Even
<1>2. Fsm(b, ev) = FsmIn(LowPower(b), LowPower(b).state, ev)
  BY <1>1 DEF Fsm, Even
<1> QED BY <1>1, <1>2

LEMMA ChipFlowFrom ==
  ASSUME NEW c \in Context, NEW e \in Context, NEW d \in Context, NEW g, NEW q,
         ChipFlow(c, g, q), e.state = c.state, e.toGps = c.toGps,
         Stays(e, d) \/ Halts(d) \/ Begins(d)
  PROVE  ChipFlow(d, g, q)
<1>1. ChipFlow(e, g, q)
  BY DEF ChipFlow
<1> QED BY <1>1, ChipFlowMoves

\* A client, or all of them, leaves.
LEMMA ChipLeaves ==
  ASSUME NEW c \in Context, NEW b \in Context, NEW slots, NEW g, NEW q, ChipGood(c, slots, g, q),
         b.state = c.state, b.toGps = c.toGps, b.used \subseteq c.used,
         b.openAck \subseteq c.openAck, \A l \in Link : b.lib[l].held = c.lib[l].held
  PROVE  ChipGood(Fsm(b, "STOP"), slots, g, q)
<1>1. PICK e \in Context : Even(b, e) /\ Fsm(b, "STOP") = FsmIn(e, e.state, "STOP")
  BY ChipLowPower
<1> DEFINE d == FsmIn(e, e.state, "STOP")
<1>2. e.state \in State /\ d \in Context
  BY FsmType DEF Context
<1>3. ChipStopped(e, d, e.state)
  BY <1>2, ChipStop
<1> HIDE DEF d
<1>4. /\ e.state = c.state /\ e.toGps = c.toGps /\ e.used \subseteq c.used /\ e.openAck \subseteq c.openAck
      /\ \A l \in Link : e.lib[l].held = c.lib[l].held
  BY <1>1 DEF Even
<1>5. Halts(d) \/ Stays(e, d)
  BY <1>2, <1>3 DEF ChipStopped, State, StartStates, RunStates, StopStates
<1>6. ChipFlow(d, g, q)
  BY <1>2, <1>4, <1>5, ChipFlowFrom DEF ChipGood
<1>7. ChipUse(d, slots)
  <2>1. CASE Halts(d)
    BY <2>1, ChipUseMoves
  <2>2. CASE Stays(e, d) /\ e.state = "IDLE" /\ d.closeAck = {}
    BY <1>4, <2>2 DEF Stays, ChipGood, ChipUse, RunStates
  <2>3. CASE Stays(e, d) /\ e.state \in RunStates /\ e.used # {}
    <3>1. \A x \in d.openAck \cap d.used : x \in c.openAck \cap c.used
      BY <1>4, <2>3 DEF Stays
    <3>2. \A x \in d.openAck \cap d.used : x \in Link /\ d.lib[x].held
      BY <1>4, <2>3, <3>1 DEF Stays, ChipGood, ChipUse
    <3> QED BY <2>3, <3>2 DEF Stays, ChipUse, RunStates
  <2>4. CASE Stays(e, d) /\ e.state \in StartStates \cup StopStates
    BY <2>4 DEF Stays, ChipUse, StartStates, RunStates, StopStates
  <2> QED BY <1>2, <1>3, <2>1, <2>2, <2>3, <2>4 DEF ChipStopped, State, StartStates, RunStates, StopStates
<1> QED BY <1>1, <1>6, <1>7 DEF ChipGood, d

LEMMA ChipOpen ==
  ASSUME NEW c \in Context, NEW slots, NEW g, NEW q, ChipGood(c, slots, g, q), NEW x \in Client
  PROVE  ChipGood(Open(c, x), slots, g, q)
<1> DEFINE b == OpenFlags(c, x)
<1>1. b \in Context /\ b.state = c.state /\ b.toGps = c.toGps /\ b.used = c.used \cup {x}
  BY FlagsType DEF OpenFlags, Context
<1> HIDE DEF b
<1>2. PICK e \in Context : Even(b, e) /\ Fsm(b, "START") = FsmIn(e, e.state, "START")
  BY <1>1, ChipLowPower
<1> DEFINE d == FsmIn(e, e.state, "START")
<1>3. e.state \in State /\ d \in Context
  BY FsmType DEF Context
<1>4. ChipAsked(e, d, "START")
  BY ChipAsk
<1> HIDE DEF d
<1>5. e.state = c.state /\ e.toGps = c.toGps /\ e.used # {}
  BY <1>1, <1>2 DEF Even
<1>6. Halts(d) \/ Begins(d) \/ Stays(e, d)
  BY <1>3, <1>4 DEF ChipAsked, State, StartStates, RunStates, StopStates
<1>7. ChipFlow(d, g, q)
  BY <1>3, <1>5, <1>6, ChipFlowFrom DEF ChipGood
<1>8. ChipUse(d, slots)
  <2>1. CASE Halts(d) \/ Begins(d)
    BY <2>1, ChipUseMoves
  <2>2. CASE Stays(e, d) /\ d.openAck = {} /\ e.state \in RunStates
    BY <1>5, <2>2 DEF Stays, ChipUse, RunStates
  <2>3. CASE Stays(e, d) /\ e.state \in StartStates \cup StopStates
    BY <2>3 DEF Stays, ChipUse, StartStates, RunStates, StopStates
  <2> QED BY <1>3, <1>4, <2>1, <2>2, <2>3 DEF ChipAsked, State, StartStates, RunStates, StopStates
<1>9. Open(c, x) = d
  BY <1>2 DEF Open, d, b
<1> QED BY <1>7, <1>8, <1>9 DEF ChipGood

\* A link opened on the chip holds its start messages back.
LEMMA ChipOflOpen ==
  ASSUME NEW c \in Context, NEW slots, NEW g, NEW q, ChipGood(c, slots, g, q), NEW l \in Link
  PROVE  ChipGood([OflLinkOpen(c, l) EXCEPT !.lib[l].held = TRUE], slots, g, q)
<1> DEFINE o == OpenFlags(c, l)
           b == [o EXCEPT !.type[l] = "OFL"]
<1>1. /\ o \in Context /\ o.state = c.state /\ o.toGps = c.toGps /\ o.used = c.used \cup {l}
      /\ o.openAck = c.openAck \cup {l} /\ o.lib = c.lib
  BY ZenonT(60), FlagsType DEF OpenFlags, Context, Client
<1> HIDE DEF o
<1>2. /\ b \in Context /\ b.state = c.state /\ b.toGps = c.toGps /\ b.used = c.used \cup {l}
      /\ b.openAck = c.openAck \cup {l} /\ b.lib = c.lib
  BY <1>1 DEF Context, Mode
<1> HIDE DEF b
<1>3. PICK e \in Context : Even(b, e) /\ Fsm(b, "OFFLOAD_START") = FsmIn(e, e.state, "OFFLOAD_START")
  BY <1>2, ChipLowPower
<1> DEFINE d == FsmIn(e, e.state, "OFFLOAD_START")
           f == [d EXCEPT !.lib[l].held = TRUE]
<1>4. e.state \in State /\ d \in Context
  BY FsmType DEF Context
<1>5. ChipAsked(e, d, "OFFLOAD_START")
  BY ChipAsk
<1> HIDE DEF d
<1>6. /\ e.state = c.state /\ e.toGps = c.toGps /\ e.used = c.used \cup {l} /\ e.openAck = c.openAck \cup {l}
      /\ \A k \in Link : e.lib[k].held = c.lib[k].held
  BY <1>2, <1>3 DEF Even
<1>7. Begins(d) \/ Stays(e, d)
  BY <1>4, <1>5 DEF ChipAsked, State, StartStates, RunStates, StopStates
<1>8. ChipFlow(d, g, q)
  BY <1>4, <1>6, <1>7, ChipFlowFrom DEF ChipGood
<1>9. /\ f \in Context /\ f.state = d.state /\ f.toGps = d.toGps /\ f.used = d.used /\ f.openAck = d.openAck
      /\ f.closeAck = d.closeAck
  BY <1>4, LibFieldType DEF Context
<1>10. f.lib[l].held /\ \A k \in Link : d.lib[k].held => f.lib[k].held
  BY <1>4 DEF Context, Library
<1> HIDE DEF f
<1>11. ChipFlow(f, g, q)
  BY <1>8, <1>9 DEF ChipFlow
<1>12. ChipUse(f, slots)
  <2>1. CASE Begins(d)
    BY <1>9, <2>1 DEF Begins, ChipUse, StartStates, RunStates
  <2>2. CASE Stays(e, d) /\ e.state \in RunStates
    <3>1. \A x \in d.openAck \cap d.used : x = l \/ x \in c.openAck \cap c.used
      BY <1>6, <2>2 DEF Stays
    <3>2. \A x \in c.openAck \cap c.used : x \in Link /\ c.lib[x].held
      BY <1>6, <2>2 DEF ChipGood, ChipUse
    <3>3. \A x \in d.openAck \cap d.used : x \in Link /\ f.lib[x].held
      BY <1>6, <1>10, <2>2, <3>1, <3>2 DEF Stays
    <3>4. f.used # {} /\ f.state \in RunStates
      BY <1>6, <1>9, <2>2 DEF Stays
    <3> QED BY <1>9, <3>3, <3>4 DEF ChipUse, RunStates
  <2>3. CASE Stays(e, d) /\ e.state \in StartStates \cup StopStates
    BY <1>9, <2>3 DEF Stays, ChipUse, StartStates, RunStates, StopStates
  <2> QED BY <1>4, <1>5, <2>1, <2>2, <2>3 DEF ChipAsked, State, StartStates, RunStates, StopStates
<1>13. [OflLinkOpen(c, l) EXCEPT !.lib[l].held = TRUE] = f
  BY <1>3 DEF OflLinkOpen, f, d, b, o
<1> QED BY <1>11, <1>12, <1>13 DEF ChipGood

LEMMA ChipCall ==
  ASSUME NEW c \in Context, NEW slots, NEW g, NEW q, ChipGood(c, slots, g, q), NEW x \in Client
  PROVE  /\ ChipGood(Open(c, x), slots, g, q) /\ ChipGood(Close(c, x), slots, g, q)
         /\ ChipGood(ClientReboot(c, x), slots, g, q) /\ ChipGood(DeleteAiding(c, x), slots, g, q)
<1>1. ChipGood(Close(c, x), slots, g, q)
  <2> DEFINE b == CloseFlags(c, x)
  <2>1. /\ b \in Context /\ b.state = c.state /\ b.toGps = c.toGps /\ b.used \subseteq c.used
        /\ b.openAck \subseteq c.openAck /\ b.lib = c.lib
    BY FlagsType DEF CloseFlags, Context
  <2> HIDE DEF b
  <2>2. ChipGood(Fsm(b, "STOP"), slots, g, q)
    BY <2>1, ChipLeaves
  <2> QED BY <2>2 DEF Close, b
<1>2. ChipGood(ClientReboot(c, x), slots, g, q)
  <2> DEFINE o == CloseFlags(c, x)
             cl == o.closeAck \ {x}
             rs == o.resetAck /\ x # Agps
             b == [o EXCEPT !.closeAck = cl, !.resetAck = rs]
  <2>1. /\ o \in Context /\ o.state = c.state /\ o.toGps = c.toGps /\ o.used \subseteq c.used
        /\ o.openAck \subseteq c.openAck /\ o.lib = c.lib
    BY FlagsType DEF CloseFlags, Context
  <2>2. cl \in SUBSET Client /\ rs \in BOOLEAN
    BY <2>1 DEF Context
  <2>3. ClientReboot(c, x) = Fsm(b, "STOP")
    BY DEF ClientReboot
  <2> HIDE DEF o, cl, rs
  <2>4. /\ b \in Context /\ b.state = c.state /\ b.toGps = c.toGps /\ b.used \subseteq c.used
        /\ b.openAck \subseteq c.openAck /\ b.lib = c.lib
    BY <2>1, <2>2 DEF Context
  <2> HIDE DEF b
  <2> QED BY <2>3, <2>4, ChipLeaves
<1>3. ChipGood(DeleteAiding(c, x), slots, g, q)
  <2> DEFINE rs == c.resetAck \/ x = Agps
             b == [c EXCEPT !.aiding = TRUE, !.resetAck = rs]
  <2>1. rs \in BOOLEAN
    OBVIOUS
  <2>2. DeleteAiding(c, x) = Fsm(b, "RESET")
    BY DEF DeleteAiding
  <2> HIDE DEF rs
  <2>3. /\ b \in Context /\ b.state = c.state /\ b.toGps = c.toGps /\ b.used = c.used
        /\ b.openAck = c.openAck /\ b.closeAck = c.closeAck /\ b.lib = c.lib
    BY <2>1 DEF Context
  <2> HIDE DEF b
  <2>4. PICK e \in Context : Even(b, e) /\ Fsm(b, "RESET") = FsmIn(e, e.state, "RESET")
    BY <2>3, ChipLowPower
  <2> DEFINE d == FsmIn(e, e.state, "RESET")
  <2>5. e.state \in State /\ d \in Context
    BY FsmType DEF Context
  <2>6. ChipAsked(e, d, "RESET")
    BY ChipAsk
  <2> HIDE DEF d
  <2>7. /\ e.state = c.state /\ e.toGps = c.toGps /\ e.used = c.used
        /\ e.openAck = c.openAck /\ e.closeAck = c.closeAck
        /\ \A l \in Link : e.lib[l].held = c.lib[l].held
    BY <2>3, <2>4 DEF Even
  <2>8. Stays(e, d) /\ (e.state = "IDLE" => d.closeAck = e.closeAck)
    BY <2>5, <2>6 DEF ChipAsked, State, StartStates, RunStates, StopStates
  <2>9. ChipFlow(d, g, q)
    BY <2>5, <2>7, <2>8, ChipFlowFrom DEF ChipGood
  <2>10. ChipUse(d, slots)
    <3>1. \A y \in d.openAck \cap d.used : y \in c.openAck \cap c.used
      BY <2>7, <2>8 DEF Stays
    <3>2. c.state \in RunStates => \A y \in d.openAck \cap d.used : y \in Link /\ d.lib[y].held
      BY <2>7, <2>8, <3>1 DEF Stays, ChipGood, ChipUse
    <3>3. d.state = c.state /\ d.used = c.used /\ (c.state = "IDLE" => d.closeAck = c.closeAck)
      BY <2>7, <2>8 DEF Stays
    <3> QED BY <3>2, <3>3 DEF ChipGood, ChipUse
  <2> QED BY <2>2, <2>4, <2>9, <2>10 DEF ChipGood, d
<1> QED BY <1>1, <1>2, <1>3, ChipOpen

LEMMA ChipLibField ==
  ASSUME NEW c \in Context, NEW l \in Link, NEW slots, NEW g, NEW q, ChipGood(c, slots, g, q)
  PROVE  /\ \A st \in Status : ChipGood([c EXCEPT !.lib[l].status = st], slots, g, q)
         /\ \A b \in BOOLEAN : ChipGood([c EXCEPT !.lib[l].running = b], slots, g, q)
         /\ ChipGood([c EXCEPT !.lib[l].held = TRUE], slots, g, q)
<1>1. ASSUME NEW st \in Status PROVE ChipGood([c EXCEPT !.lib[l].status = st], slots, g, q)
  <2> DEFINE d == [c EXCEPT !.lib[l].status = st]
  <2>0. d \in Context
    BY LibFieldType
  <2>1. \A k \in Link : d.lib[k].held = c.lib[k].held
    BY DEF Context, Library
  <2>2. /\ d.state = c.state /\ d.toGps = c.toGps /\ d.used = c.used
        /\ d.openAck = c.openAck /\ d.closeAck = c.closeAck
    BY DEF Context
  <2> HIDE DEF d
  <2>3. ChipGood(d, slots, g, q)
    BY <2>0, <2>1, <2>2, ChipEven
  <2> QED BY <2>3 DEF d
<1>2. ASSUME NEW b \in BOOLEAN PROVE ChipGood([c EXCEPT !.lib[l].running = b], slots, g, q)
  <2> DEFINE d == [c EXCEPT !.lib[l].running = b]
  <2>0. d \in Context
    BY LibFieldType
  <2>1. \A k \in Link : d.lib[k].held = c.lib[k].held
    BY DEF Context, Library
  <2>2. /\ d.state = c.state /\ d.toGps = c.toGps /\ d.used = c.used
        /\ d.openAck = c.openAck /\ d.closeAck = c.closeAck
    BY DEF Context
  <2> HIDE DEF d
  <2>3. ChipGood(d, slots, g, q)
    BY <2>0, <2>1, <2>2, ChipEven
  <2> QED BY <2>3 DEF d
<1>3. ChipGood([c EXCEPT !.lib[l].held = TRUE], slots, g, q)
  <2> DEFINE d == [c EXCEPT !.lib[l].held = TRUE]
  <2>0. d \in Context
    BY LibFieldType
  <2>1. \A k \in Link : c.lib[k].held => d.lib[k].held
    BY DEF Context, Library
  <2>2. /\ d.state = c.state /\ d.toGps = c.toGps /\ d.used = c.used
        /\ d.openAck = c.openAck /\ d.closeAck = c.closeAck
    BY DEF Context
  <2> HIDE DEF d
  <2>3. ChipGood(d, slots, g, q)
    BY <2>0, <2>1, <2>2, ChipEven
  <2> QED BY <2>3 DEF d
<1> QED BY <1>1, <1>2, <1>3

LEMMA ChipLibrary ==
  ASSUME NEW c \in Context, NEW l \in Link, NEW slots, NEW g, NEW q, ChipGood(c, slots, g, q)
  PROVE  ChipGood(LibraryStart(c, l), slots, g, q) /\ ChipGood(LibraryStop(c, l), slots, g, q)
<1> DEFINE b == c.lib[l]
           asked == [c EXCEPT !.lib[l].status = IF b.sys = "OFL" THEN "OFL_OPEN" ELSE "HBD_OPEN"]
           closed == [c EXCEPT !.lib[l].status = "HBD_CLOSE"]
           left == IF c.lib[l].synced THEN Close(closed, l) ELSE closed
           called == IF b.synced THEN Open(asked, l) ELSE asked
           opened == IF b.synced THEN OflLinkOpen(asked, l) ELSE asked
<1>1. l \in Client
  BY DEF Client
<1>2. /\ asked \in Context /\ closed \in Context
      /\ ChipGood(asked, slots, g, q) /\ ChipGood(closed, slots, g, q)
  BY LibFieldType, ChipLibField DEF Status
<1> HIDE DEF asked, closed
<1>3. called \in Context /\ ChipGood(called, slots, g, q) /\ left \in Context /\ ChipGood(left, slots, g, q)
  BY <1>1, <1>2, ChipCall, RequestType
<1> HIDE DEF called, left
<1>4. ChipGood([called EXCEPT !.lib[l].running = TRUE], slots, g, q)
      /\ ChipGood([left EXCEPT !.lib[l].running = FALSE], slots, g, q)
  BY <1>3, ChipLibField
<1>5. ChipGood([opened EXCEPT !.lib[l].held = TRUE], slots, g, q)
  BY <1>2, ChipOflOpen, ChipLibField
<1>6. ChipGood([c EXCEPT !.lib[l].held = TRUE], slots, g, q)
  BY ChipLibField
<1> HIDE DEF opened
<1>7. LibraryStop(c, l) = IF b.running THEN [left EXCEPT !.lib[l].running = FALSE] ELSE c
  BY DEF LibraryStop, left, closed
<1>8. LibraryStart(c, l) =
        IF b.sys = "OFL"
        THEN IF b.status = "OFL_OPEN_DONE" THEN c
             ELSE IF b.held THEN [c EXCEPT !.lib[l].held = TRUE] ELSE [opened EXCEPT !.lib[l].held = TRUE]
        ELSE IF b.running THEN c ELSE [called EXCEPT !.lib[l].running = TRUE]
  <2>1. CASE b.sys = "OFL" /\ b.synced
    BY <2>1 DEF LibraryStart, opened, asked
  <2>2. CASE b.sys = "OFL" /\ ~b.synced
    BY <2>2 DEF LibraryStart, opened, asked
  <2>3. CASE b.sys # "OFL" /\ b.synced
    BY <2>3 DEF LibraryStart, called, asked
  <2>4. CASE b.sys # "OFL" /\ ~b.synced
    BY <2>4 DEF LibraryStart, called, asked
  <2> QED BY <2>1, <2>2, <2>3, <2>4
<1> QED BY <1>4, <1>5, <1>6, <1>7, <1>8

(***************************************************************************)
(* The threads, the engine and the process keep the invariant.             *)
(***************************************************************************)
LEMMA ChipReading ==
  ASSUME NEW c, NEW slots, NEW now, NEW g, NEW q, ChipGood(c, slots, g, q),
         \A o \in Thread : slots[o].pc = "read" => now[o] = slots[o]
  PROVE  ChipGood(c, now, g, q)
BY DEF ChipGood, ChipUse, Reading

LEMMA ChipFlowKept ==
  ASSUME NEW c, NEW g, NEW q, NEW f, NEW p, ChipFlow(c, g, q), f.on = g.on,
         g.cb > 0 => f.cb > 0 \/ Has(p, "START_DONE"), \A x : Has(q, x) => Has(p, x)
  PROVE  ChipFlow(c, f, p)
BY DEF ChipFlow

\* The main thread has taken an event that the state no longer waits for.
LEMMA ChipTaken ==
  ASSUME NEW c, NEW g, NEW q \in Seq(Event), q # <<>>, ChipFlow(c, g, q),
         c.state \in StopStates => Has(c.toGps, "STOP") \/ Head(q) # "STOP_DONE",
         c.state \in StartStates => Has(c.toGps, "START") \/ Head(q) \notin {"START_DONE", "STOP_DONE"}
  PROVE  ChipFlow(c, g, Tail(q))
<1>1. \A x : Has(q, x) => Head(q) = x \/ Has(Tail(q), x)
  BY HasTail
<1> QED BY <1>1 DEF ChipFlow

LEMMA ChipReboot ==
  ASSUME NEW c \in Context
  PROVE  Even(c, RebootLibraries(c))
<1> DEFINE lib == [l \in Link |-> [SessionUpdate(c.lib[l], c.type[l]) EXCEPT !.status = "ATTACH_DONE"]]
           d == RebootLibraries(c)
<1>1. d = [c EXCEPT !.lib = lib, !.ntf = Link]
  BY DEF RebootLibraries
<1>2. \A l \in Link : lib[l].held = c.lib[l].held
  <2> SUFFICES ASSUME NEW l \in Link PROVE lib[l].held = c.lib[l].held
    OBVIOUS
  <2>1. c.lib[l] \in Library /\ c.type[l] \in Mode
    BY DEF Context
  <2>2. \A b \in Library, mode \in Mode : SessionUpdate(b, mode).held = b.held
    BY DEF SessionUpdate, Library
  <2>3. \A b \in Library : [b EXCEPT !.status = "ATTACH_DONE"].held = b.held
    BY DEF Library
  <2> QED BY <2>1, <2>2, <2>3, SessionUpdateType
<1>3. d \in Context
  BY SessionType
<1> HIDE DEF lib
<1>4. /\ d.auto = c.auto /\ d.state = c.state /\ d.used = c.used /\ d.toGps = c.toGps
      /\ d.openAck = c.openAck /\ d.closeAck = c.closeAck /\ d.lib = lib
  BY <1>1 DEF Context
<1> HIDE DEF d
<1>5. Even(c, d)
  BY <1>2, <1>3, <1>4 DEF Even
<1> QED BY <1>5 DEF d

LEMMA ChipInvDef ==
  /\ ChipInv /\ m.auto /\ faults = 0 /\ Alive => ChipGood(m, off, gps, toMain)
  /\ ChipInv /\ m.auto /\ faults = 0 /\ ~m.bad => ChipGood(m, off, gps, toMain)
  /\ (m'.bad \/ ChipGood(m', off', gps', toMain')) => ChipInv'
BY DEF ChipInv, ChipGood, Alive

LEMMA ChipClientStep ==
  ASSUME TypeOK, ChipInv, m.auto, faults = 0, Clients
  PROVE  ChipInv'
<1>1. m \in Context /\ Hal \in Client /\ Agps \in Client /\ \A l \in Link : l \in Client /\ l \in Thread
  BY ClientAssumption DEF TypeOK, Client, Thread
<1>2. Alive => ChipGood(m, off, gps, toMain)
  BY ChipInvDef
<1>3. CASE HalStart \/ HalStop
  <2>1. UNCHANGED <<toMain, gps, off, faults>>
    BY <1>3 DEF HalStart, HalStop
  <2>2. UNCHANGED m \/ (Alive /\ m' \in {Open(m, Hal), Close(m, Hal)})
    BY <1>3 DEF HalStart, HalStop, Send
  <2>3. CASE UNCHANGED m
    BY <2>1, <2>3 DEF ChipInv
  <2>4. CASE Alive /\ m' \in {Open(m, Hal), Close(m, Hal)}
    <3>1. ChipGood(m', off, gps, toMain)
      BY <1>1, <1>2, <2>4, ChipCall
    <3> QED BY <2>1, <3>1, ChipInvDef
  <2> QED BY <2>2, <2>3, <2>4
<1>9. CASE HalReboot
  <2> DEFINE s == [m EXCEPT !.wake = FALSE]
             d == ClientReboot(s, Hal)
  <2>1. /\ s \in Context /\ s.auto = m.auto /\ s.bad = m.bad /\ s.lib = m.lib /\ s.state = m.state
        /\ s.toGps = m.toGps /\ s.used = m.used /\ s.openAck = m.openAck /\ s.closeAck = m.closeAck
    BY NewHal
  <2>2. UNCHANGED <<toMain, gps, off, phase, faults>> /\ m' = (IF Alive THEN d ELSE s)
    BY <1>9 DEF HalReboot
  <2> HIDE DEF s
  <2>3. CASE Alive
    <3>1. ChipGood(s, off, gps, toMain)
      BY <1>1, <1>2, <2>1, <2>3, ChipEven
    <3>2. ChipGood(d, off, gps, toMain)
      BY <1>1, <2>1, <3>1, ChipCall
    <3> HIDE DEF d
    <3> QED BY <2>2, <2>3, <3>2, ChipInvDef
  <2>4. CASE ~Alive
    <3> HIDE DEF d
    <3>1. m' = s
      BY <2>2, <2>4
    <3>2. CASE ~m.bad
      <4>1. ChipGood(m, off, gps, toMain)
        BY <3>2, ChipInvDef
      <4>2. ChipGood(s, off, gps, toMain)
        BY <1>1, <2>1, <4>1, ChipEven
      <4> QED BY <2>2, <3>1, <4>2, ChipInvDef
    <3> QED BY <2>1, <3>1, <3>2, ChipInvDef
  <2> QED BY <2>3, <2>4
<1>4. CASE AgpsRequest \/ HalDeleteAiding
  <2>1. UNCHANGED <<toMain, gps, off>> /\ Alive
    BY <1>4 DEF AgpsRequest, HalDeleteAiding
  <2>2. m' \in {Open(m, Agps), Close(m, Agps), ClientReboot(m, Agps), DeleteAiding(m, Agps), DeleteAiding(m, Hal)}
    BY <1>4 DEF AgpsRequest, HalDeleteAiding
  <2>3. ChipGood(m', off, gps, toMain)
    BY <1>1, <1>2, <2>1, <2>2, ChipCall
  <2> QED BY <2>1, <2>3, ChipInvDef
<1>5. ASSUME NEW l \in Link, LinkStart(l) PROVE ChipInv'
  <2>1. UNCHANGED <<toMain, gps, off>> /\ Alive /\ m' = LibraryStart(m, l)
    BY <1>5 DEF LinkStart
  <2>2. ChipGood(m', off, gps, toMain)
    BY <1>1, <1>2, <2>1, ChipLibrary
  <2> QED BY <2>1, <2>2, ChipInvDef
<1>6. ASSUME NEW l \in Link, LinkStop(l) PROVE ChipInv'
  <2>1. UNCHANGED <<toMain, gps>> /\ Alive
    BY <1>6 DEF LinkStop
  <2>2. CASE m.lib[l].sys = "OFL"
    <3>1. UNCHANGED m /\ \A o \in Thread : off[o].pc = "read" => off'[o] = off[o]
      BY <1>1, <1>6, <2>2 DEF LinkStop, TypeOK
    <3>2. ChipGood(m, off', gps, toMain)
      BY <1>2, <2>1, <3>1, ChipReading
    <3> QED BY <2>1, <3>1, <3>2, ChipInvDef
  <2>3. CASE m.lib[l].sys # "OFL"
    <3>1. m' = LibraryStop(m, l) /\ UNCHANGED off
      BY <1>6, <2>3 DEF LinkStop
    <3>2. ChipGood(m', off, gps, toMain)
      BY <1>1, <1>2, <2>1, <3>1, ChipLibrary
    <3> QED BY <2>1, <3>1, <3>2, ChipInvDef
  <2> QED BY <2>2, <2>3
<1> QED BY <1>3, <1>9, <1>4, <1>5, <1>6 DEF Clients

LEMMA ChipRecoverStep ==
  ASSUME TypeOK, ChipInv, m.auto, faults = 0, Recover
  PROVE  ChipInv'
<1>1. m \in Context /\ Hal \in Client
  BY ClientAssumption DEF TypeOK, Client
<1>2. Alive => ChipGood(m, off, gps, toMain)
  BY ChipInvDef
<1>3. CASE HalRead
  BY <1>3 DEF HalRead, ChipInv, counters
<1>4. CASE HalResend
  <2>1. UNCHANGED <<toMain, gps, off, faults>> /\ (UNCHANGED m \/ (Alive /\ m' = Open(m, Hal)))
    BY <1>4 DEF HalResend, Send, counters
  <2>2. CASE UNCHANGED m
    BY <2>1, <2>2 DEF ChipInv
  <2>3. CASE Alive /\ m' = Open(m, Hal)
    <3>1. ChipGood(m', off, gps, toMain)
      BY <1>1, <1>2, <2>3, ChipCall
    <3> QED BY <2>1, <3>1, ChipInvDef
  <2> QED BY <2>1, <2>2, <2>3
<1>5. ASSUME NEW l \in Link, LinkRecover(l) PROVE ChipInv'
  <2> DEFINE s == [m EXCEPT !.ntf = @ \ {l}]
  <2>1. /\ UNCHANGED <<toMain, gps, off, phase, faults>>
        /\ m' = IF Alive /\ l \in want THEN LibraryStart(s, l) ELSE s
    BY <1>5 DEF LinkRecover, counters
  <2>2. s \in Context
    BY <1>1 DEF Context
  <2>3. /\ s.state = m.state /\ s.toGps = m.toGps /\ s.used = m.used /\ s.openAck = m.openAck
        /\ s.closeAck = m.closeAck /\ s.lib = m.lib /\ s.auto = m.auto /\ s.bad = m.bad
    BY <1>1 DEF Context
  <2> HIDE DEF s
  <2>4. CASE Alive
    <3>1. ChipGood(s, off, gps, toMain)
      BY <1>1, <1>2, <2>2, <2>3, <2>4, ChipEven
    <3>2. ChipGood(m', off, gps, toMain)
      BY <2>1, <2>2, <3>1, ChipLibrary
    <3> QED BY <2>1, <3>2, ChipInvDef
  <2>5. CASE ~Alive
    <3>1. m' = s
      BY <2>1, <2>5
    <3>2. CASE ~m.bad
      <4>1. ChipGood(m, off, gps, toMain)
        BY <3>2, ChipInvDef
      <4>2. ChipGood(s, off, gps, toMain)
        BY <1>1, <2>2, <2>3, <4>1, ChipEven
      <4> QED BY <2>1, <3>1, <4>2, ChipInvDef
    <3> QED BY <2>3, <3>1, <3>2, ChipInvDef
  <2> QED BY <2>4, <2>5
<1> QED BY <1>3, <1>4, <1>5 DEF Recover

LEMMA ChipEventStep ==
  ASSUME TypeOK, ChipInv, m.auto, faults = 0, MainEvent
  PROVE  ChipInv'
<1> DEFINE ev == Head(toMain)
<1>1. /\ m \in Context /\ toMain \in Seq(Event) /\ toMain # <<>> /\ Alive
      /\ toMain' = Tail(toMain) /\ UNCHANGED <<gps, off, faults>>
  BY DEF MainEvent, TypeOK, Event, counters
<1>2. ChipUse(m, off) /\ ChipFlow(m, gps, toMain)
  BY <1>1, ChipInvDef DEF ChipGood
<1>3. SUFFICES m'.bad \/ (ChipUse(m', off) /\ ChipFlow(m', gps, Tail(toMain)))
  BY <1>1, ChipInvDef DEF ChipGood
<1> HIDE DEF ev
<1>4. CASE ev \in {"START_DONE", "STOP_DONE"} /\ m' = Fsm(m, ev)
  <2>1. PICK e \in Context : Even(m, e) /\ Fsm(m, ev) = FsmIn(e, e.state, ev)
    BY <1>1, ChipLowPower
  <2> DEFINE d == FsmIn(e, e.state, ev)
  <2>2. e.state \in State /\ d \in Context /\ d = m'
    BY <1>4, <2>1, FsmType DEF Context
  <2>3. /\ e.state = m.state /\ e.toGps = m.toGps /\ e.auto /\ e.used = m.used
        /\ e.openAck = m.openAck /\ e.closeAck = m.closeAck
        /\ \A l \in Link : e.lib[l].held = m.lib[l].held
    BY <2>1 DEF Even
  <2>4. ev = "START_DONE" => ChipStarted(e, d)
    BY <2>3, ChipStartDone
  <2>5. ev = "STOP_DONE" => ChipEnded(e, d)
    BY <2>3, ChipStopDone
  <2> HIDE DEF d
  <2>6. ChipFlow(e, gps, toMain)
    BY <1>2, <2>3 DEF ChipFlow
  <2>7. ChipUse(e, off)
    BY <1>2, <2>3 DEF ChipUse
  <2>8. d.toGps \in Seq(Message)
    BY <2>2 DEF Context, Message
  <2>9. CASE Halts(d) \/ Begins(d) \/ Rests(e, d) \/ Runs(e, d)
    <3>1. ChipUse(d, off) /\ ChipFlow(d, gps, toMain)
      BY <2>2, <2>6, <2>9, ChipFlowMoves, ChipUseMoves
    <3>2. /\ d.state \in StopStates => Has(d.toGps, "STOP")
          /\ d.state \in StartStates => Has(d.toGps, "START")
      <4>1. \A x : Ends(d.toGps, x) => Has(d.toGps, x)
        BY <2>8, HasAppend DEF Message
      <4> QED BY <2>9, <4>1 DEF Halts, Begins, Rests, Runs, StartStates, RunStates, StopStates
    <3> QED BY <1>1, <2>2, <3>1, <3>2, ChipTaken
  <2>10. CASE ev = "START_DONE" /\ Stays(e, d) /\ e.state \in RunStates \cup StopStates
    <3>1. ChipFlow(d, gps, toMain)
      BY <2>2, <2>6, <2>10, ChipFlowMoves
    <3>2. ChipFlow(d, gps, Tail(toMain))
      BY <1>1, <2>10, <3>1, ChipTaken DEF Stays, StartStates, RunStates, StopStates, ev
    <3>3. \A x \in d.openAck \cap d.used : x \in e.openAck \cap e.used
      BY <2>10 DEF Stays
    <3>4. ChipUse(d, off)
      BY <2>7, <2>10, <3>3 DEF Stays, ChipUse, RunStates, StopStates
    <3> QED BY <2>2, <3>2, <3>4
  <2>11. CASE d.bad
    BY <2>2, <2>11
  <2> QED BY <1>4, <2>2, <2>4, <2>5, <2>9, <2>10, <2>11
          DEF ChipStarted, ChipEnded, State, StartStates, RunStates, StopStates
<1>5. CASE ev = "RESET_DONE" /\ m' = [m EXCEPT !.timerReset = FALSE, !.resetAck = FALSE]
  <2> DEFINE d == [m EXCEPT !.timerReset = FALSE, !.resetAck = FALSE]
  <2>1. /\ d \in Context /\ d.state = m.state /\ d.toGps = m.toGps /\ d.used = m.used
        /\ d.openAck = m.openAck /\ d.closeAck = m.closeAck /\ d.lib = m.lib
    BY <1>1 DEF Context
  <2>2. d = m'
    BY <1>5
  <2> HIDE DEF d
  <2>3. ChipGood(d, off, gps, toMain)
    BY <1>1, <1>2, <2>1, ChipEven DEF ChipGood
  <2>4. ChipFlow(d, gps, Tail(toMain))
    BY <1>1, <1>5, <2>3, ChipTaken DEF ChipGood, ev
  <2> QED BY <2>2, <2>3, <2>4 DEF ChipGood
<1>6. CASE ev = "NMEA_TIMEOUT" /\ m.state = "STARTED" /\ m' = RebootLibraries(Fsm([m EXCEPT !.used = {}], "STOP"))
  <2> DEFINE b == [m EXCEPT !.used = {}]
             d == Fsm(b, "STOP")
             r == RebootLibraries(d)
  <2>1. /\ b \in Context /\ b.state = m.state /\ b.toGps = m.toGps /\ b.used = {}
        /\ b.openAck = m.openAck /\ b.lib = m.lib
    BY <1>1 DEF Context
  <2> HIDE DEF b
  <2>2. ChipGood(d, off, gps, toMain) /\ d \in Context
    BY <1>1, <1>2, <2>1, ChipLeaves, FsmType DEF ChipGood
  <2> HIDE DEF d
  <2>3. Even(d, r)
    BY <2>2, ChipReboot
  <2>4. r = m'
    BY <1>6 DEF d, b
  <2> HIDE DEF r
  <2>5. ChipGood(r, off, gps, toMain)
    BY <2>2, <2>3, ChipEven DEF Even
  <2>6. ChipFlow(r, gps, Tail(toMain))
    BY <1>1, <1>6, <2>5, ChipTaken DEF ChipGood, ev
  <2> QED BY <2>4, <2>5, <2>6 DEF ChipGood
<1>7. CASE ev = "NMEA_TIMEOUT" /\ m' = m
  <2>1. ChipFlow(m, gps, Tail(toMain))
    BY <1>1, <1>2, <1>7, ChipTaken DEF ev
  <2> QED BY <1>2, <1>7, <2>1
<1> QED BY <1>4, <1>5, <1>6, <1>7 DEF MainEvent, ev

\* The GPS control thread takes the message ev.
LEMMA ChipTake ==
  ASSUME TypeOK, NEW ev, Take(ev)
  PROVE  /\ Alive /\ m' \in Context /\ m'.toGps = Tail(m.toGps) /\ m.toGps # <<>> /\ ev = Head(m.toGps)
         /\ m'.state = m.state /\ m'.used = m.used /\ m'.openAck = m.openAck
         /\ m'.closeAck = m.closeAck /\ m'.lib = m.lib
         /\ m.toGps \in Seq(Message)
<1>1. m \in Context /\ m' \in Context
  BY TakeType DEF TypeOK
<1> QED BY <1>1 DEF Take, Context, Message

LEMMA ChipEngineStep ==
  ASSUME TypeOK, ChipInv, m.auto, faults = 0, faults' = 0,
         GpsThread \/ Callback \/ EngineRestart \/ NmeaTimeout
  PROVE  ChipInv'
<1>1. m \in Context /\ toMain \in Seq(Event) /\ gps \in Engine /\ gps.cb \in Nat
  BY DEF TypeOK, Event, Engine
<1>2. Alive => ChipUse(m, off) /\ ChipFlow(m, gps, toMain)
  BY ChipInvDef DEF ChipGood
<1>3. ~Fault
  BY DEF Fault
<1>4. \A y \in Event : /\ \A x : Has(toMain, x) => Has(Append(toMain, y), x)
                       /\ Has(Append(toMain, y), y)
  BY <1>1, HasAppend
<1>5. ASSUME NEW ev, Take(ev)
      PROVE  /\ Alive /\ ev = Head(m.toGps) /\ ChipUse(m', off) /\ m'.state = m.state
             /\ \A x : Has(m.toGps, x) => ev = x \/ Has(m'.toGps, x)
             /\ \A x : Ends(m.toGps, x) => Ends(m'.toGps, x) \/ (ev = x /\ AllIn(m'.toGps, {"RESET"}))
             /\ AllIn(m.toGps, {"RESET"}) => ev = "RESET" /\ AllIn(m'.toGps, {"RESET"})
  <2>1. /\ Alive /\ m'.toGps = Tail(m.toGps) /\ m.toGps # <<>> /\ ev = Head(m.toGps)
        /\ m'.state = m.state /\ m'.used = m.used /\ m'.openAck = m.openAck
        /\ m'.closeAck = m.closeAck /\ m'.lib = m.lib /\ m.toGps \in Seq(Message)
    BY <1>5, ChipTake
  <2>2. ChipUse(m', off)
    BY <1>2, <2>1 DEF ChipUse
  <2> QED BY <2>1, <2>2, HasTail
<1>6. CASE GpsStart
  <2>1. Take("START") /\ gps' = [gps EXCEPT !.on = TRUE, !.cb = 1] /\ UNCHANGED <<toMain, off>>
    BY <1>3, <1>6 DEF GpsStart
  <2>2. gps'.on = TRUE /\ gps'.cb > 0
    BY <1>1, <2>1 DEF Engine
  <2>3. ChipFlow(m', gps', toMain)
    BY <1>2, <1>5, <2>1, <2>2 DEF ChipFlow
  <2> QED BY <1>5, <2>1, <2>3, ChipInvDef DEF ChipGood
<1>7. CASE GpsStop
  <2>1. /\ Take("STOP") /\ gps' = [gps EXCEPT !.on = FALSE, !.cb = 0]
        /\ toMain' = Append(toMain, "STOP_DONE")
        /\ \A o \in Thread : off[o].pc = "read" => off'[o] = off[o]
    BY <1>3, <1>7 DEF GpsStop
  <2>2. gps'.on = FALSE
    BY <1>1, <2>1 DEF Engine
  <2>3. Has(toMain', "STOP_DONE")
    BY <1>4, <2>1 DEF Event
  <2>4. ChipFlow(m', gps', toMain')
    BY <1>2, <1>5, <2>1, <2>2, <2>3 DEF ChipFlow
  <2>5. ChipGood(m', off, gps', toMain')
    BY <1>5, <2>1, <2>4 DEF ChipGood
  <2> QED BY <2>1, <2>5, ChipReading, ChipInvDef
<1>8. CASE GpsReset
  <2>1. Take("RESET") /\ UNCHANGED <<toMain, off>>
    BY <1>8 DEF GpsReset
  <2>2. gps'.on = gps.on /\ (gps.cb > 0 => gps'.cb > 0)
    BY <1>1, <1>8 DEF GpsReset, Engine
  <2>3. ChipFlow(m, gps', toMain)
    BY <1>2, <1>5, <2>1, <2>2, ChipFlowKept
  <2>4. ChipFlow(m', gps', toMain)
    BY <1>5, <2>1, <2>3 DEF ChipFlow
  <2> QED BY <1>5, <2>1, <2>4, ChipInvDef DEF ChipGood
<1>9. CASE GpsWait \/ GpsResetDone \/ NmeaTimeout
  <2>1. Alive /\ UNCHANGED <<m, off>> /\ gps'.on = gps.on /\ gps'.cb = gps.cb
    BY <1>1, <1>9 DEF GpsWait, GpsResetDone, NmeaTimeout, Engine
  <2>2. toMain' = toMain \/ toMain' = Append(toMain, "RESET_DONE") \/ toMain' = Append(toMain, "NMEA_TIMEOUT")
    BY <1>9 DEF GpsWait, GpsResetDone, NmeaTimeout
  <2>3. \A x : Has(toMain, x) => Has(toMain', x)
    BY <1>4, <2>2 DEF Event
  <2>4. ChipFlow(m, gps', toMain')
    BY <1>2, <2>1, <2>3, ChipFlowKept
  <2> QED BY <1>2, <2>1, <2>4, ChipInvDef DEF ChipGood
<1>10. CASE Callback
  <2>1. Alive /\ UNCHANGED <<m, off>> /\ gps'.on = gps.on /\ toMain' = Append(toMain, "START_DONE")
    BY <1>1, <1>10 DEF Callback, Engine
  <2>2. Has(toMain', "START_DONE") /\ \A x : Has(toMain, x) => Has(toMain', x)
    BY <1>4, <2>1 DEF Event
  <2>3. ChipFlow(m, gps', toMain')
    BY <1>2, <2>1, <2>2, ChipFlowKept
  <2> QED BY <1>2, <2>1, <2>3, ChipInvDef DEF ChipGood
<1>11. CASE EngineRestart
  BY <1>3, <1>11 DEF EngineRestart
<1> QED BY <1>6, <1>7, <1>8, <1>9, <1>10, <1>11 DEF GpsThread

LEMMA ChipSeen ==
  ASSUME NEW slots, NEW now, NEW o, NEW st, Reading(slots, st), slots[o].st # st \/ slots[o].pc # "read",
         \A p \in Thread : p # o => now[p] = slots[p]
  PROVE  Reading(now, st)
BY DEF Reading

\* A thread enters mnld_fsm: it takes clients away and reads the state.
LEMMA ChipEnter ==
  ASSUME TypeOK, ChipGood(m, off, gps, toMain), NEW o \in Thread, NEW c \in Context, Enter(o, c),
         UNCHANGED <<gps, toMain>>, c.state = m.state, c.toGps = m.toGps, c.used \subseteq m.used,
         c.openAck \subseteq m.openAck, c.lib = m.lib
  PROVE  ChipGood(m', off', gps', toMain')
<1>1. m' \in Context /\ Even(c, m')
  BY ChipFields DEF Enter, Even
<1>2. /\ m'.state = m.state /\ m'.toGps = m.toGps /\ m'.used \subseteq m.used /\ m'.openAck \subseteq m.openAck
      /\ \A l \in Link : m'.lib[l].held = m.lib[l].held
  BY <1>1 DEF Even
<1>3. off'[o].pc = "read" /\ off'[o].st = m.state
  BY DEF Enter, TypeOK
<1>4. Reading(off', m.state)
  BY <1>3 DEF Reading
<1>5. ChipUse(m', off')
  <2>1. \A x \in m'.openAck \cap m'.used : x \in m.openAck \cap m.used
    BY <1>2
  <2> QED BY <1>2, <1>4, <2>1 DEF ChipGood, ChipUse
<1>6. ChipFlow(m', gps, toMain)
  BY <1>2 DEF ChipGood, ChipFlow
<1> QED BY <1>5, <1>6 DEF ChipGood

\* A thread acts in the state it read; a state that another thread has to
\* leave was read by that other thread, or is the one it read itself.
LEMMA ChipOffStop ==
  ASSUME TypeOK, ChipInv, m.auto, faults = 0, NEW o \in Thread, OffStop(o)
  PROVE  ChipInv'
<1> DEFINE st == off[o].st
           d == FsmIn(m, st, "STOP")
<1>1. /\ m \in Context /\ Alive /\ off[o].pc = "read" /\ st \in State /\ UNCHANGED <<gps, toMain>>
      /\ \A p \in Thread : p # o => off'[p] = off[p]
  BY DEF OffStop, TypeOK
<1>2. ChipUse(m, off) /\ ChipFlow(m, gps, toMain)
  BY <1>1, ChipInvDef DEF ChipGood
<1>3. d \in Context /\ ChipStopped(m, d, st)
  BY <1>1, ChipStop, FsmType
<1>4. m' = IF o = Switch THEN d ELSE [d EXCEPT !.lib[o].status = "OFL_CLOSE"]
  BY DEF OffStop
<1>5. o = Switch \/ o \in Link
  BY DEF Thread
<1> HIDE DEF d, st
<1>6. Halts(d) \/ Stays(m, d)
  BY <1>1, <1>3 DEF ChipStopped, State, StartStates, RunStates, StopStates
<1>7. ChipFlow(d, gps, toMain)
  BY <1>1, <1>2, <1>3, <1>6, ChipFlowMoves
<1>8. ChipUse(d, off')
  <2>1. CASE Halts(d)
    BY <2>1, ChipUseMoves
  <2>2. CASE Stays(m, d)
    <3>1. \A s \in {"IDLE", "STARTED", "OFL_STARTED"} : s # st /\ Reading(off, s) => Reading(off', s)
      BY <1>1, ChipSeen DEF st
    <3>2. m.state = "IDLE" => d.used = {} /\ (d.closeAck # {} => Reading(off', "IDLE"))
      BY <1>1, <1>2, <1>3, <2>2, <3>1
         DEF Stays, ChipUse, ChipStopped, Halts, State, StartStates, RunStates, StopStates
    <3>3. m.state \in RunStates /\ d.used = {} => Reading(off', m.state)
      <4> SUFFICES ASSUME m.state \in RunStates, d.used = {} PROVE Reading(off', m.state)
        OBVIOUS
      <4>1. m.used = {} /\ Reading(off, m.state) /\ d.state = m.state
        BY <1>2, <2>2 DEF Stays, ChipUse
      <4>2. st # m.state
        BY <1>3, <4>1 DEF ChipStopped, Halts, RunStates, StopStates
      <4> QED BY <3>1, <4>1, <4>2 DEF RunStates
    <3>4. m.state \in RunStates => \A x \in d.openAck \cap d.used : x \in Link /\ d.lib[x].held
      <4>1. \A x \in d.openAck \cap d.used : x \in m.openAck \cap m.used
        BY <2>2 DEF Stays
      <4> QED BY <1>2, <2>2, <4>1 DEF Stays, ChipUse
    <3>5. d.state = m.state
      BY <2>2 DEF Stays
    <3> QED BY <3>2, <3>3, <3>4, <3>5 DEF ChipUse
  <2> QED BY <1>6, <2>1, <2>2
<1>9. ChipGood(m', off', gps, toMain)
  BY <1>3, <1>4, <1>5, <1>7, <1>8, ChipLibField DEF ChipGood, Status
<1> QED BY <1>1, <1>9, ChipInvDef

LEMMA ChipOffStep ==
  ASSUME TypeOK, ChipInv, m.auto, faults = 0, OffMain
  PROVE  ChipInv'
<1>1. m \in Context /\ Switch \in Thread /\ \A l \in Link : l \in Client /\ l \in Thread
  BY DEF TypeOK, Client, Thread
<1>2. Alive => ChipGood(m, off, gps, toMain)
  BY ChipInvDef
<1>3. CASE SwitchExpires
  <2> DEFINE s == [m EXCEPT !.timerSwitch = FALSE]
             d == DropLinks(s)
  <2>1. Alive /\ UNCHANGED <<gps, toMain>> /\ ((m' = s /\ UNCHANGED off) \/ Enter(Switch, d))
    BY <1>3 DEF SwitchExpires
  <2>0. s \in Context
    BY <1>1, FieldType
  <2>2. /\ s.state = m.state /\ s.toGps = m.toGps /\ s.used = m.used
        /\ s.openAck = m.openAck /\ s.closeAck = m.closeAck /\ s.lib = m.lib
    BY <1>1 DEF Context
  <2> HIDE DEF s
  <2>3. CASE m' = s /\ UNCHANGED off
    <3>1. ChipGood(s, off, gps, toMain)
      BY <1>1, <1>2, <2>0, <2>1, <2>2, ChipEven
    <3> QED BY <2>1, <2>3, <3>1, ChipInvDef
  <2>4. CASE Enter(Switch, d)
    <3>1. /\ d \in Context /\ d.state = s.state /\ d.toGps = s.toGps /\ d.used \subseteq s.used
          /\ d.openAck \subseteq s.openAck /\ d.lib = s.lib
      BY <2>0, <2>2 DEF DropLinks, Context
    <3> HIDE DEF d
    <3>2. ChipGood(m', off', gps', toMain')
      BY <1>1, <1>2, <2>1, <2>2, <2>4, <3>1, ChipEnter
    <3> QED BY <3>2, ChipInvDef
  <2> QED BY <2>1, <2>3, <2>4
<1>4. ASSUME NEW l \in Link, StopAnswered(l) PROVE ChipInv'
  <2> DEFINE d == CloseFlags(m, l)
  <2>1. Alive /\ UNCHANGED <<gps, toMain>> /\ Enter(l, d)
    BY <1>4 DEF StopAnswered
  <2>2. /\ d \in Context /\ d.state = m.state /\ d.toGps = m.toGps /\ d.used \subseteq m.used
        /\ d.openAck \subseteq m.openAck /\ d.lib = m.lib
    BY <1>1, FlagsType DEF CloseFlags, Context
  <2> HIDE DEF d
  <2>3. ChipGood(m', off', gps', toMain')
    BY <1>1, <1>2, <2>1, <2>2, ChipEnter
  <2> QED BY <2>3, ChipInvDef
<1> QED BY <1>3, <1>4, ChipOffStop DEF OffMain

LEMMA ChipBoot ==
  ASSUME NEW auto \in BOOLEAN, NEW wake \in BOOLEAN, NEW ntf \in SUBSET Link, NEW slots
  PROVE  ChipGood(Boot(auto, wake, ntf), slots, NoGps, <<>>)
<1> DEFINE d == Boot(auto, wake, ntf)
<1>1. d.state = "IDLE" /\ d.used = {} /\ d.closeAck = {} /\ d.toGps = <<>>
  BY DEF Boot
<1> HIDE DEF d
<1>2. NoGps.on = FALSE /\ AllIn(<<>>, {"RESET"})
  BY DEF NoGps, AllIn
<1>3. ChipUse(d, slots) /\ ChipFlow(d, NoGps, <<>>)
  BY <1>1, <1>2 DEF ChipUse, ChipFlow, StartStates, RunStates, StopStates
<1> QED BY <1>3 DEF ChipGood, d

LEMMA ChipProcessStep ==
  ASSUME TypeOK, ChipInv, m.auto, faults = 0, Process
  PROVE  ChipInv'
<1>1. m \in Context
  BY DEF TypeOK
<1>2. CASE Expire
  <2>1. UNCHANGED <<m, off, gps, toMain>> /\ Alive
    BY <1>2 DEF Expire
  <2> QED BY <2>1, ChipInvDef
<1>3. CASE Respawn
  <2>1. m' = Boot(m.auto, m.wake, m.ntf) /\ gps' = NoGps /\ toMain' = <<>>
    BY <1>3 DEF Respawn
  <2>2. m.auto \in BOOLEAN /\ m.wake \in BOOLEAN /\ m.ntf \in SUBSET Link
    BY <1>1 DEF Context
  <2>3. ChipGood(m', off', gps', toMain')
    BY <2>1, <2>2, ChipBoot
  <2> QED BY <2>3, ChipInvDef
<1>4. CASE TellClients
  <2> DEFINE d == RebootLibraries(m)
  <2>1. m' = d /\ Alive /\ UNCHANGED <<off, gps, toMain>>
    BY <1>4 DEF TellClients
  <2>2. Even(m, d)
    BY <1>1, ChipReboot
  <2> HIDE DEF d
  <2>3. ChipGood(d, off, gps, toMain)
    BY <1>1, <2>1, <2>2, ChipEven, ChipInvDef DEF Even
  <2> QED BY <2>1, <2>3, ChipInvDef
<1> QED BY <1>2, <1>3, <1>4 DEF Process

LEMMA ChipInvInit == Init => ChipInv
<1> SUFFICES ASSUME Init PROVE ChipInv
  OBVIOUS
<1>1. PICK auto \in BOOLEAN : m = [RebootLibraries(Boot(auto, FALSE, {})) EXCEPT !.ntf = {}]
  BY DEF Init
<1> DEFINE b == Boot(auto, FALSE, {})
           r == RebootLibraries(b)
<1>2. b \in Context /\ ChipGood(b, off, NoGps, <<>>)
  BY BootType, ChipBoot
<1> HIDE DEF b
<1>3. r \in Context /\ Even(b, r)
  BY <1>2, ChipReboot DEF Even
<1>4. ChipGood(r, off, NoGps, <<>>)
  <2> HIDE DEF r
  <2> QED BY <1>2, <1>3, ChipEven DEF Even
<1>5. m = [r EXCEPT !.ntf = {}]
  BY <1>1 DEF r, b
<1> HIDE DEF r
<1>6. /\ m \in Context /\ m.state = r.state /\ m.toGps = r.toGps /\ m.used = r.used
      /\ m.openAck = r.openAck /\ m.closeAck = r.closeAck /\ m.lib = r.lib
  BY <1>3, <1>5 DEF Context
<1>7. ChipGood(m, off, NoGps, <<>>)
  BY <1>3, <1>4, <1>6, ChipEven
<1> QED BY <1>7 DEF Init, ChipInv, ChipGood

LEMMA ChipInvAlways == Spec => []ChipInv
<1>1. TypeOK /\ ChipInv /\ [Next]_vars => ChipInv'
  <2> SUFFICES ASSUME TypeOK, ChipInv, [Next]_vars PROVE ChipInv'
    OBVIOUS
  <2>1. CASE UNCHANGED vars
    BY <2>1 DEF ChipInv, vars, counters
  <2>2. m'.auto = m.auto
    BY SameChip
  <2>3. faults' = 0 => faults = 0
    <3>1. faults \in Nat
      BY DEF TypeOK
    <3>2. faults' = faults \/ Fault
      BY DEF Next, vars, counters, Clients, Recover, GpsThread, OffMain, Process, HalStart, HalStop,
             HalReboot, HalRead, HalResend, AgpsRequest, HalDeleteAiding, LinkStart, LinkStop,
             LinkRecover, MainEvent, GpsStart, GpsStop, GpsReset, GpsWait, GpsResetDone, Callback,
             EngineRestart, NmeaTimeout, SwitchExpires, StopAnswered, OffStop, Expire, Respawn, TellClients
    <3> QED BY <3>1, <3>2 DEF Fault
  <2>4. CASE ~m.auto \/ faults' # 0
    BY <2>2, <2>4 DEF ChipInv
  <2>5. CASE m.auto /\ faults = 0 /\ faults' = 0 /\ Next
    BY <2>5, ChipClientStep, ChipRecoverStep, ChipEventStep, ChipEngineStep, ChipOffStep, ChipProcessStep DEF Next
  <2> QED BY <2>1, <2>2, <2>3, <2>4, <2>5
<1> QED BY <1>1, ChipInvInit, MnldTypeCorrect, PTL DEF Spec

(***************************************************************************)
(* At rest the engine runs exactly when somebody uses it and the state     *)
(* says so: on a host whatever fails, with automatic switching as long as  *)
(* nothing does.                                                           *)
(***************************************************************************)
THEOREM EngineFollowsUsersAlways == Spec => []EngineFollowsUsers
<1>1. TypeOK /\ ChipInv => (m.auto => EngineFollowsUsers)
  <2> SUFFICES ASSUME TypeOK, ChipInv, m.auto, Quiet, faults = 0
               PROVE  /\ m.state \in {"IDLE", "STARTED", "OFL_STARTED"}
                      /\ (m.state = "IDLE") = (m.used = {})
                      /\ gps.on = (m.used # {})
    BY DEF EngineFollowsUsers
  <2>1. ChipUse(m, off) /\ ChipFlow(m, gps, toMain)
    BY ChipInvDef DEF Quiet, ChipGood
  <2>2. /\ toMain = <<>> /\ m.toGps = <<>> /\ gps.cb = 0
        /\ \A o \in Thread : off[o].pc # "read"
    BY DEF Quiet, Silent
  <2>3. (\A x : ~Has(<<>>, x) /\ ~Ends(<<>>, x)) /\ ~(0 > 0)
    BY DEF Has, Ends
  <2>4. m.state \in State /\ gps.on \in BOOLEAN
    BY DEF TypeOK, Context
  <2>5. m.state = "IDLE" \/ m.state \in RunStates
    BY <2>1, <2>2, <2>3, <2>4 DEF ChipFlow, State, StartStates, RunStates, StopStates
  <2>6. m.state = "IDLE" => m.used = {} /\ gps.on = FALSE
    BY <2>1, <2>2, <2>3, <2>4 DEF ChipUse, ChipFlow, StartStates, RunStates
  <2>7. m.state \in RunStates => m.used # {} /\ gps.on = TRUE
    BY <2>1, <2>2, <2>3, <2>4 DEF ChipUse, ChipFlow, Reading
  <2>8. CASE m.state = "IDLE"
    BY <2>6, <2>8
  <2>9. CASE m.state \in RunStates
    BY <2>7, <2>9 DEF RunStates
  <2> QED BY <2>5, <2>8, <2>9
<1>2. (m.auto => EngineFollowsUsers) /\ (~m.auto => EngineFollowsUsers) => EngineFollowsUsers
  OBVIOUS
<1> QED BY <1>1, <1>2, HostFollowsUsers, ChipInvAlways, MnldTypeCorrect, PTL

(***************************************************************************)
(* At rest no open that somebody still wants, and no close, is left        *)
(* without its answer, but for the links that were opened on the chip      *)
(* while the engine already ran.                                           *)
(***************************************************************************)
THEOREM AcksSettledAlways == Spec => []AcksSettled
<1>1. TypeOK /\ ChipInv /\ EngineFollowsUsers => (m.auto => AcksSettled)
  <2> SUFFICES ASSUME TypeOK, ChipInv, EngineFollowsUsers, m.auto, Quiet, faults = 0
               PROVE  /\ \A x \in m.openAck \cap m.used : x \in Link /\ m.lib[x].held
                      /\ m.state = "IDLE" => m.closeAck = {}
    BY DEF AcksSettled
  <2>1. ChipUse(m, off)
    BY ChipInvDef DEF Quiet, ChipGood
  <2>2. \A o \in Thread : off[o].pc # "read"
    BY DEF Quiet
  <2>3. m.state = "IDLE" \/ m.state \in RunStates
    BY DEF EngineFollowsUsers, RunStates
  <2>4. m.state = "IDLE" => m.used = {} /\ m.closeAck = {}
    BY <2>1, <2>2 DEF ChipUse, Reading
  <2>5. m.state \in RunStates => \A x \in m.openAck \cap m.used : x \in Link /\ m.lib[x].held
    BY <2>1 DEF ChipUse
  <2>6. CASE m.state = "IDLE"
    BY <2>4, <2>6
  <2>7. CASE m.state \in RunStates
    BY <2>5, <2>7 DEF RunStates
  <2> QED BY <2>3, <2>6, <2>7
<1>2. (m.auto => AcksSettled) /\ (~m.auto => AcksSettled) => AcksSettled
  OBVIOUS
<1> QED BY <1>1, <1>2, HostAcksSettled, EngineFollowsUsersAlways, ChipInvAlways, MnldTypeCorrect, PTL
=============================================================================
