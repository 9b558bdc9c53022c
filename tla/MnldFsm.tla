------------------------------ MODULE MnldFsm ------------------------------
(***************************************************************************)
(* The state machine of the GNSS daemon mnld as operators on the context   *)
(* the daemon keeps (g_mnld_ctx.gps_status, the two offload sessions and   *)
(* the statics of mnld_fsm), together with the FLP library, which lives in *)
(* the same process and is called synchronously.  An operator takes the    *)
(* context before a call and gives the context after it; the module Mnld   *)
(* says which thread makes which call.                                     *)
(*                                                                         *)
(* The messages the daemon sends are fields of the context: toGps is the   *)
(* socket of the GPS control thread, ntf the links whose HAL is sent       *)
(* MTK_FLP_MSG_SYS_FLPD_RESET_NTF, wake what the process of the GPS HAL    *)
(* was last told about its wake lock.                                      *)
(***************************************************************************)
EXTENDS Naturals, Sequences

CONSTANTS
    Hbd,        \* host based clients: the GPS HAL, the AGPS daemon, tests
    Hal, Agps,  \* the two of them with operations of their own
    Link        \* clients that may run on the connectivity chip (FLP)

ASSUME ClientAssumption ==
    /\ Hal \in Hbd /\ Agps \in Hbd /\ Hal # Agps
    /\ Hbd \cap Link = {}

Client == Hbd \cup Link

State == {"IDLE", "STARTING", "STARTED", "STOPPING",
          "OFL_STARTING", "OFL_STARTED", "OFL_STOPPING"}
Mode == {"AP", "OFL", "AP_OFL"}              \* MNLD_FLP_CAPABILITY_*_MODE
Status == {"ATTACH_DONE", "HBD_OPEN", "HBD_OPEN_DONE", "HBD_CLOSE",
           "HBD_CLOSE_DONE", "OFL_OPEN", "OFL_OPEN_DONE", "OFL_CLOSE",
           "OFL_CLOSE_DONE", "NONE"}         \* fgMnldStatus

\* The library of one link: fgMnldStatus, the mode flag, whether the host
\* controller runs a source, whether start messages are held back until the
\* link is open (gFlp2mnl_cnt > 0) and whether it knows the session id.
Library == [status : Status, sys : {"AP", "OFL"}, running : BOOLEAN,
            held : BOOLEAN, synced : BOOLEAN]

Context == [auto : BOOLEAN, state : State, used : SUBSET Client,
            openAck : SUBSET Client, closeAck : SUBSET Client,
            resetAck : BOOLEAN, aiding : BOOLEAN,
            timerStart : BOOLEAN, timerStop : BOOLEAN,
            timerReset : BOOLEAN, timerSwitch : BOOLEAN,
            type : [Link -> Mode], pre : [Link -> Mode],
            lp : BOOLEAN, fwk : BOOLEAN, wake : BOOLEAN,
            toGps : Seq({"START", "STOP", "RESET"}),
            lib : [Link -> Library], ntf : SUBSET Link, bad : BOOLEAN]

\* The context of a process that has just started: a chip with automatic
\* switching of the offload mode or one without, and what the HALs, other
\* processes, were told by the one before it.
Boot(auto, wake, ntf) ==
    LET mode == [l \in Link |-> IF auto THEN "AP_OFL" ELSE "AP"]
    IN  [auto |-> auto, state |-> "IDLE", used |-> {}, openAck |-> {},
         closeAck |-> {}, resetAck |-> FALSE, aiding |-> FALSE,
         timerStart |-> FALSE, timerStop |-> FALSE, timerReset |-> FALSE,
         timerSwitch |-> FALSE, type |-> mode, pre |-> mode,
         lp |-> FALSE, fwk |-> FALSE, wake |-> wake, toGps |-> <<>>,
         lib |-> [l \in Link |-> [status |-> "NONE", sys |-> "AP",
                    running |-> FALSE, held |-> FALSE, synced |-> FALSE]],
         ntf |-> ntf, bad |-> FALSE]

AutoMode(m) == m.auto /\ \E l \in Link : m.type[l] = "OFL"
HbdExists(m) == m.used \cap Hbd # {}
OnlyLinks(m) == m.used \subseteq Link

(***************************************************************************)
(* What the daemon tells the library.                                      *)
(***************************************************************************)
\* Open done: of the kind the mode of this moment calls for.
Opened(b, ofl) ==
    IF ~ofl THEN [b EXCEPT !.status = "HBD_OPEN_DONE"]
    ELSE IF b.status = "OFL_OPEN"
         THEN [b EXCEPT !.status = "OFL_OPEN_DONE", !.held = FALSE]
         ELSE b
Closed(b, ofl) ==
    [b EXCEPT !.status = IF ofl THEN "OFL_CLOSE_DONE" ELSE "HBD_CLOSE_DONE"]

\* A new session: a library that runs where the session allows does nothing;
\* one that runs in the other place changes its mode and asks its HAL to
\* start again (Switched).
Offloads(mode) == mode \in {"OFL", "AP_OFL"}
SessionUpdate(b, mode) ==
    LET known == [b EXCEPT !.synced = TRUE] IN
    CASE b.status = "HBD_OPEN_DONE" /\ ~Offloads(mode) -> known
      [] b.status = "OFL_OPEN_DONE" /\ Offloads(mode) -> known
      [] b.status = "HBD_OPEN_DONE" /\ Offloads(mode) ->
            [known EXCEPT !.sys = "OFL", !.running = FALSE]
      [] OTHER -> [known EXCEPT !.sys = IF Offloads(mode) THEN "OFL" ELSE "AP"]
Switched(b, mode) ==
    \/ b.status = "HBD_OPEN_DONE" /\ Offloads(mode)
    \/ b.status = "OFL_OPEN_DONE" /\ ~Offloads(mode)

\* The sessions take the mode; a link whose mode changes gets a new session
\* and is no longer a user.
NewSession(m, mode) ==
    LET moved == {l \in Link : m.pre[l] # mode}
    IN  [m EXCEPT
           !.type = [l \in Link |-> mode],
           !.pre = [l \in Link |-> mode],
           !.used = @ \ moved,
           !.lib = [l \in Link |-> IF l \in moved
                                   THEN SessionUpdate(m.lib[l], mode)
                                   ELSE m.lib[l]],
           !.ntf = @ \cup {l \in moved : Switched(m.lib[l], mode)}]

\* mnl2flp_mnld_reboot: the session, then MNL_BOOTUP.  What the library held
\* back and its running source stay as they are.
RebootLibraries(m) ==
    [m EXCEPT !.lib = [l \in Link |->
                         [SessionUpdate(m.lib[l], m.type[l])
                            EXCEPT !.status = "ATTACH_DONE"]],
              !.ntf = Link]

(***************************************************************************)
(* The steps the states have in common.                                    *)
(***************************************************************************)
StartGps(m, state, watched) ==
    [m EXCEPT !.state = state, !.timerStart = watched \/ @,
              !.toGps = Append(@, "START"), !.aiding = FALSE]
StopGps(m, state) ==
    [m EXCEPT !.state = state, !.timerStop = TRUE,
              !.toGps = Append(@, "STOP")]

\* Mutant: a reset that waits comes instead of the acknowledgements.
AckOrReset(m) ==
    IF m.aiding
    THEN [m EXCEPT !.timerReset = TRUE, !.aiding = FALSE,
                   !.toGps = Append(@, "RESET")]
    ELSE [m EXCEPT !.openAck = {}, !.resetAck = FALSE,
                   !.lib = [l \in Link |-> IF l \in m.openAck
                                           THEN Opened(m.lib[l], AutoMode(m))
                                           ELSE m.lib[l]]]
\* do_gps_started_hdlr: every open, and a reset that waits, is acknowledged;
\* a reset asked for meanwhile goes to the engine.
AckOpens(m) ==
    LET s == [m EXCEPT
                !.openAck = {}, !.resetAck = FALSE,
                !.lib = [l \in Link |-> IF l \in m.openAck
                                        THEN Opened(m.lib[l], AutoMode(m))
                                        ELSE m.lib[l]]]
    IN  IF m.aiding
        THEN [s EXCEPT !.timerReset = TRUE, !.aiding = FALSE,
                       !.toGps = Append(@, "RESET")]
        ELSE s
\* do_gps_stopped_hdlr
AckCloses(m) ==
    [m EXCEPT !.closeAck = {}, !.resetAck = FALSE,
              !.lib = [l \in Link |-> IF l \in m.closeAck
                                      THEN Closed(m.lib[l], AutoMode(m))
                                      ELSE m.lib[l]]]

\* Mutant: not for the links.
AcquireForHbd(m) == [m EXCEPT !.wake = @ \/ ~(AutoMode(m) \/ OnlyLinks(m))]
\* The wake lock follows the engine unless the offload mode manages it.
Acquire(m) == [m EXCEPT !.wake = @ \/ ~AutoMode(m)]
Release(m) == [m EXCEPT !.wake = @ /\ AutoMode(m)]

DropLinks(m) == [m EXCEPT !.used = @ \ Link, !.openAck = @ \ Link,
                          !.closeAck = @ \ Link]
Unexpected(m) == [m EXCEPT !.bad = TRUE]     \* CRASH_TO_DEBUG

(***************************************************************************)
(* The states.  ev is one of START, OFFLOAD_START, STOP, RESET,            *)
(* START_DONE and STOP_DONE.                                               *)
(***************************************************************************)
Idle(m, ev) ==
    CASE ev = "START" -> StartGps(Acquire(m), "STARTING", TRUE)
      [] ev = "OFFLOAD_START" -> StartGps(Acquire(m), "OFL_STARTING", TRUE)
      [] ev = "STOP" -> AckCloses(m)
      [] ev = "RESET" -> [m EXCEPT !.resetAck = FALSE]
      [] OTHER -> Unexpected(m)

StartingWatched(m, ev) ==       \* Mutant: timer_start goes on.
    IF ev # "START_DONE" THEN m
    ELSE LET s == AckOpens(m)
         IN  IF s.used = {} THEN StopGps(s, "STOPPING")
             ELSE [s EXCEPT !.state = "STARTED"]
Starting(m, ev) ==
    LET s == AckOpens([m EXCEPT !.timerStart = FALSE])
        t == [s EXCEPT !.state = "STARTED"]
    IN  CASE ev = "START_DONE" ->
               IF s.used = {} THEN StopGps(s, "STOPPING")
               ELSE IF HbdExists(s) \/ ~m.auto THEN NewSession(t, "AP")
               ELSE [t EXCEPT !.type = [l \in Link |-> "AP"],
                              !.pre = [l \in Link |-> "AP"],
                              !.timerSwitch = TRUE]
          [] ev = "STOP_DONE" -> Unexpected(m)
          [] OTHER -> m

Started(m, ev) ==
    CASE ev = "START" -> AckOpens(m)
      [] ev = "STOP" ->
           IF m.used = {}
           THEN [StopGps(m, "STOPPING") EXCEPT !.timerSwitch = FALSE]
           ELSE [AckCloses(m) EXCEPT
                   !.timerSwitch = @ \/ (m.auto /\ ~HbdExists(m))]
      [] ev = "RESET" /\ m.aiding ->
           [m EXCEPT !.timerReset = TRUE, !.aiding = FALSE,
                     !.toGps = Append(@, "RESET")]
      [] ev = "STOP_DONE" -> Unexpected(m)
      [] OTHER -> m

RestartForHbd(m, state) == StartGps(m, state, ~OnlyLinks(m))     \* Mutant
\* A restart for links in the offload mode is not watched by timer_start.
Restart(m, state) == StartGps(m, state, ~(OnlyLinks(m) /\ AutoMode(m)))

StoppingTwice(m, ev) ==         \* Mutant: a STOP goes to the engine again.
    IF ev = "STOP" THEN StopGps(m, "STOPPING")
    ELSE IF ev = "STOP_DONE"
    THEN [Release(AckCloses([m EXCEPT !.timerStop = FALSE]))
            EXCEPT !.state = "IDLE"]
    ELSE m
StoppingForGood(m, ev) ==       \* Mutant: users that came meanwhile.
    IF ev = "STOP_DONE"
    THEN [Release(AckCloses([m EXCEPT !.timerStop = FALSE]))
            EXCEPT !.state = "IDLE"]
    ELSE m

Stopping(m, ev) ==
    LET s == AckCloses([m EXCEPT !.timerStop = FALSE])
        t == [Release(s) EXCEPT !.state = "IDLE"]
    IN  CASE ev = "STOP_DONE" ->
               IF s.used # {} THEN Restart(s, "STARTING")
               ELSE IF m.auto THEN NewSession(t, "AP_OFL")
               ELSE t
          [] ev = "RESET" -> [m EXCEPT !.resetAck = FALSE]
          [] OTHER -> m

OflStarting(m, ev) ==
    LET s == AckOpens([m EXCEPT !.timerStart = FALSE])
    IN  CASE ev = "START_DONE" ->
               IF s.used = {} \/ HbdExists(s) THEN StopGps(s, "OFL_STOPPING")
               ELSE [s EXCEPT !.state = "OFL_STARTED",
                              !.type = [l \in Link |-> "OFL"]]
          [] ev = "STOP_DONE" -> Unexpected(m)
          [] OTHER -> m

OflStarted(m, ev) ==
    CASE ev = "START" ->
           LET s == AckOpens(m)
           IN  IF HbdExists(s) THEN StopGps(DropLinks(s), "OFL_STOPPING")
               ELSE s
      [] ev = "STOP" ->
           IF m.used \cap Link # {} THEN AckCloses(m)
           ELSE StopGps(m, "OFL_STOPPING")
      [] ev = "STOP_DONE" -> Unexpected(m)
      [] OTHER -> m

(***************************************************************************)
(* mnld_fsm: in the offload mode the low power mode first follows the      *)
(* users, and the HAL's wake lock with it; then the state read at entry    *)
(* handles the event.  A host client that waits while the chip stops makes *)
(* OFL_STOPPING call mnld_fsm again, in IDLE.                              *)
(***************************************************************************)
LowPower(m) ==
    IF ~AutoMode(m) \/ OnlyLinks(m) = m.lp THEN m
    ELSE IF OnlyLinks(m)
         THEN [m EXCEPT !.lp = TRUE, !.fwk = FALSE, !.wake = @ /\ ~m.fwk]
         ELSE [m EXCEPT !.lp = FALSE, !.fwk = TRUE, !.wake = TRUE]

OflStopping(m, ev) ==
    LET s == AckCloses([m EXCEPT !.timerStop = FALSE])
        t == [Release(s) EXCEPT !.state = "IDLE"]
    IN  CASE ev = "STOP_DONE" ->
               IF s.used \cap Link # {} /\ ~HbdExists(s)
               THEN Restart(s, "OFL_STARTING")
               ELSE IF HbdExists(s)
               THEN Idle(LowPower(NewSession(t, "AP")), "START")
               ELSE IF m.auto THEN NewSession(t, "AP_OFL")
               ELSE t
          [] ev = "RESET" -> [m EXCEPT !.resetAck = FALSE]
          [] OTHER -> m

\* The event ev in state st, which another thread may have left since.
FsmIn(m, st, ev) ==
    CASE st = "IDLE" -> Idle(m, ev)
      [] st = "STARTING" -> Starting(m, ev)
      [] st = "STARTED" -> Started(m, ev)
      [] st = "STOPPING" -> Stopping(m, ev)
      [] st = "OFL_STARTING" -> OflStarting(m, ev)
      [] st = "OFL_STARTED" -> OflStarted(m, ev)
      [] st = "OFL_STOPPING" -> OflStopping(m, ev)
Fsm(m, ev) == FsmIn(LowPower(m), m.state, ev)

(***************************************************************************)
(* The requests of the clients.                                            *)
(***************************************************************************)
OpenFlags(m, c) == [m EXCEPT !.used = @ \cup {c}, !.openAck = @ \cup {c},
                             !.closeAck = @ \ {c}]
CloseFlags(m, c) == [m EXCEPT !.used = @ \ {c}, !.openAck = @ \ {c},
                              !.closeAck = @ \cup {c}]
Open(m, c) == Fsm(OpenFlags(m, c), "START")
Close(m, c) == Fsm(CloseFlags(m, c), "STOP")
ClientReboot(m, c) ==
    Fsm([CloseFlags(m, c) EXCEPT !.closeAck = @ \ {c},
                                 !.resetAck = @ /\ c # Agps], "STOP")
DeleteAiding(m, c) ==
    Fsm([m EXCEPT !.aiding = TRUE, !.resetAck = @ \/ c = Agps], "RESET")
OflLinkOpen(m, l) ==
    Fsm([OpenFlags(m, l) EXCEPT !.type[l] = "OFL"], "OFFLOAD_START")

\* MTK_FLP_MSG_HAL_START_CMD in the library.  In the offload mode the first
\* message held back opens the link; on the host a source that already runs
\* opens nothing.  A session id the daemon does not know is ignored.
LibraryStart(m, l) ==
    LET b == m.lib[l]
        asked == [m EXCEPT !.lib[l].status = IF b.sys = "OFL" THEN "OFL_OPEN"
                                                              ELSE "HBD_OPEN"]
        sent == IF ~b.synced THEN asked
                ELSE IF b.sys = "OFL" THEN OflLinkOpen(asked, l)
                ELSE Open(asked, l)
    IN  IF b.sys = "OFL"
        THEN IF b.status = "OFL_OPEN_DONE" THEN m
             ELSE [(IF b.held THEN m ELSE sent) EXCEPT !.lib[l].held = TRUE]
        ELSE IF b.running THEN m
             ELSE [sent EXCEPT !.lib[l].running = TRUE]

\* Mutant: a source that is still opening is not closed.
LibraryStopOpen(m, l) ==
    LET s == IF m.lib[l].status = "HBD_OPEN_DONE" /\ m.lib[l].running
             THEN Close([m EXCEPT !.lib[l].status = "HBD_CLOSE"], l) ELSE m
    IN  [s EXCEPT !.lib[l].running = FALSE]

\* MTK_FLP_MSG_HAL_STOP_CMD on the host.
LibraryStop(m, l) ==
    LET asked == [m EXCEPT !.lib[l].status = "HBD_CLOSE"]
        sent == IF m.lib[l].synced THEN Close(asked, l) ELSE asked
    IN  IF m.lib[l].running THEN [sent EXCEPT !.lib[l].running = FALSE] ELSE m
=============================================================================
