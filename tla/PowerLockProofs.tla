--------------------------- MODULE PowerLockProofs ---------------------------
(***************************************************************************)
(* The mutual exclusion of PowerLock, for any number of slots, retries,    *)
(* radio requests, sessions and URCs, and for any modem requests among     *)
(* which there is no POWERON and at most one POWEROFF: with a POWERON or a *)
(* second POWEROFF, whose response gives the key of another one back, the  *)
(* code does not keep it.                                                  *)
(***************************************************************************)
EXTENDS PowerLock, FiniteSetTheorems, TLAPS

OnePowerOff ==
  /\ \A r \in ModemRequest : Op[r] # "POWERON"
  /\ \A r, q \in ModemRequest : Op[r] = "POWEROFF" /\ Op[q] = "POWEROFF" => r = q

\* The requests on CMD_9 and those that are answered.
Cmd == {cmd9[i] : i \in 1..Len(cmd9)}
Ans == {answers[i].req : i \in 1..Len(answers)}

InMcl == Cmd \union Ans

\* A request is on its way to MCL or back once, and RILJ has sent it.
Once ==
  /\ \A i, j \in 1..Len(cmd9) : cmd9[i] = cmd9[j] => i = j
  /\ \A i, j \in 1..Len(answers) : answers[i].req = answers[j].req => i = j
  /\ Cmd \intersect Ans = {}

OnceInMcl == Once /\ InMcl \ {"MAJOR_SIM"} \subseteq sent

\* m_request_count counts the APPLYs of the session.
SessionCount ==
  /\ IF toApply = {} THEN count = 0 ELSE count + Cardinality(toApply) = Slots
  /\ MajorSimInMcl => toApply = {}

\* The radio requests of one slot in MCL: the radio is told to close once.
Has(q, who) == \E i \in 1..Len(q) : q[i] = who
Single(q) == \A i, j \in 1..Len(q) : q[i] = "wpOff" /\ q[j] = "wpOff" => i = j

Closing == worldMode = "START" /\ resuming = 0 /\ ~timer
Closed == {s \in Slot : ~Has(radio[s], "wpOff")}

\* closeRadioCount counts the radios that are off, and the modem resumes once.
ResumeCount ==
  /\ closeCount = IF Closing THEN Cardinality(Closed) ELSE 0
  /\ Closing \/ Closed = Slot
  /\ \A s \in Slot : Single(radio[s])
  /\ resuming > 0 \/ timer =>
       worldMode = "START" /\ resuming = (IF timer THEN 0 ELSE 1)

\* What the modes say of the lock and of the radio requests of a slot: of one
\* whose lock the boot request did not take, and of the one whose lock it took,
\* where one request too many may be in MCL.
OwnMode(s) ==
  /\ off = "SIM_SWITCH" => lock[s] = "SIM_SWITCH" /\ radio[s] = <<>>
  /\ WorldModeChanging =>
       \/ lock[s] = "WORLD_MODE" /\ radio[s] = <<>>
       \/ lock[s] = "RADIO" /\ radio[s] = <<"wpOff">> /\ ~pendedByCall
  /\ off # "SIM_SWITCH" /\ ~WorldModeChanging =>
       \/ radio[s] = <<>> /\ (lock[s] = "IDLE" \/ (lock[s] = "RADIO" /\ hadOff))
       \/ lock[s] = "RADIO" /\ \E who \in Sender \ {"wpOff"} : radio[s] = <<who>>

Quiet(s) == off = "SIM_SWITCH" \/ (WorldModeChanging /\ ~Has(radio[s], "wpOff"))
CrossedMode(s) ==
  /\ Len(radio[s]) <= IF lock[s] = "RADIO" THEN 2 ELSE 1
  /\ Quiet(s) => Len(radio[s]) <= 1 /\ (lock[s] = "IDLE" => radio[s] = <<>>)

SlotMode(s) == IF s \in crossed THEN CrossedMode(s) ELSE OwnMode(s)

ModeInv ==
  /\ ModemOffMux
  /\ pendedByCall => worldMode = "END"
  /\ ~booted => crossed = {}
  /\ \A s \in Slot : SlotMode(s)

PowerInv == OnceInMcl /\ SessionCount /\ ResumeCount /\ ModeInv
-----------------------------------------------------------------------------
(* Types.                                                                  *)
LEMMA SlotIs == Slots \in Nat \ {0} /\ Slot = 0..(Slots - 1) /\ 0 \in Slot
  BY PowerAssumption DEF Slot

LEMMA ModuleType ==
  ASSUME TypeOK, NEW who \in Sender, ModuleRequest(who)
  PROVE  /\ lock' \in [Slot -> {"IDLE", "RADIO", "WORLD_MODE", "SIM_SWITCH"}]
         /\ radio' \in [Slot -> Seq(Sender)]
<1>1. \A s \in Slot : Append(radio[s], who) \in Seq(Sender)
  BY DEF TypeOK
<1> QED BY <1>1 DEF ModuleRequest, AllLocks

LEMMA SpendType ==
  ASSUME TypeOK, NEW what \in {"radio", "session", "urc"}, Spend(what)
  PROVE  /\ left' \in [radio : 0 .. Budget.radio, session : 0 .. Budget.session,
                       urc : 0 .. Budget.urc]
         /\ left'.urc = IF what = "urc" THEN left.urc - 1 ELSE left.urc
<1>1. /\ Budget.radio \in Nat /\ Budget.session \in Nat /\ Budget.urc \in Nat
      /\ left.radio \in 0 .. Budget.radio /\ left.session \in 0 .. Budget.session
      /\ left.urc \in 0 .. Budget.urc
      /\ left \in [radio : 0 .. Budget.radio, session : 0 .. Budget.session,
                   urc : 0 .. Budget.urc]
  BY PowerAssumption DEF TypeOK
<1>2. left[what] > 0 /\ left' = [left EXCEPT ![what] = left[what] - 1]
  BY DEF Spend
<1>3. CASE what = "radio"
  BY <1>1, <1>2, <1>3
<1>4. CASE what = "session"
  BY <1>1, <1>2, <1>4
<1>5. CASE what = "urc"
  BY <1>1, <1>2, <1>5
<1> QED BY <1>3, <1>4, <1>5

LEMMA ForwardType ==
  ASSUME TypeOK, NEW r \in ModemRequest \union {"MAJOR_SIM"}, Forward(r)
  PROVE  cmd9' \in Seq(ModemRequest \union {"MAJOR_SIM"})
  BY DEF TypeOK, Forward

LEMMA ReplyType ==
  ASSUME TypeOK, cmd9 # <<>>, NEW ok \in BOOLEAN, Reply(ok)
  PROVE  /\ cmd9' \in Seq(ModemRequest \union {"MAJOR_SIM"}) /\ answers' \in Seq(Answer)
         /\ Head(cmd9) \in ModemRequest \union {"MAJOR_SIM"}
<1>1. Head(cmd9) \in ModemRequest \union {"MAJOR_SIM"}
      /\ Tail(cmd9) \in Seq(ModemRequest \union {"MAJOR_SIM"})
  BY DEF TypeOK
<1>2. [req |-> Head(cmd9), ok |-> ok] \in Answer
  BY <1>1 DEF Answer
<1> QED BY <1>1, <1>2 DEF TypeOK, Reply

LEMMA AnswerType ==
  ASSUME TypeOK, answers # <<>>
  PROVE  /\ Head(answers) \in Answer /\ Tail(answers) \in Seq(Answer)
         /\ Head(answers).req \in ModemRequest \union {"MAJOR_SIM"}
         /\ Head(answers).ok \in BOOLEAN
<1>1. Head(answers) \in Answer /\ Tail(answers) \in Seq(Answer)
  BY DEF TypeOK
<1> QED BY <1>1 DEF Answer

\* The URCs that wait are some of those that were sent.
UrcBudget == urcs + left.urc <= Budget.urc

LEMMA PowerTypes == Spec => [](TypeOK /\ UrcBudget)
<1> USE DEF keyVars, modemVars, bootVars, radioVars, simVars, channelVars, wpVars
<1>1. Init => TypeOK /\ UrcBudget
  <2> SUFFICES ASSUME Init PROVE TypeOK /\ UrcBudget
    OBVIOUS
  <2> USE DEF UrcBudget
  <2>1. /\ Budget.radio \in Nat /\ Budget.session \in Nat /\ Budget.urc \in Nat
        /\ Budget \in [radio : 0 .. Budget.radio, session : 0 .. Budget.session,
                       urc : 0 .. Budget.urc]
    BY PowerAssumption
  <2>2. 0 \in 0 .. Slots - 1 /\ 0 \in 0 .. MaxRetry /\ 0 \in 0 .. Budget.urc
    BY <2>1, SlotIs, PowerAssumption
  <2>3. <<>> \in Seq(Sender)
    OBVIOUS
  <2>4. /\ left \in [radio : 0 .. Budget.radio, session : 0 .. Budget.session,
                     urc : 0 .. Budget.urc]
        /\ UrcBudget
    BY <2>1 DEF Init
  <2>5. /\ lock \in [Slot -> {"IDLE", "RADIO", "WORLD_MODE", "SIM_SWITCH"}]
        /\ power \in [Slot -> BOOLEAN] /\ backup \in [Slot -> BOOLEAN]
        /\ asked \in [Slot -> BOOLEAN \union {None}]
        /\ radio \in [Slot -> Seq(Sender)]
    BY <2>3 DEF Init
  <2>6. cmd9 \in Seq(ModemRequest \union {"MAJOR_SIM"}) /\ answers \in Seq(Answer)
    BY DEF Init
  <2>7. /\ off = "IDLE" /\ worldMode = "END" /\ sent = {} /\ toApply = {} /\ resuming = 0
        /\ modemOff = FALSE /\ hadOff = FALSE /\ booted = FALSE /\ crossed = {}
        /\ pendedByCall = FALSE /\ timer = FALSE
        /\ count = 0 /\ closeCount = 0 /\ urcs = 0 /\ retries = 0
    BY DEF Init
  <2> QED BY <2>2, <2>4, <2>5, <2>6, <2>7 DEF TypeOK
<1>2. TypeOK /\ UrcBudget /\ [Next]_vars => TypeOK' /\ UrcBudget'
  <2> SUFFICES ASSUME TypeOK, UrcBudget, [Next]_vars PROVE TypeOK' /\ UrcBudget'
    OBVIOUS
  <2> USE DEF UrcBudget
  <2>1. ASSUME NEW s \in Slot, Boot(s) PROVE TypeOK' /\ UrcBudget'
    <3>1. Append(radio[s], "boot") \in Seq(Sender)
      BY DEF TypeOK, Sender
    <3> QED BY <2>1, <3>1 DEF Boot, TypeOK
  <2>2. ASSUME NEW s \in Slot, AskRadio(s) PROVE TypeOK' /\ UrcBudget'
    BY <2>2, SpendType DEF AskRadio, TypeOK
  <2>3. ASSUME NEW s \in Slot, RequestRadioPower(s) PROVE TypeOK' /\ UrcBudget'
    <3>1. asked[s] \in BOOLEAN /\ Append(radio[s], "rilj") \in Seq(Sender)
      BY <2>3 DEF RequestRadioPower, CanHandleRadio, TypeOK, Sender
    <3>2. /\ lock' \in [Slot -> {"IDLE", "RADIO", "WORLD_MODE", "SIM_SWITCH"}]
          /\ asked' \in [Slot -> BOOLEAN \union {None}]
      BY <2>3 DEF RequestRadioPower, TypeOK
    <3>3. power' \in [Slot -> BOOLEAN]
      BY <2>3, <3>1 DEF RequestRadioPower, TypeOK
    <3>4. radio' \in [Slot -> Seq(Sender)]
      BY <2>3, <3>1 DEF RequestRadioPower, TypeOK
    <3> QED BY <2>3, <3>2, <3>3, <3>4 DEF RequestRadioPower, TypeOK
  <2>4. ASSUME NEW s \in Slot, RadioPowerResponse(s) PROVE TypeOK' /\ UrcBudget'
    <3>1. Tail(radio[s]) \in Seq(Sender)
      BY <2>4 DEF RadioPowerResponse, TypeOK
    <3>2. closeCount' \in 0 .. Slots - 1 /\ resuming' \in Nat
      <4>1. closeCount \in 0 .. Slots - 1 /\ resuming \in Nat
        BY DEF TypeOK
      <4> QED BY <2>4, <4>1, SlotIs DEF RadioPowerResponse, RadioOffDone
    <3>3. lock' \in [Slot -> {"IDLE", "RADIO", "WORLD_MODE", "SIM_SWITCH"}]
      BY <2>4 DEF RadioPowerResponse, RadioOffDone, TypeOK
    <3> QED BY <2>4, <3>1, <3>2, <3>3 DEF RadioPowerResponse, TypeOK
  <2>5. ASSUME NEW s \in Slot, RadioPowerRetry(s) PROVE TypeOK' /\ UrcBudget'
    <3>1. Append(Tail(radio[s]), Head(radio[s])) \in Seq(Sender)
      BY <2>5 DEF RadioPowerRetry, TypeOK
    <3> QED BY <2>5, <3>1 DEF RadioPowerRetry, TypeOK
  <2>6. ASSUME NEW s \in Slot, Apply(s) PROVE TypeOK' /\ UrcBudget'
    <3>1. count' \in 0 .. Slots - 1
      <4>1. count \in 0 .. Slots - 1
        BY DEF TypeOK
      <4> QED BY <2>6, <4>1, SlotIs DEF Apply, Count
    <3>2. cmd9' \in Seq(ModemRequest \union {"MAJOR_SIM"})
      <4>1. CASE count + 1 = Slots
        <5>1. Forward("MAJOR_SIM")
          BY <2>6, <4>1 DEF Apply, Count
        <5> QED BY <5>1, ForwardType DEF TypeOK
      <4>2. CASE count + 1 # Slots
        BY <2>6, <4>2 DEF Apply, Count, TypeOK
      <4> QED BY <4>1, <4>2
    <3> QED BY <2>6, <3>1, <3>2 DEF Apply, TypeOK
  <2>7. ASSUME NEW r \in ModemRequest, HandleModemRequest(r) PROVE TypeOK' /\ UrcBudget'
    <3>1. cmd9' \in Seq(ModemRequest \union {"MAJOR_SIM"})
      BY <2>7, ForwardType DEF HandleModemRequest, TypeOK
    <3> QED BY <2>7, <3>1 DEF HandleModemRequest, TypeOK
  <2>8. CASE ModemResponse
    <3>1. cmd9' \in Seq(ModemRequest \union {"MAJOR_SIM"})
      BY <2>8, AnswerType, ForwardType DEF ModemResponse, TypeOK
    <3> QED BY <2>8, <3>1, AnswerType DEF ModemResponse, TypeOK
  <2>9. CASE ModemGoesOff
    BY <2>9 DEF ModemGoesOff, TypeOK
  <2>10. CASE ModemAnswers
    <3>1. cmd9' \in Seq(ModemRequest \union {"MAJOR_SIM"}) /\ answers' \in Seq(Answer)
      BY <2>10, ReplyType DEF ModemAnswers
    <3> QED BY <2>10, <3>1 DEF ModemAnswers, TypeOK
  <2>11. CASE StartSession
    BY SMTT(30), <2>11, SpendType, SlotIs DEF StartSession, AllLocks, TypeOK
  <2>12. CASE MajorSimResponse
    <3>1. cmd9' \in Seq(ModemRequest \union {"MAJOR_SIM"})
      BY <2>12, ForwardType DEF MajorSimResponse, TypeOK
    <3> QED BY <2>12, <3>1, AnswerType DEF MajorSimResponse, Unlock, AllLocks, TypeOK
  <2>13. ASSUME NEW ok \in BOOLEAN, SimSwitchAnswers(ok) PROVE TypeOK' /\ UrcBudget'
    <3>1. cmd9' \in Seq(ModemRequest \union {"MAJOR_SIM"}) /\ answers' \in Seq(Answer)
      BY <2>13, ReplyType DEF SimSwitchAnswers
    <3> QED BY <2>13, <3>1 DEF SimSwitchAnswers, TypeOK
  <2>14. CASE ModemUrc
    <3>1. urcs' = urcs + 1 /\ left'.urc = left.urc - 1 /\ left.urc \in Nat /\ urcs \in Nat
      BY <2>14, SpendType, PowerAssumption DEF ModemUrc, TypeOK
    <3>2. /\ left' \in [radio : 0 .. Budget.radio, session : 0 .. Budget.session,
                       urc : 0 .. Budget.urc]
          /\ left'.urc \in Nat
      BY <2>14, SpendType, PowerAssumption DEF ModemUrc
    <3>3. urcs' \in 0 .. Budget.urc /\ UrcBudget'
      BY <3>1, <3>2, PowerAssumption
    <3> QED BY <2>14, <3>2, <3>3 DEF ModemUrc, TypeOK
  <2>15. CASE HandleUrc
    <3>1. lock' \in [Slot -> {"IDLE", "RADIO", "WORLD_MODE", "SIM_SWITCH"}]
          /\ radio' \in [Slot -> Seq(Sender)]
      BY <2>15, ModuleType DEF HandleUrc, CloseRadios, AllLocks, TypeOK, Sender
    <3>2. urcs' \in 0 .. Budget.urc /\ UrcBudget'
      BY <2>15, PowerAssumption DEF HandleUrc, TypeOK
    <3> QED BY <2>15, <3>1, <3>2 DEF HandleUrc, CloseRadios, TypeOK
  <2>16. CASE CallEnds
    <3>1. lock' \in [Slot -> {"IDLE", "RADIO", "WORLD_MODE", "SIM_SWITCH"}]
          /\ radio' \in [Slot -> Seq(Sender)]
      BY <2>16, ModuleType DEF CallEnds, CloseRadios, Sender
    <3> QED BY <2>16, <3>1 DEF CallEnds, CloseRadios, TypeOK
  <2>17. CASE ResumeFails
    BY <2>17, PowerAssumption DEF ResumeFails, TypeOK
  <2>18. CASE ResumeAgain
    <3>1. resuming' \in Nat
      BY <2>18 DEF ResumeAgain, TypeOK
    <3> QED BY <2>18, <3>1 DEF ResumeAgain, TypeOK
  <2>19. CASE ResumeDone
    <3>1. lock' \in [Slot -> {"IDLE", "RADIO", "WORLD_MODE", "SIM_SWITCH"}]
          /\ radio' \in [Slot -> Seq(Sender)]
      BY <2>19, ModuleType DEF ResumeDone, Sender
    <3>2. resuming' \in Nat /\ 0 \in 0 .. MaxRetry
      BY <2>19, PowerAssumption DEF ResumeDone, TypeOK
    <3> QED BY <2>19, <3>1, <3>2 DEF ResumeDone, ReleaseModem, TypeOK
  <2>20. CASE UNCHANGED vars
    BY <2>20 DEF vars, TypeOK
  <2> QED
    BY <2>1, <2>2, <2>3, <2>4, <2>5, <2>6, <2>7, <2>8, <2>9, <2>10, <2>11, <2>12, <2>13,
       <2>14, <2>15, <2>16, <2>17, <2>18, <2>19, <2>20 DEF Next
<1> QED BY <1>1, <1>2, PTL DEF Spec

(* The keys, the requests of the four controllers and the counters keep    *)
(* their types, for any slots, modem requests and bounds.                  *)
THEOREM PowerTypeCorrect == Spec => []TypeOK
BY PowerTypes, PTL
-----------------------------------------------------------------------------
(* The requests on CMD_9.                                                  *)
McType == ModemRequest \union {"MAJOR_SIM"}
LEMMA McIs ==
  /\ MajorSimInMcl <=> "MAJOR_SIM" \in InMcl
  /\ MajorSimInMcl' <=> "MAJOR_SIM" \in InMcl'
  /\ PoweringOff <=> \E r \in InMcl : r # "MAJOR_SIM" /\ Op[r] = "POWEROFF"
  /\ PoweringOff' <=> \E r \in InMcl' : r # "MAJOR_SIM" /\ Op[r] = "POWEROFF"
<1>1. /\ MajorSimInMcl <=> "MAJOR_SIM" \in InMcl
      /\ MajorSimInMcl' <=> "MAJOR_SIM" \in InMcl'
  BY DEF MajorSimInMcl, InMcl, Cmd, Ans
<1>2. /\ PoweringOff <=> \E r \in InMcl : r # "MAJOR_SIM" /\ Op[r] = "POWEROFF"
      /\ PoweringOff' <=> \E r \in InMcl' : r # "MAJOR_SIM" /\ Op[r] = "POWEROFF"
  BY DEF PoweringOff, InMcl, Cmd, Ans
<1> QED BY <1>1, <1>2

LEMMA McElements ==
  ASSUME TypeOK
  PROVE  InMcl \subseteq McType
<1>1. \A i \in 1..Len(cmd9) : cmd9[i] \in McType
  BY DEF TypeOK, McType
<1>2. \A i \in 1..Len(answers) : answers[i] \in Answer
  BY DEF TypeOK
<1>3. \A i \in 1..Len(answers) : answers[i].req \in McType
  BY <1>2 DEF Answer, McType
<1> QED BY <1>1, <1>3 DEF InMcl, Cmd, Ans

LEMMA CmdAdded ==
  ASSUME TypeOK, Once, NEW r \in McType, r \notin Cmd, Forward(r)
  PROVE  /\ Cmd' = Cmd \union {r}
         /\ (\A i, j \in 1..Len(cmd9) : cmd9[i] = cmd9[j] => i = j)'
<1>1. /\ cmd9 \in Seq(McType) /\ cmd9' = Append(cmd9, r) /\ Len(cmd9) \in Nat
  BY DEF TypeOK, McType, Forward
<1>2. /\ Len(cmd9') = Len(cmd9) + 1 /\ cmd9'[Len(cmd9) + 1] = r
      /\ \A i \in 1..Len(cmd9) : cmd9'[i] = cmd9[i]
  BY <1>1
<1>3. \A i \in 1..(Len(cmd9) + 1) : i \in 1..Len(cmd9) \/ i = Len(cmd9) + 1
  BY <1>1
<1>4. 1..Len(cmd9) \subseteq 1..(Len(cmd9) + 1) /\ Len(cmd9) + 1 \in 1..(Len(cmd9) + 1)
  BY <1>1
<1>5. Cmd' = Cmd \union {r}
  BY <1>2, <1>3, <1>4 DEF Cmd
<1>6. \A i, j \in 1..(Len(cmd9) + 1) : cmd9'[i] = cmd9'[j] => i = j
  BY <1>2, <1>3 DEF Cmd, Once
<1> QED BY <1>2, <1>5, <1>6

LEMMA CmdTaken ==
  ASSUME TypeOK, Once, cmd9 # <<>>, cmd9' = Tail(cmd9)
  PROVE  /\ Head(cmd9) \in Cmd /\ Cmd' = Cmd \ {Head(cmd9)}
         /\ (\A i, j \in 1..Len(cmd9) : cmd9[i] = cmd9[j] => i = j)'
<1>1. /\ Len(cmd9) \in Nat \ {0} /\ Head(cmd9) = cmd9[1] /\ Len(cmd9') = Len(cmd9) - 1
      /\ \A i \in 1..(Len(cmd9) - 1) : cmd9'[i] = cmd9[i + 1]
  BY DEF TypeOK
<1>2. /\ 1 \in 1..Len(cmd9)
      /\ \A i \in 1..(Len(cmd9) - 1) : i + 1 \in 1..Len(cmd9) /\ i + 1 # 1
      /\ \A i \in 1..Len(cmd9) : i = 1 \/ (i - 1 \in 1..(Len(cmd9) - 1) /\ (i - 1) + 1 = i)
      /\ \A i, j \in 1..(Len(cmd9) - 1) : i + 1 = j + 1 => i = j
  BY <1>1
<1>3. \A i \in 1..Len(cmd9) : i = 1 \/ cmd9[i] = cmd9'[i - 1]
  BY <1>1, <1>2
<1>4. Cmd' = Cmd \ {Head(cmd9)}
  <2>1. ASSUME NEW i \in 1..(Len(cmd9) - 1) PROVE cmd9'[i] \in Cmd /\ cmd9'[i] # cmd9[1]
    BY <1>1, <1>2, <2>1 DEF Once, Cmd
  <2>2. ASSUME NEW i \in 1..Len(cmd9), cmd9[i] # cmd9[1]
        PROVE  \E j \in 1..(Len(cmd9) - 1) : cmd9'[j] = cmd9[i]
    BY <1>2, <1>3, <2>2
  <2> QED BY SMTT(30), <1>1, <2>1, <2>2 DEF Cmd
<1>5. \A i, j \in 1..(Len(cmd9) - 1) : cmd9'[i] = cmd9'[j] => i = j
  BY <1>1, <1>2 DEF Once
<1>6. Head(cmd9) \in Cmd
  BY <1>1, <1>2 DEF Cmd
<1>7. 1..Len(cmd9') = 1..(Len(cmd9) - 1)
  BY <1>1
<1> QED BY <1>4, <1>5, <1>6, <1>7

LEMMA AnsAdded ==
  ASSUME TypeOK, Once, NEW a \in Answer, a.req \notin Ans, answers' = Append(answers, a)
  PROVE  /\ Ans' = Ans \union {a.req}
         /\ (\A i, j \in 1..Len(answers) : answers[i].req = answers[j].req => i = j)'
<1>1. answers \in Seq(Answer) /\ Len(answers) \in Nat
  BY DEF TypeOK
<1>2. /\ Len(answers') = Len(answers) + 1 /\ answers'[Len(answers) + 1] = a
      /\ \A i \in 1..Len(answers) : answers'[i] = answers[i]
  BY <1>1
<1>3. \A i \in 1..(Len(answers) + 1) : i \in 1..Len(answers) \/ i = Len(answers) + 1
  BY <1>1
<1>4. 1..Len(answers) \subseteq 1..(Len(answers) + 1)
      /\ Len(answers) + 1 \in 1..(Len(answers) + 1)
  BY <1>1
<1>5. Ans' = Ans \union {a.req}
  BY <1>2, <1>3, <1>4 DEF Ans
<1>6. \A i, j \in 1..(Len(answers) + 1) : answers'[i].req = answers'[j].req => i = j
  BY <1>2, <1>3 DEF Ans, Once
<1> QED BY <1>2, <1>5, <1>6

LEMMA AnsTaken ==
  ASSUME TypeOK, Once, answers # <<>>, answers' = Tail(answers)
  PROVE  /\ Head(answers).req \in Ans /\ Ans' = Ans \ {Head(answers).req}
         /\ (\A i, j \in 1..Len(answers) : answers[i].req = answers[j].req => i = j)'
<1>1. /\ Len(answers) \in Nat \ {0} /\ Head(answers) = answers[1]
      /\ Len(answers') = Len(answers) - 1
      /\ \A i \in 1..(Len(answers) - 1) : answers'[i] = answers[i + 1]
  BY DEF TypeOK
<1>2. /\ 1 \in 1..Len(answers)
      /\ \A i \in 1..(Len(answers) - 1) : i + 1 \in 1..Len(answers) /\ i + 1 # 1
      /\ \A i \in 1..Len(answers) :
           i = 1 \/ (i - 1 \in 1..(Len(answers) - 1) /\ (i - 1) + 1 = i)
      /\ \A i, j \in 1..(Len(answers) - 1) : i + 1 = j + 1 => i = j
  BY <1>1
<1>3. \A i \in 1..Len(answers) : i = 1 \/ answers[i] = answers'[i - 1]
  BY <1>1, <1>2
<1>4. Ans' = Ans \ {Head(answers).req}
  <2>1. ASSUME NEW i \in 1..(Len(answers) - 1)
        PROVE  answers'[i].req \in Ans /\ answers'[i].req # answers[1].req
    BY <1>1, <1>2, <2>1 DEF Once, Ans
  <2>2. ASSUME NEW i \in 1..Len(answers), answers[i].req # answers[1].req
        PROVE  \E j \in 1..(Len(answers) - 1) : answers'[j].req = answers[i].req
    BY <1>2, <1>3, <2>2
  <2>3. Ans' = {answers'[i].req : i \in 1..(Len(answers) - 1)}
    BY <1>1 DEF Ans
  <2>4. \A x \in Ans' : x \in Ans \ {Head(answers).req}
    BY <1>1, <2>1, <2>3
  <2>5. \A x \in Ans \ {Head(answers).req} : x \in Ans'
    <3> TAKE x \in Ans \ {Head(answers).req}
    <3>1. PICK i \in 1..Len(answers) : x = answers[i].req
      BY DEF Ans
    <3> QED BY <1>1, <2>2, <2>3, <3>1
  <2> QED BY <2>4, <2>5
<1>5. \A i, j \in 1..(Len(answers) - 1) : answers'[i].req = answers'[j].req => i = j
  BY <1>1, <1>2 DEF Once
<1>6. Head(answers).req \in Ans
  BY <1>1, <1>2 DEF Ans
<1>7. 1..Len(answers') = 1..(Len(answers) - 1)
  BY <1>1
<1> QED BY <1>4, <1>5, <1>6, <1>7

\* How a step changes what is in MCL.
LEMMA McKept ==
  ASSUME UNCHANGED <<cmd9, answers>>
  PROVE  InMcl' = InMcl /\ (Once => Once')
<1>1. Cmd' = Cmd /\ Ans' = Ans
  BY DEF Cmd, Ans
<1>2. Once => Once'
  BY <1>1 DEF Once
<1> QED BY <1>1, <1>2 DEF InMcl

LEMMA McForward ==
  ASSUME TypeOK, Once, NEW r \in McType, r \notin InMcl, Forward(r), UNCHANGED answers
  PROVE  InMcl' = InMcl \union {r} /\ Once'
<1>1. Ans' = Ans
  BY DEF Ans
<1> QED BY <1>1, CmdAdded DEF InMcl, Once, Ans

LEMMA McReply ==
  ASSUME TypeOK, Once, cmd9 # <<>>, NEW ok \in BOOLEAN, Reply(ok)
  PROVE  InMcl' = InMcl /\ Once'
<1> DEFINE a == [req |-> Head(cmd9), ok |-> ok]
<1>1. a \in Answer /\ a.req = Head(cmd9) /\ cmd9' = Tail(cmd9) /\ answers' = Append(answers, a)
  BY ReplyType DEF Reply, Answer
<1>2. /\ Head(cmd9) \in Cmd /\ Cmd' = Cmd \ {Head(cmd9)}
      /\ (\A i, j \in 1..Len(cmd9) : cmd9[i] = cmd9[j] => i = j)'
  BY <1>1, CmdTaken
<1> HIDE DEF a
<1>3. a.req \notin Ans
  BY <1>1, <1>2 DEF Once
<1>4. /\ Ans' = Ans \union {a.req}
      /\ (\A i, j \in 1..Len(answers) : answers[i].req = answers[j].req => i = j)'
  BY <1>1, <1>3, AnsAdded
<1> QED BY <1>1, <1>2, <1>3, <1>4 DEF InMcl, Once

LEMMA McDone ==
  ASSUME TypeOK, Once, answers # <<>>, answers' = Tail(answers),
         UNCHANGED cmd9 \/ Forward(Head(answers).req)
  PROVE  /\ Once' /\ Head(answers).req \in InMcl
         /\ UNCHANGED cmd9 => InMcl' = InMcl \ {Head(answers).req}
         /\ Forward(Head(answers).req) => InMcl' = InMcl
<1> DEFINE r == Head(answers).req
<1>1. /\ r \in Ans /\ Ans' = Ans \ {r}
      /\ (\A i, j \in 1..Len(answers) : answers[i].req = answers[j].req => i = j)'
  BY AnsTaken
<1>2. r \in McType /\ r \notin Cmd
  BY <1>1, AnswerType DEF Once, McType
<1> HIDE DEF r
<1>3. CASE UNCHANGED cmd9
  <2>1. Cmd' = Cmd /\ (\A i, j \in 1..Len(cmd9) : cmd9[i] = cmd9[j] => i = j)'
    BY <1>3 DEF Cmd, Once
  <2>2. cmd9 \in Seq(McType) /\ ~Forward(r)
    <3>1. cmd9 \in Seq(McType)
      BY DEF TypeOK, McType
    <3>2. Append(cmd9, r) # cmd9
      BY <3>1, <1>2
    <3> QED BY <1>3, <3>1, <3>2 DEF Forward
  <2> QED BY <1>1, <1>2, <1>3, <2>1, <2>2 DEF InMcl, Once, r
<1>4. CASE Forward(r)
  <2>1. /\ Cmd' = Cmd \union {r}
        /\ (\A i, j \in 1..Len(cmd9) : cmd9[i] = cmd9[j] => i = j)'
    BY <1>2, <1>4, CmdAdded
  <2>2. ~UNCHANGED cmd9
    <3>1. cmd9 \in Seq(McType)
      BY DEF TypeOK, McType
    <3>2. Append(cmd9, r) # cmd9
      BY <3>1, <1>2
    <3> QED BY <1>4, <3>2 DEF Forward
  <2> QED BY <1>1, <1>2, <2>1, <2>2 DEF InMcl, Once, r
<1> QED BY <1>3, <1>4 DEF r
-----------------------------------------------------------------------------
(* What the controllers that use CMD_9 do to it.                           *)
LEMMA SentOnce ==
  ASSUME OnceInMcl, NEW r \in ModemRequest, r \notin sent
  PROVE  r \notin InMcl /\ r # "MAJOR_SIM"
  BY PowerAssumption DEF OnceInMcl

LEMMA HandleEffect ==
  ASSUME TypeOK, OnceInMcl, NEW r \in ModemRequest, HandleModemRequest(r)
  PROVE  /\ InMcl' = InMcl \/ InMcl' = InMcl \union {r}
         /\ OnceInMcl' /\ r # "MAJOR_SIM" /\ r \notin InMcl
<1>1. r \notin InMcl /\ r # "MAJOR_SIM" /\ r \in McType
  BY SentOnce DEF HandleModemRequest, McType
<1>2. sent' = sent \union {r} /\ UNCHANGED answers /\ (Forward(r) \/ UNCHANGED cmd9)
  BY DEF HandleModemRequest
<1>3. CASE UNCHANGED cmd9
  BY <1>1, <1>2, <1>3, McKept DEF OnceInMcl
<1>4. CASE Forward(r)
  <2>1. InMcl' = InMcl \union {r} /\ Once'
    BY <1>1, <1>2, <1>4, McForward DEF OnceInMcl
  <2> QED BY <1>1, <1>2, <2>1 DEF OnceInMcl
<1> QED BY <1>2, <1>3, <1>4

LEMMA ResponseEffect ==
  ASSUME TypeOK, OnceInMcl, answers # <<>>, answers' = Tail(answers), UNCHANGED sent,
         UNCHANGED cmd9 \/ Forward(Head(answers).req)
  PROVE  /\ OnceInMcl' /\ Head(answers).req \in InMcl
         /\ UNCHANGED cmd9 => InMcl' = InMcl \ {Head(answers).req}
         /\ Forward(Head(answers).req) => InMcl' = InMcl
  BY McDone DEF OnceInMcl

LEMMA ApplyEffect ==
  ASSUME TypeOK, OnceInMcl, SessionCount, NEW s \in Slot, Apply(s)
  PROVE  /\ OnceInMcl' /\ ~MajorSimInMcl
         /\ IF count + 1 = Slots THEN InMcl' = InMcl \union {"MAJOR_SIM"} ELSE InMcl' = InMcl
<1>1. ~MajorSimInMcl /\ "MAJOR_SIM" \notin InMcl /\ "MAJOR_SIM" \in McType
  BY McIs DEF Apply, SessionCount, McType
<1>2. UNCHANGED <<answers, sent>> /\ Count(s)
  BY DEF Apply
<1>3. CASE count + 1 = Slots
  <2>1. InMcl' = InMcl \union {"MAJOR_SIM"} /\ Once'
    BY <1>1, <1>2, <1>3, McForward DEF OnceInMcl, Count
  <2> QED BY <1>1, <1>2, <1>3, <2>1 DEF OnceInMcl
<1>4. CASE count + 1 # Slots
  <2>1. InMcl' = InMcl /\ Once'
    BY <1>2, <1>4, McKept DEF OnceInMcl, Count
  <2> QED BY <1>1, <1>2, <1>4, <2>1 DEF OnceInMcl
<1> QED BY <1>3, <1>4

\* The steps that neither forward nor answer a request.
LEMMA McStill ==
  ASSUME UNCHANGED <<cmd9, answers, sent>>, OnceInMcl
  PROVE  OnceInMcl' /\ InMcl' = InMcl
  BY McKept DEF OnceInMcl

LEMMA OnceStep ==
  ASSUME TypeOK, OnceInMcl, SessionCount, [Next]_vars
  PROVE  OnceInMcl'
<1> USE DEF keyVars, modemVars, bootVars, radioVars, simVars, channelVars, wpVars
<1>1. CASE ModemResponse
  BY <1>1, ResponseEffect DEF ModemResponse
<1>2. CASE MajorSimResponse
  BY <1>2, ResponseEffect DEF MajorSimResponse
<1>3. ASSUME NEW ok \in BOOLEAN, cmd9 # <<>>, Reply(ok), UNCHANGED sent PROVE OnceInMcl'
  BY <1>3, McReply DEF OnceInMcl
<1>4. CASE ModemAnswers
  BY <1>3, <1>4 DEF ModemAnswers
<1>5. ASSUME NEW ok \in BOOLEAN, SimSwitchAnswers(ok) PROVE OnceInMcl'
  BY <1>3, <1>5 DEF SimSwitchAnswers
<1>6. CASE UNCHANGED <<cmd9, answers, sent>>
  BY <1>6, McStill
<1> QED
  BY <1>1, <1>2, <1>4, <1>5, <1>6, HandleEffect, ApplyEffect
  DEF Next, vars, Boot, AskRadio, RequestRadioPower, RadioPowerResponse, RadioPowerRetry,
      ModemGoesOff, StartSession, ModemUrc, HandleUrc, CallEnds, ResumeFails, ResumeAgain,
      ResumeDone
-----------------------------------------------------------------------------
(* The counters of the SIM switch and of the change of world mode.         *)
LEMMA SlotCount ==
  /\ IsFiniteSet(Slot) /\ Cardinality(Slot) = Slots
  /\ \A S \in SUBSET Slot : /\ IsFiniteSet(S) /\ Cardinality(S) \in Nat
                            /\ Cardinality(S) <= Slots
                            /\ Cardinality(S) = Slots => S = Slot
                            /\ Cardinality(S) = 0 <=> S = {}
                            /\ \A s \in S : Cardinality(S \ {s}) = Cardinality(S) - 1
                            /\ \A s \in Slot \ S : Cardinality(S \union {s}) = Cardinality(S) + 1
<1>1. IsFiniteSet(Slot) /\ Cardinality(Slot) = Slots
  BY SlotIs, FS_Interval
<1>2. ASSUME NEW S \in SUBSET Slot
      PROVE  /\ IsFiniteSet(S) /\ Cardinality(S) \in Nat
             /\ Cardinality(S) <= Slots
             /\ Cardinality(S) = Slots => S = Slot
             /\ Cardinality(S) = 0 <=> S = {}
             /\ \A s \in S : Cardinality(S \ {s}) = Cardinality(S) - 1
             /\ \A s \in Slot \ S : Cardinality(S \union {s}) = Cardinality(S) + 1
  <2>1. IsFiniteSet(S) /\ Cardinality(S) <= Slots /\ (Cardinality(S) = Slots => S = Slot)
    BY <1>1, FS_Subset
  <2>2. Cardinality(S) \in Nat /\ (Cardinality(S) = 0 <=> S = {})
    BY <2>1, FS_CardinalityType, FS_EmptySet
  <2>3. \A s \in S : Cardinality(S \ {s}) = Cardinality(S) - 1
    BY <2>1, FS_RemoveElement
  <2>4. \A s \in Slot \ S : Cardinality(S \union {s}) = Cardinality(S) + 1
    BY <2>1, FS_AddElement
  <2> QED BY <2>1, <2>2, <2>3, <2>4
<1> QED BY <1>1, <1>2

LEMMA SessionStep ==
  ASSUME TypeOK, OnceInMcl, SessionCount, [Next]_vars
  PROVE  SessionCount'
<1> USE DEF keyVars, modemVars, bootVars, radioVars, simVars, channelVars, wpVars
<1>1. ASSUME UNCHANGED simVars, InMcl' \subseteq InMcl \/ "MAJOR_SIM" \notin InMcl'
      PROVE  SessionCount'
  BY <1>1, McIs DEF SessionCount
<1>2. ASSUME NEW s \in Slot, Apply(s) PROVE SessionCount'
  <2>1. /\ ~MajorSimInMcl /\ MajorSimInMcl' => count + 1 = Slots
        /\ s \in toApply /\ toApply' = toApply \ {s} /\ toApply \in SUBSET Slot
        /\ count' = IF count + 1 = Slots THEN 0 ELSE count + 1
    BY <1>2, ApplyEffect, McIs DEF Apply, Count, TypeOK
  <2>2. /\ count + Cardinality(toApply) = Slots
        /\ Cardinality(toApply') = Cardinality(toApply) - 1
        /\ Cardinality(toApply) \in Nat /\ toApply' \in SUBSET Slot
        /\ Cardinality(toApply') = 0 <=> toApply' = {}
        /\ count \in Nat
    <3>1. count + Cardinality(toApply) = Slots /\ toApply' \in SUBSET Slot
      BY <2>1 DEF SessionCount
    <3>2. count \in Nat
      BY SlotIs DEF TypeOK
    <3>3. Cardinality(toApply') = Cardinality(toApply) - 1 /\ Cardinality(toApply) \in Nat
          /\ (Cardinality(toApply') = 0 <=> toApply' = {})
      BY <2>1, <3>1, SlotCount
    <3> QED BY <3>1, <3>2, <3>3
  <2>3. CASE count + 1 = Slots
    <3>1. Cardinality(toApply') = 0
      BY <2>2, <2>3, SlotIs
    <3> QED BY <2>1, <2>2, <2>3, <3>1 DEF SessionCount
  <2>4. CASE count + 1 # Slots
    <3>1. Cardinality(toApply') # 0 /\ (count + 1) + Cardinality(toApply') = Slots
      BY <2>2, <2>4, SlotIs
    <3>2. ~MajorSimInMcl'
      BY <1>2, <2>1, <2>4, ApplyEffect, McIs
    <3> QED BY <2>1, <2>2, <2>4, <3>1, <3>2 DEF SessionCount
  <2> QED BY <2>3, <2>4
<1>3. CASE StartSession
  <2>1. count' = 0 /\ toApply' = Slot /\ ~MajorSimInMcl /\ InMcl' = InMcl
    BY <1>3, McKept DEF StartSession
  <2> QED BY <2>1, McIs, SlotCount, SlotIs DEF SessionCount
<1>4. ASSUME NEW r \in ModemRequest, HandleModemRequest(r) PROVE SessionCount'
  <2>1. UNCHANGED simVars /\ r # "MAJOR_SIM" /\ InMcl' \subseteq InMcl \union {r}
    BY <1>4, HandleEffect DEF HandleModemRequest
  <2> QED BY <2>1, McIs DEF SessionCount
<1>5. CASE ModemResponse \/ MajorSimResponse
  <2>1. UNCHANGED simVars /\ InMcl' \subseteq InMcl
    BY <1>5, ResponseEffect DEF ModemResponse, MajorSimResponse
  <2> QED BY <1>1, <2>1
<1>6. ASSUME NEW ok \in BOOLEAN, cmd9 # <<>>, Reply(ok), UNCHANGED simVars PROVE SessionCount'
  BY <1>1, <1>6, McReply DEF OnceInMcl
<1>7. CASE ModemAnswers
  BY <1>6, <1>7 DEF ModemAnswers
<1>8. ASSUME NEW ok \in BOOLEAN, SimSwitchAnswers(ok) PROVE SessionCount'
  BY <1>6, <1>8 DEF SimSwitchAnswers
<1>9. CASE UNCHANGED <<cmd9, answers, simVars>>
  BY <1>1, <1>9, McKept
<1> QED
  BY <1>2, <1>3, <1>4, <1>5, <1>7, <1>8, <1>9
  DEF Next, vars, Boot, AskRadio, RequestRadioPower, RadioPowerResponse, RadioPowerRetry,
      ModemGoesOff, ModemUrc, HandleUrc, CallEnds, ResumeFails, ResumeAgain, ResumeDone
-----------------------------------------------------------------------------
(* The radio requests in MCL.                                              *)
LEMMA HasAppend ==
  ASSUME NEW q \in Seq(Sender), NEW who \in Sender
  PROVE  /\ Append(q, who) \in Seq(Sender) /\ Append(q, who) # <<>>
         /\ Len(Append(q, who)) = Len(q) + 1 /\ Len(q) \in Nat
         /\ Has(Append(q, who), "wpOff") <=> Has(q, "wpOff") \/ who = "wpOff"
         /\ Single(q) /\ (who = "wpOff" => ~Has(q, "wpOff")) => Single(Append(q, who))
<1> DEFINE p == Append(q, who)
<1>1. /\ p \in Seq(Sender) /\ p # <<>> /\ Len(p) = Len(q) + 1 /\ Len(q) \in Nat
      /\ p[Len(q) + 1] = who /\ \A i \in 1..Len(q) : p[i] = q[i]
  OBVIOUS
<1> HIDE DEF p
<1>2. /\ \A i \in 1..Len(p) : i \in 1..Len(q) \/ i = Len(q) + 1
      /\ 1..Len(q) \subseteq 1..Len(p) /\ Len(q) + 1 \in 1..Len(p)
  BY <1>1
<1>3. Has(p, "wpOff") <=> Has(q, "wpOff") \/ who = "wpOff"
  BY <1>1, <1>2 DEF Has
<1>4. Single(q) /\ (who = "wpOff" => ~Has(q, "wpOff")) => Single(p)
  BY <1>1, <1>2 DEF Has, Single
<1> QED BY <1>1, <1>3, <1>4 DEF p

LEMMA HasTail ==
  ASSUME NEW q \in Seq(Sender), q # <<>>, Single(q)
  PROVE  /\ Tail(q) \in Seq(Sender) /\ Head(q) \in Sender
         /\ Len(q) = Len(Tail(q)) + 1 /\ Len(Tail(q)) \in Nat
         /\ Single(Tail(q))
         /\ Has(q, "wpOff") <=> Has(Tail(q), "wpOff") \/ Head(q) = "wpOff"
         /\ Head(q) = "wpOff" => ~Has(Tail(q), "wpOff")
<1> DEFINE p == Tail(q)
<1>1. /\ p \in Seq(Sender) /\ Head(q) \in Sender /\ Len(q) = Len(p) + 1 /\ Len(p) \in Nat
      /\ Head(q) = q[1] /\ \A i \in 1..Len(p) : p[i] = q[i + 1]
  OBVIOUS
<1> HIDE DEF p
<1>2. /\ 1 \in 1..Len(q) /\ \A i \in 1..Len(p) : i + 1 \in 1..Len(q) /\ i + 1 # 1
      /\ \A i \in 1..Len(q) : i = 1 \/ (i - 1 \in 1..Len(p) /\ (i - 1) + 1 = i)
      /\ \A i, j \in 1..Len(p) : i + 1 = j + 1 => i = j
  BY <1>1
<1>3. Single(p)
  BY <1>1, <1>2 DEF Single
<1>4. \A i \in 1..Len(q) : i = 1 \/ q[i] = p[i - 1]
  BY <1>1, <1>2
<1>5. Has(p, "wpOff") \/ Head(q) = "wpOff" => Has(q, "wpOff")
  BY <1>1, <1>2 DEF Has
<1>6. Has(q, "wpOff") => Has(p, "wpOff") \/ Head(q) = "wpOff"
  BY <1>1, <1>2, <1>4 DEF Has
<1>7. Head(q) = "wpOff" => ~Has(p, "wpOff")
  BY <1>1, <1>2 DEF Has, Single
<1> QED BY <1>1, <1>3, <1>5, <1>6, <1>7 DEF p

LEMMA NoneOrOne ==
  /\ \A q \in Seq(Sender) : Len(q) \in Nat /\ (Len(q) = 0 <=> q = <<>>)
  /\ Len(<<>>) = 0 /\ ~Has(<<>>, "wpOff") /\ Single(<<>>)
  /\ \A who : /\ Append(<<>>, who) = <<who>> /\ <<who>> # <<>> /\ Len(<<who>>) = 1
              /\ Head(<<who>>) = who /\ Tail(<<who>>) = <<>>
              /\ Has(<<who>>, "wpOff") <=> who = "wpOff"
<1>1. \A q \in Seq(Sender) : Len(q) \in Nat /\ (Len(q) = 0 <=> q = <<>>)
  OBVIOUS
<1>2. Len(<<>>) = 0 /\ ~Has(<<>>, "wpOff") /\ Single(<<>>)
  BY DEF Has, Single
<1>3. ASSUME NEW who
      PROVE  /\ Append(<<>>, who) = <<who>> /\ <<who>> # <<>> /\ Len(<<who>>) = 1
             /\ Head(<<who>>) = who /\ Tail(<<who>>) = <<>>
             /\ Has(<<who>>, "wpOff") <=> who = "wpOff"
  <2>1. Len(<<who>>) = 1 /\ <<who>>[1] = who /\ \A i \in 1..1 : i = 1
    OBVIOUS
  <2>2. Has(<<who>>, "wpOff") <=> who = "wpOff"
    BY <2>1 DEF Has
  <2> QED BY <2>2
<1> QED BY <1>1, <1>2, <1>3
-----------------------------------------------------------------------------
(* Who has the keys.                                                       *)
LEMMA MuxKept ==
  ASSUME ModemOffMux, UNCHANGED <<off, pendedByCall, worldMode>>,
         toApply' \subseteq toApply, InMcl' \subseteq InMcl
  PROVE  ModemOffMux'
<1>1. (SimSwitching' => SimSwitching) /\ (PoweringOff' => PoweringOff)
  BY McIs DEF SimSwitching
<1> QED BY <1>1 DEF ModemOffMux, WorldModeChanging

\* A slot whose lock and requests a step leaves alone.
LEMMA SlotKept ==
  ASSUME NEW s \in Slot, SlotMode(s), lock'[s] = lock[s], radio'[s] = radio[s],
         UNCHANGED <<pendedByCall, worldMode>>, s \in crossed' <=> s \in crossed,
         off' = "SIM_SWITCH" <=> off = "SIM_SWITCH", hadOff => hadOff'
  PROVE  SlotMode(s)'
  BY DEF SlotMode, OwnMode, CrossedMode, Quiet, WorldModeChanging, Has

LEMMA CountKept ==
  ASSUME ResumeCount, UNCHANGED <<worldMode, resuming, timer, closeCount>>,
         \A s \in Slot : /\ Has(radio'[s], "wpOff") <=> Has(radio[s], "wpOff")
                         /\ Single(radio'[s])
  PROVE  ResumeCount'
<1>1. Closed' = Closed /\ Closing' = Closing
  BY DEF Closed, Closing
<1>2. \A s \in Slot : Single(radio[s])'
  BY DEF Single
<1> QED BY <1>1, <1>2 DEF ResumeCount

LEMMA ModeKept ==
  ASSUME ModeInv, ResumeCount, ModemOffMux',
         UNCHANGED <<lock, radio, pendedByCall, worldMode, resuming, timer, closeCount, crossed>>,
         off' = "SIM_SWITCH" <=> off = "SIM_SWITCH", hadOff => hadOff', booted => booted'
  PROVE  ModeInv' /\ ResumeCount'
<1>1. \A s \in Slot : SlotMode(s)'
  BY SlotKept DEF ModeInv
<1>2. ResumeCount'
  BY CountKept DEF ResumeCount
<1> QED BY <1>1, <1>2 DEF ModeInv

\* A slot the boot request left alone: with the lock free, nothing is in MCL
\* and nobody has the lock; with a request in MCL, it is the only one.
LEMMA FreeSlot ==
  ASSUME ModeInv, NEW s \in Slot, s \notin crossed, lock[s] = "IDLE"
  PROVE  off # "SIM_SWITCH" /\ ~WorldModeChanging /\ radio[s] = <<>>
  BY DEF ModeInv, SlotMode, OwnMode

LEMMA BusySlot ==
  ASSUME ModeInv, NEW s \in Slot, s \notin crossed, radio[s] # <<>>
  PROVE  /\ lock[s] = "RADIO" /\ off # "SIM_SWITCH" /\ Len(radio[s]) = 1
         /\ radio[s] = <<Head(radio[s])>>
         /\ Tail(radio[s]) = <<>> /\ Append(Tail(radio[s]), Head(radio[s])) = radio[s]
         /\ IF Head(radio[s]) = "wpOff" THEN WorldModeChanging /\ ~pendedByCall
            ELSE ~WorldModeChanging
<1>1. \/ /\ WorldModeChanging /\ ~pendedByCall /\ lock[s] = "RADIO" /\ off # "SIM_SWITCH"
         /\ radio[s] = <<"wpOff">>
      \/ /\ off # "SIM_SWITCH" /\ ~WorldModeChanging /\ lock[s] = "RADIO"
         /\ \E who \in Sender \ {"wpOff"} : radio[s] = <<who>>
  BY DEF ModeInv, SlotMode, OwnMode, ModemOffMux
<1> QED BY <1>1, NoneOrOne

\* One more request of a slot, that takes its lock.
LEMMA ModeRequest ==
  ASSUME TypeOK, ModeInv, ResumeCount, NEW s \in Slot,
         Boot(s) \/ RequestRadioPower(s)
  PROVE  ModeInv' /\ ResumeCount'
<1> USE DEF keyVars, modemVars, bootVars, radioVars, simVars, channelVars, wpVars
<1>1. /\ lock'[s] = "RADIO"
      /\ \A t \in Slot : t # s => lock'[t] = lock[t] /\ radio'[t] = radio[t]
                                  /\ (t \in crossed' <=> t \in crossed)
      /\ UNCHANGED <<off, hadOff, cmd9, answers, toApply, pendedByCall, worldMode, resuming,
                     timer, closeCount>>
      /\ booted => booted'
  BY DEF Boot, RequestRadioPower, TypeOK
<1>2. /\ radio[s] \in Seq(Sender) /\ Single(radio[s])
      /\ SlotMode(s)
      /\ UNCHANGED WorldModeChanging
  BY <1>1 DEF TypeOK, ResumeCount, ModeInv, WorldModeChanging
<1>3. \/ /\ \E who \in Sender \ {"wpOff"} : radio'[s] = Append(radio[s], who)
         /\ \/ lock[s] = "IDLE" /\ (s \in crossed' <=> s \in crossed)
            \/ s \notin crossed /\ s \in crossed'
      \/ radio'[s] = radio[s] /\ hadOff /\ lock[s] = "IDLE" /\ (s \in crossed' <=> s \in crossed)
  <2>1. CASE Boot(s)
    <3>1. radio'[s] = Append(radio[s], "boot") /\ s \notin crossed
      BY <2>1 DEF Boot, TypeOK, ModeInv
    <3> QED BY <2>1, <3>1 DEF Boot, Sender
  <2>2. CASE RequestRadioPower(s)
    <3>1. lock[s] = "IDLE" /\ UNCHANGED crossed
          /\ (radio'[s] = Append(radio[s], "rilj") \/ (radio' = radio /\ hadOff))
      BY <2>2 DEF RequestRadioPower, CanHandleRadio, TypeOK
    <3> QED BY <3>1 DEF Sender
  <2> QED BY <2>1, <2>2
<1>4. /\ Len(radio[s]) \in Nat
      /\ Len(radio'[s]) \in {Len(radio[s]), Len(radio[s]) + 1}
      /\ Has(radio'[s], "wpOff") <=> Has(radio[s], "wpOff")
      /\ Single(radio'[s])
  <2>1. CASE radio'[s] = radio[s]
    BY <1>2, <2>1, NoneOrOne
  <2>2. ASSUME NEW who \in Sender \ {"wpOff"}, radio'[s] = Append(radio[s], who)
        PROVE  /\ Len(radio[s]) \in Nat /\ Len(radio'[s]) = Len(radio[s]) + 1
               /\ Has(radio'[s], "wpOff") <=> Has(radio[s], "wpOff")
               /\ Single(radio'[s])
    BY <1>2, <2>2, HasAppend
  <2> QED BY <1>3, <2>1, <2>2
<1>5. SlotMode(s)'
  <2>1. CASE s \notin crossed'
    <3>1. /\ off # "SIM_SWITCH" /\ ~WorldModeChanging /\ radio[s] = <<>> /\ s \notin crossed
      BY <1>3, <2>1, FreeSlot
    <3>2. \/ \E who \in Sender \ {"wpOff"} : radio'[s] = <<who>>
          \/ radio'[s] = <<>> /\ hadOff
      BY <1>3, <3>1, NoneOrOne
    <3> QED BY <1>1, <1>2, <2>1, <3>1, <3>2 DEF SlotMode, OwnMode
  <2>2. CASE s \in crossed' /\ s \notin crossed
    <3>1. Len(radio[s]) <= 1 /\ (Quiet(s)' => Len(radio[s]) = 0)
      <4>1. CASE radio[s] = <<>>
        BY <4>1, NoneOrOne
      <4>2. CASE radio[s] # <<>>
        <5>1. /\ off # "SIM_SWITCH" /\ Len(radio[s]) = 1
              /\ WorldModeChanging => Has(radio[s], "wpOff")
          BY <2>2, <4>2, BusySlot, NoneOrOne
        <5> QED BY <1>1, <1>2, <1>4, <5>1 DEF Quiet, Has
      <4> QED BY <4>1, <4>2
    <3> QED BY <1>1, <1>4, <2>2, <3>1 DEF SlotMode, CrossedMode
  <2>3. CASE s \in crossed' /\ s \in crossed
    <3>1. CrossedMode(s) /\ lock[s] = "IDLE" /\ (Quiet(s)' => Quiet(s))
      BY <1>1, <1>2, <1>3, <1>4, <2>3 DEF SlotMode, Quiet, Has
    <3>2. Len(radio[s]) <= 1 /\ (Quiet(s)' => Len(radio[s]) = 0)
      BY <1>2, <3>1, NoneOrOne DEF CrossedMode
    <3> QED BY <1>1, <1>4, <2>3, <3>2 DEF SlotMode, CrossedMode
  <2> QED BY <2>1, <2>2, <2>3
<1>6. \A t \in Slot : SlotMode(t)'
  BY <1>1, <1>5, SlotKept DEF ModeInv
<1>7. ResumeCount'
  BY <1>1, <1>4, CountKept DEF ResumeCount
<1>8. ModemOffMux'
  BY <1>1, MuxKept, McKept DEF ModeInv
<1>9. ~booted' => crossed' = {}
  BY <1>1 DEF Boot, RequestRadioPower, ModeInv
<1> QED BY <1>1, <1>6, <1>7, <1>8, <1>9 DEF ModeInv

LEMMA ModeRetry ==
  ASSUME TypeOK, ModeInv, ResumeCount, NEW s \in Slot, RadioPowerRetry(s)
  PROVE  ModeInv' /\ ResumeCount'
<1> USE DEF keyVars, modemVars, bootVars, radioVars, simVars, channelVars, wpVars
<1>1. /\ lock'[s] = "RADIO" /\ radio[s] # <<>>
      /\ radio'[s] = Append(Tail(radio[s]), Head(radio[s]))
      /\ \A t \in Slot : t # s => lock'[t] = lock[t] /\ radio'[t] = radio[t]
      /\ UNCHANGED <<off, hadOff, cmd9, answers, toApply, pendedByCall, worldMode, resuming,
                     timer, closeCount, booted, crossed>>
  BY DEF RadioPowerRetry, TypeOK
<1>2. radio[s] \in Seq(Sender) /\ Single(radio[s]) /\ SlotMode(s)
  BY DEF TypeOK, ResumeCount, ModeInv
<1>3. /\ Len(radio'[s]) = Len(radio[s]) /\ Len(radio[s]) \in Nat
      /\ Has(radio'[s], "wpOff") <=> Has(radio[s], "wpOff")
      /\ Single(radio'[s])
  <2>1. /\ Tail(radio[s]) \in Seq(Sender) /\ Head(radio[s]) \in Sender
        /\ Len(radio[s]) = Len(Tail(radio[s])) + 1 /\ Len(Tail(radio[s])) \in Nat
        /\ Single(Tail(radio[s]))
        /\ Has(radio[s], "wpOff") <=> Has(Tail(radio[s]), "wpOff") \/ Head(radio[s]) = "wpOff"
        /\ Head(radio[s]) = "wpOff" => ~Has(Tail(radio[s]), "wpOff")
    BY <1>1, <1>2, HasTail
  <2> DEFINE p == Tail(radio[s])
             x == Head(radio[s])
  <2>2. /\ Len(Append(p, x)) = Len(p) + 1
        /\ Has(Append(p, x), "wpOff") <=> Has(p, "wpOff") \/ x = "wpOff"
        /\ Single(Append(p, x))
    BY <2>1, HasAppend
  <2> QED BY <1>1, <2>1, <2>2
<1>4. SlotMode(s)'
  <2>1. CASE s \notin crossed
    <3>1. lock'[s] = lock[s] /\ radio'[s] = radio[s]
      BY <1>1, <2>1, BusySlot
    <3> QED BY <1>1, <1>2, <3>1, SlotKept
  <2>2. CASE s \in crossed
    <3>1. CrossedMode(s) /\ (Quiet(s)' => Quiet(s))
      BY <1>1, <1>2, <1>3, <2>2 DEF SlotMode, Quiet, WorldModeChanging, Has
    <3> QED BY <1>1, <1>3, <2>2, <3>1 DEF SlotMode, CrossedMode
  <2> QED BY <2>1, <2>2
<1>5. \A t \in Slot : SlotMode(t)'
  BY <1>1, <1>4, SlotKept DEF ModeInv
<1>6. ResumeCount'
  BY <1>1, <1>3, CountKept DEF ResumeCount
<1>7. ModemOffMux'
  BY <1>1, MuxKept, McKept DEF ModeInv
<1> QED BY <1>1, <1>5, <1>6, <1>7 DEF ModeInv

LEMMA ModeResponse ==
  ASSUME TypeOK, ModeInv, ResumeCount, NEW s \in Slot, RadioPowerResponse(s)
  PROVE  ModeInv' /\ ResumeCount'
<1> USE DEF keyVars, modemVars, bootVars, radioVars, simVars, channelVars, wpVars
<1> DEFINE closes == Head(radio[s]) = "wpOff"
<1>1. /\ lock'[s] = IF closes THEN "WORLD_MODE" ELSE "IDLE"
      /\ radio[s] # <<>> /\ radio'[s] = Tail(radio[s])
      /\ \A t \in Slot : t # s => lock'[t] = lock[t] /\ radio'[t] = radio[t]
      /\ UNCHANGED <<off, hadOff, cmd9, answers, toApply, pendedByCall, worldMode,
                     timer, booted, crossed>>
  BY DEF RadioPowerResponse, RadioOffDone, TypeOK
<1>2. radio[s] \in Seq(Sender) /\ Single(radio[s]) /\ SlotMode(s)
  BY DEF TypeOK, ResumeCount, ModeInv
<1>3. /\ Len(radio[s]) = Len(radio'[s]) + 1 /\ Len(radio'[s]) \in Nat
      /\ Has(radio[s], "wpOff") <=> Has(radio'[s], "wpOff") \/ closes
      /\ closes => ~Has(radio'[s], "wpOff")
      /\ Single(radio'[s])
  BY <1>1, <1>2, HasTail
<1>4. SlotMode(s)'
  <2>1. CASE s \notin crossed
    <3>1. /\ radio'[s] = <<>> /\ off # "SIM_SWITCH"
          /\ IF closes THEN WorldModeChanging /\ ~pendedByCall ELSE ~WorldModeChanging
      BY <1>1, <2>1, BusySlot
    <3> QED BY <1>1, <2>1, <3>1 DEF SlotMode, OwnMode, WorldModeChanging
  <2>2. CASE s \in crossed
    <3>1. CrossedMode(s) /\ Len(radio'[s]) <= 1
      BY <1>2, <1>3, <2>2 DEF SlotMode, CrossedMode
    <3>2. Quiet(s)' /\ ~closes => Quiet(s)
      BY <1>1, <1>3 DEF Quiet, WorldModeChanging, Has
    <3>3. Quiet(s)' /\ ~closes => radio'[s] = <<>>
      <4>1. radio'[s] \in Seq(Sender)
        BY <1>1, <1>2, HasTail
      <4> QED BY <1>3, <3>1, <3>2, <4>1, NoneOrOne DEF CrossedMode
    <3> QED BY <1>1, <1>3, <2>2, <3>1, <3>3 DEF SlotMode, CrossedMode
  <2> QED BY <2>1, <2>2
<1>5. \A t \in Slot : SlotMode(t)'
  BY <1>1, <1>4, SlotKept DEF ModeInv
<1>6. ModemOffMux'
  BY <1>1, MuxKept, McKept DEF RadioPowerResponse, ModeInv
<1>7. CASE ~closes
  <2>1. ResumeCount'
    BY <1>1, <1>3, <1>7, CountKept DEF RadioPowerResponse, ResumeCount
  <2> QED BY <1>1, <1>5, <1>6, <2>1 DEF ModeInv
<1>8. CASE closes
  <2>1. Closing /\ closeCount = Cardinality(Closed) /\ s \notin Closed
    BY <1>3, <1>8 DEF ResumeCount, Closed
  <2>2. Closed' = Closed \union {s} /\ Closed \in SUBSET Slot
    BY <1>1, <1>3, <1>8 DEF Closed, Has
  <2>3. Cardinality(Closed') = closeCount + 1 /\ (Cardinality(Closed') = Slots => Closed' = Slot)
    BY <2>1, <2>2, SlotCount
  <2>4. \A t \in Slot : Single(radio[t])'
    <3>1. \A t \in Slot : Single(radio'[t])
      BY <1>1, <1>3 DEF ResumeCount
    <3> QED BY <3>1 DEF Single
  <2>5. RadioOffDone(s)
    BY <1>8 DEF RadioPowerResponse
  <2>6. ResumeCount'
    <3>1. CASE closeCount + 1 = Slots
      <4>1. closeCount' = 0 /\ resuming' = 1 /\ ~timer' /\ worldMode' = "START"
        BY <1>1, <2>1, <2>5, <3>1 DEF RadioOffDone, Closing
      <4> QED BY <2>3, <2>4, <3>1, <4>1 DEF ResumeCount, Closing
    <3>2. CASE closeCount + 1 # Slots
      <4>1. closeCount' = closeCount + 1 /\ Closing' /\ resuming' = 0 /\ ~timer'
        BY <1>1, <2>1, <2>5, <3>2 DEF RadioOffDone, Closing
      <4> QED BY <2>3, <2>4, <4>1 DEF ResumeCount
    <3> QED BY <3>1, <3>2
  <2> QED BY <1>1, <1>5, <1>6, <2>6 DEF ModeInv
<1> QED BY <1>7, <1>8

LEMMA ModeHandle ==
  ASSUME OnePowerOff, TypeOK, OnceInMcl, ModeInv, ResumeCount,
         NEW r \in ModemRequest, HandleModemRequest(r)
  PROVE  ModeInv' /\ ResumeCount'
<1> USE DEF keyVars, modemVars, bootVars, radioVars, simVars, channelVars, wpVars
<1>1. /\ off \in {"IDLE", "POWER_OFF"} /\ Op[r] \in {"POWEROFF", "RESET_RADIO"}
      /\ UNCHANGED <<lock, radio, booted, crossed, toApply, wpVars>> /\ (hadOff => hadOff')
      /\ off' # "SIM_SWITCH"
  BY PowerAssumption DEF HandleModemRequest, CanHandleModem, OnePowerOff
<1>2. ModemOffMux'
  <2>1. ~SimSwitching /\ ~WorldModeChanging /\ (PoweringOff => off = "POWER_OFF")
    BY <1>1 DEF ModeInv, ModemOffMux
  <2>2. InMcl' \subseteq InMcl \union {r} /\ r # "MAJOR_SIM"
    BY HandleEffect
  <2>3. ~SimSwitching' /\ ~WorldModeChanging'
    BY <1>1, <2>1, <2>2, McIs DEF SimSwitching, WorldModeChanging
  <2>4. PoweringOff' => off' = "POWER_OFF"
    <3>1. CASE Op[r] = "POWEROFF"
      BY <3>1 DEF HandleModemRequest
    <3>2. CASE Op[r] = "RESET_RADIO"
      <4>1. PoweringOff' => PoweringOff
        BY <2>2, <3>2, McIs
      <4> QED BY <1>1, <2>1, <3>2, <4>1 DEF HandleModemRequest
    <3> QED BY <1>1, <3>1, <3>2
  <2> QED BY <2>3, <2>4 DEF ModemOffMux
<1> QED BY <1>1, <1>2, ModeKept

\* The response of the one POWEROFF gives the key back.
LEMMA ModeModemResponse ==
  ASSUME OnePowerOff, TypeOK, OnceInMcl, ModeInv, ResumeCount, ModemResponse
  PROVE  ModeInv' /\ ResumeCount'
<1> USE DEF keyVars, modemVars, bootVars, radioVars, simVars, channelVars, wpVars
<1> DEFINE r == Head(answers).req
<1>1. /\ r \in ModemRequest /\ r # "MAJOR_SIM" /\ r \in InMcl
      /\ Op[r] \in {"POWEROFF", "RESET_RADIO"}
      /\ UNCHANGED <<lock, radioVars, hadOff, toApply, wpVars>>
      /\ InMcl' \subseteq InMcl
  BY AnswerType, ResponseEffect, PowerAssumption DEF ModemResponse, OnePowerOff
<1>2. CASE UNCHANGED off
  <2>1. ModemOffMux'
    BY <1>1, <1>2, MuxKept DEF ModeInv
  <2> QED BY <1>1, <1>2, <2>1, ModeKept
<1>3. CASE ~UNCHANGED off
  <2>1. Op[r] = "POWEROFF" /\ off' = "IDLE" /\ UNCHANGED cmd9
    BY <1>1, <1>3 DEF ModemResponse
  <2>2. PoweringOff /\ off = "POWER_OFF"
    BY <1>1, <2>1, McIs DEF ModeInv, ModemOffMux
  <2>3. InMcl' = InMcl \ {r} /\ InMcl \subseteq McType
    BY <2>1, ResponseEffect, McElements DEF ModemResponse
  <2>4. ~PoweringOff'
    BY <1>1, <2>1, <2>3, McIs DEF OnePowerOff, McType
  <2>5. ~SimSwitching' /\ ~WorldModeChanging'
    <3>1. ~SimSwitching /\ ~WorldModeChanging
      BY <2>2 DEF ModeInv, ModemOffMux
    <3> QED BY <1>1, <3>1, McIs DEF SimSwitching, WorldModeChanging
  <2>6. ModemOffMux'
    BY <2>4, <2>5 DEF ModemOffMux
  <2> QED BY <1>1, <2>1, <2>2, <2>6, ModeKept
<1> QED BY <1>2, <1>3

LEMMA ModeChannel ==
  ASSUME TypeOK, OnceInMcl, ModeInv, ResumeCount,
         ModemAnswers \/ \E ok \in BOOLEAN : SimSwitchAnswers(ok)
  PROVE  ModeInv' /\ ResumeCount'
<1> USE DEF keyVars, modemVars, bootVars, radioVars, simVars, channelVars, wpVars
<1>1. /\ InMcl' = InMcl
      /\ UNCHANGED <<off, lock, radio, booted, crossed, hadOff, toApply, wpVars>>
  BY McReply DEF ModemAnswers, SimSwitchAnswers, OnceInMcl
<1>2. ModemOffMux'
  BY <1>1, MuxKept DEF ModeInv
<1> QED BY <1>1, <1>2, ModeKept

LEMMA ModeApply ==
  ASSUME TypeOK, OnceInMcl, SessionCount, ModeInv, ResumeCount, NEW s \in Slot, Apply(s)
  PROVE  ModeInv' /\ ResumeCount'
<1> USE DEF keyVars, modemVars, bootVars, radioVars, simVars, channelVars, wpVars
<1>1. /\ SimSwitching /\ InMcl' \subseteq InMcl \union {"MAJOR_SIM"}
      /\ UNCHANGED <<off, lock, radio, booted, crossed, hadOff, wpVars>>
  BY ApplyEffect DEF Apply, SimSwitching
<1>2. ModemOffMux'
  <2>1. PoweringOff' => PoweringOff
    BY <1>1, McIs
  <2> QED BY <1>1, <2>1 DEF ModeInv, ModemOffMux, WorldModeChanging
<1> QED BY <1>1, <1>2, ModeKept

\* A SIM switch takes the lock of every slot, if it is free.
LEMMA ModeStart ==
  ASSUME TypeOK, OnceInMcl, ModeInv, ResumeCount, StartSession
  PROVE  ModeInv' /\ ResumeCount'
<1> USE DEF keyVars, modemVars, bootVars, radioVars, simVars, channelVars, wpVars
<1>1. /\ InMcl' = InMcl /\ off \in {"IDLE", "SIM_SWITCH"} /\ off' = "SIM_SWITCH"
      /\ UNCHANGED <<radio, booted, crossed, hadOff, wpVars>>
  BY McKept DEF StartSession, IsReady
<1>2. ModemOffMux'
  <2>1. ~PoweringOff' /\ ~WorldModeChanging'
    BY <1>1, McIs DEF ModeInv, ModemOffMux, WorldModeChanging
  <2> QED BY <1>1, <2>1 DEF ModemOffMux
<1>3. CASE off = "SIM_SWITCH"
  BY <1>1, <1>2, <1>3, ModeKept DEF StartSession
<1>4. CASE off = "IDLE"
  <2>1. ASSUME NEW s \in Slot PROVE SlotMode(s)'
    <3>1. lock[s] \in {"IDLE", "SIM_SWITCH"} /\ lock'[s] = "SIM_SWITCH" /\ SlotMode(s)
      BY <1>4, <2>1 DEF StartSession, IsReady, AllLocks, ModeInv
    <3>2. ~WorldModeChanging /\ ~WorldModeChanging'
      BY <1>1, <1>4 DEF ModeInv, ModemOffMux, WorldModeChanging
    <3>3. CASE s \notin crossed
      <4>1. radio[s] = <<>>
        BY <1>4, <3>1, <3>2, <3>3 DEF SlotMode, OwnMode
      <4> QED BY <1>1, <3>1, <3>2, <3>3, <4>1 DEF SlotMode, OwnMode
    <3>4. CASE s \in crossed
      BY <1>1, <3>1, <3>4 DEF SlotMode, CrossedMode
    <3> QED BY <3>3, <3>4
  <2>2. ResumeCount'
    BY <1>1, CountKept DEF ResumeCount
  <2> QED BY <1>1, <1>2, <2>1, <2>2 DEF ModeInv
<1> QED BY <1>1, <1>3, <1>4

LEMMA ModeMajorSim ==
  ASSUME TypeOK, OnceInMcl, SessionCount, ModeInv, ResumeCount, MajorSimResponse
  PROVE  ModeInv' /\ ResumeCount'
<1> USE DEF keyVars, modemVars, bootVars, radioVars, simVars, channelVars, wpVars
<1>1. /\ "MAJOR_SIM" \in InMcl /\ InMcl' \subseteq InMcl /\ toApply = {}
      /\ SimSwitching /\ off = "SIM_SWITCH"
      /\ UNCHANGED <<radio, booted, crossed, hadOff, toApply, wpVars>>
  <2>1. "MAJOR_SIM" \in InMcl /\ InMcl' \subseteq InMcl
    BY ResponseEffect DEF MajorSimResponse
  <2> QED BY <2>1, McIs DEF MajorSimResponse, SessionCount, SimSwitching, ModeInv, ModemOffMux
<1>2. CASE ~Head(answers).ok
  <2>1. UNCHANGED <<off, lock>>
    BY <1>2 DEF MajorSimResponse
  <2>2. ModemOffMux'
    BY <1>1, <2>1, MuxKept DEF ModeInv
  <2> QED BY <1>1, <2>1, <2>2, ModeKept
<1>3. CASE Head(answers).ok
  <2>1. off' = "IDLE" /\ lock' = AllLocks("IDLE") /\ InMcl' = InMcl \ {"MAJOR_SIM"}
    BY <1>1, <1>3, ResponseEffect DEF MajorSimResponse, Unlock
  <2>2. ~SimSwitching' /\ ~PoweringOff' /\ ~WorldModeChanging'
    BY <1>1, <2>1, McIs DEF SimSwitching, ModeInv, ModemOffMux, WorldModeChanging
  <2>3. ASSUME NEW s \in Slot PROVE SlotMode(s)'
    <3>1. lock'[s] = "IDLE" /\ radio'[s] = radio[s] /\ SlotMode(s) /\ ~Quiet(s)'
      BY <1>1, <2>1, <2>2, <2>3 DEF AllLocks, ModeInv, Quiet
    <3>2. CASE s \notin crossed
      BY <1>1, <2>1, <2>2, <3>1, <3>2 DEF SlotMode, OwnMode
    <3>3. CASE s \in crossed
      BY <1>1, <3>1, <3>3 DEF SlotMode, CrossedMode, Quiet
    <3> QED BY <3>2, <3>3
  <2>4. ResumeCount'
    BY <1>1, CountKept DEF ResumeCount
  <2> QED BY <1>1, <2>2, <2>3, <2>4 DEF ModeInv, ModemOffMux
<1> QED BY <1>2, <1>3

\* A change of world mode sends every slot a request, and takes its lock.
LEMMA ModuleSlots ==
  ASSUME TypeOK, ModeInv, ResumeCount, NEW who \in {"wpOff", "wpOn"}, ModuleRequest(who),
         off # "SIM_SWITCH", Closed = Slot, UNCHANGED <<hadOff, crossed, booted>>,
         \A s \in Slot : \/ Quiet(s)
                         \/ ~WorldModeChanging /\ lock[s] = "IDLE",
         off' # "SIM_SWITCH", ~pendedByCall', WorldModeChanging' <=> who = "wpOff"
  PROVE  /\ \A s \in Slot : SlotMode(s)' /\ Single(radio'[s])
         /\ Closed' = IF who = "wpOff" THEN {} ELSE Slot
<1>1. who \in Sender
  BY DEF Sender
<1>2. ASSUME NEW s \in Slot
      PROVE  SlotMode(s)' /\ Single(radio'[s]) /\ (Has(radio'[s], "wpOff") <=> who = "wpOff")
  <2>1. /\ lock'[s] = "RADIO" /\ radio'[s] = Append(radio[s], who)
        /\ radio[s] \in Seq(Sender) /\ Single(radio[s]) /\ ~Has(radio[s], "wpOff")
        /\ SlotMode(s)
    BY DEF ModuleRequest, AllLocks, TypeOK, ResumeCount, Closed, ModeInv
  <2>2. /\ Len(radio'[s]) = Len(radio[s]) + 1 /\ Len(radio[s]) \in Nat
        /\ Single(radio'[s]) /\ (Has(radio'[s], "wpOff") <=> who = "wpOff")
    BY <1>1, <2>1, HasAppend
  <2>3. CASE s \in crossed
    <3>1. Len(radio[s]) <= 1
      BY <2>1, <2>3 DEF SlotMode, CrossedMode
    <3>2. ~Quiet(s)'
      <4>1. Has(radio[s], "wpOff")' <=> who = "wpOff"
        BY <2>2 DEF Has
      <4> QED BY <4>1 DEF Quiet
    <3> QED BY <2>1, <2>2, <2>3, <3>1, <3>2 DEF SlotMode, CrossedMode
  <2>4. CASE s \notin crossed
    <3>1. radio[s] = <<>>
      <4>1. CASE lock[s] = "IDLE"
        BY <2>4, <4>1, FreeSlot
      <4>2. CASE lock[s] # "IDLE"
        <5>1. WorldModeChanging /\ Has(<<"wpOff">>, "wpOff")
          BY <4>2, NoneOrOne DEF Quiet
        <5> QED BY <2>1, <2>4, <5>1 DEF SlotMode, OwnMode
      <4> QED BY <4>1, <4>2
    <3>2. radio'[s] = <<who>>
      BY <2>1, <3>1, NoneOrOne
    <3> QED BY <1>1, <2>1, <2>2, <2>4, <3>2 DEF SlotMode, OwnMode
  <2> QED BY <2>2, <2>3, <2>4
<1>3. Closed' = IF who = "wpOff" THEN {} ELSE Slot
  BY <1>2 DEF Closed, Has
<1> QED BY <1>2, <1>3

LEMMA ModeUrc ==
  ASSUME TypeOK, ModeInv, ResumeCount, HandleUrc
  PROVE  ModeInv' /\ ResumeCount'
<1> USE DEF keyVars, modemVars, bootVars, radioVars, simVars, channelVars
<1>1. /\ off = "IDLE" /\ off' = "WORLD_PHONE" /\ InMcl' = InMcl
      /\ \A s \in Slot : lock[s] = "IDLE"
      /\ UNCHANGED <<hadOff, booted, crossed, toApply, resuming, timer, closeCount>>
  BY McKept DEF HandleUrc, LockedAll
<1>2. /\ ~WorldModeChanging /\ ~pendedByCall /\ worldMode = "END"
      /\ ~SimSwitching /\ ~PoweringOff
  BY <1>1 DEF ModeInv, ModemOffMux, WorldModeChanging, TypeOK
<1>3. resuming = 0 /\ ~timer /\ closeCount = 0 /\ Closed = Slot
  BY <1>2 DEF ResumeCount, Closing, TypeOK
<1>4. ModemOffMux'
  <2>1. ~SimSwitching' /\ ~PoweringOff'
    BY <1>1, <1>2, McIs DEF SimSwitching
  <2> QED BY <1>1, <2>1 DEF ModemOffMux
<1>5. CASE /\ pendedByCall' /\ lock' = AllLocks("WORLD_MODE") /\ UNCHANGED <<worldMode, radio>>
  <2>1. ASSUME NEW s \in Slot PROVE SlotMode(s)'
    <3>1. lock'[s] = "WORLD_MODE" /\ radio'[s] = radio[s] /\ SlotMode(s)
      BY <1>5, <2>1 DEF AllLocks, ModeInv
    <3>2. CASE s \notin crossed
      <4>1. radio[s] = <<>>
        BY <1>1, <2>1, <3>2, FreeSlot
      <4> QED BY <1>1, <1>5, <3>1, <3>2, <4>1 DEF SlotMode, OwnMode, WorldModeChanging
    <3>3. CASE s \in crossed
      BY <1>1, <2>1, <3>1, <3>3 DEF SlotMode, CrossedMode
    <3> QED BY <3>2, <3>3
  <2>2. ResumeCount'
    BY <1>1, <1>5, CountKept DEF ResumeCount
  <2> QED BY <1>1, <1>2, <1>4, <1>5, <2>1, <2>2 DEF ModeInv
<1>6. CASE CloseRadios /\ UNCHANGED pendedByCall
  <2>1. ModuleRequest("wpOff") /\ worldMode' = "START" /\ ~pendedByCall'
    BY <1>2, <1>6 DEF CloseRadios
  <2>2. (\A s \in Slot : SlotMode(s)' /\ Single(radio'[s])) /\ Closed' = {}
    BY <1>1, <1>2, <1>3, <2>1, ModuleSlots DEF WorldModeChanging
  <2>3. ResumeCount'
    <3>1. Closing' /\ Cardinality({}) = 0
      BY <1>1, <1>3, <2>1, SlotCount DEF Closing
    <3>2. \A s \in Slot : Single(radio[s])'
      BY <2>2 DEF Single
    <3> QED BY <1>1, <1>3, <2>2, <3>1, <3>2 DEF ResumeCount
  <2> QED BY <1>1, <1>4, <2>1, <2>2, <2>3 DEF ModeInv
<1> QED BY <1>5, <1>6 DEF HandleUrc

LEMMA ModeCall ==
  ASSUME TypeOK, ModeInv, ResumeCount, CallEnds
  PROVE  ModeInv' /\ ResumeCount'
<1> USE DEF keyVars, modemVars, bootVars, radioVars, simVars, channelVars
<1>1. /\ pendedByCall /\ WorldModeChanging /\ off = "WORLD_PHONE" /\ InMcl' = InMcl
      /\ UNCHANGED <<off, hadOff, booted, crossed, toApply, resuming, timer, closeCount>>
      /\ ~pendedByCall' /\ CloseRadios
  BY McKept DEF CallEnds, ModeInv, ModemOffMux, WorldModeChanging
<1>2. resuming = 0 /\ ~timer /\ closeCount = 0 /\ Closed = Slot
  BY <1>1 DEF ModeInv, ResumeCount, Closing, TypeOK
<1>3. ModemOffMux'
  <2>1. ~SimSwitching /\ ~PoweringOff
    BY <1>1 DEF ModeInv, ModemOffMux
  <2>2. ~SimSwitching' /\ ~PoweringOff'
    BY <1>1, <2>1, McIs DEF SimSwitching
  <2> QED BY <1>1, <2>2 DEF ModemOffMux
<1>4. ModuleRequest("wpOff") /\ worldMode' = "START"
  BY <1>1 DEF CloseRadios
<1>5. \A s \in Slot : Quiet(s)
  BY <1>1, <1>2 DEF Quiet, Closed
<1>6. (\A s \in Slot : SlotMode(s)' /\ Single(radio'[s])) /\ Closed' = {}
  BY <1>1, <1>2, <1>4, <1>5, ModuleSlots DEF WorldModeChanging
<1>7. ResumeCount'
  <2>1. Closing' /\ Cardinality({}) = 0
    BY <1>1, <1>2, <1>4, SlotCount DEF Closing
  <2>2. \A s \in Slot : Single(radio[s])'
    BY <1>6 DEF Single
  <2> QED BY <1>1, <1>2, <1>6, <2>1, <2>2 DEF ResumeCount
<1> QED BY <1>1, <1>3, <1>6, <1>7 DEF ModeInv

LEMMA ModeResume ==
  ASSUME TypeOK, ModeInv, ResumeCount, ResumeFails \/ ResumeAgain \/ ResumeDone
  PROVE  ModeInv' /\ ResumeCount'
<1> USE DEF keyVars, modemVars, bootVars, radioVars, simVars, channelVars
<1>1. /\ resuming > 0 \/ timer
      /\ InMcl' = InMcl
      /\ UNCHANGED <<hadOff, booted, crossed, toApply, pendedByCall, closeCount>>
  BY McKept DEF ResumeFails, ResumeAgain, ResumeDone
<1>2. /\ worldMode = "START" /\ ~pendedByCall /\ closeCount = 0 /\ Closed = Slot
      /\ resuming = IF timer THEN 0 ELSE 1
      /\ WorldModeChanging /\ off = "WORLD_PHONE"
  BY <1>1 DEF ResumeCount, Closing, ModeInv, ModemOffMux, WorldModeChanging, TypeOK
<1>3. CASE ResumeFails \/ ResumeAgain
  <2>1. /\ UNCHANGED <<off, lock, radio, worldMode>>
        /\ resuming' = IF timer' THEN 0 ELSE 1
        /\ (resuming' > 0 \/ timer')
    <3>1. CASE ResumeFails
      <4>1. resuming = 1 /\ resuming' = resuming - 1 /\ timer'
        BY <1>2, <3>1 DEF ResumeFails
      <4> QED BY <3>1, <4>1 DEF ResumeFails
    <3>2. CASE ResumeAgain
      <4>1. resuming = 0 /\ resuming' = resuming + 1 /\ ~timer'
        BY <1>2, <3>2 DEF ResumeAgain
      <4> QED BY <3>2, <4>1 DEF ResumeAgain
    <3> QED BY <1>3, <3>1, <3>2
  <2>2. ModemOffMux'
    BY <1>1, <2>1, MuxKept DEF ModeInv
  <2>3. \A s \in Slot : SlotMode(s)'
    BY <1>1, <2>1, SlotKept DEF ModeInv
  <2>4. ~Closing' /\ Closed' = Closed
    BY <2>1 DEF Closing, Closed
  <2>5. ResumeCount'
    BY <1>1, <1>2, <2>1, <2>4 DEF ResumeCount, Single
  <2> QED BY <1>1, <1>2, <2>1, <2>2, <2>3, <2>5 DEF ModeInv
<1>4. CASE ResumeDone
  <2>1. /\ off' # "SIM_SWITCH" /\ worldMode' = "END" /\ resuming' = 0 /\ ~timer'
        /\ ModuleRequest("wpOn") /\ ~WorldModeChanging'
    BY <1>1, <1>2, <1>4 DEF ResumeDone, ReleaseModem, WorldModeChanging
  <2>2. \A s \in Slot : Quiet(s)
    BY <1>2 DEF Quiet, Closed
  <2>3. (\A s \in Slot : SlotMode(s)' /\ Single(radio'[s])) /\ Closed' = Slot
    BY <1>1, <1>2, <2>1, <2>2, ModuleSlots
  <2>4. ModemOffMux'
    <3>1. ~SimSwitching /\ ~PoweringOff
      BY <1>2 DEF ModeInv, ModemOffMux
    <3> QED BY <1>1, <2>1, <3>1, McIs DEF SimSwitching, ModemOffMux
  <2>5. ResumeCount'
    <3>1. \A s \in Slot : Single(radio[s])'
      BY <2>3 DEF Single
    <3> QED BY <1>1, <1>2, <2>1, <2>3, <3>1 DEF ResumeCount, Closing
  <2> QED BY <1>1, <1>2, <2>1, <2>3, <2>4, <2>5 DEF ModeInv
<1> QED BY <1>3, <1>4


LEMMA ModeStep ==
  ASSUME OnePowerOff, TypeOK, PowerInv, [Next]_vars
  PROVE  ModeInv' /\ ResumeCount'
<1> USE DEF PowerInv
<1>1. CASE UNCHANGED <<off, lock, radio, pendedByCall, worldMode, resuming, timer, closeCount,
                       cmd9, answers, toApply, hadOff, booted, crossed>>
  <2>1. ModemOffMux'
    BY <1>1, MuxKept, McKept DEF ModeInv
  <2> QED BY <1>1, <2>1, ModeKept
<1>2. CASE (\E s \in Slot : AskRadio(s)) \/ ModemGoesOff \/ ModemUrc \/ UNCHANGED vars
  BY <1>1, <1>2 DEF AskRadio, ModemGoesOff, ModemUrc, vars, keyVars, modemVars, bootVars,
     radioVars, simVars, channelVars, wpVars
<1> QED
  BY <1>2, ModeRequest, ModeRetry, ModeResponse, ModeHandle, ModeModemResponse, ModeChannel,
     ModeApply, ModeStart, ModeMajorSim, ModeUrc, ModeCall, ModeResume
  DEF Next

LEMMA PowerInvAlways ==
  ASSUME OnePowerOff
  PROVE  Spec => [](TypeOK /\ PowerInv)
<1>1. Init => PowerInv
  <2> SUFFICES ASSUME Init PROVE PowerInv
    OBVIOUS
  <2>1. InMcl = {} /\ Cmd = {} /\ Ans = {}
    BY DEF Init, InMcl, Cmd, Ans
  <2>2. OnceInMcl
    BY <2>1 DEF Init, OnceInMcl, Once
  <2>3. SessionCount
    BY <2>1, McIs DEF Init, SessionCount
  <2>4. ResumeCount
    BY NoneOrOne DEF Init, ResumeCount, Closing, Closed
  <2>5. ModemOffMux
    BY <2>1, McIs DEF Init, ModemOffMux, SimSwitching, WorldModeChanging
  <2>6. ModeInv
    BY <2>5 DEF Init, ModeInv, SlotMode, OwnMode, WorldModeChanging
  <2> QED BY <2>2, <2>3, <2>4, <2>6 DEF PowerInv
<1>2. TypeOK /\ PowerInv /\ [Next]_vars => PowerInv'
  BY OnceStep, SessionStep, ModeStep DEF PowerInv
<1> QED BY <1>1, <1>2, PowerTypeCorrect, PTL DEF Spec

(* "set modem off state as world phone, it is mux with sim switch and      *)
(* power" (RtcWpController.cpp): whoever switches the modem off has        *)
(* MODEM_OFF_STATE all the while, as long as one POWEROFF and no POWERON   *)
(* comes.                                                                  *)
THEOREM ModemOffMuxAlways ==
  ASSUME OnePowerOff
  PROVE  Spec => []ModemOffMux
<1>1. PowerInv => ModemOffMux
  BY DEF PowerInv, ModeInv
<1> QED BY <1>1, PowerInvAlways, PTL

(* No radio is switched during a SIM switch: RADIO_LOCK of every slot that *)
(* the boot request did not cross is its own, and nobody's request of the  *)
(* slot is in MCL.                                                         *)
THEOREM NoRadioInSimSwitchAlways ==
  ASSUME OnePowerOff
  PROVE  Spec => []NoRadioInSimSwitch
<1>1. PowerInv => NoRadioInSimSwitch
  BY DEF PowerInv, ModeInv, ModemOffMux, SlotMode, OwnMode, NoRadioInSimSwitch, Uncrossed
<1> QED BY <1>1, PowerInvAlways, PTL

(* The modem goes on with its change of world mode, once, when every radio *)
(* has answered that it is off, also one whose lock the boot request took: *)
(* closeRadioCount counts each slot once.                                  *)
THEOREM RadiosOffFirstAlways ==
  ASSUME OnePowerOff
  PROVE  Spec => []RadiosOffFirst
<1>1. TypeOK /\ PowerInv => RadiosOffFirst
  <2> SUFFICES ASSUME TypeOK, PowerInv, resuming > 0 \/ timer
               PROVE  /\ resuming = IF timer THEN 0 ELSE 1
                      /\ \A s \in Slot : ~RadioInMcl(s, "wpOff")
                      /\ \A s \in Uncrossed : lock[s] = "WORLD_MODE" /\ radio[s] = <<>>
    BY DEF RadiosOffFirst
  <2>1. /\ worldMode = "START" /\ resuming = (IF timer THEN 0 ELSE 1) /\ Closed = Slot
    BY DEF PowerInv, ResumeCount, Closing, TypeOK
  <2>2. \A s \in Slot : ~Has(radio[s], "wpOff")
    BY <2>1 DEF Closed
  <2>3. ASSUME NEW s \in Uncrossed PROVE lock[s] = "WORLD_MODE" /\ radio[s] = <<>>
    <3>1. s \in Slot /\ OwnMode(s) /\ radio[s] # <<"wpOff">>
      BY <2>2, NoneOrOne DEF Uncrossed, PowerInv, ModeInv, SlotMode
    <3> QED BY <2>1, <3>1 DEF OwnMode, WorldModeChanging
  <2> QED BY <2>1, <2>2, <2>3 DEF Has, RadioInMcl
<1> QED BY <1>1, PowerInvAlways, PTL

(* A slot's RADIO_LOCK is RtcRadioController's exactly while one request   *)
(* of the slot is in MCL, but after a POWEROFF; where the boot request     *)
(* took the lock from somebody, never more than two are there.             *)
THEOREM LockIsRequestAlways ==
  ASSUME OnePowerOff
  PROVE  Spec => []LockIsRequest
<1>1. TypeOK /\ PowerInv => LockIsRequest
  <2> SUFFICES ASSUME TypeOK, PowerInv PROVE LockIsRequest
    OBVIOUS
  <2>1. ASSUME NEW s \in Uncrossed
        PROVE  /\ Len(radio[s]) <= 1
               /\ radio[s] # <<>> => lock[s] = "RADIO"
               /\ lock[s] = "RADIO" => radio[s] # <<>> \/ hadOff
    <3>1. s \in Slot /\ s \notin crossed /\ OwnMode(s)
      BY DEF Uncrossed, PowerInv, ModeInv, SlotMode
    <3>2. CASE radio[s] = <<>>
      BY <3>1, <3>2, NoneOrOne DEF OwnMode
    <3>3. CASE radio[s] # <<>>
      BY <3>1, <3>3, BusySlot DEF PowerInv
    <3> QED BY <3>2, <3>3
  <2>2. ASSUME NEW s \in crossed PROVE Len(radio[s]) <= 2
    <3>1. CrossedMode(s) /\ radio[s] \in Seq(Sender)
      BY DEF PowerInv, ModeInv, SlotMode, TypeOK
    <3> QED BY <3>1, NoneOrOne DEF CrossedMode
  <2> QED BY <2>1, <2>2 DEF LockIsRequest
<1> QED BY <1>1, PowerInvAlways, PTL
=============================================================================
