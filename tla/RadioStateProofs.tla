-------------------------- MODULE RadioStateProofs --------------------------
(***************************************************************************)
(* RadioState implements StatusSync, so that what is proved of the copies  *)
(* in general holds for the radio state; and RILJ is told the right one.   *)
(***************************************************************************)
EXTENDS RadioState, StatusSyncProofs

Error == {"ok", "failed", "retry"}
JobType == [op : Request \cup {"none", "construct"}, at : BOOLEAN, cur : Value,
            todo : Seq(Update), err : Error]

\* Whatever a handler sets is an update of a key, whatever TelCore sends to MCL a
\* request.
RadioType ==
    /\ asked \in Seq({"POWER_ON", "POWER_OFF"})
    /\ retries \in Seq(Request)
    /\ responses \in Seq([op : Request, err : Error])
    /\ inbox \in [Writer -> Seq(Request)]
    /\ job \in [Writer -> JobType]

RadioInv == SyncTypeOK /\ RadioType

LEMMA Constants ==
  /\ Radio \in Writer /\ Modem \in Writer
  /\ "radio" \in Key /\ "power" \in Key
  /\ \A v \in {"UNSET", "UNAVAILABLE", "OFF", "ON"} : v \in Value
  /\ \A r \in {"POWER_ON", "POWER_OFF", "BOOT", "MODEM_OFF"} : r \in Request
  BY RadioAssumption

LEMMA HeadTail ==
  ASSUME NEW S, NEW s \in Seq(S), s # <<>>
  PROVE  Head(s) \in S /\ Tail(s) \in Seq(S)
  OBVIOUS

LEMMA SetRadioType ==
  ASSUME NEW v \in Value
  PROVE  /\ SetRadio(v) \in Seq(Update)
         /\ \A x \in Value : <<Sync("power", x), Sync("radio", v)>> \in Seq(Update)
  BY SyncUpdate, Constants DEF SetRadio

LEMMA JobTypes ==
  /\ NoJob \in JobType
  /\ \A op \in Request \cup {"construct"}, cur \in Value : Job(op, cur) \in JobType
<1>1. NoJob \in JobType
  BY Constants DEF NoJob, JobType, Error
<1>2. ASSUME NEW op \in Request \cup {"construct"}, NEW cur \in Value
      PROVE  Job(op, cur) \in JobType
  BY DEF Job, JobType, Error
<1> QED BY <1>1, <1>2

LEMMA FinishType ==
  ASSUME job \in [Writer -> JobType], NEW w \in Writer, NEW todo \in Seq(Update),
         NEW err \in Error, Finish(w, todo, err)
  PROVE  job' \in [Writer -> JobType]
<1> DEFINE j == [job[w] EXCEPT !.at = FALSE, !.todo = todo, !.err = err]
<1>1. j \in JobType
  BY DEF JobType
<1>2. job' = [job EXCEPT ![w] = j]
  BY DEF Finish
<1> QED BY <1>1, <1>2

\* What each step does to the status keys is a step of StatusSync, or nothing.
LEMMA StepMaps == RadioInv /\ [Next]_vars => [SyncNext]_syncVars
<1> SUFFICES ASSUME RadioInv, [Next]_vars PROVE SyncNext \/ UNCHANGED syncVars
  OBVIOUS
<1> USE Constants
<1>1. CASE OnInit
  BY <1>1 DEF OnInit, SyncNext
<1>2. CASE SyncArrives
  BY <1>2 DEF SyncArrives, SyncNext
<1>3. CASE RequestRadioPower
  <2>1. Head(asked) \in {"POWER_ON", "POWER_OFF"}
    BY <1>3 DEF RequestRadioPower, RadioInv, RadioType
  <2>2. \/ UNCHANGED syncVars
        \/ \E v \in {"ON", "OFF"} : TelSet("power", v, <<Carry(Head(asked))>>)
    BY <1>3 DEF RequestRadioPower
  <2> QED BY <2>1, <2>2 DEF SyncNext
<1>4. CASE BootRequest
  BY <1>4 DEF BootRequest, SyncNext
<1>5. CASE Retry
  <2>1. Head(retries) \in Request
    BY <1>5 DEF Retry, RadioInv, RadioType
  <2> QED BY <1>5, <2>1 DEF Retry, SyncNext
<1>6. CASE StartSwitch
  BY <1>6 DEF StartSwitch, SyncNext
<1>7. CASE RequestModemOff
  BY <1>7 DEF RequestModemOff, SyncNext
<1>8. CASE HandleResponse \/ SwitchFails \/ Rilj
  BY <1>8 DEF HandleResponse, SwitchFails, Rilj, Ask
<1>9. CASE Dispatch
  BY <1>9 DEF Dispatch, SyncNext
<1>10. CASE \/ Construct \/ BootDone \/ ModemOffDone
            \/ \E on \in BOOLEAN : PowerDone(on)
            \/ \E op \in Request : PowerFails(op)
  BY <1>10 DEF Construct, BootDone, ModemOffDone, PowerDone, PowerFails, At
<1>11. ASSUME NEW w \in Writer, Handler(w) PROVE SyncNext \/ UNCHANGED syncVars
  <2>1. CASE Store(w)
    <3>1. Head(job[w].todo) \in Update
      <4>1. job[w].todo \in Seq(Update) /\ job[w].todo # <<>>
        BY <2>1 DEF Store, RadioInv, RadioType, JobType
      <4> QED BY <4>1
    <3>2. Head(job[w].todo).key \in Key /\ Head(job[w].todo).value \in Value
      BY <3>1 DEF Update
    <3> QED BY <2>1, <3>2 DEF Store, SyncNext
  <2>2. CASE SendSync(w)
    BY <2>2 DEF SendSync, SyncNext
  <2>3. CASE Begin(w) \/ Reply(w)
    BY <2>3 DEF Begin, Reply
  <2> QED BY <1>11, <2>1, <2>2, <2>3 DEF Handler
<1>12. CASE UNCHANGED vars
  BY <1>12 DEF vars
<1> QED
  BY <1>1, <1>2, <1>3, <1>4, <1>5, <1>6, <1>7, <1>8, <1>9, <1>10, <1>11, <1>12
  DEF Next, TelCore, Mcl

\* The steps of a handler in MCL.
LEMMA HandlerStep ==
  ASSUME RadioInv, NEW w \in Writer, Handler(w)
  PROVE  RadioType'
<1>0. UNCHANGED <<asked, retries>>
  BY DEF Handler, Begin, Store, SendSync, Reply, mclVars, radioVars
<1>1. CASE Begin(w)
  <2>1. inbox[w] \in Seq(Request) /\ inbox[w] # <<>> /\ mcl["radio"] \in Value
    BY <1>1, Constants DEF Begin, RadioInv, RadioType, SyncTypeOK
  <2>2. Head(inbox[w]) \in Request /\ Tail(inbox[w]) \in Seq(Request)
    BY <2>1
  <2>3. Job(Head(inbox[w]), mcl["radio"]) \in JobType
    BY <2>1, <2>2, JobTypes
  <2> QED BY <1>0, <1>1, <2>2, <2>3 DEF Begin, RadioInv, RadioType
<1>2. CASE Store(w)
  <2>1. job[w].todo \in Seq(Update) /\ job[w].todo # <<>>
    BY <1>2 DEF Store, RadioInv, RadioType, JobType
  <2>2. Tail(job[w].todo) \in Seq(Update)
    BY <2>1
  <2>3. job' \in [Writer -> JobType]
    BY <1>2, <2>2 DEF Store, RadioInv, RadioType, JobType
  <2> QED BY <1>0, <1>2, <2>3 DEF Store, RadioInv, RadioType
<1>3. CASE SendSync(w)
  BY <1>3 DEF SendSync, radioVars, RadioInv, RadioType
<1>4. CASE Reply(w)
  <2>2. job' \in [Writer -> JobType]
    BY <1>4, JobTypes DEF Reply, RadioInv, RadioType
  <2>3. responses' \in Seq([op : Request, err : Error])
    <3>1. CASE job[w].op = "construct"
      BY <1>4, <3>1 DEF Reply, RadioInv, RadioType
    <3>2. CASE job[w].op # "construct"
      <4>1. job[w].op \in Request /\ job[w].err \in Error
        BY <1>4, <3>2 DEF Reply, RadioInv, RadioType, JobType
      <4>2. [op |-> job[w].op, err |-> job[w].err] \in [op : Request, err : Error]
        BY <4>1
      <4>3. responses' = Append(responses, [op |-> job[w].op, err |-> job[w].err])
        BY <1>4, <3>2 DEF Reply
      <4> QED BY <4>2, <4>3 DEF RadioInv, RadioType
    <3> QED BY <3>1, <3>2
  <2> QED BY <1>0, <1>4, <2>2, <2>3 DEF Reply, RadioInv, RadioType
<1> QED BY <1>1, <1>2, <1>3, <1>4 DEF Handler

\* What a handler finds out.
LEMMA CommandStep ==
  ASSUME RadioInv,
         \/ Construct \/ BootDone \/ ModemOffDone
         \/ \E on \in BOOLEAN : PowerDone(on)
         \/ \E op \in Request : PowerFails(op)
  PROVE  RadioType'
<1>0. UNCHANGED <<asked, retries, responses, inbox>>
  BY DEF Construct, BootDone, ModemOffDone, PowerDone, PowerFails, At, mclVars
<1>1. \E w \in Writer, todo \in Seq(Update), err \in Error : Finish(w, todo, err)
  <2> USE Constants DEF Error
  <2>1. CASE Construct
    BY <2>1, SetRadioType DEF Construct
  <2>2. CASE BootDone
    <3>1. \E todo \in {SetRadio("OFF"), <<Sync("power", "ON"), Sync("radio", "ON")>>, <<>>},
             err \in Error : Finish(Radio, todo, err)
      BY <2>2 DEF BootDone
    <3>2. <<>> \in Seq(Update)
      OBVIOUS
    <3> QED BY <3>1, <3>2, SetRadioType
  <2>3. CASE ModemOffDone
    BY <2>3, SetRadioType DEF ModemOffDone
  <2>4. ASSUME NEW on \in BOOLEAN, PowerDone(on)
        PROVE  \E w \in Writer, todo \in Seq(Update), err \in Error : Finish(w, todo, err)
    <3>1. modem' \in Value /\ Finish(Radio, SetRadio(modem'), "ok")
      BY <2>4 DEF PowerDone
    <3> QED BY <3>1, SetRadioType
  <2>5. ASSUME NEW op \in Request, PowerFails(op)
        PROVE  \E w \in Writer, todo \in Seq(Update), err \in Error : Finish(w, todo, err)
    <3>1. job[Radio].cur \in Value
      BY DEF RadioInv, RadioType, JobType
    <3>2. \E todo \in {SetRadio(job[Radio].cur), SetRadio("OFF"), SetRadio("ON"), <<>>},
             err \in Error : Finish(Radio, todo, err)
      BY <2>5 DEF PowerFails
    <3>3. <<>> \in Seq(Update)
      OBVIOUS
    <3> QED BY <3>1, <3>2, <3>3, SetRadioType
  <2> QED BY <2>1, <2>2, <2>3, <2>4, <2>5
<1>2. job' \in [Writer -> JobType]
  BY <1>1, FinishType DEF RadioInv, RadioType
<1> QED BY <1>0, <1>2 DEF RadioInv, RadioType

LEMMA RadioTypeStep == RadioInv /\ [Next]_vars => RadioType'
<1> SUFFICES ASSUME RadioInv, [Next]_vars PROVE RadioType'
  OBVIOUS
<1> USE Constants DEF telVars, mclVars
<1>1. CASE OnInit \/ SyncArrives \/ BootRequest \/ StartSwitch \/ SwitchFails \/ RequestModemOff
  BY <1>1 DEF RadioInv, RadioType, OnInit, SyncArrives, BootRequest, StartSwitch,
              SwitchFails, RequestModemOff
<1>2. ASSUME NEW request \in {"POWER_ON", "POWER_OFF"}, Ask(request) PROVE RadioType'
  BY <1>2 DEF RadioInv, RadioType, Ask
<1>3. CASE RequestRadioPower
  <2>1. Tail(asked) \in Seq({"POWER_ON", "POWER_OFF"})
    BY <1>3 DEF RadioInv, RadioType, RequestRadioPower
  <2> QED BY <1>3, <2>1 DEF RadioInv, RadioType, RequestRadioPower
<1>4. CASE Retry
  <2>1. Tail(retries) \in Seq(Request)
    BY <1>4 DEF RadioInv, RadioType, Retry
  <2> QED BY <1>4, <2>1 DEF RadioInv, RadioType, Retry
<1>5. CASE HandleResponse
  <2>1. /\ Head(responses) \in [op : Request, err : Error]
        /\ Tail(responses) \in Seq([op : Request, err : Error])
    <3>1. responses # <<>> /\ responses \in Seq([op : Request, err : Error])
      BY <1>5 DEF RadioInv, RadioType, HandleResponse
    <3> QED BY <3>1, HeadTail
  <2>2. Head(responses).op \in Request
    BY <2>1
  <2>3. retries' \in Seq(Request)
    <3>1. retries' = retries \/ retries' = Append(retries, Head(responses).op)
      BY <1>5 DEF HandleResponse
    <3>2. Append(retries, Head(responses).op) \in Seq(Request)
      BY <2>2 DEF RadioInv, RadioType
    <3> QED BY <3>1, <3>2 DEF RadioInv, RadioType
  <2>4. UNCHANGED <<asked, inbox, job>> /\ responses' = Tail(responses)
    BY <1>5 DEF HandleResponse
  <2> QED BY <2>1, <2>3, <2>4 DEF RadioInv, RadioType
<1>6. CASE Dispatch
  <2>1. inbox' \in [Writer -> Seq(Request)]
    <3>1. CASE UNCHANGED inbox
      BY <3>1 DEF RadioInv, RadioType
    <3>2. CASE inbox' # inbox
      <4>1. PICK r \in Request :
              inbox' = [inbox EXCEPT ![Channel(r)] = Append(inbox[Channel(r)], r)]
        BY <1>6, <3>2 DEF Dispatch
      <4>2. Channel(r) \in Writer
        BY DEF Channel
      <4>3. Append(inbox[Channel(r)], r) \in Seq(Request)
        BY <4>2 DEF RadioInv, RadioType
      <4> QED BY <4>1, <4>2, <4>3 DEF RadioInv, RadioType
    <3> QED BY <3>1, <3>2
  <2> QED BY <1>6, <2>1 DEF RadioInv, RadioType, Dispatch
<1>7. CASE UNCHANGED vars
  BY <1>7 DEF RadioInv, RadioType, vars, radioVars
<1> QED
  BY <1>1, <1>2, <1>3, <1>4, <1>5, <1>6, <1>7, HandlerStep, CommandStep
  DEF Next, TelCore, Mcl, Rilj

LEMMA InitRadio == Init => RadioInv
<1> SUFFICES ASSUME Init PROVE RadioInv
  OBVIOUS
<1>1. SyncTypeOK
  BY DEF Init, SyncInit, SyncTypeOK
<1>2. Job("construct", "OFF") \in JobType /\ NoJob \in JobType
  BY Constants, JobTypes
<1> QED BY <1>1, <1>2 DEF Init, RadioInv, RadioType

LEMMA RadioInvariant == Spec => []RadioInv
<1>1. Init => RadioInv
  BY InitRadio
<1>2. RadioInv /\ [Next]_vars => RadioInv'
  <2>1. RadioInv /\ [Next]_vars => SyncTypeOK'
    BY StepMaps, SyncTypeStep DEF RadioInv, RadioType
  <2> QED BY <2>1, RadioTypeStep DEF RadioInv, RadioType
<1> QED BY <1>1, <1>2, PTL DEF Spec

(* The radio state over the two copies is an instance of their protocol:   *)
(* the handlers, controllers, retries and the boot set keys and send       *)
(* requests only as RfxStatusManager and RfxMclStatusManager allow it.     *)
THEOREM RadioImplementsSync == Spec => ImplementsSync
<1>1. Init => SyncInit
  BY DEF Init
<1> QED BY <1>1, StepMaps, RadioInvariant, PTL DEF Spec, SyncSpec, ImplementsSync

(* So the copies of RADIO_STATE and REQUEST_RADIO_POWER agree when nothing *)
(* of them is on its way and no sets have crossed, however many requests   *)
(* RILJ makes and the modem refuses.                                       *)
THEOREM RadioCopiesAgree == Spec => []CopiesAgree
  BY RadioImplementsSync, CopiesAlwaysAgree, PTL DEF ImplementsSync

-----------------------------------------------------------------------------
(***************************************************************************)
(* Types: what is set of RADIO_STATE is a state of the radio, also before  *)
(* the first value of the controller has reached MCL.                      *)
(***************************************************************************)
Real == {"UNAVAILABLE", "OFF", "ON"}
Power == {"POWER_ON", "POWER_OFF"}
RealUpdate == {u \in Update : u.key = "radio" => u.value \in Real}
RealMessage == RealUpdate \cup [key : {NoKey}, value : Request]

\* Only a power request may be repeated.
MayRepeat(op, err) == err = "retry" => op \in Power
RealJob == {j \in [op : Request \cup {"none", "construct"}, at : BOOLEAN, cur : Real,
                   todo : Seq(RealUpdate), err : Error] : MayRepeat(j.op, j.err)}
RealAnswer == {a \in Answer : MayRepeat(a.op, a.err)}

QueueType ==
    /\ toMcl \in Seq(RealMessage)
    /\ stored \in [Writer -> {<<>>} \cup {<<u>> : u \in RealUpdate}]
    /\ syncQueue \in Seq(RealUpdate)
AnswerType ==
    /\ responses \in Seq(RealAnswer)
    /\ retries \in Seq(Power)
JobsType == job \in [Writer -> RealJob]
ViewType ==
    /\ told \in Real
    /\ Running => tel["radio"] # "UNSET"
SmallType ==
    /\ lock \in {"idle", "radio", "switch"}
    /\ modem \in {"OFF", "ON", "POWERED_OFF"}
    /\ once \subseteq {"init", "boot", "modemOff"}
    /\ requests \in 0..MaxRequests
    /\ faults \in 0..MaxFaults

\* The first value goes to MCL ahead of every request.
FirstValue ==
    /\ ~Running => toMcl = <<>>
    /\ mcl["radio"] = "UNSET" =>
         /\ \A w \in Writer : inbox[w] = <<>>
         /\ Running => toMcl # <<>> /\ Head(toMcl).key = "radio"

RealInv == QueueType /\ AnswerType /\ JobsType /\ ViewType /\ SmallType /\ FirstValue

LEMMA RealConstants ==
  /\ Power \subseteq Request /\ Real \subseteq Value
  /\ \A r \in Request : Carry(r) \in RealMessage /\ Carry(r).key = NoKey
  /\ NoKey # "radio" /\ NoKey # "power" /\ NoKey \notin Key
  /\ \A u \in RealUpdate : /\ u \in RealMessage /\ u \in Update
                           /\ u.key \in Key /\ u.value \in Value
                           /\ u.key = "radio" => u.value \in Real
                           /\ u = Sync(u.key, u.value)
  /\ \A m \in RealMessage : m.key \in Key => m \in RealUpdate
<1>1. Power \subseteq Request /\ Real \subseteq Value
  BY RadioAssumption DEF Power, Real
<1>2. ASSUME NEW r \in Request PROVE Carry(r) \in RealMessage /\ Carry(r).key = NoKey
  BY DEF Carry, RealMessage
<1>3. NoKey # "radio" /\ NoKey # "power" /\ NoKey \notin Key
  BY RadioAssumption
<1>4. ASSUME NEW u \in RealUpdate
      PROVE  /\ u \in RealMessage /\ u \in Update
             /\ u.key \in Key /\ u.value \in Value
             /\ u.key = "radio" => u.value \in Real
             /\ u = Sync(u.key, u.value)
  BY DEF RealMessage, RealUpdate, Update, Sync
<1>5. ASSUME NEW m \in RealMessage, m.key \in Key PROVE m \in RealUpdate
  BY <1>3, <1>5 DEF RealMessage
<1> QED BY <1>1, <1>2, <1>3, <1>4, <1>5

LEMMA SyncReal ==
  /\ \A v \in Real : Sync("radio", v) \in RealUpdate /\ Sync("radio", v) \in RealMessage
  /\ \A v \in {"ON", "OFF"} : Sync("power", v) \in RealUpdate /\ Sync("power", v) \in RealMessage
  /\ \A k, v : Sync(k, v).key = k /\ Sync(k, v).value = v
<1>1. \A k, v : Sync(k, v).key = k /\ Sync(k, v).value = v
  BY DEF Sync
<1>2. \A k \in Key, v \in Value : Sync(k, v) \in Update
  BY SyncUpdate
<1>3. \A v \in Real : Sync("radio", v) \in RealUpdate
  BY <1>1, <1>2, Constants, RealConstants DEF RealUpdate
<1>4. \A v \in {"ON", "OFF"} : Sync("power", v) \in RealUpdate
  BY <1>1, <1>2, Constants DEF RealUpdate
<1> QED BY <1>1, <1>3, <1>4 DEF RealMessage

LEMMA SeqSubset ==
  ASSUME NEW S, NEW T, S \subseteq T, NEW s \in Seq(S)
  PROVE  s \in Seq(T)
  OBVIOUS

LEMMA RealTypeOK == RadioInv /\ RealInv => TypeOK
<1> SUFFICES ASSUME RadioInv, RealInv PROVE TypeOK
  OBVIOUS
<1>1. retries \in Seq({"POWER_ON", "POWER_OFF"})
  BY DEF RealInv, AnswerType, Power
<1>2. responses \in Seq(Answer)
  <2>1. RealAnswer \subseteq Answer
    BY DEF RealAnswer
  <2> QED BY <2>1, SeqSubset DEF RealInv, AnswerType
<1>3. job \in [Writer -> [op : Request \cup {"none", "construct"}, at : BOOLEAN,
                          cur : {"UNAVAILABLE", "OFF", "ON"},
                          todo : Seq(Update), err : {"ok", "failed", "retry"}]]
  <2>1. RealUpdate \subseteq Update
    BY DEF RealUpdate
  <2>2. \A s \in Seq(RealUpdate) : s \in Seq(Update)
    BY <2>1, SeqSubset
  <2> QED BY <2>2 DEF RealInv, JobsType, RealJob, Real, Error
<1>4. told \in {"UNAVAILABLE", "OFF", "ON"}
  BY DEF RealInv, ViewType, Real
<1> QED
  BY <1>1, <1>2, <1>3, <1>4 DEF TypeOK, RadioInv, RadioType, RealInv, SmallType

LEMMA InitReal == Init => RealInv
<1> SUFFICES ASSUME Init PROVE RealInv
  OBVIOUS
<1>1. QueueType /\ AnswerType
  BY DEF Init, SyncInit, QueueType, AnswerType
<1>2. JobsType
  <2>1. NoJob \in RealJob /\ Job("construct", "OFF") \in RealJob
    BY DEF NoJob, Job, RealJob, Real, Error, MayRepeat
  <2> QED BY <2>1 DEF Init, JobsType
<1>3. ViewType /\ SmallType /\ FirstValue
  BY RadioAssumption DEF Init, SyncInit, ViewType, SmallType, FirstValue, Running, Real
<1> QED BY <1>1, <1>2, <1>3 DEF RealInv
LEMMA AppendHead ==
  ASSUME NEW S, NEW s \in Seq(S), NEW e \in S
  PROVE  /\ Append(s, e) \in Seq(S) /\ Append(s, e) # <<>>
         /\ Head(Append(s, e)) = IF s = <<>> THEN e ELSE Head(s)
<1>1. Len(s) \in Nat /\ (s = <<>> <=> Len(s) = 0)
  OBVIOUS
<1>2. /\ Append(s, e) \in Seq(S) /\ Append(s, e) # <<>>
      /\ Head(Append(s, e)) = Append(s, e)[1]
      /\ Append(s, e)[1] = IF Len(s) = 0 THEN e ELSE s[1]
  OBVIOUS
<1> QED BY <1>1, <1>2

\* What TelCore sends: the messages keep their types, and the first stays first.
LEMMA TelSetReal ==
  ASSUME QueueType,
         NEW k \in {"radio", "power"}, NEW v, Sync(k, v) \in RealMessage,
         NEW out \in {<<>>} \cup {<<Carry(r)>> : r \in Request}, TelSet(k, v, out)
  PROVE  /\ QueueType' /\ toMcl' # <<>>
         /\ Head(toMcl') = IF toMcl = <<>> THEN Sync(k, v) ELSE Head(toMcl)
<1> DEFINE s == Append(toMcl, Sync(k, v))
<1>1. /\ s \in Seq(RealMessage) /\ s # <<>>
      /\ Head(s) = IF toMcl = <<>> THEN Sync(k, v) ELSE Head(toMcl)
      /\ toMcl \o <<Sync(k, v)>> = s
  BY AppendHead DEF QueueType
<1>2. toMcl' = s \o out
  BY <1>1 DEF TelSet
<1> HIDE DEF s
<1>3. CASE out = <<>>
  <2>1. toMcl' = s
    BY <1>1, <1>2, <1>3
  <2> QED BY <1>1, <2>1 DEF QueueType, TelSet
<1>4. CASE out # <<>>
  <2>1. PICK r \in Request : out = <<Carry(r)>>
    BY <1>4
  <2>2. Carry(r) \in RealMessage
    BY RealConstants
  <2>3. toMcl' = Append(s, Carry(r))
    BY <1>1, <1>2, <2>1
  <2>4. toMcl' \in Seq(RealMessage) /\ toMcl' # <<>> /\ Head(toMcl') = Head(s)
    BY <1>1, <2>2, <2>3, AppendHead
  <2> QED BY <1>1, <2>4 DEF QueueType, TelSet
<1> QED BY <1>3, <1>4

LEMMA TelSendReal ==
  ASSUME QueueType, NEW r \in Request, TelSend(r)
  PROVE  /\ QueueType' /\ toMcl' # <<>>
         /\ toMcl # <<>> => Head(toMcl') = Head(toMcl)
<1>1. Carry(r) \in RealMessage
  BY RealConstants
<1> QED BY <1>1, AppendHead DEF TelSend, QueueType

\* A request of TelCore, or a value it sets, comes after the first value.
LEMMA FirstStays ==
  ASSUME FirstValue, Running, Running', UNCHANGED <<mcl, inbox>>,
         toMcl' # <<>>, toMcl # <<>> => Head(toMcl') = Head(toMcl)
  PROVE  FirstValue'
  BY DEF FirstValue

LEMMA OnceRunning ==
  ASSUME NEW step, Once(step), Running
  PROVE  Running'
  BY DEF Once, Running

LEMMA TelCoreReal ==
  ASSUME RadioInv, RealInv, TelCore
  PROVE  RealInv'
<1> USE DEF telVars
<1>1. CASE OnInit
  <2>1. ~Running /\ Running' /\ TelSet("radio", "UNAVAILABLE", <<>>)
    BY <1>1 DEF OnInit, Once, Running
  <2>2. Sync("radio", "UNAVAILABLE") \in RealMessage
    BY SyncReal DEF Real
  <2>3. QueueType' /\ toMcl' # <<>> /\ Head(toMcl') = Sync("radio", "UNAVAILABLE")
    BY <2>1, <2>2, TelSetReal DEF RealInv, FirstValue
  <2>4. tel'["radio"] = "UNAVAILABLE"
    BY <2>1, Constants DEF TelSet, RadioInv, SyncTypeOK
  <2>5. ViewType' /\ SmallType'
    BY <1>1, <2>4 DEF OnInit, Once, RealInv, ViewType, SmallType
  <2>6. FirstValue'
    BY <1>1, <2>1, <2>3, SyncReal DEF OnInit, TelSet, RealInv, FirstValue
  <2> QED BY <1>1, <2>3, <2>5, <2>6 DEF OnInit, RealInv, AnswerType, JobsType
<1>2. CASE SyncArrives
  <2>1. /\ syncQueue # <<>> /\ syncQueue \in Seq(RealUpdate) /\ syncQueue' = Tail(syncQueue)
        /\ tel' = [tel EXCEPT ![Head(syncQueue).key] = Head(syncQueue).value]
        /\ UNCHANGED <<mcl, toMcl, stored, crossed>>
    BY <1>2 DEF SyncArrives, TelApply, RealInv, QueueType
  <2> DEFINE u == Head(syncQueue)
  <2>2. u \in RealUpdate /\ Tail(syncQueue) \in Seq(RealUpdate)
    BY <2>1, HeadTail
  <2>3. QueueType'
    BY <2>1, <2>2 DEF RealInv, QueueType
  <2>4. Running' /\ Running
    BY <1>2 DEF SyncArrives, Running
  <2>5. u.key = "radio" => u.value \in Real
    BY <2>2, RealConstants
  <2> HIDE DEF u
  <2>6. ViewType'
    <3>1. tel'["radio"] = IF u.key = "radio" THEN u.value ELSE tel["radio"]
      BY <2>1, Constants DEF RadioInv, SyncTypeOK, u
    <3>2. told' \in {told, u.value} /\ (u.key # "radio" => told' = told)
      BY <1>2 DEF SyncArrives, ToldAfter, u
    <3> QED BY <2>4, <2>5, <3>1, <3>2 DEF RealInv, ViewType, Real
  <2>7. FirstValue'
    BY <1>2, <2>1, <2>4 DEF SyncArrives, RealInv, FirstValue
  <2> QED BY <1>2, <2>3, <2>6, <2>7 DEF SyncArrives, RealInv, AnswerType, JobsType, SmallType
<1>3. CASE RequestRadioPower /\ "modemOff" \notin once
  <2>1. Running /\ Running' /\ UNCHANGED <<mcl, inbox, told, once>>
    BY <1>3 DEF RequestRadioPower, Running, TelSet
  <2>2. Head(asked) \in Request
    BY <1>3, Constants DEF RequestRadioPower, RadioInv, RadioType
  <2>3. PICK v \in {"ON", "OFF"} : TelSet("power", v, <<Carry(Head(asked))>>)
    BY <1>3 DEF RequestRadioPower
  <2>4. Sync("power", v) \in RealMessage
    BY SyncReal
  <2>5. QueueType' /\ toMcl' # <<>> /\ (toMcl # <<>> => Head(toMcl') = Head(toMcl))
    BY <2>2, <2>3, <2>4, TelSetReal DEF RealInv
  <2>6. FirstValue'
    BY <2>1, <2>5, FirstStays DEF RealInv
  <2>7. ViewType'
    BY <2>1, <2>3, Constants DEF TelSet, RealInv, ViewType, RadioInv, SyncTypeOK
  <2> QED BY <1>3, <2>5, <2>6, <2>7 DEF RequestRadioPower, RealInv, AnswerType, JobsType, SmallType
<1>9. CASE RequestRadioPower /\ "modemOff" \in once
  BY <1>9 DEF RequestRadioPower, RealInv, AnswerType, JobsType, SmallType, QueueType, ViewType,
     FirstValue, Running, syncVars
<1>4. CASE BootRequest \/ RequestModemOff
  <2>1. PICK r \in Request : TelSend(r)
    BY <1>4, Constants DEF BootRequest, RequestModemOff
  <2>2. Running /\ Running' /\ UNCHANGED <<mcl, tel, inbox, told>>
    BY <1>4, <2>1, OnceRunning DEF BootRequest, RequestModemOff, TelSend
  <2>3. QueueType' /\ FirstValue'
    BY <2>1, <2>2, TelSendReal, FirstStays DEF RealInv
  <2>4. ViewType'
    BY <2>2 DEF RealInv, ViewType
  <2>5. faults' \in 0..MaxFaults
    BY <1>4, RadioAssumption DEF BootRequest, RequestModemOff, Fault, RealInv, SmallType
  <2>6. SmallType'
    BY <1>4, <2>5 DEF BootRequest, RequestModemOff, Once, RealInv, SmallType
  <2> QED BY <1>4, <2>3, <2>4, <2>6 DEF BootRequest, RequestModemOff, RealInv, AnswerType, JobsType
<1>5. CASE Retry
  <2>1. Head(retries) \in Power /\ Tail(retries) \in Seq(Power)
    BY <1>5, HeadTail DEF Retry, RealInv, AnswerType
  <2>2. Running /\ Running' /\ UNCHANGED <<mcl, tel, inbox, told>>
    BY <1>5 DEF Retry, Running, TelSend
  <2>3. QueueType' /\ FirstValue'
    BY <1>5, <2>1, <2>2, RealConstants, TelSendReal, FirstStays DEF Retry, RealInv
  <2>4. ViewType'
    BY <2>2 DEF RealInv, ViewType
  <2> QED BY <1>5, <2>1, <2>3, <2>4 DEF Retry, RealInv, AnswerType, JobsType, SmallType
<1>6. CASE HandleResponse
  <2>1. Head(responses) \in RealAnswer /\ Tail(responses) \in Seq(RealAnswer)
    BY <1>6, HeadTail DEF HandleResponse, RealInv, AnswerType
  <2>2. Head(responses).err = "retry" => Head(responses).op \in Power
    BY <2>1 DEF RealAnswer, MayRepeat
  <2>3. AnswerType'
    BY SMTT(30), <1>6, <2>1, <2>2 DEF HandleResponse, RealInv, AnswerType
  <2>4. SmallType'
    BY <1>6 DEF HandleResponse, RealInv, SmallType
  <2> QED BY <1>6, <2>3, <2>4 DEF HandleResponse, RealInv, QueueType, JobsType, ViewType,
             FirstValue, Running, syncVars
<1>7. CASE StartSwitch
  <2>1. /\ Running /\ Running' /\ UNCHANGED <<mcl, inbox, once>>
        /\ TelSet("radio", "UNAVAILABLE", <<>>)
    BY <1>7 DEF StartSwitch, Running, TelSet
  <2>2. Sync("radio", "UNAVAILABLE") \in RealMessage
    BY SyncReal DEF Real
  <2>3. QueueType' /\ toMcl' # <<>> /\ (toMcl # <<>> => Head(toMcl') = Head(toMcl))
    BY <2>1, <2>2, TelSetReal DEF RealInv
  <2>4. FirstValue'
    BY <2>1, <2>3, FirstStays DEF RealInv
  <2>5. tel'["radio"] = "UNAVAILABLE"
    BY <2>1, Constants DEF TelSet, RadioInv, SyncTypeOK
  <2>6. ViewType'
    <3>1. told' \in {told, "UNAVAILABLE"}
      BY <1>7 DEF StartSwitch, ToldAfter
    <3> QED BY <2>5, <3>1 DEF RealInv, ViewType, Real
  <2>7. SmallType'
    BY <1>7, RadioAssumption DEF StartSwitch, Fault, RealInv, SmallType
  <2> QED BY <1>7, <2>3, <2>4, <2>6, <2>7 DEF StartSwitch, RealInv, AnswerType, JobsType
<1>8. CASE SwitchFails
  BY <1>8 DEF SwitchFails, RealInv, QueueType, AnswerType, JobsType, ViewType, SmallType,
     FirstValue, Running, syncVars
<1> QED BY <1>1, <1>2, <1>3, <1>4, <1>5, <1>6, <1>7, <1>8, <1>9 DEF TelCore
\* What a handler has found out.
LEMMA FinishReal ==
  ASSUME JobsType, NEW w \in Writer, NEW todo \in Seq(RealUpdate), NEW err \in Error,
         err = "retry" => job[w].op \in Power, Finish(w, todo, err)
  PROVE  JobsType'
<1> DEFINE j == [job[w] EXCEPT !.at = FALSE, !.todo = todo, !.err = err]
<1>1. job' = [job EXCEPT ![w] = j]
  BY DEF Finish, JobsType, RealJob
<1>2. j \in RealJob
  BY DEF JobsType, RealJob, MayRepeat
<1> QED BY <1>1, <1>2 DEF JobsType

LEMMA SetRadioReal ==
  /\ <<>> \in Seq(RealUpdate)
  /\ \A v \in Real : SetRadio(v) \in Seq(RealUpdate)
  /\ <<Sync("power", "ON"), Sync("radio", "ON")>> \in Seq(RealUpdate)
<1>1. \A v \in Real : Sync("radio", v) \in RealUpdate
  BY SyncReal
<1>2. Sync("power", "ON") \in RealUpdate /\ Sync("radio", "ON") \in RealUpdate
  BY SyncReal DEF Real
<1>3. \A u \in RealUpdate : <<u>> \in Seq(RealUpdate)
  OBVIOUS
<1>4. \A u, v \in RealUpdate : <<u, v>> \in Seq(RealUpdate)
  OBVIOUS
<1> HIDE DEF RealUpdate
<1> QED BY <1>1, <1>2, <1>3, <1>4 DEF SetRadio

LEMMA CommandReal ==
  ASSUME RealInv,
         \/ Construct \/ BootDone \/ ModemOffDone
         \/ \E on \in BOOLEAN : PowerDone(on)
         \/ \E op \in Request : PowerFails(op)
  PROVE  RealInv'
<1>0. UNCHANGED <<syncVars, mclVars, inbox, responses>>
  BY DEF Construct, BootDone, ModemOffDone, PowerDone, PowerFails, At
<1>1. /\ JobsType' /\ modem' \in {"OFF", "ON", "POWERED_OFF"}
      /\ faults' \in 0..MaxFaults
  <2>0. modem \in {"OFF", "ON", "POWERED_OFF"} /\ faults \in 0..MaxFaults
    BY DEF RealInv, SmallType
  <2>f. ASSUME Fault PROVE faults' \in 0..MaxFaults
    BY <2>0, <2>f, RadioAssumption DEF Fault
  <2>1. CASE Construct \/ BootDone \/ ModemOffDone
    <3>1. \E w \in Writer, err \in {"ok", "failed"},
             todo \in {SetRadio("OFF"), <<Sync("power", "ON"), Sync("radio", "ON")>>, <<>>} :
             Finish(w, todo, err)
      BY <2>1, Constants DEF Construct, BootDone, ModemOffDone
    <3>2. JobsType'
      BY <3>1, SetRadioReal, FinishReal DEF RealInv, Error, Real
    <3>3. modem' \in {"OFF", "ON", "POWERED_OFF"}
      BY <2>0, <2>1 DEF Construct, BootDone, ModemOffDone
    <3>4. UNCHANGED faults \/ Fault
      BY <2>1 DEF Construct, BootDone, ModemOffDone
    <3> QED BY <2>0, <2>f, <3>2, <3>3, <3>4
  <2>2. ASSUME NEW on \in BOOLEAN, PowerDone(on)
        PROVE  /\ JobsType' /\ modem' \in {"OFF", "ON", "POWERED_OFF"}
               /\ faults' \in 0..MaxFaults
    <3>1. modem' \in {"ON", "OFF"} /\ Finish(Radio, SetRadio(modem'), "ok") /\ UNCHANGED faults
      BY <2>2 DEF PowerDone
    <3>2. JobsType'
      BY <3>1, SetRadioReal, FinishReal, Constants DEF RealInv, Error, Real
    <3> QED BY <2>0, <3>1, <3>2
  <2>3. ASSUME NEW op \in Request, PowerFails(op)
        PROVE  /\ JobsType' /\ modem' \in {"OFF", "ON", "POWERED_OFF"}
               /\ faults' \in 0..MaxFaults
    <3>1. job[Radio].cur \in Real
      BY Constants DEF RealInv, JobsType, RealJob
    <3>2. job[Radio].op \in Power
      BY <2>3 DEF PowerFails, At, Power
    <3>3. \E err \in Error,
             todo \in {SetRadio(job[Radio].cur), SetRadio("OFF"), SetRadio("ON"), <<>>} :
             Finish(Radio, todo, err)
      BY <2>3 DEF PowerFails, Error
    <3>4. JobsType'
      BY <3>1, <3>2, <3>3, SetRadioReal, FinishReal, Constants DEF RealInv, Real
    <3>5. UNCHANGED modem /\ (UNCHANGED faults \/ Fault)
      BY <2>3 DEF PowerFails
    <3> QED BY <2>0, <2>f, <3>4, <3>5
  <2> QED BY <2>1, <2>2, <2>3
<1> QED
  BY <1>0, <1>1 DEF RealInv, QueueType, AnswerType, ViewType, SmallType, FirstValue, Running,
     syncVars, mclVars

LEMMA HandlerReal ==
  ASSUME RadioInv, RealInv, NEW w \in Writer, Handler(w)
  PROVE  RealInv'
<1>0. UNCHANGED mclVars /\ UNCHANGED <<modem, faults>>
  BY DEF Handler, Begin, Store, SendSync, Reply, radioVars, mclVars
<1>1. SmallType'
  BY <1>0 DEF RealInv, SmallType, mclVars
<1>2. CASE Begin(w)
  <2>1. inbox[w] # <<>> /\ inbox[w] \in Seq(Request)
    BY <1>2 DEF Begin, RadioInv, RadioType
  <2>2. Head(inbox[w]) \in Request
    BY <2>1
  <2>3. mcl["radio"] # "UNSET"
    BY <2>1 DEF RealInv, FirstValue
  <2>4. mcl["radio"] \in Real
    BY <2>3, Constants, RadioAssumption DEF RadioInv, SyncTypeOK, Real
  <2>5. Job(Head(inbox[w]), mcl["radio"]) \in RealJob
    BY <2>2, <2>4 DEF Job, RealJob, Error, MayRepeat
  <2>6. JobsType'
    BY <1>2, <2>5 DEF Begin, RealInv, JobsType
  <2>7. FirstValue'
    BY <1>0, <1>2, <2>3 DEF Begin, syncVars, mclVars, RealInv, FirstValue, Running
  <2> QED BY <1>0, <1>1, <1>2, <2>6, <2>7 DEF Begin, syncVars, mclVars, RealInv, QueueType,
          AnswerType, ViewType, Running
<1>3. CASE Store(w)
  <2> DEFINE u == Head(job[w].todo)
  <2>1. job[w] \in RealJob /\ job[w].todo # <<>>
    BY <1>3 DEF Store, RealInv, JobsType
  <2>2. u \in RealUpdate /\ Tail(job[w].todo) \in Seq(RealUpdate)
    BY <2>1, HeadTail DEF RealJob
  <2>3. MclStore(w, u.key, u.value)
    BY <1>3 DEF Store
  <2> HIDE DEF u
  <2>4. u = Sync(u.key, u.value) /\ (u.key = "radio" => u.value \in Real)
    BY <2>2, RealConstants
  <2>5. QueueType'
    BY <2>2, <2>3, <2>4 DEF MclStore, RealInv, QueueType
  <2>6. [job[w] EXCEPT !.todo = Tail(job[w].todo)] \in RealJob
    BY <2>1, <2>2 DEF RealJob, MayRepeat
  <2>7. JobsType'
    BY <1>3, <2>6 DEF Store, RealInv, JobsType
  <2>8. FirstValue'
    <3>1. UNCHANGED <<toMcl, inbox>> /\ (Running' <=> Running)
      BY <1>0, <1>3, <2>3 DEF Store, MclStore, mclVars, Running
    <3>2. mcl'["radio"] = "UNSET" => mcl["radio"] = "UNSET"
      BY <2>3, <2>4, Constants DEF MclStore, RadioInv, SyncTypeOK, Real
    <3> QED BY <3>1, <3>2 DEF RealInv, FirstValue
  <2> QED BY <1>0, <1>1, <1>3, <2>3, <2>5, <2>7, <2>8 DEF Store, MclStore, mclVars, RealInv,
          AnswerType, ViewType, Running
<1>4. CASE SendSync(w)
  <2>1. PICK u \in RealUpdate : stored[w] = <<u>>
    BY <1>4 DEF SendSync, MclSend, RealInv, QueueType
  <2>2. syncQueue' = Append(syncQueue, u)
    BY <1>4, <2>1 DEF SendSync, MclSend, RealInv, QueueType
  <2>3. QueueType'
    BY <1>4, <2>1, <2>2 DEF SendSync, MclSend, RealInv, QueueType
  <2> QED BY <1>0, <1>1, <1>4, <2>3 DEF SendSync, MclSend, radioVars, mclVars, RealInv,
          AnswerType, ViewType, JobsType, FirstValue, Running
<1>5. CASE Reply(w)
  <2>1. NoJob \in RealJob
    BY DEF NoJob, RealJob, Error, Real, MayRepeat
  <2>2. JobsType'
    BY <1>5, <2>1 DEF Reply, RealInv, JobsType
  <2>3. AnswerType'
    <3>1. CASE job[w].op = "construct"
      BY <1>0, <1>5, <3>1 DEF Reply, mclVars, RealInv, AnswerType
    <3>2. CASE job[w].op # "construct"
      <4>1. [op |-> job[w].op, err |-> job[w].err] \in RealAnswer
        BY <1>5, <3>2 DEF Reply, RealInv, JobsType, RealJob, RealAnswer, Answer, Error, MayRepeat
      <4>2. responses' = Append(responses, [op |-> job[w].op, err |-> job[w].err])
        BY <1>5, <3>2 DEF Reply
      <4> QED BY <1>0, <4>1, <4>2, AppendHead DEF mclVars, RealInv, AnswerType
    <3> QED BY <3>1, <3>2
  <2> QED BY <1>0, <1>1, <1>5, <2>2, <2>3 DEF Reply, syncVars, mclVars, RealInv, QueueType,
          ViewType, FirstValue, Running
<1> QED BY <1>2, <1>3, <1>4, <1>5 DEF Handler

LEMMA DispatchReal ==
  ASSUME RadioInv, RealInv, Dispatch
  PROVE  RealInv'
<1>1. /\ toMcl # <<>> /\ toMcl' = Tail(toMcl) /\ UNCHANGED <<tel, stored, syncQueue>>
      /\ UNCHANGED <<mclVars, responses, job, modem, faults>>
  BY DEF Dispatch, MclApply, MclTake
<1>2. Head(toMcl) \in RealMessage /\ Tail(toMcl) \in Seq(RealMessage)
  BY <1>1, HeadTail DEF RealInv, QueueType
<1>3. QueueType'
  BY <1>1, <1>2 DEF RealInv, QueueType
<1>4. Running /\ Running'
  BY <1>1 DEF RealInv, FirstValue, mclVars, Running
<1>5. mcl'["radio"] # "UNSET"
  <2>1. CASE MclApply /\ UNCHANGED inbox
    <3>1. Head(toMcl) \in RealUpdate
      BY <1>2, <2>1, RealConstants DEF MclApply
    <3>2. mcl'["radio"] = IF Head(toMcl).key = "radio" THEN Head(toMcl).value ELSE mcl["radio"]
      BY <2>1, Constants DEF MclApply, RadioInv, SyncTypeOK
    <3>3. Head(toMcl).key = "radio" => Head(toMcl).value \in Real
      BY <3>1, RealConstants
    <3> QED BY <1>4, <3>2, <3>3 DEF RealInv, FirstValue, Real
  <2>2. ASSUME NEW r \in Request, MclTake(r) PROVE mcl'["radio"] # "UNSET"
    <3>1. Head(toMcl).key = NoKey /\ UNCHANGED mcl
      BY <2>2 DEF MclTake, Carry
    <3> QED BY <1>4, <3>1, RealConstants DEF RealInv, FirstValue
  <2> QED BY <2>1, <2>2 DEF Dispatch
<1> QED BY <1>1, <1>3, <1>4, <1>5 DEF mclVars, RealInv, AnswerType, ViewType, SmallType,
        JobsType, FirstValue

LEMMA RealStep == RadioInv /\ RealInv /\ [Next]_vars => RealInv'
<1> SUFFICES ASSUME RadioInv, RealInv, [Next]_vars PROVE RealInv'
  OBVIOUS
<1>1. CASE Rilj
  <2>1. PICK request \in {"POWER_ON", "POWER_OFF"} : Ask(request)
    BY <1>1 DEF Rilj
  <2>2. requests' \in 0..MaxRequests
    BY <2>1, RadioAssumption DEF Ask, RealInv, SmallType
  <2> QED BY <2>1, <2>2 DEF Ask, syncVars, RealInv, QueueType, AnswerType, ViewType, SmallType,
             JobsType, FirstValue, Running
<1>2. CASE UNCHANGED vars
  BY <1>2 DEF vars, syncVars, radioVars, RealInv, QueueType, AnswerType, ViewType, SmallType,
     JobsType, FirstValue, Running
<1> QED BY <1>1, <1>2, TelCoreReal, DispatchReal, CommandReal, HandlerReal DEF Next, Mcl

LEMMA RealInvariant == Spec => [](RadioInv /\ RealInv)
<1> DEFINE I == RadioInv /\ RealInv
<1>1. Spec => []RadioInv
  BY RadioInvariant
<1>2. Init => RealInv
  BY InitReal
<1>3. RadioInv /\ RealInv /\ [Next]_vars => RealInv'
  BY RealStep
<1> QED BY <1>1, <1>2, <1>3, PTL DEF Spec

(* No handler reads or sets a state of the radio that there is not: the    *)
(* first value of the controller is in MCL before the first request, and   *)
(* from then on only states of the radio are set, told and repeated, for   *)
(* any number of requests, faults and repetitions.                         *)
THEOREM RadioTypeCorrect == Spec => []TypeOK
  BY RealInvariant, RealTypeOK, PTL
-----------------------------------------------------------------------------
(***************************************************************************)
(* What RILJ believes.                                                     *)
(***************************************************************************)
\* The radio is on, and RILJ has not been told: an ON nobody asked for.
Behind == tel["radio"] = "ON" /\ told = "OFF"
Knows == IF Running THEN told = tel["radio"] \/ Behind ELSE told = "UNAVAILABLE"

LEMMA InitKnows == Init => Knows
  BY DEF Init, Knows, Running

\* onRadioStateChanged keeps back nothing but an ON.
LEMMA ToldKnows ==
  ASSUME RealInv, Knows, Running, Running',
         NEW v \in Real, tel'["radio"] = v, told' = ToldAfter(tel["radio"], v)
  PROVE  Knows'
<1>1. told \in Real /\ tel["radio"] # "UNSET" /\ (told = tel["radio"] \/ Behind)
  BY DEF RealInv, ViewType, Knows
<1>2. CASE told' = v
  BY <1>2 DEF Knows
<1>3. CASE told' = told /\ v = tel["radio"]
  BY <1>1, <1>3 DEF Knows, Behind
<1>4. CASE told' = told /\ v = "ON" /\ tel["radio"] # "UNAVAILABLE"
  <2>1. told' \in {"ON", "OFF"}
    BY <1>1, <1>4 DEF Behind, Real
  <2> QED BY <1>4, <2>1 DEF Knows, Behind
<1> QED BY <1>2, <1>3, <1>4 DEF ToldAfter

LEMMA KnowsStep == RadioInv /\ RealInv /\ Knows /\ [Next]_vars => Knows'
<1> SUFFICES ASSUME RadioInv, RealInv, Knows, [Next]_vars PROVE Knows'
  OBVIOUS
<1> USE Constants
<1>0. tel \in [Key -> Value]
  BY DEF RadioInv, SyncTypeOK
<1>1. CASE OnInit
  <2>1. ~Running /\ Running' /\ told' = told /\ TelSet("radio", "UNAVAILABLE", <<>>)
    BY <1>1 DEF OnInit, Once, Running
  <2>2. tel'["radio"] = "UNAVAILABLE"
    BY <1>0, <2>1 DEF TelSet
  <2> QED BY <2>1, <2>2 DEF Knows
<1>2. CASE SyncArrives
  <2> DEFINE u == Head(syncQueue)
  <2>1. /\ syncQueue # <<>> /\ Running /\ Running'
        /\ tel' = [tel EXCEPT ![u.key] = u.value]
        /\ told' = IF u.key = "radio" THEN ToldAfter(tel["radio"], u.value) ELSE told
    BY <1>2 DEF SyncArrives, TelApply, Running
  <2>2. u \in RealUpdate
    BY <2>1, HeadTail DEF RealInv, QueueType
  <2>3. u.key = "radio" => u.value \in Real
    BY <2>2, RealConstants
  <2> HIDE DEF u
  <2>4. CASE u.key = "radio"
    <3>1. tel'["radio"] = u.value /\ told' = ToldAfter(tel["radio"], u.value)
      BY <1>0, <2>1, <2>4
    <3> QED BY <2>1, <2>3, <2>4, <3>1, ToldKnows
  <2>5. CASE u.key # "radio"
    <3>1. tel'["radio"] = tel["radio"] /\ told' = told
      BY <1>0, <2>1, <2>5
    <3> QED BY <2>1, <3>1 DEF Knows, Behind
  <2> QED BY <2>4, <2>5
<1>3. CASE StartSwitch
  <2>1. /\ Running /\ Running' /\ TelSet("radio", "UNAVAILABLE", <<>>)
        /\ told' = ToldAfter(tel["radio"], "UNAVAILABLE")
    BY <1>3 DEF StartSwitch, Running
  <2>2. tel'["radio"] = "UNAVAILABLE"
    BY <1>0, <2>1 DEF TelSet
  <2> QED BY <2>1, <2>2, ToldKnows DEF Real
<1>4. CASE \/ RequestRadioPower \/ BootRequest \/ Retry \/ HandleResponse \/ SwitchFails
           \/ RequestModemOff
  <2>1. Running /\ Running' /\ told' = told
    BY <1>4, OnceRunning DEF RequestRadioPower, BootRequest, Retry, HandleResponse, SwitchFails,
       RequestModemOff, Running
  <2>2. tel'["radio"] = tel["radio"]
    BY <1>0, <1>4 DEF RequestRadioPower, BootRequest, Retry, HandleResponse, SwitchFails,
       RequestModemOff, TelSet, TelSend, syncVars
  <2> QED BY <2>1, <2>2 DEF Knows, Behind
<1>5. CASE Mcl \/ Rilj \/ UNCHANGED vars
  <2>1. UNCHANGED <<tel, told, once>>
    <3>1. CASE Dispatch
      BY <3>1 DEF Dispatch, MclApply, MclTake, mclVars
    <3>2. CASE \/ Construct \/ BootDone \/ ModemOffDone
               \/ \E on \in BOOLEAN : PowerDone(on)
               \/ \E op \in Request : PowerFails(op)
      BY <3>2 DEF Construct, BootDone, ModemOffDone, PowerDone, PowerFails, At, syncVars, mclVars
    <3>3. CASE \E w \in Writer : Handler(w)
      BY <3>3 DEF Handler, Begin, Store, SendSync, Reply, MclStore, MclSend, syncVars, mclVars,
         radioVars
    <3>4. CASE Rilj \/ UNCHANGED vars
      BY <3>4 DEF Rilj, Ask, vars, syncVars, radioVars
    <3> QED BY <1>5, <3>1, <3>2, <3>3, <3>4 DEF Mcl
  <2> QED BY <2>1 DEF Knows, Behind, Running
<1> QED BY <1>1, <1>2, <1>3, <1>4, <1>5 DEF Next, TelCore

-----------------------------------------------------------------------------
(***************************************************************************)
(* The way of a value to TelCore, in its order: the looper of MCL, the     *)
(* queue of the radio channel, its handler, what the handler has still to  *)
(* set, what it has set and not sent, dispatchStatusSyncQueue.             *)
(***************************************************************************)
Off == Sync("radio", "OFF")
On == Sync("radio", "ON")
Meant == Sync("power", "ON")

In(x, s) == \E i \in 1..Len(s) : s[i] = x

\* Behind every x there is a y.
Followed(x, y, s) == \A i \in 1..Len(s) : s[i] = x => \E j \in 1..Len(s) : j > i /\ s[j] = y

\* RILJ is told of every ON, or it is not the last one.
Fits(q) ==
    \A i \in 1..Len(q) : q[i] = On =>
        \/ \E j \in 1..Len(q) : j > i /\ q[j] = Off
        \/ \E j \in 1..Len(q) : j < i /\ q[j] = Meant

LEMMA InAppend ==
  ASSUME NEW S, NEW s \in Seq(S), NEW e \in S, NEW x
  PROVE  In(x, Append(s, e)) <=> In(x, s) \/ x = e
<1> DEFINE t == Append(s, e)
<1>1. /\ Len(s) \in Nat /\ Len(t) = Len(s) + 1 /\ t[Len(s) + 1] = e
      /\ \A i \in 1..Len(s) : t[i] = s[i]
  BY AppendIs
<1> HIDE DEF t
<1>2. /\ \A i \in 1..Len(t) : i = Len(s) + 1 \/ i \in 1..Len(s)
      /\ Len(s) + 1 \in 1..Len(t) /\ \A i \in 1..Len(s) : i \in 1..Len(t)
  BY <1>1
<1>3. In(x, t) => In(x, s) \/ x = e
  BY <1>1, <1>2 DEF In
<1>4. In(x, s) \/ x = e => In(x, t)
  BY <1>1, <1>2 DEF In
<1> QED BY <1>3, <1>4 DEF t

LEMMA InShort ==
  ASSUME NEW x
  PROVE  /\ ~In(x, <<>>)
         /\ \A u : In(x, <<u>>) <=> x = u
         /\ \A u, v : In(x, <<u, v>>) <=> x = u \/ x = v
<1>1. ~In(x, <<>>)
  BY DEF In
<1>2. \A u : In(x, <<u>>) <=> x = u
  BY DEF In
<1>3. ASSUME NEW u, NEW v PROVE In(x, <<u, v>>) <=> x = u \/ x = v
  <2>1. Len(<<u, v>>) = 2 /\ <<u, v>>[1] = u /\ <<u, v>>[2] = v
    OBVIOUS
  <2>2. 1..2 = {1, 2}
    OBVIOUS
  <2> QED BY <2>1, <2>2 DEF In
<1> QED BY <1>1, <1>2, <1>3

LEMMA TailIs ==
  ASSUME NEW S, NEW s \in Seq(S), s # <<>>
  PROVE  /\ Len(s) \in Nat /\ Len(s) >= 1 /\ Len(Tail(s)) = Len(s) - 1 /\ Head(s) = s[1]
         /\ \A i \in 1..Len(Tail(s)) : i + 1 \in 1..Len(s) /\ Tail(s)[i] = s[i + 1]
         /\ \A i \in 1..Len(s) : i = 1 \/ (i - 1 \in 1..Len(Tail(s)) /\ Tail(s)[i - 1] = s[i])
<1> DEFINE t == Tail(s)
<1>1. /\ Len(s) \in Nat /\ Len(s) >= 1 /\ Len(t) = Len(s) - 1 /\ Head(s) = s[1]
      /\ \A i \in 1..Len(t) : t[i] = s[i + 1]
  OBVIOUS
<1> HIDE DEF t
<1>2. \A i \in 1..Len(s) : i = 1 \/ (i - 1 \in 1..Len(t) /\ t[i - 1] = s[i])
  BY <1>1
<1>3. \A i \in 1..Len(t) : i + 1 \in 1..Len(s)
  BY <1>1
<1> QED BY <1>1, <1>2, <1>3 DEF t

LEMMA InTail ==
  ASSUME NEW S, NEW s \in Seq(S), s # <<>>, NEW x
  PROVE  In(x, s) <=> x = Head(s) \/ In(x, Tail(s))
<1>1. ASSUME In(x, s), x # Head(s) PROVE In(x, Tail(s))
  <2>1. PICK i \in 1..Len(s) : s[i] = x
    BY <1>1 DEF In
  <2>2. i - 1 \in 1..Len(Tail(s)) /\ Tail(s)[i - 1] = x
    BY <1>1, <2>1, TailIs
  <2> QED BY <2>2 DEF In
<1>2. ASSUME In(x, Tail(s)) PROVE In(x, s)
  <2>1. PICK i \in 1..Len(Tail(s)) : Tail(s)[i] = x
    BY <1>2 DEF In
  <2>2. i + 1 \in 1..Len(s) /\ s[i + 1] = x
    BY <2>1, TailIs
  <2> QED BY <2>2 DEF In
<1>3. x = Head(s) => In(x, s)
  <2>1. 1 \in 1..Len(s) /\ Head(s) = s[1]
    BY TailIs
  <2> QED BY <2>1 DEF In
<1> QED BY <1>1, <1>2, <1>3

LEMMA FollowedAppend ==
  ASSUME NEW S, NEW s \in Seq(S), NEW e \in S, NEW x, NEW y, x # y
  PROVE  /\ Followed(x, y, s) /\ e # x => Followed(x, y, Append(s, e))
         /\ e = y => Followed(x, y, Append(s, e))
<1> DEFINE t == Append(s, e)
<1>1. /\ Len(s) \in Nat /\ Len(t) = Len(s) + 1 /\ t[Len(s) + 1] = e
      /\ \A i \in 1..Len(s) : t[i] = s[i]
  BY AppendIs
<1> HIDE DEF t
<1>2. /\ \A i \in 1..Len(t) : i = Len(s) + 1 \/ i \in 1..Len(s)
      /\ Len(s) + 1 \in 1..Len(t) /\ \A i \in 1..Len(s) : i \in 1..Len(t)
      /\ \A i \in 1..Len(s) : Len(s) + 1 > i
  BY <1>1
<1>3. Followed(x, y, s) /\ e # x => Followed(x, y, t)
  BY <1>1, <1>2 DEF Followed
<1>4. e = y => Followed(x, y, t)
  BY <1>1, <1>2 DEF Followed
<1> QED BY <1>3, <1>4 DEF t

LEMMA FollowedTail ==
  ASSUME NEW S, NEW s \in Seq(S), s # <<>>, NEW x, NEW y, Followed(x, y, s)
  PROVE  /\ Followed(x, y, Tail(s))
         /\ x = Head(s) => In(y, Tail(s))
<1> DEFINE t == Tail(s)
<1>1. /\ Len(s) \in Nat /\ Len(s) >= 1 /\ Len(t) = Len(s) - 1 /\ Head(s) = s[1]
      /\ \A i \in 1..Len(t) : i + 1 \in 1..Len(s) /\ t[i] = s[i + 1]
      /\ \A i \in 1..Len(s) : i = 1 \/ (i - 1 \in 1..Len(t) /\ t[i - 1] = s[i])
  BY TailIs
<1> HIDE DEF t
<1>2. ASSUME NEW i \in 1..Len(t), t[i] = x PROVE \E j \in 1..Len(t) : j > i /\ t[j] = y
  <2>1. PICK j \in 1..Len(s) : j > i + 1 /\ s[j] = y
    BY <1>1, <1>2 DEF Followed
  <2>2. j # 1 /\ j - 1 > i
    BY <1>1, <2>1
  <2> QED BY <1>1, <2>1, <2>2
<1>3. ASSUME x = Head(s) PROVE In(y, t)
  <2>1. 1 \in 1..Len(s) /\ s[1] = x
    BY <1>1, <1>3
  <2>2. PICK j \in 1..Len(s) : j > 1 /\ s[j] = y
    BY <2>1 DEF Followed
  <2>3. j # 1
    BY <2>2
  <2> QED BY <1>1, <2>2, <2>3 DEF In
<1> QED BY <1>2, <1>3 DEF Followed, t

LEMMA FitsAppend ==
  ASSUME NEW S, NEW s \in Seq(S), NEW e \in S
  PROVE  /\ Fits(s) /\ (e = On => In(Meant, s)) => Fits(Append(s, e))
         /\ e = Off => Fits(Append(s, e))
<1> DEFINE t == Append(s, e)
<1>0. On # Off /\ On # Meant /\ Off # Meant
  BY DEF On, Off, Meant, Sync
<1>1. /\ Len(s) \in Nat /\ Len(t) = Len(s) + 1 /\ t[Len(s) + 1] = e
      /\ \A i \in 1..Len(s) : t[i] = s[i]
  BY AppendIs
<1> HIDE DEF t
<1>2. /\ \A i \in 1..Len(t) : i = Len(s) + 1 \/ i \in 1..Len(s)
      /\ Len(s) + 1 \in 1..Len(t) /\ \A i \in 1..Len(s) : i \in 1..Len(t)
      /\ \A i \in 1..Len(s) : Len(s) + 1 > i /\ i < Len(s) + 1
  BY <1>1
<1> HIDE DEF On, Off, Meant
<1>3. ASSUME Fits(s), e = On => In(Meant, s) PROVE Fits(t)
  <2> SUFFICES ASSUME NEW i \in 1..Len(t), t[i] = On
               PROVE  \/ \E j \in 1..Len(t) : j > i /\ t[j] = Off
                      \/ \E j \in 1..Len(t) : j < i /\ t[j] = Meant
    BY DEF Fits
  <2>1. CASE i = Len(s) + 1
    <3>1. PICK j \in 1..Len(s) : s[j] = Meant
      BY <1>1, <1>3, <2>1 DEF In
    <3> QED BY <1>1, <1>2, <2>1, <3>1
  <2>2. CASE i \in 1..Len(s)
    <3>0. s[i] = On
      BY <1>1, <2>2
    <3>1. \/ \E j \in 1..Len(s) : j > i /\ s[j] = Off
          \/ \E j \in 1..Len(s) : j < i /\ s[j] = Meant
      BY <1>3, <2>2, <3>0 DEF Fits
    <3> QED BY <1>1, <1>2, <3>1
  <2> QED BY <1>2, <2>1, <2>2
<1>4. ASSUME e = Off PROVE Fits(t)
  BY <1>0, <1>1, <1>2, <1>4 DEF Fits
<1> QED BY <1>3, <1>4 DEF t

LEMMA FitsTail ==
  ASSUME NEW S, NEW s \in Seq(S), s # <<>>, Fits(s)
  PROVE  /\ Head(s) # Meant => Fits(Tail(s))
         /\ Head(s) = On => In(Off, Tail(s))
<1> DEFINE t == Tail(s)
<1>1. /\ Len(s) \in Nat /\ Len(s) >= 1 /\ Len(t) = Len(s) - 1 /\ Head(s) = s[1]
      /\ \A i \in 1..Len(t) : i + 1 \in 1..Len(s) /\ t[i] = s[i + 1]
      /\ \A i \in 1..Len(s) : i = 1 \/ (i - 1 \in 1..Len(t) /\ t[i - 1] = s[i])
  BY TailIs
<1> HIDE DEF t
<1>2. ASSUME Head(s) # Meant, NEW i \in 1..Len(t), t[i] = On
      PROVE  \/ \E j \in 1..Len(t) : j > i /\ t[j] = Off
             \/ \E j \in 1..Len(t) : j < i /\ t[j] = Meant
  <2>0. i + 1 \in 1..Len(s) /\ s[i + 1] = On
    BY <1>1, <1>2
  <2>1. \/ \E j \in 1..Len(s) : j > i + 1 /\ s[j] = Off
        \/ \E j \in 1..Len(s) : j < i + 1 /\ s[j] = Meant
    BY <2>0 DEF Fits
  <2>2. ASSUME NEW j \in 1..Len(s), j > i + 1, s[j] = Off
        PROVE  \E n \in 1..Len(t) : n > i /\ t[n] = Off
    <3>1. j - 1 \in 1..Len(t) /\ t[j - 1] = Off /\ j - 1 > i
      BY <1>1, <2>2
    <3> QED BY <3>1
  <2>3. ASSUME NEW j \in 1..Len(s), j < i + 1, s[j] = Meant
        PROVE  \E n \in 1..Len(t) : n < i /\ t[n] = Meant
    <3>1. j # 1
      BY <1>1, <1>2, <2>3
    <3>2. j - 1 \in 1..Len(t) /\ t[j - 1] = Meant /\ j - 1 < i
      BY <1>1, <2>3, <3>1
    <3> QED BY <3>2
  <2> QED BY <2>1, <2>2, <2>3
<1>3. ASSUME On = Head(s) PROVE In(Off, t)
  <2>1. 1 \in 1..Len(s) /\ s[1] = On
    BY <1>1, <1>3
  <2>2. \/ \E j \in 1..Len(s) : j > 1 /\ s[j] = Off
        \/ \E j \in 1..Len(s) : j < 1 /\ s[j] = Meant
    BY <2>1 DEF Fits
  <2>3. PICK j \in 1..Len(s) : j # 1 /\ s[j] = Off
    BY <2>2
  <2> QED BY <1>1, <2>2, <2>3 DEF In
<1> QED BY <1>2, <1>3 DEF Fits, t
\* As long as nothing has failed, only these are set.
Loyal == {On, Off, Meant}
Smooth ==
    /\ syncQueue \in Seq(Loyal)
    /\ stored[Radio] \in {<<>>, <<On>>, <<Off>>, <<Meant>>}
    /\ job[Radio].todo \in {<<>>, <<On>>, <<Off>>, <<Meant, On>>}
    /\ job[Radio].at => job[Radio].todo = <<>>
    /\ job[Radio].err # "retry"
    /\ job[Modem] = NoJob /\ inbox[Modem] = <<>> /\ stored[Modem] = <<>>
    /\ ~In(Carry("MODEM_OFF"), toMcl)
    /\ modem # "POWERED_OFF"
    /\ retries = <<>>
    /\ responses \in Seq({a \in Answer : a.err # "retry"})

LEMMA UpdatesApart ==
  /\ On # Off /\ On # Meant /\ Off # Meant
  /\ On.key = "radio" /\ On.value = "ON"
  /\ Off.key = "radio" /\ Off.value = "OFF"
  /\ Meant.key = "power" /\ Meant.value = "ON"
  /\ \A r, k, v : k # NoKey => Carry(r) # Sync(k, v)
  /\ \A r, s : Carry(r) = Carry(s) <=> r = s
  BY DEF On, Off, Meant, Sync, Carry

LEMMA FaultsGrow ==
  ASSUME RealInv, [Next]_vars, faults' = 0
  PROVE  faults = 0
<1>1. faults \in Nat
  BY RadioAssumption DEF RealInv, SmallType
<1>2. faults' = faults \/ Fault
  <2>1. CASE TelCore
    BY <2>1 DEF TelCore, OnInit, SyncArrives, RequestRadioPower, BootRequest, Retry,
       HandleResponse, StartSwitch, SwitchFails, RequestModemOff, telVars
  <2>2. CASE Mcl
    BY <2>2 DEF Mcl, Dispatch, Construct, PowerDone, PowerFails, BootDone, ModemOffDone,
       Handler, Begin, Store, SendSync, Reply, radioVars
  <2>3. CASE Rilj \/ UNCHANGED vars
    BY <2>3 DEF Rilj, Ask, vars, radioVars
  <2> QED BY <2>1, <2>2, <2>3 DEF Next
<1> QED BY <1>1, <1>2 DEF Fault

LEMMA InitSmooth == Init => Smooth
<1> SUFFICES ASSUME Init PROVE Smooth
  OBVIOUS
<1>1. ~In(Carry("MODEM_OFF"), <<>>)
  BY InShort
<1> QED BY <1>1, Constants, RadioAssumption DEF Init, SyncInit, Smooth, Job, NoJob

LEMMA SmoothTelSet ==
  ASSUME RadioInv, RealInv, ~In(Carry("MODEM_OFF"), toMcl),
         NEW k \in {"radio", "power"}, NEW v \in Value,
         NEW out \in {<<>>, <<Carry("POWER_ON")>>, <<Carry("POWER_OFF")>>}, TelSet(k, v, out)
  PROVE  ~In(Carry("MODEM_OFF"), toMcl')
<1> DEFINE s == Append(toMcl, Sync(k, v))
<1>1. toMcl \in Seq(Message) /\ Sync(k, v) \in Message
  BY Constants, SyncUpdate, UpdateType DEF RadioInv, SyncTypeOK
<1>2. s \in Seq(Message) /\ toMcl \o <<Sync(k, v)>> = s
  BY <1>1, AppendIs
<1>3. ~In(Carry("MODEM_OFF"), s)
  BY <1>1, InAppend, UpdatesApart, RealConstants
<1>4. toMcl' = s \o out
  BY <1>2 DEF TelSet
<1> HIDE DEF s
<1>5. CASE out = <<>>
  <2>1. toMcl' = s
    BY <1>2, <1>4, <1>5
  <2> QED BY <1>3, <2>1
<1>6. ASSUME NEW r \in {"POWER_ON", "POWER_OFF"}, out = <<Carry(r)>>
      PROVE  ~In(Carry("MODEM_OFF"), toMcl')
  <2>1. Carry(r) \in Message
    BY Constants, CarryMessage
  <2>2. toMcl' = Append(s, Carry(r))
    BY <1>2, <1>4, <1>6
  <2>3. Carry(r) # Carry("MODEM_OFF")
    BY UpdatesApart
  <2> QED BY <1>2, <1>3, <2>1, <2>2, <2>3, InAppend
<1> QED BY <1>5, <1>6

LEMMA SmoothTelCore ==
  ASSUME RadioInv, RealInv, Smooth, faults = 0, faults' = 0, TelCore
  PROVE  Smooth'
<1> USE Constants DEF telVars
<1>1. CASE OnInit \/ (RequestRadioPower /\ "modemOff" \notin once)
  <2>1. PICK k \in {"radio", "power"}, v \in Value,
             out \in {<<>>, <<Carry("POWER_ON")>>, <<Carry("POWER_OFF")>>} : TelSet(k, v, out)
    <3>1. CASE OnInit
      BY <3>1 DEF OnInit
    <3>2. CASE RequestRadioPower /\ "modemOff" \notin once
      <4>1. Head(asked) \in {"POWER_ON", "POWER_OFF"}
        BY <3>2 DEF RequestRadioPower, RadioInv, RadioType
      <4> QED BY <3>2, <4>1 DEF RequestRadioPower
    <3> QED BY <1>1, <3>1, <3>2
  <2>2. ~In(Carry("MODEM_OFF"), toMcl')
    BY <2>1, SmoothTelSet DEF Smooth
  <2> QED BY <1>1, <2>1, <2>2 DEF OnInit, RequestRadioPower, TelSet, Smooth
<1>2. CASE SyncArrives
  <2>1. Tail(syncQueue) \in Seq(Loyal)
    BY <1>2, HeadTail DEF SyncArrives, TelApply, Smooth
  <2> QED BY <1>2, <2>1 DEF SyncArrives, TelApply, Smooth
<1>3. CASE BootRequest
  <2>1. ~In(Carry("MODEM_OFF"), toMcl')
    <3>1. toMcl \in Seq(Message) /\ Carry("BOOT") \in Message
      BY CarryMessage DEF RadioInv, SyncTypeOK
    <3>2. Carry("BOOT") # Carry("MODEM_OFF")
      BY UpdatesApart
    <3> QED BY <1>3, <3>1, <3>2, InAppend DEF BootRequest, TelSend, Smooth
  <2> QED BY <1>3, <2>1 DEF BootRequest, TelSend, Smooth
<1>4. CASE Retry
  BY <1>4 DEF Retry, Smooth
<1>5. CASE HandleResponse
  <2>1. /\ Head(responses) \in {a \in Answer : a.err # "retry"}
        /\ Tail(responses) \in Seq({a \in Answer : a.err # "retry"})
    BY <1>5, HeadTail DEF HandleResponse, Smooth
  <2>2. responses' = Tail(responses) /\ retries' = retries
    BY <1>5, <2>1 DEF HandleResponse
  <2> QED BY <1>5, <2>1, <2>2 DEF HandleResponse, syncVars, Smooth
<1>6. CASE StartSwitch \/ RequestModemOff
  BY <1>6 DEF StartSwitch, RequestModemOff, Fault
<1>7. CASE SwitchFails \/ (RequestRadioPower /\ "modemOff" \in once)
  BY <1>7 DEF SwitchFails, RequestRadioPower, syncVars, Smooth
<1> QED BY <1>1, <1>2, <1>3, <1>4, <1>5, <1>6, <1>7 DEF TelCore

LEMMA SmoothDispatch ==
  ASSUME RadioInv, RealInv, Smooth, Dispatch
  PROVE  Smooth'
<1>1. /\ toMcl # <<>> /\ toMcl' = Tail(toMcl) /\ UNCHANGED <<stored, syncQueue>>
      /\ UNCHANGED <<mclVars, responses, job, modem, faults>>
  BY DEF Dispatch, MclApply, MclTake
<1>2. ~In(Carry("MODEM_OFF"), toMcl') /\ Head(toMcl) # Carry("MODEM_OFF")
  BY <1>1, InTail DEF RadioInv, SyncTypeOK, Smooth
<1>3. inbox'[Modem] = inbox[Modem]
  <2>1. CASE UNCHANGED inbox
    BY <2>1
  <2>2. ASSUME NEW r \in Request, MclTake(r),
               inbox' = [inbox EXCEPT ![Channel(r)] = Append(@, r)]
        PROVE  inbox'[Modem] = inbox[Modem]
    <3>1. r # "MODEM_OFF"
      BY <1>2, <2>2 DEF MclTake
    <3>2. Channel(r) # Modem
      BY <3>1, RadioAssumption DEF Channel
    <3> QED BY <2>2, <3>2, Constants DEF RadioInv, RadioType
  <2> QED BY <2>1, <2>2 DEF Dispatch
<1> QED BY <1>1, <1>2, <1>3 DEF mclVars, Smooth

LEMMA FinishSmooth ==
  ASSUME RealInv, NEW todo, NEW err, Finish(Radio, todo, err)
  PROVE  /\ job'[Radio].op = job[Radio].op /\ ~job'[Radio].at
         /\ job'[Radio].todo = todo /\ job'[Radio].err = err
         /\ job'[Modem] = job[Modem]
  BY RadioAssumption DEF Finish, RealInv, JobsType, RealJob

\* What a command that does not fail does.
Command(todo) ==
    \/ /\ job[Radio].op = "construct" /\ todo = <<Off>>
    \/ /\ job[Radio].op = "POWER_ON" /\ todo = <<On>>
    \/ /\ job[Radio].op = "POWER_OFF" /\ todo = <<Off>>
    \/ /\ job[Radio].op = "BOOT" /\ todo \in {<<Off>>, <<Meant, On>>}

LEMMA CommandIs ==
  ASSUME RealInv, Smooth, faults = 0, faults' = 0,
         \/ Construct \/ BootDone \/ ModemOffDone
         \/ \E on \in BOOLEAN : PowerDone(on)
         \/ \E op \in Request : PowerFails(op)
  PROVE  /\ UNCHANGED <<syncVars, mclVars, inbox, responses>>
         /\ job[Radio].at /\ modem' # "POWERED_OFF"
         /\ \E todo, err : err \in {"ok", "failed"} /\ Command(todo) /\ Finish(Radio, todo, err)
<1>0. modem # "POWERED_OFF" /\ ~Fault
  BY DEF Smooth, Fault
<1>1. CASE Construct
  <2>1. Finish(Radio, <<Off>>, "ok") /\ Command(<<Off>>)
    BY <1>1 DEF Construct, At, Command, SetRadio, Off
  <2>2. job[Radio].at /\ modem' # "POWERED_OFF" /\ UNCHANGED <<syncVars, mclVars, inbox, responses>>
    BY <1>0, <1>1 DEF Construct, At
  <2> QED BY <2>1, <2>2
<1>2. CASE BootDone
  <2>1. job[Radio].op = "BOOT" /\ job[Radio].at /\ UNCHANGED <<syncVars, mclVars, inbox, responses>>
    BY <1>2 DEF BootDone, At
  <2>2. /\ modem' # "POWERED_OFF"
        /\ \/ Finish(Radio, <<Off>>, "failed") \/ Finish(Radio, <<Off>>, "ok")
           \/ Finish(Radio, <<Meant, On>>, "ok")
    BY <1>0, <1>2 DEF BootDone, SetRadio, Off, On, Meant
  <2>3. Command(<<Off>>) /\ Command(<<Meant, On>>)
    BY <2>1 DEF Command
  <2> QED BY <2>1, <2>2, <2>3
<1>3. CASE ModemOffDone
  BY <1>3 DEF ModemOffDone, At, Smooth, NoJob
<1>4. ASSUME NEW on \in BOOLEAN, PowerDone(on)
      PROVE  /\ UNCHANGED <<syncVars, mclVars, inbox, responses>>
             /\ job[Radio].at /\ modem' # "POWERED_OFF"
             /\ \E todo, err : err \in {"ok", "failed"} /\ Command(todo) /\ Finish(Radio, todo, err)
  <2>1. /\ UNCHANGED <<syncVars, mclVars, inbox, responses>> /\ job[Radio].at
        /\ modem' # "POWERED_OFF" /\ Finish(Radio, SetRadio(modem'), "ok")
        /\ \/ job[Radio].op = "POWER_ON" /\ modem' = "ON"
           \/ job[Radio].op = "POWER_OFF" /\ modem' = "OFF"
    BY <1>4 DEF PowerDone, At
  <2>2. Command(SetRadio(modem'))
    BY <2>1 DEF Command, SetRadio, On, Off
  <2> QED BY <2>1, <2>2
<1>5. ASSUME NEW op \in Request, PowerFails(op) PROVE FALSE
  BY <1>0, <1>5 DEF PowerFails
<1> QED BY <1>1, <1>2, <1>3, <1>4, <1>5

LEMMA SmoothCommand ==
  ASSUME RealInv, Smooth, faults = 0, faults' = 0,
         \/ Construct \/ BootDone \/ ModemOffDone
         \/ \E on \in BOOLEAN : PowerDone(on)
         \/ \E op \in Request : PowerFails(op)
  PROVE  Smooth'
<1>1. /\ UNCHANGED <<syncVars, mclVars, inbox, responses>>
      /\ job[Radio].at /\ modem' # "POWERED_OFF"
  BY CommandIs
<1>2. PICK todo, err : err \in {"ok", "failed"} /\ Command(todo) /\ Finish(Radio, todo, err)
  BY CommandIs
<1>3. todo \in {<<On>>, <<Off>>, <<Meant, On>>}
  BY <1>2 DEF Command
<1>4. /\ ~job'[Radio].at /\ job'[Radio].todo = todo /\ job'[Radio].err = err
      /\ job'[Modem] = job[Modem]
  BY <1>2, FinishSmooth
<1> QED BY <1>1, <1>2, <1>3, <1>4 DEF syncVars, mclVars, Smooth

LEMMA SmoothHandler ==
  ASSUME RadioInv, RealInv, Smooth, NEW w \in Writer, Handler(w)
  PROVE  Smooth' /\ w = Radio
<1> USE Constants
<1>0. Radio # Modem /\ (w = Radio \/ w = Modem) /\ NoJob.todo = <<>> /\ NoJob.op = "none"
  BY RadioAssumption DEF NoJob
<1>1. w = Radio
  BY <1>0 DEF Handler, Begin, Store, SendSync, MclSend, Reply, Smooth
<1>2. /\ job \in [Writer -> RealJob] /\ inbox \in [Writer -> Seq(Request)]
      /\ stored \in [Writer -> {<<>>} \cup {<<u>> : u \in RealUpdate}]
  BY DEF RealInv, JobsType, RadioInv, RadioType, QueueType
<1>3. CASE Begin(w)
  <2>1. /\ job'[Radio].todo = <<>> /\ job'[Radio].err # "retry"
        /\ job'[Modem] = job[Modem] /\ inbox'[Modem] = inbox[Modem]
    BY <1>0, <1>1, <1>2, <1>3 DEF Begin, Job
  <2> QED BY <1>1, <1>3, <2>1 DEF Begin, syncVars, mclVars, Smooth
<1>4. CASE Store(w)
  <2>1. job[Radio].todo # <<>> /\ ~job[Radio].at
    BY <1>1, <1>4 DEF Store
  <2>2. LET todo == job[Radio].todo IN
        \/ todo = <<On>> /\ Head(todo) = On /\ Tail(todo) = <<>>
        \/ todo = <<Off>> /\ Head(todo) = Off /\ Tail(todo) = <<>>
        \/ todo = <<Meant, On>> /\ Head(todo) = Meant /\ Tail(todo) = <<On>>
    <3>1. \A u : Head(<<u>>) = u /\ Tail(<<u>>) = <<>>
      OBVIOUS
    <3>2. \A u, v : Head(<<u, v>>) = u /\ Tail(<<u, v>>) = <<v>>
      OBVIOUS
    <3> QED BY <2>1, <3>1, <3>2 DEF Smooth
  <2>3. Head(job[Radio].todo) = Sync(Head(job[Radio].todo).key, Head(job[Radio].todo).value)
    BY <2>2, UpdatesApart DEF On, Off, Meant
  <2>4. /\ stored'[Radio] = <<Head(job[Radio].todo)>> /\ stored'[Modem] = stored[Modem]
        /\ UNCHANGED syncQueue /\ UNCHANGED toMcl
    BY <1>0, <1>1, <1>2, <1>4, <2>3 DEF Store, MclStore
  <2>5. /\ job'[Radio].todo = Tail(job[Radio].todo) /\ job'[Radio].at = job[Radio].at
        /\ job'[Radio].err = job[Radio].err /\ job'[Modem] = job[Modem]
    BY <1>0, <1>1, <1>2, <1>4 DEF Store, RealJob
  <2> QED BY <1>1, <1>4, <2>1, <2>2, <2>4, <2>5 DEF Store, mclVars, Smooth
<1>5. CASE SendSync(w)
  <2>1. PICK u \in Loyal : stored[Radio] = <<u>>
    BY <1>1, <1>5 DEF SendSync, MclSend, Smooth, Loyal
  <2>2. syncQueue' = Append(syncQueue, u) /\ syncQueue' \in Seq(Loyal)
    BY <1>1, <1>5, <2>1 DEF SendSync, MclSend, Smooth
  <2>3. stored'[Radio] = <<>> /\ stored'[Modem] = stored[Modem]
    BY <1>0, <1>1, <1>2, <1>5 DEF SendSync, MclSend
  <2> QED BY <1>1, <1>5, <2>2, <2>3 DEF SendSync, MclSend, radioVars, Smooth
<1>6. CASE Reply(w)
  <2>1. job'[Radio] = NoJob /\ job'[Modem] = job[Modem]
    BY <1>0, <1>1, <1>2, <1>6 DEF Reply
  <2>2. responses' \in Seq({a \in Answer : a.err # "retry"})
    <3>1. CASE job[w].op = "construct"
      BY <1>6, <3>1 DEF Reply, Smooth
    <3>2. CASE job[w].op # "construct"
      <4>1. [op |-> job[w].op, err |-> job[w].err] \in {a \in Answer : a.err # "retry"}
        BY <1>1, <1>2, <1>6, <3>2 DEF Reply, RealJob, Answer, Error, Smooth
      <4> QED BY <1>6, <3>2, <4>1, AppendHead DEF Reply, Smooth
    <3> QED BY <3>1, <3>2
  <2> QED BY <1>1, <1>6, <2>1, <2>2 DEF Reply, NoJob, syncVars, mclVars, Smooth
<1> QED BY <1>1, <1>3, <1>4, <1>5, <1>6 DEF Handler

LEMMA SmoothStep ==
  ASSUME RadioInv, RealInv, faults = 0 => Smooth, [Next]_vars, faults' = 0
  PROVE  Smooth'
<1>1. Smooth /\ faults = 0
  BY FaultsGrow
<1>2. CASE Rilj \/ UNCHANGED vars
  BY <1>1, <1>2 DEF Rilj, Ask, vars, syncVars, radioVars, Smooth
<1> QED
  BY <1>1, <1>2, SmoothTelCore, SmoothDispatch, SmoothCommand, SmoothHandler DEF Next, Mcl
-----------------------------------------------------------------------------
(***************************************************************************)
(* As long as nothing has failed: an ON that RILJ is not told of is one it *)
(* did not mean, and an OFF follows on the same way.                       *)
(***************************************************************************)
\* An OFF of RADIO_STATE is to come, from there or from further back.
OffInLooper == In(Carry("POWER_OFF"), toMcl)
OffInChannel == OffInLooper \/ In("POWER_OFF", inbox[Radio])
OffInHandler ==
    OffInChannel \/ (job[Radio].at /\ job[Radio].op \in {"POWER_OFF", "construct"})
OffToSet == OffInHandler \/ In(Off, job[Radio].todo)
OffToSend == OffToSet \/ In(Off, stored[Radio])
OffOnWay == OffToSend \/ In(Off, syncQueue)

\* Each ON on the way has its REQUEST_RADIO_POWER before it or an OFF behind it.
Cover ==
    /\ Followed(Carry("POWER_ON"), Carry("POWER_OFF"), toMcl)
    /\ OffInLooper \/ Followed("POWER_ON", "POWER_OFF", inbox[Radio])
    /\ job[Radio].at /\ job[Radio].op = "POWER_ON" => OffInChannel
    /\ In(On, job[Radio].todo) =>
         \/ OffInChannel
         \/ In(Meant, job[Radio].todo) \/ In(Meant, stored[Radio]) \/ In(Meant, syncQueue)
    /\ In(On, stored[Radio]) => OffToSet \/ In(Meant, syncQueue)
    /\ OffToSend \/ Fits(syncQueue)

CoverInv == (tel["power"] = "ON" \/ Cover) /\ (Behind => OffOnWay)

LEMMA InitCover == Init => CoverInv
<1> SUFFICES ASSUME Init PROVE CoverInv
  OBVIOUS
<1>1. /\ tel["power"] = "OFF" /\ tel["radio"] = "UNSET"
      /\ toMcl = <<>> /\ inbox[Radio] = <<>> /\ stored[Radio] = <<>> /\ syncQueue = <<>>
      /\ job[Radio].op = "construct" /\ job[Radio].todo = <<>>
  BY Constants DEF Init, SyncInit, Job
<1>2. \A x, y : Followed(x, y, <<>>)
  BY DEF Followed
<1>3. Fits(<<>>)
  BY DEF Fits
<1>4. ~In(On, <<>>)
  BY InShort
<1> QED BY <1>1, <1>2, <1>3, <1>4 DEF CoverInv, Cover, Behind

\* Only TelCore adds to the looper of MCL, and nothing else moves.
LEMMA CoverFrame ==
  ASSUME UNCHANGED <<inbox, job, stored, syncQueue>>, OffInLooper => OffInLooper'
  PROVE  /\ OffOnWay => OffOnWay'
         /\ Cover /\ Followed(Carry("POWER_ON"), Carry("POWER_OFF"), toMcl') => Cover'
<1>1. /\ OffInChannel => OffInChannel'
      /\ OffInHandler => OffInHandler'
      /\ OffToSet => OffToSet'
      /\ OffToSend => OffToSend'
      /\ OffOnWay => OffOnWay'
  BY DEF OffInChannel, OffInHandler, OffToSet, OffToSend, OffOnWay
<1> QED BY <1>1 DEF Cover

LEMMA RequestsApart ==
  /\ Carry("POWER_ON") # Carry("POWER_OFF")
  /\ \A k, v : k \in {"radio", "power"} =>
       Sync(k, v) # Carry("POWER_ON") /\ Sync(k, v) # Carry("POWER_OFF")
  BY UpdatesApart, RealConstants

LEMMA TelSetCover ==
  ASSUME RadioInv, NEW k \in {"radio", "power"}, NEW v \in Value,
         NEW out \in {<<>>, <<Carry("POWER_ON")>>, <<Carry("POWER_OFF")>>}, TelSet(k, v, out)
  PROVE  LET F(s) == Followed(Carry("POWER_ON"), Carry("POWER_OFF"), s) IN
         /\ OffInLooper => OffInLooper'
         /\ F(toMcl) /\ out = <<>> => F(toMcl')
         /\ out = <<Carry("POWER_OFF")>> => OffInLooper' /\ F(toMcl')
<1> DEFINE F(s) == Followed(Carry("POWER_ON"), Carry("POWER_OFF"), s)
           s1 == Append(toMcl, Sync(k, v))
<1>1. toMcl \in Seq(Message) /\ Sync(k, v) \in Message
  BY Constants, SyncUpdate, UpdateType DEF RadioInv, SyncTypeOK
<1>2. s1 \in Seq(Message) /\ toMcl \o <<Sync(k, v)>> = s1
  BY <1>1, AppendIs
<1>3. /\ OffInLooper => In(Carry("POWER_OFF"), s1)
      /\ F(toMcl) => F(s1)
  BY <1>1, InAppend, FollowedAppend, RequestsApart DEF OffInLooper
<1>4. toMcl' = s1 \o out
  BY <1>2 DEF TelSet
<1> HIDE DEF s1
<1>5. CASE out = <<>>
  <2>1. toMcl' = s1
    BY <1>2, <1>4, <1>5
  <2>2. out # <<Carry("POWER_OFF")>>
    BY <1>5
  <2> QED BY <1>3, <2>1, <2>2 DEF OffInLooper
<1>6. ASSUME NEW r \in {"POWER_ON", "POWER_OFF"}, out = <<Carry(r)>>
      PROVE  /\ OffInLooper => OffInLooper'
             /\ F(toMcl) /\ out = <<>> => F(toMcl')
             /\ out = <<Carry("POWER_OFF")>> => OffInLooper' /\ F(toMcl')
  <2>1. Carry(r) \in Message
    BY Constants, CarryMessage
  <2>2. toMcl' = Append(s1, Carry(r)) /\ out # <<>>
    BY <1>2, <1>4, <1>6
  <2>3. In(Carry("POWER_OFF"), toMcl') <=>
          In(Carry("POWER_OFF"), s1) \/ Carry("POWER_OFF") = Carry(r)
    BY <1>2, <2>1, <2>2, InAppend
  <2>4. Carry(r) = Carry("POWER_OFF") => F(toMcl')
    BY <1>2, <2>1, <2>2, FollowedAppend, RequestsApart
  <2>5. out = <<Carry("POWER_OFF")>> => Carry(r) = Carry("POWER_OFF")
    BY <1>6
  <2> QED BY <1>3, <2>2, <2>3, <2>4, <2>5 DEF OffInLooper
<1> QED BY <1>5, <1>6

\* A value arrives in TelCore.
LEMMA ArrivesCover ==
  ASSUME RadioInv, RealInv, Smooth, Knows, CoverInv, SyncArrives
  PROVE  CoverInv'
<1> DEFINE u == Head(syncQueue)
<1>1. /\ syncQueue # <<>> /\ syncQueue \in Seq(Loyal) /\ syncQueue' = Tail(syncQueue)
      /\ tel' = [tel EXCEPT ![u.key] = u.value]
      /\ told' = IF u.key = "radio" THEN ToldAfter(tel["radio"], u.value) ELSE told
      /\ UNCHANGED <<mcl, toMcl, stored, crossed, inbox, job>> /\ Running
  BY DEF SyncArrives, TelApply, Smooth, telVars
<1>2. u \in Loyal
  BY <1>1, HeadTail
<1>3. /\ \A x : In(x, syncQueue) <=> x = u \/ In(x, syncQueue')
      /\ Fits(syncQueue) => /\ u # Meant => Fits(syncQueue')
                            /\ u = On => In(Off, syncQueue')
  BY <1>1, InTail, FitsTail
<1> HIDE DEF u
<1>4. /\ OffInLooper' <=> OffInLooper
      /\ OffInChannel' <=> OffInChannel
      /\ OffToSet' <=> OffToSet
      /\ OffToSend' <=> OffToSend
  BY <1>1 DEF OffInLooper, OffInChannel, OffInHandler, OffToSet, OffToSend
<1>5. /\ tel \in [Key -> Value] /\ "radio" \in Key /\ "power" \in Key
  BY Constants DEF RadioInv, SyncTypeOK
<1>6. tel'["power"] = "ON" \/ Cover'
  <2>1. CASE u = Meant
    BY <1>1, <1>5, <2>1, UpdatesApart
  <2>2. CASE u # Meant
    <3>1. tel'["power"] = tel["power"]
      BY <1>1, <1>2, <1>5, <2>2, UpdatesApart DEF Loyal
    <3>2. ASSUME Cover PROVE Cover'
      <4>1. In(Meant, syncQueue) <=> In(Meant, syncQueue')
        BY <1>3, <2>2
      <4>2. OffToSend' \/ Fits(syncQueue')
        BY <1>3, <1>4, <2>2, <3>2 DEF Cover
      <4> QED BY <1>1, <1>4, <3>2, <4>1, <4>2 DEF Cover
    <3> QED BY <3>1, <3>2 DEF CoverInv
  <2> QED BY <2>1, <2>2
<1>7. ASSUME Behind' PROVE OffOnWay'
  <2>1. u # Off
    BY <1>1, <1>5, <1>7, UpdatesApart DEF Behind
  <2>2. CASE Behind
    <3>1. OffToSend \/ In(Off, syncQueue)
      BY <2>2 DEF CoverInv, OffOnWay
    <3> QED BY <1>3, <1>4, <2>1, <3>1 DEF OffOnWay
  <2>3. CASE ~Behind
    <3>1. u = On
      <4>1. ASSUME u = Meant PROVE FALSE
        <5>1. tel'["radio"] = tel["radio"] /\ told' = told
          BY <1>1, <1>5, <4>1, UpdatesApart
        <5> QED BY <1>7, <2>3, <5>1 DEF Behind
      <4> QED BY <1>2, <2>1, <4>1 DEF Loyal
    <3>2. told' = ToldAfter(tel["radio"], "ON") /\ tel'["power"] = tel["power"]
      BY <1>1, <1>5, <3>1, UpdatesApart
    <3>3. told = tel["radio"]
      BY <1>1, <2>3 DEF Knows
    <3>4. tel'["power"] = "OFF"
      BY <1>7, <2>3, <3>2, <3>3 DEF ToldAfter, Behind
    <3>5. OffToSend \/ Fits(syncQueue)
      BY <3>2, <3>4 DEF CoverInv, Cover
    <3> QED BY <1>3, <1>4, <3>1, <3>5 DEF OffOnWay
  <2> QED BY <2>2, <2>3
<1> QED BY <1>6, <1>7 DEF CoverInv

LEMMA TelCoreCover ==
  ASSUME RadioInv, RealInv, Smooth, Knows, CoverInv, faults = 0, faults' = 0, TelCore
  PROVE  CoverInv'
<1> USE Constants DEF telVars
<1>0. tel \in [Key -> Value]
  BY DEF RadioInv, SyncTypeOK
<1>1. CASE OnInit
  <2>1. TelSet("radio", "UNAVAILABLE", <<>>) /\ UNCHANGED <<inbox, job, stored, syncQueue>>
    BY <1>1 DEF OnInit, TelSet
  <2>2. tel'["power"] = tel["power"] /\ tel'["radio"] = "UNAVAILABLE"
    BY <1>0, <2>1 DEF TelSet
  <2>3. Cover => Cover'
    BY <2>1, TelSetCover, CoverFrame DEF Cover
  <2> QED BY <2>2, <2>3 DEF CoverInv, Behind
<1>2. CASE SyncArrives
  BY <1>2, ArrivesCover
<1>3. CASE RequestRadioPower /\ "modemOff" \notin once
  <2>1. UNCHANGED <<inbox, job, stored, syncQueue, told>>
    BY <1>3 DEF RequestRadioPower, TelSet
  <2>2. Head(asked) \in {"POWER_ON", "POWER_OFF"}
    BY <1>3 DEF RequestRadioPower, RadioInv, RadioType
  <2>3. CASE Head(asked) = "POWER_ON"
    <3>1. TelSet("power", "ON", <<Carry("POWER_ON")>>)
      BY <1>3, <2>3 DEF RequestRadioPower
    <3>2. tel'["power"] = "ON" /\ tel'["radio"] = tel["radio"]
      BY <1>0, <3>1 DEF TelSet
    <3>3. OffOnWay => OffOnWay'
      BY <2>1, <3>1, TelSetCover, CoverFrame
    <3> QED BY <2>1, <3>2, <3>3 DEF CoverInv, Behind
  <2>4. CASE Head(asked) = "POWER_OFF"
    <3>1. TelSet("power", "OFF", <<Carry("POWER_OFF")>>)
      BY <1>3, <2>4 DEF RequestRadioPower
    <3>2. OffInLooper' /\ Followed(Carry("POWER_ON"), Carry("POWER_OFF"), toMcl')
      BY <3>1, TelSetCover
    <3> QED BY <3>2 DEF CoverInv, Cover, OffInChannel, OffInHandler, OffToSet, OffToSend, OffOnWay
  <2> QED BY <2>2, <2>3, <2>4
<1>4. CASE BootRequest
  <2>1. toMcl' = Append(toMcl, Carry("BOOT")) /\ UNCHANGED <<tel, told, inbox, job, stored, syncQueue>>
    BY <1>4 DEF BootRequest, TelSend
  <2>2. toMcl \in Seq(Message) /\ Carry("BOOT") \in Message
    BY CarryMessage DEF RadioInv, SyncTypeOK
  <2>3. Carry("BOOT") # Carry("POWER_ON")
    BY UpdatesApart
  <2>4. OffInLooper => OffInLooper'
    BY <2>1, <2>2, InAppend DEF OffInLooper
  <2>5. Cover => Cover'
    <3>1. Cover => Followed(Carry("POWER_ON"), Carry("POWER_OFF"), toMcl')
      BY <2>1, <2>2, <2>3, FollowedAppend, RequestsApart DEF Cover
    <3> QED BY <2>1, <2>4, <3>1, CoverFrame
  <2>6. OffOnWay => OffOnWay'
    BY <2>1, <2>4, CoverFrame
  <2> QED BY <2>1, <2>5, <2>6 DEF CoverInv, Behind
<1>5. CASE Retry
  BY <1>5 DEF Retry, Smooth
<1>6. CASE StartSwitch \/ RequestModemOff
  BY <1>6 DEF StartSwitch, RequestModemOff, Fault
<1>7. CASE HandleResponse \/ SwitchFails \/ (RequestRadioPower /\ "modemOff" \in once)
  <2>1. UNCHANGED <<tel, told, toMcl, inbox, job, stored, syncQueue>>
    BY <1>7 DEF HandleResponse, SwitchFails, RequestRadioPower, syncVars
  <2>2. OffInLooper' <=> OffInLooper
    BY <2>1 DEF OffInLooper
  <2>3. (Cover => Cover') /\ (OffOnWay => OffOnWay')
    BY <2>1, <2>2, CoverFrame DEF Cover
  <2> QED BY <2>1, <2>3 DEF CoverInv, Behind
<1> QED BY <1>1, <1>2, <1>3, <1>4, <1>5, <1>6, <1>7 DEF TelCore
\* A message leaves the looper of MCL.
LEMMA DispatchCover ==
  ASSUME RadioInv, RealInv, Smooth, Dispatch
  PROVE  (OffOnWay => OffOnWay') /\ (Cover => Cover')
<1>1. /\ toMcl # <<>> /\ toMcl' = Tail(toMcl) /\ toMcl \in Seq(Message)
      /\ UNCHANGED <<stored, syncQueue, job>>
  BY DEF Dispatch, MclApply, MclTake, RadioInv, SyncTypeOK
<1>2. \A x : In(x, toMcl) <=> x = Head(toMcl) \/ In(x, toMcl')
  BY <1>1, InTail
<1>3. Followed(Carry("POWER_ON"), Carry("POWER_OFF"), toMcl) =>
        /\ Followed(Carry("POWER_ON"), Carry("POWER_OFF"), toMcl')
        /\ Head(toMcl) = Carry("POWER_ON") => OffInLooper'
  BY <1>1, FollowedTail DEF OffInLooper
<1>4. CASE MclApply /\ UNCHANGED inbox
  <2>1. Head(toMcl) # Carry("POWER_OFF")
    BY <1>4, Constants, RealConstants DEF MclApply
  <2>2. OffInLooper => OffInLooper'
    BY <1>2, <2>1 DEF OffInLooper
  <2> QED BY <1>1, <1>3, <1>4, <2>2, CoverFrame DEF Cover
<1>5. ASSUME NEW r \in Request, MclTake(r), inbox' = [inbox EXCEPT ![Channel(r)] = Append(@, r)]
      PROVE  (OffOnWay => OffOnWay') /\ (Cover => Cover')
  <2>1. Head(toMcl) = Carry(r) /\ r # "MODEM_OFF"
    BY <1>1, <1>2, <1>5 DEF MclTake, Smooth
  <2>2. inbox'[Radio] = Append(inbox[Radio], r) /\ inbox[Radio] \in Seq(Request)
    BY <1>5, <2>1, Constants DEF Channel, RadioInv, RadioType
  <2>3. In("POWER_OFF", inbox'[Radio]) <=> In("POWER_OFF", inbox[Radio]) \/ "POWER_OFF" = r
    BY <2>2, InAppend
  <2>4. OffInLooper => OffInLooper' \/ r = "POWER_OFF"
    BY <1>2, <2>1, UpdatesApart DEF OffInLooper
  <2>5. OffInChannel => OffInChannel'
    BY <2>3, <2>4 DEF OffInChannel
  <2>6. (OffToSet => OffToSet') /\ (OffToSend => OffToSend') /\ (OffOnWay => OffOnWay')
    BY <1>1, <2>5 DEF OffInHandler, OffToSet, OffToSend, OffOnWay
  <2>7. Cover => OffInLooper' \/ Followed("POWER_ON", "POWER_OFF", inbox'[Radio])
    <3>1. CASE r = "POWER_OFF"
      BY <2>2, <3>1, FollowedAppend
    <3>2. CASE r = "POWER_ON"
      BY <1>3, <2>1, <3>2 DEF Cover
    <3>3. CASE r \notin {"POWER_ON", "POWER_OFF"}
      BY <2>2, <2>4, <3>3, FollowedAppend DEF Cover
    <3> QED BY <3>1, <3>2, <3>3
  <2>8. ASSUME Cover PROVE Cover'
    <3>1. Followed(Carry("POWER_ON"), Carry("POWER_OFF"), toMcl')
      BY <1>3, <2>8 DEF Cover
    <3>2. /\ job'[Radio].at /\ job'[Radio].op = "POWER_ON" => OffInChannel'
          /\ In(On, job'[Radio].todo) =>
               \/ OffInChannel' \/ In(Meant, job'[Radio].todo)
               \/ In(Meant, stored'[Radio]) \/ In(Meant, syncQueue')
      BY <1>1, <2>5, <2>8 DEF Cover
    <3>3. In(On, stored'[Radio]) => OffToSet' \/ In(Meant, syncQueue')
      BY <1>1, <2>6, <2>8 DEF Cover
    <3>4. OffToSend' \/ Fits(syncQueue')
      BY <1>1, <2>6, <2>8 DEF Cover
    <3> QED BY <2>7, <2>8, <3>1, <3>2, <3>3, <3>4 DEF Cover
  <2> QED BY <2>6, <2>8
<1> QED BY <1>4, <1>5 DEF Dispatch

\* The handler begins with a request.
LEMMA BeginCover ==
  ASSUME RadioInv, RealInv, Begin(Radio)
  PROVE  (OffOnWay => OffOnWay') /\ (Cover => Cover')
<1> USE Constants
<1>1. /\ inbox[Radio] # <<>> /\ inbox[Radio] \in Seq(Request)
      /\ inbox'[Radio] = Tail(inbox[Radio]) /\ UNCHANGED <<toMcl, stored, syncQueue>>
      /\ ~job[Radio].at /\ job[Radio].todo = <<>>
      /\ job'[Radio].at /\ job'[Radio].todo = <<>> /\ job'[Radio].op = Head(inbox[Radio])
  BY DEF Begin, Job, NoJob, syncVars, RadioInv, RadioType
<1> DEFINE r == Head(inbox[Radio])
<1>2. /\ \A x : In(x, inbox[Radio]) <=> x = r \/ In(x, inbox'[Radio])
      /\ Followed("POWER_ON", "POWER_OFF", inbox[Radio]) =>
           /\ Followed("POWER_ON", "POWER_OFF", inbox'[Radio])
           /\ r = "POWER_ON" => In("POWER_OFF", inbox'[Radio])
  BY <1>1, InTail, FollowedTail
<1> HIDE DEF r
<1>3. OffInLooper' <=> OffInLooper
  BY <1>1 DEF OffInLooper
<1>4. OffInHandler => OffInHandler'
  BY <1>1, <1>2, <1>3 DEF OffInHandler, OffInChannel, r
<1>5. (OffToSet => OffToSet') /\ (OffToSend => OffToSend') /\ (OffOnWay => OffOnWay')
  BY <1>1, <1>4 DEF OffToSet, OffToSend, OffOnWay
<1>6. Cover /\ r = "POWER_ON" => OffInChannel'
  BY <1>2, <1>3 DEF Cover, OffInChannel
<1>7. ~In(On, job'[Radio].todo)
  BY <1>1, InShort
<1>8. ASSUME Cover PROVE Cover'
  <2>1. Followed(Carry("POWER_ON"), Carry("POWER_OFF"), toMcl')
    BY <1>1, <1>8 DEF Cover
  <2>2. OffInLooper' \/ Followed("POWER_ON", "POWER_OFF", inbox'[Radio])
    BY <1>2, <1>3, <1>8 DEF Cover
  <2>3. job'[Radio].op = "POWER_ON" => OffInChannel'
    BY <1>1, <1>6, <1>8 DEF r
  <2>4. In(On, stored'[Radio]) => OffToSet' \/ In(Meant, syncQueue')
    BY <1>1, <1>5, <1>8 DEF Cover
  <2>5. OffToSend' \/ Fits(syncQueue')
    BY <1>1, <1>5, <1>8 DEF Cover
  <2> QED BY <1>7, <2>1, <2>2, <2>3, <2>4, <2>5 DEF Cover
<1> QED BY <1>5, <1>8

\* It has done its command and knows what to set.
LEMMA CommandCover ==
  ASSUME RadioInv, RealInv, Smooth, faults = 0, faults' = 0,
         \/ Construct \/ BootDone \/ ModemOffDone
         \/ \E on \in BOOLEAN : PowerDone(on)
         \/ \E op \in Request : PowerFails(op)
  PROVE  /\ UNCHANGED <<tel, told, toMcl, inbox, stored, syncQueue>>
         /\ OffOnWay => OffOnWay'
         /\ Cover => Cover'
<1>1. /\ UNCHANGED <<syncVars, mclVars, inbox, responses>>
      /\ job[Radio].at /\ modem' # "POWERED_OFF"
  BY CommandIs
<1>2. PICK todo, err : err \in {"ok", "failed"} /\ Command(todo) /\ Finish(Radio, todo, err)
  BY CommandIs
<1>3. /\ ~job'[Radio].at /\ job'[Radio].todo = todo
      /\ job[Radio].todo = <<>>
  BY <1>1, <1>2, FinishSmooth DEF Smooth
<1>4. UNCHANGED <<tel, told, toMcl, inbox, stored, syncQueue>>
  BY <1>1 DEF syncVars, mclVars
<1>5. (OffInLooper' <=> OffInLooper) /\ (OffInChannel' <=> OffInChannel)
  BY <1>4 DEF OffInLooper, OffInChannel
<1>6. /\ todo = <<Off>> => In(Off, todo) /\ ~In(On, todo)
      /\ todo = <<Meant, On>> => In(Meant, todo)
  BY InShort, UpdatesApart
<1>7. ~In(Off, <<>>)
  BY InShort
<1>8. OffToSet => OffToSet'
  <2>1. OffToSet => OffInHandler
    BY <1>3, <1>7 DEF OffToSet
  <2>2. OffInHandler => OffInChannel' \/ In(Off, todo)
    BY <1>2, <1>5, <1>6 DEF OffInHandler, Command
  <2> QED BY <1>3, <2>1, <2>2 DEF OffToSet, OffInHandler
<1>9. (OffToSend => OffToSend') /\ (OffOnWay => OffOnWay')
  BY <1>4, <1>8 DEF OffToSend, OffOnWay
<1>10. Cover => (In(On, todo) => OffInChannel' \/ In(Meant, todo))
  BY <1>1, <1>2, <1>5, <1>6 DEF Cover, Command
<1>11. ASSUME Cover PROVE Cover'
  <2>1. /\ Followed(Carry("POWER_ON"), Carry("POWER_OFF"), toMcl')
        /\ OffInLooper' \/ Followed("POWER_ON", "POWER_OFF", inbox'[Radio])
    BY <1>4, <1>5, <1>11 DEF Cover
  <2>2. In(On, job'[Radio].todo) =>
          \/ OffInChannel' \/ In(Meant, job'[Radio].todo)
          \/ In(Meant, stored'[Radio]) \/ In(Meant, syncQueue')
    BY <1>3, <1>10, <1>11
  <2>3. In(On, stored'[Radio]) => OffToSet' \/ In(Meant, syncQueue')
    BY <1>4, <1>8, <1>11 DEF Cover
  <2>4. OffToSend' \/ Fits(syncQueue')
    BY <1>4, <1>9, <1>11 DEF Cover
  <2> QED BY <1>3, <2>1, <2>2, <2>3, <2>4 DEF Cover
<1> QED BY <1>4, <1>9, <1>11

\* It sets one in MCL.
LEMMA StoreCover ==
  ASSUME RadioInv, RealInv, Smooth, Store(Radio)
  PROVE  (OffOnWay => OffOnWay') /\ (Cover => Cover')
<1> USE Constants
<1> DEFINE u == Head(job[Radio].todo)
<1>1. /\ ~job[Radio].at /\ job[Radio].todo # <<>> /\ stored[Radio] = <<>>
      /\ UNCHANGED <<toMcl, inbox, syncQueue>>
      /\ stored'[Radio] = <<Sync(u.key, u.value)>>
      /\ job[Radio] \in RealJob /\ ~job'[Radio].at /\ job'[Radio].todo = Tail(job[Radio].todo)
  BY DEF Store, MclStore, RealInv, JobsType, RealJob, QueueType
<1>2. job[Radio].todo \in Seq(RealUpdate)
  BY <1>1 DEF RealJob
<1>3. /\ u \in RealUpdate /\ u = Sync(u.key, u.value)
      /\ \A x : In(x, job[Radio].todo) <=> x = u \/ In(x, job'[Radio].todo)
  BY <1>1, <1>2, HeadTail, InTail, RealConstants
<1> HIDE DEF u
<1>4. /\ \A x : In(x, stored'[Radio]) <=> x = u
      /\ \A x : ~In(x, stored[Radio])
  <2>1. stored'[Radio] = <<u>> /\ stored[Radio] = <<>>
    BY <1>1, <1>3
  <2>2. \A x : (In(x, <<u>>) <=> x = u) /\ ~In(x, <<>>)
    BY InShort
  <2> QED BY <2>1, <2>2
<1>5. (OffInLooper' <=> OffInLooper) /\ (OffInChannel' <=> OffInChannel)
      /\ (OffInHandler' <=> OffInHandler)
  BY <1>1 DEF OffInLooper, OffInChannel, OffInHandler
<1>6. (OffToSend => OffToSend') /\ (OffOnWay => OffOnWay')
  BY <1>1, <1>3, <1>4, <1>5 DEF OffToSet, OffToSend, OffOnWay
<1>7. ASSUME Cover PROVE In(On, job'[Radio].todo) => OffInChannel' \/ In(Meant, stored'[Radio])
                                     \/ In(Meant, syncQueue') \/ In(Meant, job'[Radio].todo)
  BY <1>1, <1>3, <1>4, <1>5, <1>7 DEF Cover
<1>8. ASSUME Cover, u = On PROVE OffToSet' \/ In(Meant, syncQueue')
  <2>1. ~In(Meant, job[Radio].todo)
    <3>1. \A a, b : Head(<<a>>) = a /\ Head(<<a, b>>) = a
      OBVIOUS
    <3>2. job[Radio].todo = <<On>>
      BY <1>1, <1>8, <3>1, UpdatesApart DEF Smooth, u
    <3> QED BY <3>2, InShort, UpdatesApart
  <2>2. OffInChannel \/ In(Meant, syncQueue)
    BY <1>3, <1>4, <1>8, <2>1 DEF Cover
  <2> QED BY <1>1, <1>5, <2>2 DEF OffToSet, OffInHandler
<1>9. ASSUME Cover PROVE Cover'
  <2>1. /\ Followed(Carry("POWER_ON"), Carry("POWER_OFF"), toMcl')
        /\ OffInLooper' \/ Followed("POWER_ON", "POWER_OFF", inbox'[Radio])
    BY <1>1, <1>5, <1>9 DEF Cover
  <2>2. In(On, stored'[Radio]) => OffToSet' \/ In(Meant, syncQueue')
    BY <1>4, <1>8, <1>9
  <2>3. OffToSend' \/ Fits(syncQueue')
    BY <1>1, <1>6, <1>9 DEF Cover
  <2> QED BY <1>1, <1>7, <1>9, <2>1, <2>2, <2>3 DEF Cover
<1> QED BY <1>6, <1>9

\* It sends it.
LEMMA SendCover ==
  ASSUME RadioInv, RealInv, Smooth, SendSync(Radio)
  PROVE  (OffOnWay => OffOnWay') /\ (Cover => Cover')
<1> USE Constants
<1>1. PICK u \in Loyal : stored[Radio] = <<u>>
  BY DEF SendSync, MclSend, Smooth, Loyal
<1>2. /\ syncQueue' = Append(syncQueue, u) /\ syncQueue \in Seq(Loyal)
      /\ UNCHANGED <<toMcl, inbox, job>> /\ stored'[Radio] = <<>>
  BY <1>1 DEF SendSync, MclSend, Smooth, radioVars, RealInv, QueueType
<1>3. /\ \A x : In(x, syncQueue') <=> In(x, syncQueue) \/ x = u
      /\ Fits(syncQueue) /\ (u = On => In(Meant, syncQueue)) => Fits(syncQueue')
      /\ u = Off => Fits(syncQueue')
  BY <1>2, InAppend, FitsAppend
<1>4. \A x : (In(x, stored[Radio]) <=> x = u) /\ ~In(x, stored'[Radio])
  <2>1. \A x : (In(x, <<u>>) <=> x = u) /\ ~In(x, <<>>)
    BY InShort
  <2> QED BY <1>1, <1>2, <2>1
<1>5. /\ OffInLooper' <=> OffInLooper
      /\ OffInChannel' <=> OffInChannel
      /\ OffToSet' <=> OffToSet
  BY <1>2 DEF OffInLooper, OffInChannel, OffInHandler, OffToSet
<1>6. OffOnWay => OffOnWay'
  BY <1>3, <1>4, <1>5 DEF OffToSend, OffOnWay
<1>7. ASSUME Cover PROVE OffToSend' \/ Fits(syncQueue')
  <2>1. CASE u = Off
    BY <1>3, <2>1
  <2>2. CASE OffToSet
    BY <1>5, <2>2 DEF OffToSend
  <2>3. CASE u # Off /\ ~OffToSet
    <3>1. ~In(Off, stored[Radio])
      BY <1>4, <2>3
    <3>2. u = On => In(Meant, syncQueue)
      BY <1>4, <1>7, <2>3 DEF Cover
    <3> QED BY <1>3, <1>7, <2>3, <3>1, <3>2 DEF Cover, OffToSend
  <2> QED BY <2>1, <2>2, <2>3
<1> QED BY <1>2, <1>3, <1>4, <1>5, <1>6, <1>7 DEF Cover

LEMMA ReplyCover ==
  ASSUME RadioInv, Reply(Radio)
  PROVE  (OffOnWay => OffOnWay') /\ (Cover => Cover')
<1>1. /\ ~job[Radio].at /\ job[Radio].todo = <<>> /\ UNCHANGED <<toMcl, inbox, stored, syncQueue>>
      /\ ~job'[Radio].at /\ job'[Radio].todo = <<>>
  BY Constants DEF Reply, NoJob, syncVars, RadioInv, RadioType
<1>2. /\ OffInLooper' <=> OffInLooper
      /\ OffInChannel' <=> OffInChannel
      /\ OffToSet' <=> OffToSet
      /\ OffToSend' <=> OffToSend
      /\ OffOnWay' <=> OffOnWay
  BY <1>1 DEF OffInLooper, OffInChannel, OffInHandler, OffToSet, OffToSend, OffOnWay
<1> QED BY <1>1, <1>2 DEF Cover

LEMMA CoverStep ==
  ASSUME RadioInv, RealInv, Knows, Smooth, CoverInv, faults = 0, faults' = 0, [Next]_vars
  PROVE  CoverInv'
<1>1. CASE TelCore
  BY <1>1, TelCoreCover
<1>2. CASE ~TelCore
  <2>1. UNCHANGED <<tel, told>> /\ (OffOnWay => OffOnWay') /\ (Cover => Cover')
    <3>1. CASE Dispatch
      BY <3>1, DispatchCover DEF Dispatch, MclApply, MclTake, mclVars
    <3>2. CASE \/ Construct \/ BootDone \/ ModemOffDone
               \/ \E on \in BOOLEAN : PowerDone(on)
               \/ \E op \in Request : PowerFails(op)
      BY <3>2, CommandCover
    <3>3. ASSUME NEW w \in Writer, Handler(w)
          PROVE  UNCHANGED <<tel, told>> /\ (OffOnWay => OffOnWay') /\ (Cover => Cover')
      <4>1. w = Radio
        BY <3>3, SmoothHandler
      <4>2. UNCHANGED <<tel, told>>
        BY <3>3 DEF Handler, Begin, Store, SendSync, Reply, MclStore, MclSend, syncVars, mclVars,
           radioVars
      <4> QED BY <3>3, <4>1, <4>2, BeginCover, StoreCover, SendCover, ReplyCover DEF Handler
    <3>4. CASE Rilj \/ UNCHANGED vars
      <4>1. UNCHANGED <<tel, told, toMcl, inbox, job, stored, syncQueue>>
        BY <3>4 DEF Rilj, Ask, vars, syncVars, radioVars
      <4>2. OffInLooper' <=> OffInLooper
        BY <4>1 DEF OffInLooper
      <4> QED BY <4>1, <4>2, CoverFrame DEF Cover
    <3> QED BY <1>2, <3>1, <3>2, <3>3, <3>4 DEF Next, Mcl
  <2> QED BY <2>1 DEF CoverInv, Behind
<1> QED BY <1>1, <1>2

\* All that is known of RILJ's view.
BeliefInv ==
    /\ RadioInv /\ RealInv /\ Knows
    /\ faults = 0 => Smooth /\ CoverInv

LEMMA BeliefStep == BeliefInv /\ [Next]_vars => BeliefInv'
<1> SUFFICES ASSUME BeliefInv, [Next]_vars PROVE BeliefInv'
  OBVIOUS
<1>1. RadioInv'
  BY StepMaps, SyncTypeStep, RadioTypeStep DEF BeliefInv, RadioInv
<1>2. RealInv' /\ Knows'
  BY RealStep, KnowsStep DEF BeliefInv
<1>3. ASSUME faults' = 0 PROVE Smooth' /\ CoverInv'
  <2>1. faults = 0
    BY <1>3, FaultsGrow DEF BeliefInv
  <2> QED BY <1>3, <2>1, SmoothStep, CoverStep DEF BeliefInv
<1> QED BY <1>1, <1>2, <1>3 DEF BeliefInv

\* At rest nothing is on the way that could still end Behind.
LEMMA BeliefKnows == BeliefInv => RiljKnows
<1> SUFFICES ASSUME BeliefInv PROVE RiljKnows
  OBVIOUS
<1>1. told = "ON" => tel["radio"] = "ON"
  BY DEF BeliefInv, Knows, Behind
<1>2. ASSUME Quiet, faults = 0 PROVE told = tel["radio"]
  <2>1. Running /\ toMcl = <<>> /\ inbox[Radio] = <<>> /\ job[Radio] = NoJob
    BY <1>2, Constants DEF Quiet
  <2>2. ~In(Off, stored[Radio]) /\ ~In(Off, syncQueue)
    <3>1. ~Has(syncQueue, "radio") /\ ~Has(stored[Radio], "radio")
      BY <1>2, Constants DEF Quiet, Up
    <3> QED BY <3>1, UpdatesApart DEF Has, In
  <2>3. ~OffOnWay
    BY <2>1, <2>2, InShort DEF OffInLooper, OffInChannel, OffInHandler, OffToSet, OffToSend,
       OffOnWay, NoJob
  <2> QED BY <1>2, <2>1, <2>3 DEF BeliefInv, Knows, CoverInv
<1> QED BY <1>1, <1>2 DEF RiljKnows

(* RILJ never takes the radio for on when TelCore would refuse its         *)
(* requests, whatever the modem refuses and however often it is repeated;  *)
(* and as long as nothing has been refused or powered off, it knows the    *)
(* state once all is done, for any number of requests: an ON that was kept *)
(* from it is followed by the OFF it asked for.                            *)
THEOREM RiljKnowsAlways == Spec => []RiljKnows
<1>1. Init => BeliefInv
  BY InitRadio, InitReal, InitKnows, InitSmooth, InitCover DEF BeliefInv
<1> QED BY <1>1, BeliefStep, BeliefKnows, PTL DEF Spec
=============================================================================
