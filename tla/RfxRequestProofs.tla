-------------------------- MODULE RfxRequestProofs --------------------------
(***************************************************************************)
(* Theorems about RfxRequest, for any requests, controllers and channels:  *)
(* the types, the wake-ups, where a request is, and that the framework's   *)
(* steps are those of RequestReply.                                        *)
(***************************************************************************)
EXTENDS RfxRequest, TLAPS

LEMMA RemoveAtType ==
  ASSUME NEW S, NEW q \in Seq(S), NEW i \in 1..Len(q)
  PROVE  /\ RemoveAt(q, i) \in Seq(S)
         /\ Len(RemoveAt(q, i)) = Len(q) - 1
         /\ \A j \in 1..(Len(q) - 1) :
              RemoveAt(q, i)[j] = IF j < i THEN q[j] ELSE q[j + 1]
  BY DEF RemoveAt

LEMMA AppendType ==
  ASSUME NEW S, NEW q \in Seq(S), NEW e \in S
  PROVE  /\ Append(q, e) \in Seq(S)
         /\ Len(Append(q, e)) = Len(q) + 1
         /\ \A i \in 1..Len(q) : Append(q, e)[i] = q[i]
         /\ Append(q, e)[Len(q) + 1] = e
  OBVIOUS

LEMMA NoneFresh ==
  None \notin Request /\ None \notin Controller /\ None \notin Channel
  BY RequestAssumption

LEMMA MessageType ==
  \A r \in Request : Req(r) \in Message /\ Resp(r) \in Message
  BY DEF Req, Resp, Message

LEMMA PollType ==
  ASSUME TypeOK, Poll
  PROVE  /\ NextMessage.token \in Request
         /\ looper' \in Seq(Message)
         /\ front' \in Seq(Request)
<1>1. CASE front # <<>>
  <2>1. Head(front) \in Request /\ Tail(front) \in Seq(Request)
    BY <1>1 DEF TypeOK, QueueType
  <2> QED BY <1>1, <2>1 DEF TypeOK, QueueType, Poll, NextMessage, Req
<1>2. CASE front = <<>>
  <2>1. Head(looper) \in Message /\ Tail(looper) \in Seq(Message)
    BY <1>2 DEF TypeOK, QueueType, Poll
  <2>2. Head(looper).token \in Request
    BY <2>1 DEF Message
  <2> QED BY <1>2, <2>1, <2>2 DEF TypeOK, QueueType, Poll, NextMessage
<1> QED BY <1>1, <1>2

(* The variables keep their types, whatever the threads do. *)
THEOREM TypeCorrect == Spec => []TypeOK
<1>1. Init => TypeOK
  <2> SUFFICES ASSUME Init PROVE TypeOK
    OBVIOUS
  <2>1. ClientType
    BY DEF Init, ClientType
  <2>2. QueueType
    BY DEF Init, QueueType
  <2>3. MainType
    <3>1. doing \in [Controller -> BOOLEAN]
      BY DEF Init
    <3>2. suspended \in Seq(Request) /\ resumeAt \in Nat \ {0}
      BY DEF Init
    <3>3. mainPc = "poll" /\ mainMsg = None /\ radioOff = TRUE /\ modemOff = FALSE
      BY DEF Init
    <3> QED BY <3>1, <3>2, <3>3 DEF MainType
  <2>4. MclType
    BY RequestAssumption DEF Init, MclType
  <2> QED BY <2>1, <2>2, <2>3, <2>4 DEF TypeOK
<1>2. TypeOK /\ [Next]_vars => TypeOK'
  <2> SUFFICES ASSUME TypeOK, [Next]_vars PROVE TypeOK'
    OBVIOUS
  <2> USE NoneFresh DEF clientVars, requestVars, mainVars, radioVars, loopVars,
          mclVars, replyVars
  <2>1. ASSUME NEW r \in Request, EnqueueRequest(r) PROVE TypeOK'
    <3>11. ClientType'
      BY <2>1 DEF TypeOK, ClientType, EnqueueRequest
    <3>12. QueueType'
      <4>1. requestQueue' \in Seq(Request) /\ responseQueue' \in Seq(Request)
        <5>1. requestQueue \in Seq(Request) /\ responseQueue \in Seq(Request)
          BY DEF TypeOK, QueueType
        <5>2. \/ requestQueue' = Append(requestQueue, r) /\ UNCHANGED responseQueue
              \/ responseQueue' = Append(responseQueue, r) /\ UNCHANGED requestQueue
          BY <2>1 DEF EnqueueRequest
        <5>3. /\ Append(requestQueue, r) \in Seq(Request)
              /\ Append(responseQueue, r) \in Seq(Request)
          BY <5>1
        <5> QED BY <5>1, <5>2, <5>3
      <4> QED BY <2>1, <4>1 DEF TypeOK, QueueType, EnqueueRequest
    <3>13. MainType'
      BY <2>1 DEF TypeOK, MainType, EnqueueRequest
    <3>14. MclType'
      BY <2>1 DEF TypeOK, MclType, EnqueueRequest
    <3> QED BY <3>11, <3>12, <3>13, <3>14 DEF TypeOK
  <2>2. CASE TakeRequest
    <3>11. ClientType'
      BY <2>2 DEF TypeOK, ClientType, TakeRequest
    <3>12. QueueType'
      BY <2>2 DEF TypeOK, QueueType, TakeRequest
    <3>13. MainType'
      BY <2>2 DEF TypeOK, MainType, TakeRequest
    <3>14. MclType'
      BY <2>2 DEF TypeOK, MclType, TakeRequest
    <3> QED BY <3>11, <3>12, <3>13, <3>14 DEF TypeOK
  <2>3. CASE PostRequest
    <3>11. ClientType'
      BY <2>3 DEF TypeOK, ClientType, PostRequest
    <3>12. QueueType'
      BY <2>3, MessageType DEF TypeOK, QueueType, PostRequest
    <3>13. MainType'
      BY <2>3 DEF TypeOK, MainType, PostRequest
    <3>14. MclType'
      BY <2>3 DEF TypeOK, MclType, PostRequest
    <3> QED BY <3>11, <3>12, <3>13, <3>14 DEF TypeOK
  <2>4. CASE TakeResponse
    <3>11. ClientType'
      BY <2>4 DEF TypeOK, ClientType, TakeResponse
    <3>12. QueueType'
      BY <2>4 DEF TypeOK, QueueType, TakeResponse
    <3>13. MainType'
      BY <2>4 DEF TypeOK, MainType, TakeResponse
    <3>14. MclType'
      BY <2>4 DEF TypeOK, MclType, TakeResponse
    <3> QED BY <3>11, <3>12, <3>13, <3>14 DEF TypeOK
  <2>5. CASE PostResponse
    <3>11. ClientType'
      BY <2>5 DEF TypeOK, ClientType, PostResponse
    <3>12. QueueType'
      BY <2>5, MessageType DEF TypeOK, QueueType, PostResponse
    <3>13. MainType'
      BY <2>5 DEF TypeOK, MainType, PostResponse
    <3>14. MclType'
      BY <2>5 DEF TypeOK, MclType, PostResponse
    <3> QED BY <3>11, <3>12, <3>13, <3>14 DEF TypeOK
  <2>6. CASE ProcessRequest
    <3> DEFINE r == NextMessage.token
    <3>1. r \in Request /\ looper' \in Seq(Message) /\ front' \in Seq(Request)
      BY <2>6, PollType DEF ProcessRequest
    <3>2. RejectRequest(r) \/ SuspendRequest(r) \/ ForwardRequest(r)
      BY <2>6 DEF ProcessRequest
    <3>3. doing' \in [Controller -> BOOLEAN] /\ mainMsg = None
      BY <2>6, <3>2 DEF TypeOK, MainType, RejectRequest, SuspendRequest, ForwardRequest,
                       ProcessRequest, Poll
    <3> HIDE DEF r
    <3>11. ClientType'
      <4>1. issued' = issued
        BY <2>6 DEF ProcessRequest
      <4>2. answers' \in [Request -> Nat] /\ forwarded' \in Seq(Request)
        <5>1. \/ answers' = [answers EXCEPT ![r] = answers[r] + 1] /\ UNCHANGED forwarded
              \/ UNCHANGED <<answers, forwarded>>
              \/ UNCHANGED answers /\ forwarded' = Append(forwarded, r)
          BY <3>2 DEF RejectRequest, SuspendRequest, ForwardRequest, AnswerClient
        <5>2. Append(forwarded, r) \in Seq(Request)
          BY <3>1 DEF TypeOK, ClientType
        <5>3. [answers EXCEPT ![r] = answers[r] + 1] \in [Request -> Nat]
          BY <3>1 DEF TypeOK, ClientType
        <5> QED BY <5>1, <5>2, <5>3 DEF TypeOK, ClientType
      <4> QED BY <4>1, <4>2 DEF TypeOK, ClientType
    <3>12. QueueType'
      BY <2>6, <3>1 DEF TypeOK, QueueType, ProcessRequest, RejectRequest,
                            SuspendRequest, ForwardRequest, AnswerClient
    <3>13. MainType'
      <4>1. /\ suspended' \in Seq(Request)
            /\ \/ mainPc' = "resume" /\ mainMsg' = None
               \/ mainPc' = "forward" /\ mainMsg' = r
        <5>1. /\ suspended' = suspended \/ suspended' = Append(suspended, r)
              /\ \/ mainPc' = "resume" /\ UNCHANGED mainMsg
                 \/ mainPc' = "forward" /\ mainMsg' = r
          BY <3>2 DEF RejectRequest, SuspendRequest, ForwardRequest
        <5> QED BY <3>1, <3>3, <5>1 DEF TypeOK, MainType
      <4>2. UNCHANGED <<resumeAt, radioVars>>
        BY <2>6 DEF ProcessRequest
      <4> QED BY <3>1, <3>3, <4>1, <4>2 DEF TypeOK, MainType
    <3>14. MclType'
      BY <2>6, <3>1, <3>2 DEF TypeOK, MclType, ProcessRequest, RejectRequest,
                                 SuspendRequest, ForwardRequest, AnswerClient
    <3> QED BY <3>11, <3>12, <3>13, <3>14 DEF TypeOK
  <2>7. CASE ProcessResponse
    <3> DEFINE r == NextMessage.token
    <3>1. r \in Request /\ looper' \in Seq(Message) /\ front' \in Seq(Request)
      BY <2>7, PollType DEF ProcessResponse
    <3>2. HandleResponse(r)
      BY <2>7 DEF ProcessResponse
    <3>3. doing' \in [Controller -> BOOLEAN] /\ mainMsg = None
      BY <2>7, <3>2 DEF TypeOK, MainType, HandleResponse, ProcessResponse, Poll
    <3> HIDE DEF r
    <3>11. ClientType'
      BY <2>7, <3>1, <3>2 DEF TypeOK, ClientType, ProcessResponse, HandleResponse, AnswerClient
    <3>12. QueueType'
      BY <2>7, <3>1 DEF TypeOK, QueueType, ProcessResponse, HandleResponse, AnswerClient
    <3>13. MainType'
      BY <2>7, <3>1, <3>2, <3>3 DEF TypeOK, MainType, ProcessResponse, HandleResponse, AnswerClient
    <3>14. MclType'
      BY <2>7, <3>1, <3>2 DEF TypeOK, MclType, ProcessResponse, HandleResponse, AnswerClient
    <3> QED BY <3>11, <3>12, <3>13, <3>14 DEF TypeOK
  <2>8. CASE ProcessStatusSync
    <3>11. ClientType'
      BY <2>8 DEF TypeOK, ClientType, ProcessStatusSync
    <3>12. QueueType'
      BY <2>8 DEF TypeOK, QueueType, ProcessStatusSync
    <3>13. MainType'
      BY <2>8 DEF TypeOK, MainType, ProcessStatusSync
    <3>14. MclType'
      BY <2>8 DEF TypeOK, MclType, ProcessStatusSync
    <3> QED BY <3>11, <3>12, <3>13, <3>14 DEF TypeOK
  <2>9. CASE EnqueueMcl
    <3>1. mainMsg \in Request
      BY <2>9 DEF TypeOK, MainType, EnqueueMcl
    <3>11. ClientType'
      BY <2>9 DEF TypeOK, ClientType, EnqueueMcl
    <3>12. QueueType'
      BY <2>9 DEF TypeOK, QueueType, EnqueueMcl
    <3>13. MainType'
      BY <2>9 DEF TypeOK, MainType, EnqueueMcl
    <3>14. MclType'
      BY <2>9, <3>1 DEF TypeOK, MclType, EnqueueMcl
    <3> QED BY <3>11, <3>12, <3>13, <3>14 DEF TypeOK
  <2>10. CASE ResumeMessage
    <3>1. resumeAt \in 1..Len(suspended) /\ suspended \in Seq(Request)
      BY <2>10 DEF TypeOK, MainType, ResumeMessage
    <3>2. suspended[resumeAt] \in Request /\ RemoveAt(suspended, resumeAt) \in Seq(Request)
      BY <3>1, RemoveAtType
    <3>11. ClientType'
      BY <2>10 DEF TypeOK, ClientType, ResumeMessage
    <3>12. QueueType'
      BY <2>10, <3>2 DEF TypeOK, QueueType, ResumeMessage
    <3>13. MainType'
      BY <2>10, <3>2 DEF TypeOK, MainType, ResumeMessage
    <3>14. MclType'
      BY <2>10 DEF TypeOK, MclType, ResumeMessage
    <3> QED BY <3>11, <3>12, <3>13, <3>14 DEF TypeOK
  <2>11. CASE KeepSuspended
    <3>11. ClientType'
      BY <2>11 DEF TypeOK, ClientType, KeepSuspended
    <3>12. QueueType'
      BY <2>11 DEF TypeOK, QueueType, KeepSuspended
    <3>13. MainType'
      BY <2>11 DEF TypeOK, MainType, KeepSuspended
    <3>14. MclType'
      BY <2>11 DEF TypeOK, MclType, KeepSuspended
    <3> QED BY <3>11, <3>12, <3>13, <3>14 DEF TypeOK
  <2>12. CASE ResumeDone
    <3>11. ClientType'
      BY <2>12 DEF TypeOK, ClientType, ResumeDone
    <3>12. QueueType'
      BY <2>12 DEF TypeOK, QueueType, ResumeDone
    <3>13. MainType'
      BY <2>12 DEF TypeOK, MainType, ResumeDone
    <3>14. MclType'
      BY <2>12 DEF TypeOK, MclType, ResumeDone
    <3> QED BY <3>11, <3>12, <3>13, <3>14 DEF TypeOK
  <2>13. ASSUME NEW t \in Replier, EnqueueResponse(t) PROVE TypeOK'
    <3>11. ClientType'
      BY <2>13 DEF TypeOK, ClientType, EnqueueResponse
    <3>12. QueueType'
      BY <2>13 DEF TypeOK, QueueType, EnqueueResponse
    <3>13. MainType'
      BY <2>13 DEF TypeOK, MainType, EnqueueResponse
    <3>14. MclType'
      BY <2>13 DEF TypeOK, MclType, EnqueueResponse
    <3> QED BY <3>11, <3>12, <3>13, <3>14 DEF TypeOK
  <2>14. CASE DispatchMcl
    <3>1. Head(mcl) \in Request /\ mcl' \in Seq(Request)
      BY <2>14 DEF TypeOK, MclType, DispatchMcl
    <3>2. channel' \in [Channel -> Seq(Request)]
      <4>1. PICK h : \/ UNCHANGED channel
                     \/ /\ h # None /\ h = Home[Head(mcl)]
                        /\ channel' = [channel EXCEPT ![h] = Append(channel[h], Head(mcl))]
        BY <2>14 DEF DispatchMcl
      <4>2. CASE UNCHANGED channel
        BY <4>2 DEF TypeOK, MclType
      <4>3. CASE h # None /\ h = Home[Head(mcl)]
        <5>1. h \in Channel
          BY <3>1, <4>3, RequestAssumption
        <5>2. Append(channel[h], Head(mcl)) \in Seq(Request)
          BY <3>1, <5>1 DEF TypeOK, MclType
        <5> QED BY <4>1, <4>2, <5>1, <5>2 DEF TypeOK, MclType
      <4> QED BY <4>1, <4>2, <4>3
    <3>11. ClientType'
      BY <2>14 DEF TypeOK, ClientType, DispatchMcl, MatchPending
    <3>12. QueueType'
      BY <2>14, <3>1 DEF TypeOK, QueueType, DispatchMcl, MatchPending
    <3>13. MainType'
      BY <2>14 DEF TypeOK, MainType, DispatchMcl, MatchPending
    <3>14. MclType'
      BY <2>14, <3>1, <3>2 DEF TypeOK, MclType, DispatchMcl, MatchPending
    <3> QED BY <3>11, <3>12, <3>13, <3>14 DEF TypeOK
  <2>15. ASSUME NEW h \in Channel, StartHandler(h) PROVE TypeOK'
    <3>1. Head(channel[h]) \in Request /\ Tail(channel[h]) \in Seq(Request)
      BY <2>15 DEF TypeOK, MclType, StartHandler
    <3>11. ClientType'
      BY <2>15 DEF TypeOK, ClientType, StartHandler
    <3>12. QueueType'
      BY <2>15 DEF TypeOK, QueueType, StartHandler
    <3>13. MainType'
      BY <2>15 DEF TypeOK, MainType, StartHandler
    <3>14. MclType'
      BY <2>15, <3>1, RequestAssumption DEF TypeOK, MclType, StartHandler
    <3> QED BY <3>11, <3>12, <3>13, <3>14 DEF TypeOK
  <2>16. ASSUME NEW h \in Channel, HandlerReply(h) PROVE TypeOK'
    <3>1. handling[h] \in Request
      BY <2>16 DEF TypeOK, MclType, HandlerReply
    <3>11. ClientType'
      BY <2>16 DEF TypeOK, ClientType, HandlerReply, MatchPending
    <3>12. QueueType'
      BY <2>16, <3>1 DEF TypeOK, QueueType, HandlerReply, MatchPending
    <3>13. MainType'
      BY <2>16 DEF TypeOK, MainType, HandlerReply, MatchPending
    <3>14. MclType'
      BY <2>16, <3>1, RequestAssumption DEF TypeOK, MclType, HandlerReply, MatchPending
    <3> QED BY <3>11, <3>12, <3>13, <3>14 DEF TypeOK
  <2>17. ASSUME NEW h \in Channel, FinishHandler(h) PROVE TypeOK'
    <3>11. ClientType'
      BY <2>17 DEF TypeOK, ClientType, FinishHandler
    <3>12. QueueType'
      BY <2>17 DEF TypeOK, QueueType, FinishHandler
    <3>13. MainType'
      BY <2>17 DEF TypeOK, MainType, FinishHandler
    <3>14. MclType'
      BY <2>17 DEF TypeOK, MclType, FinishHandler
    <3> QED BY <3>11, <3>12, <3>13, <3>14 DEF TypeOK
  <2>18. CASE UNCHANGED vars
    BY <2>18 DEF TypeOK, ClientType, QueueType, MainType, MclType, vars
  <2> QED
    BY <2>1, <2>2, <2>3, <2>4, <2>5, <2>6, <2>7, <2>8, <2>9, <2>10, <2>11, <2>12,
       <2>13, <2>14, <2>15, <2>16, <2>17, <2>18 DEF Next
<1> QED BY <1>1, <1>2, PTL DEF Spec
-----------------------------------------------------------------------------
(* processSuspendedMessage passes over a suspended request only while its  *)
(* controller is doing another one: behind its index, and everywhere when  *)
(* it does not run, every suspended request has one to wait for.           *)
WakeInv ==
  /\ mainPc # "resume" => resumeAt = 1
  /\ \A i \in 1..Len(suspended) : Owner[suspended[i]] \in Controller
  /\ \A i \in 1..Len(suspended) :
       i < resumeAt \/ mainPc # "resume" => doing[Owner[suspended[i]]]

LEMMA WakeStep == TypeOK /\ WakeInv /\ [Next]_vars => WakeInv'
<1> SUFFICES ASSUME TypeOK, WakeInv, [Next]_vars PROVE WakeInv'
  OBVIOUS
<1> USE DEF mainVars, radioVars
<1>0. /\ suspended \in Seq(Request) /\ resumeAt \in Nat \ {0}
      /\ doing \in [Controller -> BOOLEAN]
  BY DEF TypeOK, MainType
<1>1. CASE UNCHANGED <<mainPc, resumeAt, suspended, doing>>
  BY <1>1 DEF WakeInv
<1>2. CASE ProcessRequest
  <2> DEFINE r == NextMessage.token
  <2>1. r \in Request
    BY <1>2, PollType DEF ProcessRequest
  <2>2. mainPc = "poll" /\ resumeAt = 1 /\ resumeAt' = 1
    BY <1>2 DEF ProcessRequest, Poll, WakeInv
  <2>3. RejectRequest(r) \/ SuspendRequest(r) \/ ForwardRequest(r)
    BY <1>2 DEF ProcessRequest
  <2> HIDE DEF r
  <2>4. CASE RejectRequest(r)
    BY <1>0, <2>2, <2>4 DEF RejectRequest, WakeInv
  <2>5. CASE SuspendRequest(r)
    <3>1. Owner[r] \in Controller
      BY <2>1, <2>5, RequestAssumption DEF SuspendRequest
    <3>2. suspended' = Append(suspended, r) /\ mainPc' = "resume" /\ UNCHANGED doing
      BY <2>5 DEF SuspendRequest
    <3>3. \A i \in 1..Len(suspended') :
            \/ suspended'[i] = r
            \/ i \in 1..Len(suspended) /\ suspended'[i] = suspended[i]
      <4>1. /\ Len(suspended') = Len(suspended) + 1
            /\ \A i \in 1..Len(suspended) : suspended'[i] = suspended[i]
            /\ suspended'[Len(suspended) + 1] = r
        BY <1>0, <2>1, <3>2, AppendType
      <4>2. Len(suspended) \in Nat
        BY <1>0
      <4>3. \A i \in 1..(Len(suspended) + 1) : i = Len(suspended) + 1 \/ i \in 1..Len(suspended)
        BY <4>2
      <4> QED BY <4>1, <4>3
    <3> QED BY <1>0, <2>2, <3>1, <3>2, <3>3 DEF WakeInv
  <2>6. CASE ForwardRequest(r)
    <3>1. \A c \in Controller : doing[c] => doing'[c]
      BY <1>0, <2>6 DEF ForwardRequest
    <3>2. UNCHANGED suspended /\ mainPc' = "forward"
      BY <2>6 DEF ForwardRequest
    <3> QED BY <1>0, <2>2, <3>1, <3>2 DEF WakeInv
  <2> QED BY <2>3, <2>4, <2>5, <2>6
<1>3. CASE ProcessResponse
  <2>1. mainPc = "poll" /\ resumeAt = 1 /\ resumeAt' = 1
    BY <1>3 DEF ProcessResponse, Poll, WakeInv
  <2>2. mainPc' = "resume" /\ UNCHANGED suspended
    BY <1>3 DEF ProcessResponse, HandleResponse
  <2> QED BY <1>0, <2>1, <2>2 DEF WakeInv
<1>4. CASE ProcessStatusSync \/ EnqueueMcl
  <2>1. /\ mainPc # "resume" /\ mainPc' = "resume"
        /\ UNCHANGED <<resumeAt, suspended, doing>>
    BY <1>4 DEF ProcessStatusSync, EnqueueMcl
  <2> QED BY <1>0, <2>1 DEF WakeInv
<1>5. CASE ResumeMessage
  <2>1. /\ mainPc = "resume" /\ UNCHANGED <<mainPc, resumeAt, doing>>
        /\ resumeAt \in 1..Len(suspended)
        /\ suspended' = RemoveAt(suspended, resumeAt)
    BY <1>0, <1>5 DEF ResumeMessage
  <2>2. /\ Len(suspended') = Len(suspended) - 1
        /\ \A j \in 1..(Len(suspended) - 1) :
             suspended'[j] = IF j < resumeAt THEN suspended[j] ELSE suspended[j + 1]
    BY <1>0, <2>1, RemoveAtType
  <2> QED BY <1>0, <2>1, <2>2 DEF WakeInv
<1>6. CASE KeepSuspended
  <2>1. /\ mainPc = "resume" /\ UNCHANGED <<mainPc, suspended, doing>>
        /\ resumeAt' = resumeAt + 1
        /\ doing[Owner[suspended[resumeAt]]]
    BY <1>6 DEF KeepSuspended, CanHandle
  <2>2. \A i \in 1..Len(suspended) : i < resumeAt' => i < resumeAt \/ i = resumeAt
    BY <1>0, <2>1
  <2> QED BY <1>0, <2>1, <2>2 DEF WakeInv
<1>7. CASE ResumeDone
  <2>1. /\ mainPc = "resume" /\ resumeAt > Len(suspended)
        /\ mainPc' = "poll" /\ resumeAt' = 1 /\ UNCHANGED <<suspended, doing>>
    BY <1>7 DEF ResumeDone
  <2> QED BY <1>0, <2>1 DEF WakeInv
<1> QED
  BY <1>1, <1>2, <1>3, <1>4, <1>5, <1>6, <1>7
  DEF Next, vars, EnqueueRequest, TakeRequest, PostRequest, TakeResponse, PostResponse,
      EnqueueResponse, DispatchMcl, StartHandler, HandlerReply, FinishHandler

(* No lost wake-up, however many requests a controller suspends: while the *)
(* main thread waits for a message, each of them waits for a response.     *)
THEOREM NoLostWakeupAlways == Spec => []NoLostWakeup
<1>1. Init => WakeInv
  BY DEF Init, WakeInv
<1>2. WakeInv => NoLostWakeup
  BY DEF WakeInv, NoLostWakeup
<1> QED BY <1>1, <1>2, WakeStep, TypeCorrect, PTL DEF Spec
-----------------------------------------------------------------------------
(***************************************************************************)
(* Where a request is: each issued request is in exactly one place         *)
(* (OncePlaced), pendingQueue and the MCL side agree (PendingIffInMcl), a  *)
(* controller has at most one request in flight (OneInFlight), and so the  *)
(* framework's steps are those of RequestReply.                            *)
(***************************************************************************)
(* What the queue operations do to the elements of a queue without         *)
(* duplicates.                                                             *)
LEMMA AppendElems ==
  ASSUME NEW S, NEW q \in Seq(S), NEW e \in S
  PROVE  /\ Elems(Append(q, e)) = Elems(q) \union {e}
         /\ Distinct(q) /\ e \notin Elems(q) => Distinct(Append(q, e))
<1>1. /\ Len(q) \in Nat
      /\ Len(Append(q, e)) = Len(q) + 1
      /\ \A i \in 1..Len(q) : Append(q, e)[i] = q[i]
      /\ Append(q, e)[Len(q) + 1] = e
  BY AppendType
<1>2. \A i \in 1..(Len(q) + 1) : i \in 1..Len(q) \/ i = Len(q) + 1
  BY <1>1
<1>3. 1..Len(q) \subseteq 1..(Len(q) + 1) /\ Len(q) + 1 \in 1..(Len(q) + 1)
  BY <1>1
<1> HIDE DEF Elems
<1>4. Elems(Append(q, e)) = Elems(q) \union {e}
  BY <1>1, <1>2, <1>3 DEF Elems
<1>5. ASSUME Distinct(q), e \notin Elems(q) PROVE Distinct(Append(q, e))
  <2>1. \A i \in 1..Len(q) : q[i] # e
    BY <1>5 DEF Elems
  <2> QED BY <1>1, <1>2, <1>5, <2>1 DEF Distinct
<1> QED BY <1>4, <1>5

LEMMA TailElems ==
  ASSUME NEW S, NEW q \in Seq(S), q # <<>>, Distinct(q)
  PROVE  /\ Head(q) \in Elems(q)
         /\ Head(q) \in S
         /\ Elems(Tail(q)) = Elems(q) \ {Head(q)}
         /\ Distinct(Tail(q))
<1>1. /\ Len(q) \in Nat \ {0}
      /\ Head(q) = q[1] /\ Head(q) \in S
      /\ Len(Tail(q)) = Len(q) - 1
      /\ \A i \in 1..(Len(q) - 1) : Tail(q)[i] = q[i + 1]
  OBVIOUS
<1>2. 1 \in 1..Len(q) /\ \A i \in 1..(Len(q) - 1) : i + 1 \in 1..Len(q) /\ i + 1 # 1
  BY <1>1
<1>3. \A i \in 1..Len(q) : i = 1 \/ (i - 1 \in 1..(Len(q) - 1) /\ q[i] = Tail(q)[i - 1])
  BY <1>1
<1>4. Head(q) \in Elems(q)
  BY <1>1, <1>2 DEF Elems
<1>5. Elems(Tail(q)) = Elems(q) \ {Head(q)}
  <2>1. ASSUME NEW x \in Elems(Tail(q)) PROVE x \in Elems(q) \ {Head(q)}
    <3>1. PICK i \in 1..(Len(q) - 1) : x = q[i + 1]
      BY <1>1, <2>1 DEF Elems
    <3> QED BY <1>1, <1>2, <3>1 DEF Elems, Distinct
  <2>2. ASSUME NEW x \in Elems(q) \ {Head(q)} PROVE x \in Elems(Tail(q))
    <3>1. PICK i \in 1..Len(q) : x = q[i]
      BY <2>2 DEF Elems
    <3> QED BY <1>1, <1>3, <2>2, <3>1 DEF Elems
  <2> QED BY <2>1, <2>2
<1>6. Distinct(Tail(q))
  BY <1>1, <1>2 DEF Distinct
<1> QED BY <1>1, <1>4, <1>5, <1>6

LEMMA RemoveElems ==
  ASSUME NEW S, NEW q \in Seq(S), NEW n \in 1..Len(q), Distinct(q)
  PROVE  /\ q[n] \in Elems(q)
         /\ q[n] \in S
         /\ Elems(RemoveAt(q, n)) = Elems(q) \ {q[n]}
         /\ Distinct(RemoveAt(q, n))
<1> DEFINE s == RemoveAt(q, n)
<1>1. /\ Len(q) \in Nat /\ q[n] \in S
      /\ Len(s) = Len(q) - 1
      /\ \A j \in 1..(Len(q) - 1) : s[j] = IF j < n THEN q[j] ELSE q[j + 1]
  BY RemoveAtType
<1> HIDE DEF s
<1> DEFINE Old(j) == IF j < n THEN j ELSE j + 1
<1>2. \A j \in 1..(Len(q) - 1) : Old(j) \in 1..Len(q) /\ Old(j) # n /\ s[j] = q[Old(j)]
  BY <1>1
<1>3. \A i, j \in 1..(Len(q) - 1) : Old(i) = Old(j) => i = j
  BY <1>1
<1>4. \A i \in 1..Len(q) : i = n \/ \E j \in 1..(Len(q) - 1) : Old(j) = i
  <2> TAKE i \in 1..Len(q)
  <2>1. CASE i < n
    BY <1>1, <2>1
  <2>2. CASE i > n
    <3>1. i - 1 \in 1..(Len(q) - 1) /\ Old(i - 1) = i
      BY <1>1, <2>2
    <3> QED BY <3>1
  <2> QED BY <2>1, <2>2
<1> HIDE DEF Old
<1>5. q[n] \in Elems(q)
  BY DEF Elems
<1>6. Elems(s) = Elems(q) \ {q[n]}
  <2>1. ASSUME NEW x \in Elems(s) PROVE x \in Elems(q) \ {q[n]}
    <3>1. PICK j \in 1..(Len(q) - 1) : x = s[j]
      BY <1>1, <2>1 DEF Elems
    <3> QED BY <1>2, <3>1 DEF Elems, Distinct
  <2>2. ASSUME NEW x \in Elems(q) \ {q[n]} PROVE x \in Elems(s)
    <3>1. PICK i \in 1..Len(q) : x = q[i]
      BY <2>2 DEF Elems
    <3>2. PICK j \in 1..(Len(q) - 1) : Old(j) = i
      BY <1>4, <2>2, <3>1
    <3> QED BY <1>1, <1>2, <3>1, <3>2 DEF Elems
  <2> QED BY <2>1, <2>2
<1>7. Distinct(s)
  BY <1>1, <1>2, <1>3 DEF Distinct
<1> QED BY <1>1, <1>5, <1>6, <1>7 DEF s
-----------------------------------------------------------------------------
(* A family of sets that exclude each other still does when an element     *)
(* moves from one of them to another one.                                  *)
Exclusive(f, I, S) == \A i, j \in I : \A x \in S : x \in f[i] /\ x \in f[j] => i = j
Somewhere(f, I, x) == \E i \in I : x \in f[i]

LEMMA MoveElement ==
  ASSUME NEW S, NEW I, NEW f, NEW g, NEW p \in I, NEW q \in I, p # q, NEW r \in S,
         Exclusive(f, I, S), r \in f[p],
         g[p] = f[p] \ {r}, g[q] = f[q] \union {r},
         \A i \in I \ {p, q} : g[i] = f[i]
  PROVE  /\ Exclusive(g, I, S)
         /\ \A x \in S : Somewhere(g, I, x) <=> Somewhere(f, I, x)
<1>1. \A i \in I : \A x \in S : x \in g[i] <=> (IF x = r THEN i = q ELSE x \in f[i])
  <2> TAKE i \in I
  <2> TAKE x \in S
  <2>1. r \in f[i] <=> i = p
    BY DEF Exclusive
  <2>2. CASE i = p
    BY <2>2
  <2>3. CASE i = q
    BY <2>3
  <2>4. CASE i \in I \ {p, q}
    BY <2>1, <2>4
  <2> QED BY <2>2, <2>3, <2>4
<1>2. Exclusive(g, I, S)
  BY <1>1 DEF Exclusive
<1>3. \A x \in S : Somewhere(g, I, x) <=> Somewhere(f, I, x)
  BY <1>1 DEF Somewhere
<1> QED BY <1>2, <1>3

LEMMA AddElement ==
  ASSUME NEW S, NEW I, NEW f, NEW g, NEW q \in I, NEW r \in S,
         Exclusive(f, I, S), ~Somewhere(f, I, r),
         g[q] = f[q] \union {r}, \A i \in I \ {q} : g[i] = f[i]
  PROVE  /\ Exclusive(g, I, S)
         /\ \A x \in S : Somewhere(g, I, x) <=> Somewhere(f, I, x) \/ x = r
<1>1. \A i \in I : \A x \in S : x \in g[i] <=> (IF x = r THEN i = q ELSE x \in f[i])
  <2> TAKE i \in I
  <2> TAKE x \in S
  <2>1. r \notin f[i]
    BY DEF Somewhere
  <2>2. CASE i = q
    BY <2>1, <2>2
  <2>3. CASE i # q
    BY <2>1, <2>3
  <2> QED BY <2>2, <2>3
<1>2. Exclusive(g, I, S)
  BY <1>1 DEF Exclusive
<1>3. \A x \in S : Somewhere(g, I, x) <=> Somewhere(f, I, x) \/ x = r
  BY <1>1 DEF Somewhere
<1> QED BY <1>2, <1>3
-----------------------------------------------------------------------------
(* The places of RfxRequest.                                               *)
PlaceName == {"requestQueue", "requestThread", "request", "front", "suspended", "pending",
              "transit", "responseQueue", "responseThread", "response", "answered"}

Transit == {r \in Request : \E t \in Replier : transit[t] = r}
Answered == {r \in Request : answers[r] > 0}

LEMMA PlaceIs ==
  /\ DOMAIN Place = PlaceName
  /\ Place["requestQueue"] = Elems(requestQueue)
  /\ Place["requestThread"] = Held(requestThread)
  /\ Place["request"] = Posted("REQUEST")
  /\ Place["front"] = Elems(front)
  /\ Place["suspended"] = Elems(suspended)
  /\ Place["pending"] = pendingQueue
  /\ Place["transit"] = Transit
  /\ Place["responseQueue"] = Elems(responseQueue)
  /\ Place["responseThread"] = Held(responseThread)
  /\ Place["response"] = Posted("RESPONSE")
  /\ Place["answered"] = Answered
  BY DEF Place, PlaceName, Transit, Answered

LEMMA PlaceIsPrimed ==
  /\ DOMAIN Place' = PlaceName
  /\ Place'["requestQueue"] = Elems(requestQueue')
  /\ Place'["requestThread"] = Held(requestThread')
  /\ Place'["request"] = Posted("REQUEST")'
  /\ Place'["front"] = Elems(front')
  /\ Place'["suspended"] = Elems(suspended')
  /\ Place'["pending"] = pendingQueue'
  /\ Place'["transit"] = Transit'
  /\ Place'["responseQueue"] = Elems(responseQueue')
  /\ Place'["responseThread"] = Held(responseThread')
  /\ Place'["response"] = Posted("RESPONSE")'
  /\ Place'["answered"] = Answered'
  BY DEF Place, PlaceName, Transit, Answered

LEMMA PlaceExclusive ==
  ExactlyOnePlace <=> /\ Exclusive(Place, PlaceName, Request)
                      /\ \A r \in Request :
                           r \in Elems(issued) <=> Somewhere(Place, PlaceName, r)
  BY PlaceIs DEF ExactlyOnePlace, Exclusive, Somewhere

LEMMA PlaceExclusivePrimed ==
  ExactlyOnePlace' <=> /\ Exclusive(Place', PlaceName, Request)
                       /\ \A r \in Request :
                            r \in Elems(issued') <=> Somewhere(Place', PlaceName, r)
  BY PlaceIsPrimed DEF ExactlyOnePlace, Exclusive, Somewhere

(* How a step changes the places: the main thread's processMessage takes a *)
(* request along an edge of ProcessEdge, any other step along one of       *)
(* QuietEdge, and a new request enters one of two queues.                  *)
QuietEdge ==
  {<<"requestQueue", "requestThread">>, <<"requestThread", "request">>,
   <<"suspended", "front">>, <<"pending", "transit">>, <<"transit", "responseQueue">>,
   <<"responseQueue", "responseThread">>, <<"responseThread", "response">>}

ProcessEdge ==
  ({"front", "request"} \X {"suspended", "pending", "answered"})
    \union {<<"response", "answered">>}

Moves(p, q, r) ==
  /\ r \in Place[p]
  /\ Place'[p] = Place[p] \ {r}
  /\ Place'[q] = Place[q] \union {r}
  /\ \A i \in PlaceName \ {p, q} : Place'[i] = Place[i]

Enters(r, q) ==
  /\ r \notin Elems(issued)
  /\ r \in Unknown <=> q = "responseQueue"
  /\ Place'[q] = Place[q] \union {r}
  /\ \A i \in PlaceName \ {q} : Place'[i] = Place[i]

PlaceStep(Edge) ==
  \/ UNCHANGED issued /\ \A i \in PlaceName : Place'[i] = Place[i]
  \/ UNCHANGED issued /\ \E e \in Edge, r \in Request : Moves(e[1], e[2], r)
  \/ \E r \in Request : \E q \in {"requestQueue", "responseQueue"} : Enters(r, q)

LEMMA PlaceMove ==
  ASSUME ExactlyOnePlace, UNCHANGED issued, NEW Edge,
         NEW p \in PlaceName, NEW q \in PlaceName, p # q, <<p, q>> \in Edge,
         NEW r \in Request, Moves(p, q, r)
  PROVE  ExactlyOnePlace' /\ PlaceStep(Edge)
<1>0. PlaceStep(Edge)
  BY DEF PlaceStep
<1> DEFINE f == Place
           g == Place'
<1>1. Exclusive(f, PlaceName, Request)
  BY PlaceExclusive
<1>2. /\ r \in f[p] /\ g[p] = f[p] \ {r} /\ g[q] = f[q] \union {r}
      /\ \A i \in PlaceName \ {p, q} : g[i] = f[i]
  BY DEF Moves
<1> HIDE DEF f, g
<1>3. /\ Exclusive(g, PlaceName, Request)
      /\ \A x \in Request : Somewhere(g, PlaceName, x) <=> Somewhere(f, PlaceName, x)
  BY <1>1, <1>2, MoveElement
<1> QED BY <1>0, <1>3, PlaceExclusive, PlaceExclusivePrimed DEF f, g

LEMMA PlaceSame ==
  ASSUME ExactlyOnePlace, UNCHANGED issued, NEW Edge,
         \A i \in PlaceName : Place'[i] = Place[i]
  PROVE  ExactlyOnePlace' /\ PlaceStep(Edge)
  BY PlaceExclusive, PlaceExclusivePrimed DEF Exclusive, Somewhere, PlaceStep

LEMMA KeptPlaces ==
  /\ UNCHANGED looper => UNCHANGED <<Posted("REQUEST"), Posted("RESPONSE")>>
  /\ UNCHANGED transit => UNCHANGED Transit
  /\ UNCHANGED answers => UNCHANGED Answered
  BY DEF Posted, Transit, Answered

LEMMA PostedIs ==
  ASSUME NEW type
  PROVE  /\ Posted(type) \subseteq Request /\ Posted(type)' \subseteq Request
         /\ \A r \in Request :
              /\ r \in Posted(type) <=> [type |-> type, token |-> r] \in Elems(looper)
              /\ r \in Posted(type)' <=> [type |-> type, token |-> r] \in Elems(looper')
  BY DEF Posted, Elems

LEMMA PostPlaces ==
  ASSUME TypeOK, Distinct(looper), NEW r \in Request, NEW type \in {"REQUEST", "RESPONSE"},
         looper' = Append(looper, [type |-> type, token |-> r]),
         r \notin Posted(type)
  PROVE  /\ Distinct(looper')
         /\ Posted(type)' = Posted(type) \union {r}
         /\ \A other \in {"REQUEST", "RESPONSE"} \ {type} : Posted(other)' = Posted(other)
<1> DEFINE m == [type |-> type, token |-> r]
<1>1. looper \in Seq(Message) /\ m \in Message
  BY DEF TypeOK, QueueType, Message
<1>2. m \notin Elems(looper)
  BY PostedIs
<1>3. Elems(looper') = Elems(looper) \union {m} /\ Distinct(looper')
  BY <1>1, <1>2, AppendElems
<1>4. \A other \in {"REQUEST", "RESPONSE"}, s \in Request :
        [type |-> other, token |-> s] = m <=> other = type /\ s = r
  OBVIOUS
<1>5. Posted(type)' = Posted(type) \union {r}
  <2>1. \A s \in Request : s \in Posted(type)' <=> s \in Posted(type) \/ s = r
    BY <1>3, <1>4, PostedIs
  <2>2. Posted(type) \subseteq Request /\ Posted(type)' \subseteq Request
    BY PostedIs
  <2> QED BY <2>1, <2>2
<1>6. ASSUME NEW other \in {"REQUEST", "RESPONSE"} \ {type} PROVE Posted(other)' = Posted(other)
  <2>1. \A s \in Request : s \in Posted(other)' <=> s \in Posted(other)
    BY <1>3, <1>4, PostedIs
  <2> QED BY <2>1, PostedIs
<1> QED BY <1>3, <1>5, <1>6

(* What the main thread takes leaves its place.                            *)
Source == IF front # <<>> THEN "front"
          ELSE IF Head(looper).type = "REQUEST" THEN "request" ELSE "response"

LEMMA PollPlaces ==
  ASSUME TypeOK, Distinct(looper), Distinct(front), Poll
  PROVE  /\ Source \in {"front", "request", "response"}
         /\ NextMessage.type = "REQUEST" <=> Source # "response"
         /\ NextMessage.type = "RESPONSE" <=> Source = "response"
         /\ NextMessage.token \in Place[Source]
         /\ Place'[Source] = Place[Source] \ {NextMessage.token}
         /\ \A i \in {"front", "request", "response"} \ {Source} : Place'[i] = Place[i]
         /\ Distinct(looper') /\ Distinct(front')
<1>1. looper \in Seq(Message) /\ front \in Seq(Request)
  BY DEF TypeOK, QueueType
<1>2. CASE front # <<>>
  <2>1. /\ Head(front) \in Elems(front) /\ Elems(front') = Elems(front) \ {Head(front)}
        /\ Distinct(front') /\ UNCHANGED looper
    BY <1>1, <1>2, TailElems DEF Poll
  <2>2. Source = "front" /\ NextMessage.type = "REQUEST" /\ NextMessage.token = Head(front)
    BY <1>2 DEF Source, NextMessage, Req
  <2> QED BY <2>1, <2>2, PlaceIs, PlaceIsPrimed, KeptPlaces
<1>3. CASE front = <<>>
  <2>1. /\ Head(looper) \in Elems(looper) /\ Head(looper) \in Message
        /\ Elems(looper') = Elems(looper) \ {Head(looper)}
        /\ Distinct(looper') /\ UNCHANGED front
    BY <1>1, <1>3, TailElems DEF Poll
  <2>2. PICK type \in {"REQUEST", "RESPONSE"}, r \in Request :
          Head(looper) = [type |-> type, token |-> r]
    BY <2>1 DEF Message
  <2>3. NextMessage = [type |-> type, token |-> r]
    BY <1>3, <2>2 DEF NextMessage
  <2>4. \A other \in {"REQUEST", "RESPONSE"}, s \in Request :
          [type |-> other, token |-> s] = [type |-> type, token |-> r] <=> other = type /\ s = r
    OBVIOUS
  <2>5. r \in Posted(type) /\ Posted(type)' = Posted(type) \ {r}
    <3>1. /\ r \in Posted(type)
          /\ \A s \in Request : s \in Posted(type)' <=> s \in Posted(type) /\ s # r
      BY <2>1, <2>2, <2>4, PostedIs
    <3> QED BY <3>1, PostedIs
  <2>6. ASSUME NEW other \in {"REQUEST", "RESPONSE"} \ {type} PROVE Posted(other)' = Posted(other)
    <3>1. \A s \in Request : s \in Posted(other)' <=> s \in Posted(other)
      BY <2>1, <2>2, <2>4, PostedIs
    <3> QED BY <3>1, PostedIs
  <2>7. Source = IF type = "REQUEST" THEN "request" ELSE "response"
    BY <1>3, <2>2 DEF Source
  <2>8. CASE type = "REQUEST"
    <3>1. Posted("RESPONSE")' = Posted("RESPONSE")
      BY <2>6, <2>8
    <3> QED BY <2>1, <2>3, <2>5, <2>7, <2>8, <3>1, PlaceIs, PlaceIsPrimed
  <2>9. CASE type = "RESPONSE"
    <3>1. Posted("REQUEST")' = Posted("REQUEST")
      BY <2>6, <2>9
    <3> QED BY <2>1, <2>3, <2>5, <2>7, <2>9, <3>1, PlaceIs, PlaceIsPrimed
  <2> QED BY <2>8, <2>9
<1> QED BY <1>2, <1>3
-----------------------------------------------------------------------------
(* One step keeps every request in one place.                              *)
OneTransit == \A t, u \in Replier : transit[t] = transit[u] => t = u \/ transit[t] = None
OneAnswer == \A r \in Request : answers[r] <= 1

LEMMA NoDuplicateIs ==
  /\ NoDuplicate <=> /\ Distinct(issued) /\ Distinct(requestQueue) /\ Distinct(looper)
                     /\ Distinct(front) /\ Distinct(suspended) /\ Distinct(responseQueue)
                     /\ OneTransit /\ OneAnswer
  /\ NoDuplicate' <=> /\ Distinct(issued') /\ Distinct(requestQueue') /\ Distinct(looper')
                      /\ Distinct(front') /\ Distinct(suspended') /\ Distinct(responseQueue')
                      /\ OneTransit' /\ OneAnswer'
  BY DEF NoDuplicate, OneTransit, OneAnswer

LEMMA OneAtATime ==
  ASSUME ExactlyOnePlace, NEW p \in PlaceName, NEW r \in Request, r \in Place[p]
  PROVE  r \in Elems(issued) /\ \A q \in PlaceName \ {p} : r \notin Place[q]
  BY PlaceExclusive DEF Exclusive, Somewhere

LEMMA OnceEnqueue ==
  ASSUME TypeOK, OncePlaced, NEW r \in Request, EnqueueRequest(r)
  PROVE  OncePlaced' /\ PlaceStep(QuietEdge)
<1> USE DEF clientVars, requestVars, mainVars, radioVars, loopVars, mclVars, replyVars
<1>1. /\ issued \in Seq(Request) /\ requestQueue \in Seq(Request)
      /\ responseQueue \in Seq(Request)
  BY DEF TypeOK, ClientType, QueueType
<1>2. /\ r \notin Elems(issued) /\ issued' = Append(issued, r)
      /\ UNCHANGED <<answers, requestThread, suspended, looper, front, pendingQueue,
                     transit, responseThread>>
  BY DEF EnqueueRequest
<1>3. \A p \in PlaceName : r \notin Place[p]
  BY <1>2, PlaceExclusive DEF OncePlaced, Somewhere
<1>4. Elems(issued') = Elems(issued) \union {r} /\ Distinct(issued')
  BY <1>1, <1>2, AppendElems, NoDuplicateIs DEF OncePlaced
<1>5. \E q \in {"requestQueue", "responseQueue"} :
        Enters(r, q) /\ Distinct(requestQueue') /\ Distinct(responseQueue')
  <2>1. CASE r \in Unknown
    <3>1. responseQueue' = Append(responseQueue, r) /\ UNCHANGED requestQueue
      BY <2>1 DEF EnqueueRequest
    <3>2. r \notin Elems(responseQueue)
      BY <1>3, PlaceIs DEF PlaceName
    <3>3. /\ Elems(responseQueue') = Elems(responseQueue) \union {r}
          /\ Distinct(responseQueue') /\ Distinct(requestQueue')
      BY <1>1, <3>1, <3>2, AppendElems, NoDuplicateIs DEF OncePlaced
    <3>4. /\ Place'["responseQueue"] = Place["responseQueue"] \union {r}
          /\ \A i \in PlaceName \ {"responseQueue"} : Place'[i] = Place[i]
      BY <1>2, <3>1, <3>3, PlaceIs, PlaceIsPrimed, KeptPlaces DEF PlaceName
    <3> QED BY <1>2, <2>1, <3>3, <3>4 DEF Enters
  <2>2. CASE r \notin Unknown
    <3>1. requestQueue' = Append(requestQueue, r) /\ UNCHANGED responseQueue
      BY <2>2 DEF EnqueueRequest
    <3>2. r \notin Elems(requestQueue)
      BY <1>3, PlaceIs DEF PlaceName
    <3>3. /\ Elems(requestQueue') = Elems(requestQueue) \union {r}
          /\ Distinct(responseQueue') /\ Distinct(requestQueue')
      BY <1>1, <3>1, <3>2, AppendElems, NoDuplicateIs DEF OncePlaced
    <3>4. /\ Place'["requestQueue"] = Place["requestQueue"] \union {r}
          /\ \A i \in PlaceName \ {"requestQueue"} : Place'[i] = Place[i]
      BY <1>2, <3>1, <3>3, PlaceIs, PlaceIsPrimed, KeptPlaces DEF PlaceName
    <3> QED BY <1>2, <2>2, <3>3, <3>4 DEF Enters
  <2> QED BY <2>1, <2>2
<1>6. ExactlyOnePlace' /\ PlaceStep(QuietEdge)
  <2> DEFINE f == Place
             g == Place'
  <2>1. PICK q \in PlaceName : q \in {"requestQueue", "responseQueue"} /\ Enters(r, q)
    BY <1>5 DEF PlaceName
  <2>2. g[q] = f[q] \union {r} /\ \A i \in PlaceName \ {q} : g[i] = f[i]
    BY <2>1 DEF Enters
  <2>3. PlaceStep(QuietEdge)
    BY <2>1 DEF PlaceStep
  <2>4. Exclusive(f, PlaceName, Request) /\ ~Somewhere(f, PlaceName, r)
    BY <1>3, PlaceExclusive DEF OncePlaced, Somewhere
  <2> HIDE DEF f, g
  <2>5. /\ Exclusive(g, PlaceName, Request)
        /\ \A x \in Request : Somewhere(g, PlaceName, x) <=> Somewhere(f, PlaceName, x) \/ x = r
    BY <2>2, <2>4, AddElement
  <2> QED BY <1>4, <2>3, <2>5, PlaceExclusive, PlaceExclusivePrimed DEF f, g, OncePlaced
<1>7. NoDuplicate'
  BY <1>2, <1>4, <1>5, NoDuplicateIs DEF OncePlaced, OneTransit, OneAnswer
<1> QED BY <1>6, <1>7 DEF OncePlaced

LEMMA OnceRequestThread ==
  ASSUME TypeOK, OncePlaced, TakeRequest \/ PostRequest
  PROVE  OncePlaced' /\ PlaceStep(QuietEdge)
<1> USE DEF clientVars, requestVars, mainVars, radioVars, loopVars, mclVars, replyVars
<1>1. requestQueue \in Seq(Request) /\ requestThread \in Request \union {None}
  BY DEF TypeOK, QueueType
<1>2. CASE TakeRequest
  <2>1. /\ requestThread = None /\ requestQueue # <<>>
        /\ requestThread' = Head(requestQueue) /\ requestQueue' = Tail(requestQueue)
        /\ UNCHANGED <<issued, answers, suspended, looper, front, pendingQueue, transit,
                       responseQueue, responseThread>>
    BY <1>2 DEF TakeRequest
  <2>2. /\ Head(requestQueue) \in Elems(requestQueue) /\ Head(requestQueue) \in Request
        /\ Elems(requestQueue') = Elems(requestQueue) \ {Head(requestQueue)}
        /\ Distinct(requestQueue')
    BY <1>1, <2>1, TailElems, NoDuplicateIs DEF OncePlaced
  <2>3. Held(requestThread) = {} /\ Held(requestThread') = {Head(requestQueue)}
    BY <2>1, <2>2, NoneFresh DEF Held
  <2>4. \A i \in PlaceName \ {"requestQueue", "requestThread"} : Place'[i] = Place[i]
    BY <2>1, PlaceIs, PlaceIsPrimed, KeptPlaces DEF PlaceName
  <2>5. /\ Place'["requestQueue"] = Place["requestQueue"] \ {Head(requestQueue)}
        /\ Place'["requestThread"] = Place["requestThread"] \union {Head(requestQueue)}
        /\ Head(requestQueue) \in Place["requestQueue"]
    BY <2>2, <2>3, PlaceIs, PlaceIsPrimed
  <2>6. ExactlyOnePlace' /\ PlaceStep(QuietEdge)
    BY <2>1, <2>2, <2>4, <2>5, PlaceMove DEF OncePlaced, PlaceName, QuietEdge, Moves
  <2>7. NoDuplicate'
    BY <2>1, <2>2, NoDuplicateIs DEF OncePlaced, OneTransit, OneAnswer
  <2> QED BY <2>6, <2>7 DEF OncePlaced
<1>3. CASE PostRequest
  <2>1. /\ requestThread # None /\ requestThread' = None
        /\ looper' = Append(looper, [type |-> "REQUEST", token |-> requestThread])
        /\ UNCHANGED <<issued, answers, suspended, front, pendingQueue, transit,
                       requestQueue, responseQueue, responseThread>>
    BY <1>3 DEF PostRequest, Req
  <2>2. requestThread \in Request /\ Held(requestThread) = {requestThread} /\ Held(requestThread') = {}
    BY <1>1, <2>1 DEF Held
  <2>3. requestThread \notin Posted("REQUEST") /\ requestThread \in Place["requestThread"]
    <3>1. requestThread \in Place["requestThread"]
      BY <2>2, PlaceIs
    <3> QED BY <2>2, <3>1, OneAtATime, PlaceIs DEF OncePlaced, PlaceName
  <2>4. /\ Distinct(looper')
        /\ Posted("REQUEST")' = Posted("REQUEST") \union {requestThread}
        /\ Posted("RESPONSE")' = Posted("RESPONSE")
    BY <2>1, <2>2, <2>3, PostPlaces, NoDuplicateIs DEF OncePlaced
  <2>5. \A i \in PlaceName \ {"requestThread", "request"} : Place'[i] = Place[i]
    BY <2>1, <2>4, PlaceIs, PlaceIsPrimed, KeptPlaces DEF PlaceName
  <2>6. /\ Place'["requestThread"] = Place["requestThread"] \ {requestThread}
        /\ Place'["request"] = Place["request"] \union {requestThread}
    BY <2>2, <2>4, PlaceIs, PlaceIsPrimed
  <2>7. ExactlyOnePlace' /\ PlaceStep(QuietEdge)
    BY <2>1, <2>2, <2>3, <2>5, <2>6, PlaceMove DEF OncePlaced, PlaceName, QuietEdge, Moves
  <2>8. NoDuplicate'
    BY <2>1, <2>4, NoDuplicateIs DEF OncePlaced, OneTransit, OneAnswer
  <2> QED BY <2>7, <2>8 DEF OncePlaced
<1> QED BY <1>2, <1>3

LEMMA OnceResponseThread ==
  ASSUME TypeOK, OncePlaced, TakeResponse \/ PostResponse
  PROVE  OncePlaced' /\ PlaceStep(QuietEdge)
<1> USE DEF clientVars, requestVars, mainVars, radioVars, loopVars, mclVars, replyVars
<1>1. responseQueue \in Seq(Request) /\ responseThread \in Request \union {None}
  BY DEF TypeOK, QueueType
<1>2. CASE TakeResponse
  <2>1. /\ responseThread = None /\ responseQueue # <<>>
        /\ responseThread' = Head(responseQueue) /\ responseQueue' = Tail(responseQueue)
        /\ UNCHANGED <<issued, answers, suspended, looper, front, pendingQueue, transit,
                       requestQueue, requestThread>>
    BY <1>2 DEF TakeResponse
  <2>2. /\ Head(responseQueue) \in Elems(responseQueue) /\ Head(responseQueue) \in Request
        /\ Elems(responseQueue') = Elems(responseQueue) \ {Head(responseQueue)}
        /\ Distinct(responseQueue')
    BY <1>1, <2>1, TailElems, NoDuplicateIs DEF OncePlaced
  <2>3. Held(responseThread) = {} /\ Held(responseThread') = {Head(responseQueue)}
    BY <2>1, <2>2, NoneFresh DEF Held
  <2>4. \A i \in PlaceName \ {"responseQueue", "responseThread"} : Place'[i] = Place[i]
    BY <2>1, PlaceIs, PlaceIsPrimed, KeptPlaces DEF PlaceName
  <2>5. /\ Place'["responseQueue"] = Place["responseQueue"] \ {Head(responseQueue)}
        /\ Place'["responseThread"] = Place["responseThread"] \union {Head(responseQueue)}
        /\ Head(responseQueue) \in Place["responseQueue"]
    BY <2>2, <2>3, PlaceIs, PlaceIsPrimed
  <2>6. ExactlyOnePlace' /\ PlaceStep(QuietEdge)
    BY <2>1, <2>2, <2>4, <2>5, PlaceMove DEF OncePlaced, PlaceName, QuietEdge, Moves
  <2>7. NoDuplicate'
    BY <2>1, <2>2, NoDuplicateIs DEF OncePlaced, OneTransit, OneAnswer
  <2> QED BY <2>6, <2>7 DEF OncePlaced
<1>3. CASE PostResponse
  <2>1. /\ responseThread # None /\ responseThread' = None
        /\ looper' = Append(looper, [type |-> "RESPONSE", token |-> responseThread])
        /\ UNCHANGED <<issued, answers, suspended, front, pendingQueue, transit,
                       requestQueue, requestThread, responseQueue>>
    BY <1>3 DEF PostResponse, Resp
  <2>2. /\ responseThread \in Request /\ Held(responseThread) = {responseThread}
        /\ Held(responseThread') = {}
    BY <1>1, <2>1 DEF Held
  <2>3. responseThread \notin Posted("RESPONSE") /\ responseThread \in Place["responseThread"]
    <3>1. responseThread \in Place["responseThread"]
      BY <2>2, PlaceIs
    <3> QED BY <2>2, <3>1, OneAtATime, PlaceIs DEF OncePlaced, PlaceName
  <2>4. /\ Distinct(looper')
        /\ Posted("RESPONSE")' = Posted("RESPONSE") \union {responseThread}
        /\ Posted("REQUEST")' = Posted("REQUEST")
    BY <2>1, <2>2, <2>3, PostPlaces, NoDuplicateIs DEF OncePlaced
  <2>5. \A i \in PlaceName \ {"responseThread", "response"} : Place'[i] = Place[i]
    BY <2>1, <2>4, PlaceIs, PlaceIsPrimed, KeptPlaces DEF PlaceName
  <2>6. /\ Place'["responseThread"] = Place["responseThread"] \ {responseThread}
        /\ Place'["response"] = Place["response"] \union {responseThread}
    BY <2>2, <2>4, PlaceIs, PlaceIsPrimed
  <2>7. ExactlyOnePlace' /\ PlaceStep(QuietEdge)
    BY <2>1, <2>2, <2>3, <2>5, <2>6, PlaceMove DEF OncePlaced, PlaceName, QuietEdge, Moves
  <2>8. NoDuplicate'
    BY <2>1, <2>4, NoDuplicateIs DEF OncePlaced, OneTransit, OneAnswer
  <2> QED BY <2>7, <2>8 DEF OncePlaced
<1> QED BY <1>2, <1>3

(* Answering a client for the first time.                                  *)
LEMMA AnswerPlaces ==
  ASSUME TypeOK, OncePlaced, NEW r \in Request, AnswerClient(r),
         NEW p \in PlaceName \ {"answered"}, r \in Place[p]
  PROVE  OneAnswer' /\ Place'["answered"] = Place["answered"] \union {r}
<1>1. r \notin Answered
  BY OneAtATime, PlaceIs DEF OncePlaced, PlaceName
<1>2. answers[r] = 0
  BY <1>1 DEF Answered, TypeOK, ClientType
<1>3. /\ answers \in [Request -> Nat]
      /\ \A s \in Request : answers'[s] = IF s = r THEN 1 ELSE answers[s]
  BY <1>2 DEF AnswerClient, TypeOK, ClientType
<1>4. OneAnswer'
  BY <1>3, NoDuplicateIs DEF OncePlaced, OneAnswer
<1>5. Answered' = Answered \union {r}
  BY <1>3 DEF Answered
<1> QED BY <1>4, <1>5, PlaceIs, PlaceIsPrimed

LEMMA OnceProcess ==
  ASSUME TypeOK, OncePlaced, ProcessRequest \/ ProcessResponse
  PROVE  OncePlaced' /\ PlaceStep(ProcessEdge)
<1> USE DEF clientVars, requestVars, mainVars, radioVars, loopVars, mclVars, replyVars
<1> DEFINE r == NextMessage.token
<1>1. /\ Poll
      /\ UNCHANGED <<issued, requestQueue, requestThread, transit, responseQueue,
                     responseThread>>
  BY DEF ProcessRequest, ProcessResponse
<1>2. /\ Source \in {"front", "request", "response"} /\ r \in Place[Source]
      /\ Place'[Source] = Place[Source] \ {r}
      /\ \A i \in {"front", "request", "response"} \ {Source} : Place'[i] = Place[i]
      /\ Distinct(looper') /\ Distinct(front')
  BY <1>1, PollPlaces, NoDuplicateIs DEF OncePlaced
<1>3. r \in Request
  BY <1>1, PollType
<1>4. \E q \in {"answered", "suspended", "pending"} :
        /\ Place'[q] = Place[q] \union {r}
        /\ \A i \in {"answered", "suspended", "pending"} \ {q} : Place'[i] = Place[i]
        /\ Distinct(suspended') /\ OneAnswer'
        /\ Source = "response" => q = "answered"
  <2> HIDE DEF r
  <2>1. CASE AnswerClient(r) /\ UNCHANGED <<suspended, pendingQueue>>
    <3>1. OneAnswer' /\ Place'["answered"] = Place["answered"] \union {r}
      BY <1>2, <1>3, <2>1, AnswerPlaces DEF PlaceName
    <3>2. \A i \in {"suspended", "pending"} : Place'[i] = Place[i]
      BY <2>1, PlaceIs, PlaceIsPrimed
    <3> QED BY <2>1, <3>1, <3>2, NoDuplicateIs DEF OncePlaced
  <2>2. CASE /\ suspended' = Append(suspended, r) /\ UNCHANGED <<answers, pendingQueue>>
             /\ Source # "response"
    <3>1. r \notin Elems(suspended) /\ suspended \in Seq(Request)
      BY <1>2, <1>3, OneAtATime, PlaceIs DEF OncePlaced, PlaceName, TypeOK, MainType
    <3>2. Elems(suspended') = Elems(suspended) \union {r} /\ Distinct(suspended')
      BY <1>3, <2>2, <3>1, AppendElems, NoDuplicateIs DEF OncePlaced
    <3>3. /\ Place'["suspended"] = Place["suspended"] \union {r}
          /\ \A i \in {"answered", "pending"} : Place'[i] = Place[i]
      BY <2>2, <3>2, PlaceIs, PlaceIsPrimed, KeptPlaces
    <3> QED BY <2>2, <3>2, <3>3, NoDuplicateIs DEF OncePlaced, OneAnswer
  <2>3. CASE /\ pendingQueue' = pendingQueue \union {r} /\ UNCHANGED <<answers, suspended>>
             /\ Source # "response"
    <3>1. /\ Place'["pending"] = Place["pending"] \union {r}
          /\ \A i \in {"answered", "suspended"} : Place'[i] = Place[i]
      BY <2>3, PlaceIs, PlaceIsPrimed, KeptPlaces
    <3> QED BY <2>3, <3>1, NoDuplicateIs DEF OncePlaced, OneAnswer
  <2>4. \/ /\ Source # "response"
           /\ RejectRequest(r) \/ SuspendRequest(r) \/ ForwardRequest(r)
        \/ HandleResponse(r)
    <3>1. NextMessage.type = "REQUEST" <=> Source # "response"
      BY <1>1, PollPlaces, NoDuplicateIs DEF OncePlaced
    <3> QED BY <3>1 DEF ProcessRequest, ProcessResponse, r
  <2> QED
    BY <2>1, <2>2, <2>3, <2>4
    DEF RejectRequest, SuspendRequest, ForwardRequest, HandleResponse
<1> HIDE DEF r
<1>5. \A i \in {"requestQueue", "requestThread", "transit", "responseQueue", "responseThread"} :
        Place'[i] = Place[i]
  BY <1>1, PlaceIs, PlaceIsPrimed, KeptPlaces
<1>6. ExactlyOnePlace' /\ PlaceStep(ProcessEdge)
  <2>1. PICK q \in {"answered", "suspended", "pending"} :
          /\ Place'[q] = Place[q] \union {r}
          /\ \A i \in {"answered", "suspended", "pending"} \ {q} : Place'[i] = Place[i]
          /\ Source = "response" => q = "answered"
    BY <1>4
  <2>2. PICK p \in {"front", "request", "response"} :
          /\ p = Source
          /\ r \in Place[p] /\ Place'[p] = Place[p] \ {r}
          /\ \A i \in {"front", "request", "response"} \ {p} : Place'[i] = Place[i]
    BY <1>2
  <2>3. \A i \in PlaceName \ {p, q} : Place'[i] = Place[i]
    BY <1>5, <2>1, <2>2 DEF PlaceName
  <2>4. p \in PlaceName /\ q \in PlaceName /\ p # q /\ <<p, q>> \in ProcessEdge
    BY <2>1, <2>2 DEF PlaceName, ProcessEdge
  <2> QED BY <1>1, <1>3, <2>1, <2>2, <2>3, <2>4, PlaceMove DEF OncePlaced, Moves
<1>7. NoDuplicate'
  BY <1>1, <1>2, <1>4, NoDuplicateIs DEF OncePlaced, OneTransit
<1> QED BY <1>6, <1>7 DEF OncePlaced

LEMMA OnceResume ==
  ASSUME TypeOK, OncePlaced, ResumeMessage
  PROVE  OncePlaced' /\ PlaceStep(QuietEdge)
<1> USE DEF clientVars, requestVars, mainVars, radioVars, loopVars, mclVars, replyVars
<1>1. /\ suspended \in Seq(Request) /\ front \in Seq(Request)
      /\ resumeAt \in 1..Len(suspended)
      /\ suspended' = RemoveAt(suspended, resumeAt)
      /\ front' = Append(front, suspended[resumeAt])
      /\ UNCHANGED <<issued, answers, requestQueue, requestThread, looper, pendingQueue, transit,
                     responseQueue, responseThread>>
  BY DEF ResumeMessage, TypeOK, MainType, QueueType
<1>2. PICK r \in Request :
        /\ r = suspended[resumeAt] /\ r \in Elems(suspended)
        /\ Elems(suspended') = Elems(suspended) \ {r} /\ Distinct(suspended')
  BY <1>1, RemoveElems, NoDuplicateIs DEF OncePlaced
<1>3. r \in Place["suspended"] /\ r \notin Elems(front)
  BY <1>2, OneAtATime, PlaceIs DEF OncePlaced, PlaceName
<1>4. Elems(front') = Elems(front) \union {r} /\ Distinct(front')
  BY <1>1, <1>2, <1>3, AppendElems, NoDuplicateIs DEF OncePlaced
<1>5. /\ Place'["suspended"] = Place["suspended"] \ {r}
      /\ Place'["front"] = Place["front"] \union {r}
      /\ \A i \in PlaceName \ {"suspended", "front"} : Place'[i] = Place[i]
  BY <1>1, <1>2, <1>4, PlaceIs, PlaceIsPrimed, KeptPlaces DEF PlaceName
<1>6. ExactlyOnePlace' /\ PlaceStep(QuietEdge)
  BY <1>1, <1>3, <1>5, PlaceMove DEF OncePlaced, PlaceName, QuietEdge, Moves
<1>7. NoDuplicate'
  BY <1>1, <1>2, <1>4, NoDuplicateIs DEF OncePlaced, OneTransit, OneAnswer
<1> QED BY <1>6, <1>7 DEF OncePlaced

LEMMA OnceEnqueueResponse ==
  ASSUME TypeOK, OncePlaced, NEW t \in Replier, EnqueueResponse(t)
  PROVE  OncePlaced' /\ PlaceStep(QuietEdge)
<1> USE DEF clientVars, requestVars, mainVars, radioVars, loopVars, mclVars, replyVars
<1>1. /\ responseQueue \in Seq(Request) /\ transit \in [Replier -> Request \union {None}]
      /\ transit[t] # None
      /\ responseQueue' = Append(responseQueue, transit[t])
      /\ transit' = [transit EXCEPT ![t] = None]
      /\ UNCHANGED <<issued, answers, requestQueue, requestThread, looper, front, suspended,
                     pendingQueue, responseThread>>
  BY DEF EnqueueResponse, TypeOK, QueueType
<1>2. PICK r \in Request : r = transit[t] /\ r # None
  BY <1>1
<1>3. OneTransit
  BY NoDuplicateIs DEF OncePlaced
<1>4. r \in Transit /\ Transit' = Transit \ {r} /\ OneTransit'
  <2>1. \A u \in Replier : transit'[u] = IF u = t THEN None ELSE transit[u]
    BY <1>1
  <2>2. \A u \in Replier : transit[u] = r <=> u = t
    BY <1>2, <1>3 DEF OneTransit
  <2>3. r \in Transit
    BY <1>2 DEF Transit
  <2>4. \A s \in Request : s \in Transit' <=> s \in Transit /\ s # r
    BY <2>1, <2>2, NoneFresh DEF Transit
  <2>5. OneTransit'
    BY <1>3, <2>1 DEF OneTransit
  <2> QED BY <2>3, <2>4, <2>5 DEF Transit
<1>5. r \in Place["transit"] /\ r \notin Elems(responseQueue)
  BY <1>4, OneAtATime, PlaceIs DEF OncePlaced, PlaceName
<1>6. Elems(responseQueue') = Elems(responseQueue) \union {r} /\ Distinct(responseQueue')
  BY <1>1, <1>2, <1>5, AppendElems, NoDuplicateIs DEF OncePlaced
<1>7. /\ Place'["transit"] = Place["transit"] \ {r}
      /\ Place'["responseQueue"] = Place["responseQueue"] \union {r}
      /\ \A i \in PlaceName \ {"transit", "responseQueue"} : Place'[i] = Place[i]
  BY <1>1, <1>4, <1>6, PlaceIs, PlaceIsPrimed, KeptPlaces DEF PlaceName
<1>8. ExactlyOnePlace' /\ PlaceStep(QuietEdge)
  BY <1>1, <1>5, <1>7, PlaceMove DEF OncePlaced, PlaceName, QuietEdge, Moves
<1>9. NoDuplicate'
  BY <1>1, <1>4, <1>6, NoDuplicateIs DEF OncePlaced, OneAnswer
<1> QED BY <1>8, <1>9 DEF OncePlaced

(* Whoever answers, the request leaves pendingQueue for this thread's hand. *)
LEMMA OnceMatch ==
  ASSUME TypeOK, OncePlaced, NEW t \in Replier, NEW r \in Request, transit[t] = None,
         MatchPending(t, r),
         UNCHANGED <<issued, answers, requestQueue, requestThread, looper, front, suspended,
                     responseQueue, responseThread>>
  PROVE  OncePlaced' /\ PlaceStep(QuietEdge)
<1>0. transit \in [Replier -> Request \union {None}] /\ OneTransit
  BY NoDuplicateIs DEF TypeOK, QueueType, OncePlaced
<1>1. CASE r \in pendingQueue
  <2>1. pendingQueue' = pendingQueue \ {r} /\ transit' = [transit EXCEPT ![t] = r]
    BY <1>1 DEF MatchPending
  <2>2. r \in Place["pending"] /\ r \notin Transit
    BY <1>1, OneAtATime, PlaceIs DEF OncePlaced, PlaceName
  <2>3. Transit' = Transit \union {r} /\ OneTransit'
    <3>1. \A u \in Replier : transit'[u] = IF u = t THEN r ELSE transit[u]
      BY <1>0, <2>1
    <3>2. \A u \in Replier : transit[u] # r
      BY <2>2 DEF Transit
    <3>3. \A s \in Request : s \in Transit' <=> s \in Transit \/ s = r
      BY <3>1, NoneFresh DEF Transit
    <3>4. OneTransit'
      BY <1>0, <3>1, <3>2 DEF OneTransit
    <3> QED BY <3>3, <3>4 DEF Transit
  <2>4. /\ Place'["pending"] = Place["pending"] \ {r}
        /\ Place'["transit"] = Place["transit"] \union {r}
        /\ \A i \in PlaceName \ {"pending", "transit"} : Place'[i] = Place[i]
    BY <2>1, <2>3, PlaceIs, PlaceIsPrimed, KeptPlaces DEF PlaceName
  <2>5. ExactlyOnePlace' /\ PlaceStep(QuietEdge)
    BY <2>2, <2>4, PlaceMove DEF OncePlaced, PlaceName, QuietEdge, Moves
  <2>6. NoDuplicate'
    BY <2>3, NoDuplicateIs DEF OncePlaced, OneAnswer
  <2> QED BY <2>5, <2>6 DEF OncePlaced
<1>2. CASE r \notin pendingQueue
  <2>1. UNCHANGED <<pendingQueue, transit>>
    BY <1>2 DEF MatchPending
  <2>2. \A i \in PlaceName : Place'[i] = Place[i]
    BY <2>1, PlaceIs, PlaceIsPrimed, KeptPlaces DEF PlaceName
  <2> QED BY <2>1, <2>2, PlaceSame, NoDuplicateIs DEF OncePlaced, OneTransit, OneAnswer
<1> QED BY <1>1, <1>2

LEMMA OnceStill ==
  ASSUME OncePlaced,
         UNCHANGED <<issued, answers, requestQueue, requestThread, looper, front, suspended,
                     pendingQueue, transit, responseQueue, responseThread>>
  PROVE  OncePlaced' /\ PlaceStep(QuietEdge)
<1>1. \A i \in PlaceName : Place'[i] = Place[i]
  BY PlaceIs, PlaceIsPrimed, KeptPlaces DEF PlaceName
<1> QED BY <1>1, PlaceSame, NoDuplicateIs DEF OncePlaced, OneTransit, OneAnswer

LEMMA OnceStep ==
  ASSUME TypeOK, OncePlaced, [Next]_vars
  PROVE  /\ OncePlaced'
         /\ PlaceStep(QuietEdge) \/ PlaceStep(ProcessEdge)
         /\ ~(ProcessRequest \/ ProcessResponse) => PlaceStep(QuietEdge)
<1> USE DEF clientVars, requestVars, mainVars, radioVars, loopVars, mclVars, replyVars
<1>1. CASE DispatchMcl
  <2>1. Head(mcl) \in Request
    BY <1>1 DEF DispatchMcl, TypeOK, MclType
  <2>2. CASE Home[Head(mcl)] = None
    BY <1>1, <2>1, <2>2, OnceMatch DEF DispatchMcl, Replier
  <2>3. CASE Home[Head(mcl)] # None
    BY <1>1, <2>3, OnceStill DEF DispatchMcl
  <2> QED BY <2>2, <2>3
<1>2. ASSUME NEW h \in Channel, HandlerReply(h) PROVE OncePlaced' /\ PlaceStep(QuietEdge)
  <2>1. handling[h] \in Request
    BY <1>2 DEF HandlerReply, TypeOK, MclType
  <2> QED BY <1>2, <2>1, OnceMatch DEF HandlerReply, Replier
<1>3. CASE ProcessStatusSync \/ EnqueueMcl \/ KeepSuspended \/ ResumeDone
  BY <1>3, OnceStill DEF ProcessStatusSync, EnqueueMcl, KeepSuspended, ResumeDone
<1>4. ASSUME NEW h \in Channel, StartHandler(h) \/ FinishHandler(h) PROVE OncePlaced' /\ PlaceStep(QuietEdge)
  BY <1>4, OnceStill DEF StartHandler, FinishHandler
<1>5. CASE UNCHANGED vars
  BY <1>5, OnceStill DEF vars
<1> QED
  BY <1>1, <1>2, <1>3, <1>4, <1>5, OnceEnqueue, OnceRequestThread, OnceResponseThread,
     OnceProcess, OnceResume, OnceEnqueueResponse DEF Next

(* No request is lost or handed on twice between the threads, and none is  *)
(* answered while somebody may still answer it, however many there are.    *)
THEOREM OncePlacedAlways == Spec => []OncePlaced
<1>1. Init => OncePlaced
  <2> SUFFICES ASSUME Init PROVE OncePlaced
    OBVIOUS
  <2>1. /\ issued = <<>> /\ requestQueue = <<>> /\ looper = <<>> /\ front = <<>>
        /\ suspended = <<>> /\ responseQueue = <<>> /\ pendingQueue = {}
        /\ requestThread = None /\ responseThread = None
        /\ answers = [r \in Request |-> 0] /\ transit = [t \in Replier |-> None]
    BY DEF Init
  <2>2. Elems(<<>>) = {} /\ Distinct(<<>>)
    BY DEF Elems, Distinct
  <2>3. NoDuplicate
    BY <2>1, <2>2, NoDuplicateIs DEF OneTransit, OneAnswer
  <2>4. /\ Posted("REQUEST") = {} /\ Posted("RESPONSE") = {} /\ Transit = {} /\ Answered = {}
        /\ Held(requestThread) = {} /\ Held(responseThread) = {}
    BY <2>1, NoneFresh DEF Posted, Transit, Answered, Held
  <2>5. \A p \in PlaceName : Place[p] = {}
    BY <2>1, <2>2, <2>4, PlaceIs DEF PlaceName
  <2>6. Exclusive(Place, PlaceName, Request)
    BY <2>5 DEF Exclusive
  <2>7. \A r \in Request : r \in Elems(issued) <=> Somewhere(Place, PlaceName, r)
    BY <2>1, <2>2, <2>5 DEF Somewhere
  <2> QED BY <2>3, <2>6, <2>7, PlaceExclusive DEF OncePlaced
<1>2. TypeOK /\ OncePlaced /\ [Next]_vars => OncePlaced'
  BY OnceStep
<1> QED BY <1>1, <1>2, TypeCorrect, PTL DEF Spec
-----------------------------------------------------------------------------
(* The requests in flight: only processMessage puts one there, or takes    *)
(* one off.                                                                *)
FlightPlace == {"pending", "transit", "responseQueue", "responseThread", "response"}
Flying(r) == \E p \in FlightPlace : r \in Place[p]

LEMMA InFlightIs ==
  ASSUME NEW c
  PROVE  /\ InFlight(c) = {r \in Request : Owner[r] = c /\ Flying(r)}
         /\ InFlight(c)' = {r \in Request : Owner[r] = c /\ Flying(r)'}
  BY DEF InFlight, Flying, FlightPlace

LEMMA QuietFlight ==
  ASSUME PlaceStep(QuietEdge), NEW x \in Request, Owner[x] \in Controller
  PROVE  Flying(x)' <=> Flying(x)
<1>1. CASE \A i \in PlaceName : Place'[i] = Place[i]
  BY <1>1 DEF Flying, FlightPlace, PlaceName
<1>2. CASE \E e \in QuietEdge, r \in Request : Moves(e[1], e[2], r)
  <2>1. PICK e \in QuietEdge, r \in Request : Moves(e[1], e[2], r)
    BY <1>2
  <2>2. PICK p \in PlaceName, q \in PlaceName :
          /\ Moves(p, q, r) /\ p # q
          /\ p \in FlightPlace <=> q \in FlightPlace
    BY <2>1 DEF QuietEdge, PlaceName, FlightPlace
  <2>3. \A i \in PlaceName : x # r => (x \in Place'[i] <=> x \in Place[i])
    BY <2>2 DEF Moves
  <2>4. FlightPlace \subseteq PlaceName
    BY DEF FlightPlace, PlaceName
  <2>5. CASE x # r
    BY <2>3, <2>4, <2>5 DEF Flying
  <2>6. CASE x = r /\ p \in FlightPlace
    BY <2>2, <2>6 DEF Flying, Moves
  <2>7. CASE p \notin FlightPlace
    <3>1. \A i \in FlightPlace : Place'[i] = Place[i]
      BY <2>2, <2>4, <2>7 DEF Moves
    <3> QED BY <3>1 DEF Flying
  <2> QED BY <2>5, <2>6, <2>7
<1>3. ASSUME NEW r \in Request, NEW q \in {"requestQueue", "responseQueue"}, Enters(r, q)
      PROVE  Flying(x)' <=> Flying(x)
  <2>1. CASE r \in Unknown
    <3>1. x # r
      BY <2>1, NoneFresh, RequestAssumption
    <3>2. q = "responseQueue"
      BY <1>3, <2>1 DEF Enters
    <3>3. \A i \in FlightPlace : x \in Place'[i] <=> x \in Place[i]
      BY <1>3, <3>1, <3>2 DEF Enters, FlightPlace, PlaceName
    <3> QED BY <3>3 DEF Flying
  <2>2. CASE r \notin Unknown
    <3>1. q = "requestQueue"
      BY <1>3, <2>2 DEF Enters
    <3>2. \A i \in FlightPlace : Place'[i] = Place[i]
      BY <1>3, <3>1 DEF Enters, FlightPlace, PlaceName
    <3> QED BY <3>2 DEF Flying
  <2> QED BY <2>1, <2>2
<1> QED BY <1>1, <1>2, <1>3 DEF PlaceStep

LEMMA FlightStep ==
  ASSUME TypeOK, OncePlaced, OneInFlight, [Next]_vars
  PROVE  OneInFlight'
<1> USE DEF clientVars, requestVars, mainVars, radioVars, loopVars, mclVars, replyVars
<1>0. doing \in [Controller -> BOOLEAN]
  BY DEF TypeOK, MainType
<1>1. CASE ~(ProcessRequest \/ ProcessResponse)
  <2>1. UNCHANGED doing
    BY <1>1
    DEF Next, vars, EnqueueRequest, TakeRequest, PostRequest, TakeResponse, PostResponse,
        ProcessStatusSync, EnqueueMcl, ResumeMessage, KeepSuspended, ResumeDone,
        EnqueueResponse, DispatchMcl, StartHandler, HandlerReply, FinishHandler
  <2>2. PlaceStep(QuietEdge)
    BY <1>1, OnceStep
  <2>3. \A c \in Controller : InFlight(c)' = InFlight(c)
    BY <2>2, QuietFlight, InFlightIs
  <2> QED BY <2>1, <2>3 DEF OneInFlight
<1>2. CASE ProcessRequest \/ ProcessResponse
  <2>1. PICK r \in Request : r = NextMessage.token
    BY <1>2, PollType DEF ProcessRequest, ProcessResponse
  <2>2. /\ Poll /\ UNCHANGED <<transit, responseQueue, responseThread>>
        /\ Source \in {"front", "request", "response"} /\ r \in Place[Source]
        /\ Place'[Source] = Place[Source] \ {r}
        /\ \A i \in {"front", "request", "response"} \ {Source} : Place'[i] = Place[i]
        /\ NextMessage.type = "REQUEST" <=> Source # "response"
    BY <1>2, <2>1, PollPlaces, NoDuplicateIs DEF OncePlaced, ProcessRequest, ProcessResponse
  <2>3. \A i \in {"transit", "responseQueue", "responseThread"} : Place'[i] = Place[i]
    BY <2>2, PlaceIs, PlaceIsPrimed, KeptPlaces
  <2>4. CASE ProcessRequest /\ (RejectRequest(r) \/ SuspendRequest(r))
    <3>1. UNCHANGED <<doing, pendingQueue>> /\ Source # "response"
      BY <2>2, <2>4 DEF ProcessRequest, RejectRequest, SuspendRequest
    <3>2. \A i \in FlightPlace : Place'[i] = Place[i]
      BY <2>2, <2>3, <3>1, PlaceIs, PlaceIsPrimed DEF FlightPlace
    <3>3. \A c \in Controller : InFlight(c)' = InFlight(c)
      BY <3>2, InFlightIs DEF Flying
    <3> QED BY <3>1, <3>3 DEF OneInFlight
  <2>5. CASE ProcessRequest /\ ForwardRequest(r)
    <3>1. pendingQueue' = pendingQueue \union {r} /\ Source # "response"
      BY <2>2, <2>5 DEF ProcessRequest, ForwardRequest
    <3>2. /\ \A i \in FlightPlace \ {"pending"} : Place'[i] = Place[i]
          /\ Place'["pending"] = Place["pending"] \union {r}
      BY <2>2, <2>3, <3>1, PlaceIs, PlaceIsPrimed DEF FlightPlace
    <3>3. \A x \in Request : Flying(x)' <=> Flying(x) \/ x = r
      BY <3>2 DEF Flying, FlightPlace
    <3> SUFFICES ASSUME NEW c \in Controller
                 PROVE  (doing[c] <=> InFlight(c) # {})' /\ (\A x, y \in InFlight(c) : x = y)'
      BY DEF OneInFlight
    <3>4. CASE Owner[r] = c
      <4>1. ~doing[c] /\ doing'[c]
        BY <1>0, <2>5, <3>4, NoneFresh DEF ForwardRequest, CanHandle
      <4>2. InFlight(c) = {}
        BY <4>1 DEF OneInFlight
      <4>3. InFlight(c)' = {r}
        BY <3>3, <3>4, <4>2, InFlightIs
      <4> QED BY <4>1, <4>3
    <3>5. CASE Owner[r] # c
      <4>1. doing'[c] = doing[c]
        BY <1>0, <2>5, <3>5 DEF ForwardRequest
      <4>2. InFlight(c)' = InFlight(c)
        BY <3>3, <3>5, InFlightIs
      <4> QED BY <4>1, <4>2 DEF OneInFlight
    <3> QED BY <3>4, <3>5
  <2>6. CASE ProcessResponse
    <3>1. HandleResponse(r) /\ Source = "response"
      BY <2>1, <2>2, <2>6, PollPlaces, NoDuplicateIs DEF ProcessResponse, OncePlaced
    <3>2. UNCHANGED pendingQueue
      BY <3>1 DEF HandleResponse
    <3>3. /\ \A i \in FlightPlace \ {"response"} : Place'[i] = Place[i]
          /\ Place'["response"] = Place["response"] \ {r}
      BY <2>2, <2>3, <3>1, <3>2, PlaceIs, PlaceIsPrimed DEF FlightPlace
    <3>4. \A i \in FlightPlace \ {"response"} : r \notin Place[i]
      BY <2>2, <3>1, OneAtATime DEF OncePlaced, FlightPlace, PlaceName
    <3>5. Flying(r) /\ \A x \in Request : Flying(x)' <=> Flying(x) /\ x # r
      BY <2>2, <3>1, <3>3, <3>4 DEF Flying, FlightPlace
    <3> SUFFICES ASSUME NEW c \in Controller
                 PROVE  (doing[c] <=> InFlight(c) # {})' /\ (\A x, y \in InFlight(c) : x = y)'
      BY DEF OneInFlight
    <3>6. CASE Owner[r] = c
      <4>1. ~doing'[c]
        BY <1>0, <3>1, <3>6, NoneFresh DEF HandleResponse
      <4>2. r \in InFlight(c)
        BY <3>5, <3>6, InFlightIs
      <4>3. \A x \in InFlight(c) : x = r
        BY <4>2 DEF OneInFlight
      <4>4. InFlight(c)' = {}
        BY <3>5, <4>3, InFlightIs
      <4> QED BY <4>1, <4>4
    <3>7. CASE Owner[r] # c
      <4>1. doing'[c] = doing[c]
        BY <1>0, <3>1, <3>7 DEF HandleResponse
      <4>2. InFlight(c)' = InFlight(c)
        BY <3>5, <3>7, InFlightIs
      <4> QED BY <4>1, <4>2 DEF OneInFlight
    <3> QED BY <3>6, <3>7
  <2> QED BY <1>2, <2>1, <2>4, <2>5, <2>6 DEF ProcessRequest
<1> QED BY <1>1, <1>2

(* A controller that serialises its requests has at most one in flight,    *)
(* and its flag says whether there is one.                                 *)
THEOREM OneInFlightAlways == Spec => []OneInFlight
<1>1. Init => OneInFlight
  <2> SUFFICES ASSUME Init PROVE OneInFlight
    OBVIOUS
  <2>1. /\ pendingQueue = {} /\ Transit = {} /\ Elems(responseQueue) = {}
        /\ Held(responseThread) = {} /\ Posted("RESPONSE") = {}
    BY NoneFresh DEF Init, Transit, Elems, Held, Posted
  <2>2. \A p \in FlightPlace : Place[p] = {}
    BY <2>1, PlaceIs DEF FlightPlace
  <2>3. \A c \in Controller : InFlight(c) = {} /\ ~doing[c]
    BY <2>2, InFlightIs DEF Flying, Init
  <2> QED BY <2>3 DEF OneInFlight
<1>2. TypeOK /\ OncePlaced /\ OneInFlight /\ [Next]_vars => OneInFlight'
  BY FlightStep
<1> QED BY <1>1, <1>2, TypeCorrect, OncePlacedAlways, PTL DEF Spec
-----------------------------------------------------------------------------
(* Where the MCL side holds a request: the main thread that posts it, the  *)
(* dispatcher's looper, a channel's looper, a channel's handler.           *)
MclSite == {<<"main", None>>, <<"mcl", None>>} \union ({"channel", "handling"} \X Channel)

Site == [s \in MclSite |-> IF s[1] = "main" THEN Held(mainMsg)
                           ELSE IF s[1] = "mcl" THEN Elems(mcl)
                           ELSE IF s[1] = "channel" THEN Elems(channel[s[2]])
                           ELSE Held(handling[s[2]])]

Replied(s) == s[1] = "handling" /\ replies[s[2]] # 0

LatePlace == FlightPlace \union {"answered"}
Late(r) == \E p \in LatePlace : r \in Place[p]

(* A request is at one site of the MCL side at most, and only once it has  *)
(* passed the main thread.                                                 *)
SiteInv ==
  /\ Distinct(mcl)
  /\ \A h \in Channel : Distinct(channel[h])
  /\ Exclusive(Site, MclSite, Request)
  /\ \A r \in Request : Somewhere(Site, MclSite, r) => Late(r)

LEMMA SiteIs ==
  /\ <<"main", None>> \in MclSite /\ Site[<<"main", None>>] = Held(mainMsg)
  /\ <<"mcl", None>> \in MclSite /\ Site[<<"mcl", None>>] = Elems(mcl)
  /\ \A h \in Channel : /\ <<"channel", h>> \in MclSite
                        /\ Site[<<"channel", h>>] = Elems(channel[h])
                        /\ <<"handling", h>> \in MclSite
                        /\ Site[<<"handling", h>>] = Held(handling[h])
  /\ \A s \in MclSite : \/ s = <<"main", None>> \/ s = <<"mcl", None>>
                        \/ \E h \in Channel : s = <<"channel", h>> \/ s = <<"handling", h>>
  BY DEF MclSite, Site

LEMMA SiteIsPrimed ==
  /\ Site'[<<"main", None>>] = Held(mainMsg') /\ Site'[<<"mcl", None>>] = Elems(mcl')
  /\ \A h \in Channel : /\ Site'[<<"channel", h>>] = Elems(channel'[h])
                        /\ Site'[<<"handling", h>>] = Held(handling'[h])
  BY DEF MclSite, Site

LEMMA SitesKept ==
  ASSUME NEW Changed,
         UNCHANGED mainMsg \/ <<"main", None>> \in Changed,
         UNCHANGED mcl \/ <<"mcl", None>> \in Changed,
         \A h \in Channel : channel'[h] = channel[h] \/ <<"channel", h>> \in Changed,
         \A h \in Channel : handling'[h] = handling[h] \/ <<"handling", h>> \in Changed
  PROVE  \A s \in MclSite \ Changed : Site'[s] = Site[s]
<1> TAKE s \in MclSite \ Changed
<1>1. CASE s = <<"main", None>> \/ s = <<"mcl", None>>
  BY <1>1, SiteIs, SiteIsPrimed
<1>2. ASSUME NEW h \in Channel, s = <<"channel", h>> PROVE Site'[s] = Site[s]
  BY <1>2, SiteIs, SiteIsPrimed
<1>3. ASSUME NEW h \in Channel, s = <<"handling", h>> PROVE Site'[s] = Site[s]
  BY <1>3, SiteIs, SiteIsPrimed
<1> QED BY <1>1, <1>2, <1>3, SiteIs

InMclBySite ==
  /\ InMcl \subseteq Request
  /\ \A r \in Request : r \in InMcl <=> \E s \in MclSite : r \in Site[s] /\ ~Replied(s)

LEMMA InMclIs == TypeOK => InMclBySite
<1> SUFFICES ASSUME TypeOK PROVE InMclBySite
  OBVIOUS
<1>1. /\ mcl \in Seq(Request) /\ channel \in [Channel -> Seq(Request)]
      /\ handling \in [Channel -> Request \union {None}]
      /\ mainMsg \in Request \union {None}
  BY DEF TypeOK, MclType, MainType
<1>2. Elems(mcl) \subseteq Request /\ Held(mainMsg) \subseteq Request
  BY <1>1 DEF Elems, Held
<1>3. \A h \in Channel : Elems(channel[h]) \subseteq Request
  BY <1>1 DEF Elems
<1>4. InMcl \subseteq Request
  BY <1>2, <1>3 DEF InMcl
<1>5. ASSUME NEW r \in Request PROVE r \in InMcl <=> \E s \in MclSite : r \in Site[s] /\ ~Replied(s)
  <2>1. r \in InMcl <=> \/ r \in Held(mainMsg) \/ r \in Elems(mcl)
                        \/ \E h \in Channel : r \in Elems(channel[h])
                        \/ \E h \in Channel : handling[h] = r /\ replies[h] = 0
    BY DEF InMcl
  <2>2. /\ ~Replied(<<"main", None>>) /\ ~Replied(<<"mcl", None>>)
        /\ \A h \in Channel : /\ ~Replied(<<"channel", h>>)
                              /\ Replied(<<"handling", h>>) <=> replies[h] # 0
    BY DEF Replied
  <2>3. \A h \in Channel : r \in Held(handling[h]) <=> handling[h] = r
    BY NoneFresh DEF Held
  <2>4. ASSUME r \in InMcl PROVE \E s \in MclSite : r \in Site[s] /\ ~Replied(s)
    BY <2>1, <2>2, <2>3, <2>4, SiteIs
  <2>5. ASSUME NEW s \in MclSite, r \in Site[s], ~Replied(s) PROVE r \in InMcl
    <3>1. CASE s = <<"main", None>> \/ s = <<"mcl", None>>
      BY <2>1, <2>5, <3>1, SiteIs
    <3>2. ASSUME NEW h \in Channel, s = <<"channel", h>> PROVE r \in InMcl
      BY <2>1, <2>5, <3>2, SiteIs
    <3>3. ASSUME NEW h \in Channel, s = <<"handling", h>> PROVE r \in InMcl
      BY <2>1, <2>2, <2>3, <2>5, <3>3, SiteIs
    <3> QED BY <3>1, <3>2, <3>3, SiteIs
  <2> QED BY <2>4, <2>5
<1> QED BY <1>4, <1>5 DEF InMclBySite

LEMMA InMclIsPrimed == TypeOK' => InMclBySite'
  BY InMclIs, PTL

LEMMA LateStep ==
  ASSUME PlaceStep(QuietEdge) \/ PlaceStep(ProcessEdge), NEW x \in Request, Late(x)
  PROVE  Late(x)'
<1>1. PICK l \in PlaceName : l \in LatePlace /\ x \in Place[l]
  BY DEF Late, LatePlace, FlightPlace, PlaceName
<1>2. CASE \A i \in PlaceName : Place'[i] = Place[i]
  BY <1>1, <1>2 DEF Late
<1>3. CASE \E e \in QuietEdge \union ProcessEdge, r \in Request : Moves(e[1], e[2], r)
  <2>1. PICK e \in QuietEdge \union ProcessEdge, r \in Request : Moves(e[1], e[2], r)
    BY <1>3
  <2>2. PICK p \in PlaceName, q \in PlaceName :
          Moves(p, q, r) /\ (p \in LatePlace => q \in LatePlace)
    BY <2>1 DEF QuietEdge, ProcessEdge, PlaceName, LatePlace, FlightPlace
  <2>3. CASE x = r /\ l = p
    BY <1>1, <2>2, <2>3 DEF Late, Moves
  <2>4. CASE x # r \/ l # p
    <3>1. x \in Place'[l]
      BY <1>1, <2>2, <2>4 DEF Moves
    <3> QED BY <1>1, <3>1 DEF Late
  <2> QED BY <2>3, <2>4
<1>4. ASSUME NEW r \in Request, NEW q \in {"requestQueue", "responseQueue"}, Enters(r, q)
      PROVE  Late(x)'
  <2>1. x \in Place'[l]
    BY <1>1, <1>4 DEF Enters
  <2> QED BY <1>1, <2>1 DEF Late
<1> QED BY <1>2, <1>3, <1>4 DEF PlaceStep

LEMMA LateKept ==
  ASSUME SiteInv, PlaceStep(QuietEdge) \/ PlaceStep(ProcessEdge),
         \A r \in Request :
           Somewhere(Site', MclSite, r) => Somewhere(Site, MclSite, r) \/ r \in pendingQueue'
  PROVE  (\A r \in Request : Somewhere(Site, MclSite, r) => Late(r))'
<1> SUFFICES ASSUME NEW r \in Request, Somewhere(Site', MclSite, r) PROVE Late(r)'
  BY DEF Somewhere
<1>1. CASE Somewhere(Site, MclSite, r)
  BY <1>1, LateStep DEF SiteInv
<1>2. CASE r \in pendingQueue'
  <2>1. r \in Place'["pending"] /\ "pending" \in LatePlace
    BY <1>2, PlaceIsPrimed DEF LatePlace, FlightPlace
  <2> QED BY <2>1 DEF Late
<1> QED BY <1>1, <1>2

(* A hand-over within the MCL side.                                        *)
LEMMA SiteMove ==
  ASSUME TypeOK, TypeOK', SiteInv,
         NEW s \in MclSite, NEW u \in MclSite, s # u, NEW r \in Request, r \in Site[s],
         Site'[s] = Site[s] \ {r}, Site'[u] = Site[u] \union {r},
         \A v \in MclSite \ {s, u} : Site'[v] = Site[v],
         \A v \in MclSite : Site[v] # {} => (Replied(v)' <=> Replied(v)),
         ~Replied(s), ~Replied(u)'
  PROVE  /\ Exclusive(Site', MclSite, Request)
         /\ \A x \in Request : Somewhere(Site', MclSite, x) <=> Somewhere(Site, MclSite, x)
         /\ InMcl' = InMcl
<1> DEFINE f == Site
           g == Site'
<1>1. /\ Exclusive(f, MclSite, Request) /\ r \in f[s] /\ g[s] = f[s] \ {r}
      /\ g[u] = f[u] \union {r} /\ \A v \in MclSite \ {s, u} : g[v] = f[v]
  BY DEF SiteInv
<1> HIDE DEF f, g
<1>2. /\ Exclusive(g, MclSite, Request)
      /\ \A x \in Request : Somewhere(g, MclSite, x) <=> Somewhere(f, MclSite, x)
  BY <1>1, MoveElement
<1> USE DEF f, g
<1>3. ASSUME NEW x \in Request PROVE x \in InMcl' <=> x \in InMcl
  <2>1. x \in InMcl <=> \E v \in MclSite : x \in Site[v] /\ ~Replied(v)
    BY InMclIs DEF InMclBySite
  <2>2. x \in InMcl' <=> \E v \in MclSite : x \in Site'[v] /\ ~Replied(v)'
    BY InMclIsPrimed DEF InMclBySite
  <2>3. CASE x = r
    BY <2>1, <2>2, <2>3
  <2>4. CASE x # r
    <3>1. \A v \in MclSite : x \in Site'[v] <=> x \in Site[v]
      BY <2>4
    <3> QED BY <2>1, <2>2, <3>1
  <2> QED BY <2>3, <2>4
<1>4. InMcl \subseteq Request /\ InMcl' \subseteq Request
  BY InMclIs, InMclIsPrimed DEF InMclBySite
<1> QED BY <1>2, <1>3, <1>4

(* A request leaves the MCL side, or its handler has replied.              *)
LEMMA SiteLeave ==
  ASSUME TypeOK, TypeOK', SiteInv,
         NEW s \in MclSite, NEW r \in Request, r \in Site[s],
         \A v \in MclSite : \A x \in Request :
           (x \in Site'[v] /\ ~Replied(v)') <=> (x \in Site[v] /\ ~Replied(v) /\ x # r)
  PROVE  InMcl' = InMcl \ {r}
<1>1. ASSUME NEW x \in Request PROVE x \in InMcl' <=> x \in InMcl /\ x # r
  <2>1. x \in InMcl <=> \E v \in MclSite : x \in Site[v] /\ ~Replied(v)
    BY InMclIs DEF InMclBySite
  <2>2. x \in InMcl' <=> \E v \in MclSite : x \in Site'[v] /\ ~Replied(v)'
    BY InMclIsPrimed DEF InMclBySite
  <2> QED BY <2>1, <2>2
<1>2. InMcl \subseteq Request /\ InMcl' \subseteq Request
  BY InMclIs, InMclIsPrimed DEF InMclBySite
<1> QED BY <1>1, <1>2

LEMMA SiteStill ==
  ASSUME SiteInv, PendingIffInMcl, PlaceStep(QuietEdge) \/ PlaceStep(ProcessEdge),
         UNCHANGED <<mainMsg, mcl, channel, handling, replies, pendingQueue>>
  PROVE  SiteInv' /\ PendingIffInMcl'
<1>1. Site' = Site /\ InMcl' = InMcl
  BY DEF Site, InMcl
<1>2. (\A r \in Request : Somewhere(Site, MclSite, r) => Late(r))'
  BY <1>1, LateKept
<1> QED BY <1>1, <1>2 DEF SiteInv, PendingIffInMcl

LEMMA SiteForward ==
  ASSUME TypeOK, TypeOK', OncePlaced, SiteInv, PendingIffInMcl,
         PlaceStep(QuietEdge) \/ PlaceStep(ProcessEdge), ProcessRequest, ForwardRequest(NextMessage.token)
  PROVE  SiteInv' /\ PendingIffInMcl'
<1> USE DEF clientVars, requestVars, mainVars, radioVars, loopVars, mclVars, replyVars
<1>1. PICK r \in Request : r = NextMessage.token
  BY PollType DEF ProcessRequest
<1>2. /\ mainMsg = None /\ mainMsg' = r /\ pendingQueue' = pendingQueue \union {r}
      /\ UNCHANGED <<mcl, channel, handling, replies>>
  BY <1>1 DEF ProcessRequest, ForwardRequest, Poll, TypeOK, MainType
<1>3. ~Late(r)
  <2>1. Source \in {"front", "request"} /\ r \in Place[Source]
    BY <1>1, PollPlaces, NoDuplicateIs DEF OncePlaced, ProcessRequest
  <2> QED BY <2>1, OneAtATime DEF OncePlaced, Late, LatePlace, FlightPlace, PlaceName
<1>4. ~Somewhere(Site, MclSite, r)
  BY <1>3 DEF SiteInv
<1>5. /\ Site'[<<"main", None>>] = Site[<<"main", None>>] \union {r}
      /\ \A s \in MclSite \ {<<"main", None>>} : Site'[s] = Site[s]
  <2>1. Held(mainMsg) = {} /\ Held(mainMsg') = {r}
    BY <1>2, NoneFresh DEF Held
  <2> QED BY <1>2, <2>1, SiteIs, SiteIsPrimed
<1> DEFINE f == Site
           g == Site'
<1>6. /\ Exclusive(f, MclSite, Request) /\ ~Somewhere(f, MclSite, r)
      /\ <<"main", None>> \in MclSite
      /\ g[<<"main", None>>] = f[<<"main", None>>] \union {r}
      /\ \A s \in MclSite \ {<<"main", None>>} : g[s] = f[s]
  BY <1>4, <1>5, SiteIs DEF SiteInv
<1> HIDE DEF f, g
<1>7. /\ Exclusive(g, MclSite, Request)
      /\ \A x \in Request : Somewhere(g, MclSite, x) <=> Somewhere(f, MclSite, x) \/ x = r
  BY <1>6, AddElement
<1> USE DEF f, g
<1>8. InMcl' = InMcl \union {r}
  BY <1>2, NoneFresh DEF InMcl, Held
<1>9. (\A x \in Request : Somewhere(Site, MclSite, x) => Late(x))'
  BY <1>2, <1>7, LateKept
<1> QED BY <1>2, <1>7, <1>8, <1>9 DEF SiteInv, PendingIffInMcl

LEMMA SiteEnqueueMcl ==
  ASSUME TypeOK, TypeOK', SiteInv, PendingIffInMcl,
         PlaceStep(QuietEdge) \/ PlaceStep(ProcessEdge), EnqueueMcl
  PROVE  SiteInv' /\ PendingIffInMcl'
<1> USE DEF clientVars, requestVars, mainVars, radioVars, loopVars, mclVars, replyVars
<1>1. PICK r \in Request : r = mainMsg
  BY DEF EnqueueMcl, TypeOK, MainType
<1>2. /\ mainMsg' = None /\ mcl' = Append(mcl, r) /\ mcl \in Seq(Request)
      /\ UNCHANGED <<channel, handling, replies, pendingQueue>>
  BY <1>1 DEF EnqueueMcl, TypeOK, MclType
<1>3. /\ r \in Site[<<"main", None>>] /\ r \notin Elems(mcl)
      /\ Held(mainMsg) = {r} /\ Held(mainMsg') = {}
  <2>1. Held(mainMsg) = {r} /\ Held(mainMsg') = {}
    BY <1>1, <1>2, NoneFresh DEF Held
  <2>2. r \in Site[<<"main", None>>] /\ <<"main", None>> # <<"mcl", None>>
    BY <2>1, SiteIs
  <2>3. r \notin Site[<<"mcl", None>>]
    BY <2>2, SiteIs DEF SiteInv, Exclusive
  <2> QED BY <2>1, <2>2, <2>3, SiteIs
<1>4. Elems(mcl') = Elems(mcl) \union {r} /\ Distinct(mcl')
  BY <1>2, <1>3, AppendElems DEF SiteInv
<1>5. /\ Site'[<<"main", None>>] = Site[<<"main", None>>] \ {r}
      /\ Site'[<<"mcl", None>>] = Site[<<"mcl", None>>] \union {r}
      /\ \A s \in MclSite \ {<<"main", None>>, <<"mcl", None>>} : Site'[s] = Site[s]
  BY <1>2, <1>3, <1>4, SiteIs, SiteIsPrimed
<1>6. /\ \A s \in MclSite : Replied(s)' <=> Replied(s)
      /\ ~Replied(<<"main", None>>) /\ ~Replied(<<"mcl", None>>)
  BY <1>2 DEF Replied
<1>7. /\ Exclusive(Site', MclSite, Request)
      /\ \A x \in Request : Somewhere(Site', MclSite, x) <=> Somewhere(Site, MclSite, x)
      /\ InMcl' = InMcl
  BY <1>3, <1>5, <1>6, SiteMove, SiteIs
<1>8. (\A x \in Request : Somewhere(Site, MclSite, x) => Late(x))'
  BY <1>7, LateKept
<1> QED BY <1>2, <1>4, <1>7, <1>8 DEF SiteInv, PendingIffInMcl

LEMMA SiteDispatch ==
  ASSUME TypeOK, TypeOK', SiteInv, PendingIffInMcl,
         PlaceStep(QuietEdge) \/ PlaceStep(ProcessEdge), DispatchMcl
  PROVE  SiteInv' /\ PendingIffInMcl'
<1> USE DEF clientVars, requestVars, mainVars, radioVars, loopVars, mclVars, replyVars
<1>1. /\ mcl \in Seq(Request) /\ mcl # <<>> /\ mcl' = Tail(mcl)
      /\ UNCHANGED <<mainMsg, handling, replies>>
  BY DEF DispatchMcl, TypeOK, MclType
<1>2. PICK r \in Request :
        /\ r = Head(mcl) /\ r \in Elems(mcl)
        /\ Elems(mcl') = Elems(mcl) \ {r} /\ Distinct(mcl')
  BY <1>1, TailElems DEF SiteInv
<1>3. /\ r \in Site[<<"mcl", None>>]
      /\ Site'[<<"mcl", None>>] = Site[<<"mcl", None>>] \ {r}
  BY <1>2, SiteIs, SiteIsPrimed
<1>4. /\ \A s \in MclSite : Replied(s)' <=> Replied(s)
      /\ ~Replied(<<"mcl", None>>) /\ \A h : ~Replied(<<"channel", h>>)
  BY <1>1 DEF Replied
<1>5. CASE Home[r] = None
  <2>1. MatchPending(Dispatcher, r) /\ UNCHANGED channel
    BY <1>2, <1>5 DEF DispatchMcl
  <2>2. \A s \in MclSite \ {<<"mcl", None>>} : Site'[s] = Site[s]
    BY <1>1, <2>1, SitesKept
  <2>3. \A s \in MclSite \ {<<"mcl", None>>} : r \notin Site[s]
    BY <1>3, SiteIs DEF SiteInv, Exclusive
  <2>4. \A s \in MclSite : \A x \in Request : x \in Site'[s] <=> x \in Site[s] /\ x # r
    BY <1>3, <2>2, <2>3
  <2>5. InMcl' = InMcl \ {r}
    BY <1>3, <1>4, <2>4, SiteLeave, SiteIs
  <2>6. r \in InMcl
    BY <1>2 DEF InMcl
  <2>7. pendingQueue' = pendingQueue \ {r}
    BY <2>1, <2>6 DEF MatchPending, PendingIffInMcl
  <2>8. Exclusive(Site', MclSite, Request)
    BY <2>4 DEF Exclusive, SiteInv
  <2>9. \A x \in Request : Somewhere(Site', MclSite, x) => Somewhere(Site, MclSite, x)
    BY <2>4 DEF Somewhere
  <2>10. (\A x \in Request : Somewhere(Site, MclSite, x) => Late(x))'
    BY <2>9, LateKept
  <2> QED BY <1>2, <2>1, <2>5, <2>7, <2>8, <2>10 DEF SiteInv, PendingIffInMcl
<1>6. CASE Home[r] # None
  <2>1. PICK h \in Channel : h = Home[r]
    BY <1>6, RequestAssumption
  <2>2. /\ channel \in [Channel -> Seq(Request)]
        /\ channel' = [channel EXCEPT ![h] = Append(channel[h], r)]
        /\ UNCHANGED pendingQueue
    BY <1>2, <1>6, <2>1 DEF DispatchMcl, TypeOK, MclType
  <2>3. r \notin Elems(channel[h])
    BY <1>3, SiteIs DEF SiteInv, Exclusive
  <2>4. /\ Elems(channel'[h]) = Elems(channel[h]) \union {r} /\ Distinct(channel'[h])
        /\ \A k \in Channel \ {h} : channel'[k] = channel[k]
    BY <2>2, <2>3, AppendElems DEF SiteInv
  <2>5. /\ Site'[<<"channel", h>>] = Site[<<"channel", h>>] \union {r}
        /\ \A s \in MclSite \ {<<"mcl", None>>, <<"channel", h>>} : Site'[s] = Site[s]
    <3>1. Site'[<<"channel", h>>] = Site[<<"channel", h>>] \union {r}
      BY <2>4, SiteIs, SiteIsPrimed
    <3>2. \A k \in Channel : channel'[k] = channel[k] \/ k = h
      BY <2>4
    <3> QED BY <1>1, <3>1, <3>2, SitesKept
  <2>6. <<"mcl", None>> # <<"channel", h>>
    OBVIOUS
  <2>7. /\ Exclusive(Site', MclSite, Request)
        /\ \A x \in Request : Somewhere(Site', MclSite, x) <=> Somewhere(Site, MclSite, x)
        /\ InMcl' = InMcl
    <3>1. ~Replied(<<"channel", h>>)'
      BY DEF Replied
    <3> QED BY <1>3, <1>4, <2>5, <2>6, <3>1, SiteMove, SiteIs
  <2>8. (\A x \in Request : Somewhere(Site, MclSite, x) => Late(x))'
    BY <2>7, LateKept
  <2> QED BY <1>2, <2>2, <2>4, <2>7, <2>8 DEF SiteInv, PendingIffInMcl
<1> QED BY <1>5, <1>6

LEMMA SiteStart ==
  ASSUME TypeOK, TypeOK', SiteInv, PendingIffInMcl,
         PlaceStep(QuietEdge) \/ PlaceStep(ProcessEdge),
         NEW h \in Channel, StartHandler(h)
  PROVE  SiteInv' /\ PendingIffInMcl'
<1> USE DEF clientVars, requestVars, mainVars, radioVars, loopVars, mclVars, replyVars
<1>1. /\ channel \in [Channel -> Seq(Request)] /\ handling \in [Channel -> Request \union {None}]
      /\ replies \in [Channel -> 0..MaxReply]
      /\ handling[h] = None /\ channel[h] # <<>>
      /\ handling' = [handling EXCEPT ![h] = Head(channel[h])]
      /\ channel' = [channel EXCEPT ![h] = Tail(channel[h])]
      /\ replies' = [replies EXCEPT ![h] = 0]
      /\ UNCHANGED <<mainMsg, mcl, pendingQueue>>
  BY DEF StartHandler, TypeOK, MclType
<1>2. PICK r \in Request :
        /\ r = Head(channel[h]) /\ r \in Elems(channel[h])
        /\ Elems(channel'[h]) = Elems(channel[h]) \ {r} /\ Distinct(channel'[h])
  BY <1>1, TailElems DEF SiteInv
<1>3. /\ Held(handling[h]) = {} /\ Held(handling'[h]) = {r} /\ replies'[h] = 0
      /\ \A k \in Channel \ {h} : /\ channel'[k] = channel[k]
                                 /\ handling'[k] = handling[k] /\ replies'[k] = replies[k]
  BY <1>1, <1>2, NoneFresh DEF Held
<1>4. /\ r \in Site[<<"channel", h>>]
      /\ Site'[<<"channel", h>>] = Site[<<"channel", h>>] \ {r}
      /\ Site[<<"handling", h>>] = {}
      /\ Site'[<<"handling", h>>] = Site[<<"handling", h>>] \union {r}
      /\ \A s \in MclSite \ {<<"channel", h>>, <<"handling", h>>} : Site'[s] = Site[s]
  <2>1. /\ r \in Site[<<"channel", h>>]
        /\ Site'[<<"channel", h>>] = Site[<<"channel", h>>] \ {r}
        /\ Site[<<"handling", h>>] = {}
        /\ Site'[<<"handling", h>>] = Site[<<"handling", h>>] \union {r}
    BY <1>2, <1>3, SiteIs, SiteIsPrimed
  <2>2. \A k \in Channel : k = h \/ (channel'[k] = channel[k] /\ handling'[k] = handling[k])
    BY <1>3
  <2> QED BY <1>1, <2>1, <2>2, SitesKept
<1>5. /\ ~Replied(<<"channel", h>>) /\ ~Replied(<<"handling", h>>)'
      /\ \A s \in MclSite \ {<<"handling", h>>} : Replied(s)' <=> Replied(s)
  <2>1. ~Replied(<<"channel", h>>) /\ ~Replied(<<"handling", h>>)'
    BY <1>3 DEF Replied
  <2>2. \A k \in Channel \ {h} : Replied(<<"handling", k>>)' <=> Replied(<<"handling", k>>)
    BY <1>3 DEF Replied
  <2>3. \A k \in Channel : ~Replied(<<"channel", k>>) /\ ~Replied(<<"channel", k>>)'
    BY DEF Replied
  <2>4. /\ ~Replied(<<"main", None>>) /\ ~Replied(<<"main", None>>)'
        /\ ~Replied(<<"mcl", None>>) /\ ~Replied(<<"mcl", None>>)'
    BY DEF Replied
  <2> QED BY <2>1, <2>2, <2>3, <2>4, SiteIs
<1>6. /\ Exclusive(Site', MclSite, Request)
      /\ \A x \in Request : Somewhere(Site', MclSite, x) <=> Somewhere(Site, MclSite, x)
      /\ InMcl' = InMcl
  <2>1. <<"channel", h>> # <<"handling", h>>
    OBVIOUS
  <2>2. \A s \in MclSite : Site[s] # {} => (Replied(s)' <=> Replied(s))
    BY <1>4, <1>5
  <2> QED BY <1>4, <1>5, <2>1, <2>2, SiteMove, SiteIs
<1>7. (\A x \in Request : Somewhere(Site, MclSite, x) => Late(x))'
  BY <1>6, LateKept
<1>8. Distinct(mcl') /\ \A k \in Channel : Distinct(channel'[k])
  BY <1>1, <1>2, <1>3 DEF SiteInv
<1> QED BY <1>1, <1>6, <1>7, <1>8 DEF SiteInv, PendingIffInMcl

LEMMA SiteSameMcl ==
  ASSUME TypeOK, TypeOK',
         \A v \in MclSite : \A x \in Request :
           (x \in Site'[v] /\ ~Replied(v)') <=> (x \in Site[v] /\ ~Replied(v))
  PROVE  InMcl' = InMcl
<1>1. ASSUME NEW x \in Request PROVE x \in InMcl' <=> x \in InMcl
  <2>1. x \in InMcl <=> \E v \in MclSite : x \in Site[v] /\ ~Replied(v)
    BY InMclIs DEF InMclBySite
  <2>2. x \in InMcl' <=> \E v \in MclSite : x \in Site'[v] /\ ~Replied(v)'
    BY InMclIsPrimed DEF InMclBySite
  <2> QED BY <2>1, <2>2
<1>2. InMcl \subseteq Request /\ InMcl' \subseteq Request
  BY InMclIs, InMclIsPrimed DEF InMclBySite
<1> QED BY <1>1, <1>2

LEMMA RepliedKept ==
  ASSUME NEW h \in Channel, \A k \in Channel \ {h} : replies'[k] = replies[k]
  PROVE  \A s \in MclSite \ {<<"handling", h>>} : Replied(s)' <=> Replied(s)
<1>1. \A k \in Channel \ {h} : Replied(<<"handling", k>>)' <=> Replied(<<"handling", k>>)
  BY DEF Replied
<1>2. \A k \in Channel : ~Replied(<<"channel", k>>) /\ ~Replied(<<"channel", k>>)'
  BY DEF Replied
<1>3. /\ ~Replied(<<"main", None>>) /\ ~Replied(<<"main", None>>)'
      /\ ~Replied(<<"mcl", None>>) /\ ~Replied(<<"mcl", None>>)'
  BY DEF Replied
<1> QED BY <1>1, <1>2, <1>3, SiteIs

LEMMA SiteReply ==
  ASSUME TypeOK, TypeOK', SiteInv, PendingIffInMcl,
         PlaceStep(QuietEdge) \/ PlaceStep(ProcessEdge),
         NEW h \in Channel, HandlerReply(h)
  PROVE  SiteInv' /\ PendingIffInMcl'
<1> USE DEF clientVars, requestVars, mainVars, radioVars, loopVars, mclVars, replyVars
<1>1. PICK r \in Request : r = handling[h]
  BY DEF HandlerReply, TypeOK, MclType
<1>2. /\ replies \in [Channel -> 0..MaxReply]
      /\ replies' = [replies EXCEPT ![h] = replies[h] + 1]
      /\ MatchPending(h, r) /\ UNCHANGED <<mainMsg, mcl, channel, handling>>
  BY <1>1 DEF HandlerReply, TypeOK, MclType
<1>3. Site' = Site
  BY <1>2 DEF Site
<1>4. replies[h] \in Nat /\ replies'[h] = replies[h] + 1
      /\ \A k \in Channel \ {h} : replies'[k] = replies[k]
  BY <1>2, RequestAssumption
<1>5. /\ Replied(<<"handling", h>>)'
      /\ Replied(<<"handling", h>>) <=> replies[h] # 0
      /\ \A s \in MclSite \ {<<"handling", h>>} : Replied(s)' <=> Replied(s)
  <2>1. Replied(<<"handling", h>>)' /\ (Replied(<<"handling", h>>) <=> replies[h] # 0)
    BY <1>4 DEF Replied
  <2> QED BY <1>4, <2>1, RepliedKept
<1>6. /\ Site[<<"handling", h>>] = {r} /\ <<"handling", h>> \in MclSite
      /\ \A s \in MclSite \ {<<"handling", h>>} : r \notin Site[s]
  <2>1. Site[<<"handling", h>>] = {r} /\ <<"handling", h>> \in MclSite
    BY <1>1, NoneFresh, SiteIs DEF Held
  <2> QED BY <2>1 DEF SiteInv, Exclusive
<1>7. ASSUME replies[h] = 0 PROVE PendingIffInMcl'
  <2>1. \A v \in MclSite : \A x \in Request :
          (x \in Site'[v] /\ ~Replied(v)') <=> (x \in Site[v] /\ ~Replied(v) /\ x # r)
    BY <1>3, <1>5, <1>6
  <2>2. InMcl' = InMcl \ {r}
    BY <1>6, <2>1, SiteLeave
  <2>3. r \in InMcl
    BY <1>1, <1>7 DEF InMcl
  <2>4. pendingQueue' = pendingQueue \ {r}
    BY <1>2, <2>3 DEF MatchPending, PendingIffInMcl
  <2> QED BY <2>2, <2>4 DEF PendingIffInMcl
<1>8. ASSUME replies[h] # 0 PROVE PendingIffInMcl'
  <2>1. InMcl' = InMcl
    BY <1>3, <1>5, <1>6, <1>8, SiteSameMcl
  <2>2. r \notin InMcl
    BY <1>5, <1>6, <1>8, InMclIs DEF InMclBySite
  <2>3. UNCHANGED pendingQueue
    BY <1>2, <2>2 DEF MatchPending, PendingIffInMcl
  <2> QED BY <2>1, <2>3 DEF PendingIffInMcl
<1>9. PendingIffInMcl'
  BY <1>7, <1>8
<1>10. (\A x \in Request : Somewhere(Site, MclSite, x) => Late(x))'
  BY <1>3, LateKept
<1> QED BY <1>2, <1>3, <1>9, <1>10 DEF SiteInv

LEMMA SiteFinish ==
  ASSUME TypeOK, TypeOK', SiteInv, PendingIffInMcl,
         PlaceStep(QuietEdge) \/ PlaceStep(ProcessEdge),
         NEW h \in Channel, FinishHandler(h)
  PROVE  SiteInv' /\ PendingIffInMcl'
<1> USE DEF clientVars, requestVars, mainVars, radioVars, loopVars, mclVars, replyVars
<1>1. /\ handling \in [Channel -> Request \union {None}]
      /\ handling' = [handling EXCEPT ![h] = None]
      /\ replies[h] # 0
      /\ UNCHANGED <<mainMsg, mcl, channel, replies, pendingQueue>>
  BY RequestAssumption DEF FinishHandler, TypeOK, MclType
<1>2. /\ Site'[<<"handling", h>>] = {}
      /\ \A s \in MclSite \ {<<"handling", h>>} : Site'[s] = Site[s]
  <2>1. Held(handling'[h]) = {}
    BY <1>1 DEF Held
  <2>2. \A k \in Channel : k = h \/ handling'[k] = handling[k]
    BY <1>1
  <2> QED BY <1>1, <2>1, <2>2, SitesKept, SiteIsPrimed
<1>3. Replied(<<"handling", h>>) /\ \A s \in MclSite : Replied(s)' <=> Replied(s)
  BY <1>1 DEF Replied
<1>4. InMcl' = InMcl
  BY <1>2, <1>3, SiteSameMcl
<1>5. \A s \in MclSite : Site'[s] \subseteq Site[s]
  BY <1>2
<1>6. /\ Exclusive(Site', MclSite, Request)
      /\ \A x \in Request : Somewhere(Site', MclSite, x) => Somewhere(Site, MclSite, x)
  BY <1>5 DEF Exclusive, Somewhere, SiteInv
<1>7. (\A x \in Request : Somewhere(Site, MclSite, x) => Late(x))'
  BY <1>6, LateKept
<1> QED BY <1>1, <1>4, <1>6, <1>7 DEF SiteInv, PendingIffInMcl

LEMMA SiteStep ==
  ASSUME TypeOK, TypeOK', OncePlaced, SiteInv, PendingIffInMcl, [Next]_vars
  PROVE  SiteInv' /\ PendingIffInMcl'
<1> USE DEF clientVars, requestVars, mainVars, radioVars, loopVars, mclVars, replyVars
<1>1. PlaceStep(QuietEdge) \/ PlaceStep(ProcessEdge)
  BY OnceStep
<1>2. CASE UNCHANGED <<mainMsg, mcl, channel, handling, replies, pendingQueue>>
  BY <1>1, <1>2, SiteStill
<1>3. CASE ProcessRequest
  <2>1. CASE ForwardRequest(NextMessage.token)
    BY <1>1, <1>3, <2>1, SiteForward
  <2>2. CASE RejectRequest(NextMessage.token) \/ SuspendRequest(NextMessage.token)
    BY <1>2, <1>3, <2>2 DEF ProcessRequest, RejectRequest, SuspendRequest
  <2> QED BY <1>3, <2>1, <2>2 DEF ProcessRequest
<1>4. CASE ProcessResponse
  BY <1>2, <1>4 DEF ProcessResponse, HandleResponse
<1>5. CASE EnqueueMcl \/ DispatchMcl
  BY <1>1, <1>5, SiteEnqueueMcl, SiteDispatch
<1>6. ASSUME NEW h \in Channel, StartHandler(h) \/ HandlerReply(h) \/ FinishHandler(h)
      PROVE  SiteInv' /\ PendingIffInMcl'
  BY <1>1, <1>6, SiteStart, SiteReply, SiteFinish
<1> QED
  BY <1>2, <1>3, <1>4, <1>5, <1>6
  DEF Next, vars, EnqueueRequest, TakeRequest, PostRequest, TakeResponse, PostResponse,
      ProcessStatusSync, ResumeMessage, KeepSuspended, ResumeDone, EnqueueResponse

(* A pending request has somebody in MCL who will answer it, and the first *)
(* answer of a handler always finds its request in pendingQueue.           *)
THEOREM PendingIffInMclAlways == Spec => []PendingIffInMcl
<1>1. Init => SiteInv /\ PendingIffInMcl
  <2> SUFFICES ASSUME Init PROVE SiteInv /\ PendingIffInMcl
    OBVIOUS
  <2>1. /\ Held(mainMsg) = {} /\ Elems(mcl) = {} /\ Distinct(mcl) /\ pendingQueue = {}
        /\ \A h \in Channel : /\ Elems(channel[h]) = {} /\ Distinct(channel[h])
                              /\ Held(handling[h]) = {} /\ handling[h] = None
    BY DEF Init, Held, Elems, Distinct
  <2>2. \A s \in MclSite : Site[s] = {}
    BY <2>1, SiteIs
  <2>3. SiteInv
    BY <2>1, <2>2 DEF SiteInv, Exclusive, Somewhere
  <2>4. InMcl = {}
    BY <2>1, NoneFresh DEF InMcl
  <2> QED BY <2>1, <2>3, <2>4 DEF PendingIffInMcl
<1>2. TypeOK /\ TypeOK' /\ OncePlaced /\ (SiteInv /\ PendingIffInMcl) /\ [Next]_vars
        => (SiteInv /\ PendingIffInMcl)'
  BY SiteStep
<1> QED BY <1>1, <1>2, TypeCorrect, OncePlacedAlways, PTL DEF Spec
-----------------------------------------------------------------------------
LEMMA AnswerOnce ==
  ASSUME TypeOK, OncePlaced, ProcessRequest \/ ProcessResponse, NEW r \in Request,
         r = NextMessage.token, AnswerClient(r)
  PROVE  Promise!Answer(r)
<1>1. Poll /\ UNCHANGED issued
  BY DEF ProcessRequest, ProcessResponse
<1>2. Source \in PlaceName \ {"answered"} /\ r \in Place[Source]
  BY <1>1, PollPlaces, NoDuplicateIs DEF OncePlaced, PlaceName
<1>3. r \in Elems(issued) /\ r \notin Answered
  BY <1>2, OneAtATime, PlaceIs DEF OncePlaced, PlaceName
<1>4. answers[r] = 0
  BY <1>3 DEF Answered, TypeOK, ClientType
<1>5. answers' = [answers EXCEPT ![r] = 1]
  BY <1>4 DEF AnswerClient
<1> QED BY <1>1, <1>3, <1>4, <1>5 DEF Promise!Answer, Elems

(* The framework keeps the promise it makes: whatever its threads do, a    *)
(* client sees a request handed in, or one that was handed in answered for *)
(* the first time, and nothing else.                                       *)
THEOREM KeepsPromise == Spec => Promise!Init /\ [][Promise!Next]_(Promise!vars)
<1>1. Init => Promise!Init
  BY DEF Init, Promise!Init, Elems
<1>2. TypeOK /\ OncePlaced /\ [Next]_vars => [Promise!Next]_(Promise!vars)
  <2> SUFFICES ASSUME TypeOK, OncePlaced, [Next]_vars PROVE [Promise!Next]_(Promise!vars)
    OBVIOUS
  <2> USE DEF clientVars, requestVars, mainVars, radioVars, loopVars, mclVars, replyVars
  <2>1. CASE UNCHANGED clientVars
    BY <2>1 DEF Promise!vars, Elems
  <2>2. ASSUME NEW r \in Request, EnqueueRequest(r) PROVE Promise!Next
    <3>1. /\ r \notin Elems(issued) /\ issued' = Append(issued, r) /\ UNCHANGED answers
          /\ issued \in Seq(Request)
      BY <2>2 DEF EnqueueRequest, TypeOK, ClientType
    <3>2. Elems(issued') = Elems(issued) \union {r}
      BY <3>1, AppendElems
    <3>3. Promise!Issue(r)
      BY <3>1, <3>2 DEF Promise!Issue, Elems
    <3> QED BY <3>3 DEF Promise!Next
  <2>3. CASE ProcessRequest \/ ProcessResponse
    <3>1. PICK r \in Request : r = NextMessage.token
      BY <2>3, PollType DEF ProcessRequest, ProcessResponse
    <3>2. UNCHANGED issued /\ (UNCHANGED answers \/ AnswerClient(r))
      BY <2>3, <3>1 DEF ProcessRequest, ProcessResponse, RejectRequest, SuspendRequest,
                        ForwardRequest, HandleResponse
    <3>3. CASE AnswerClient(r)
      <4>1. Promise!Answer(r)
        BY <2>3, <3>1, <3>3, AnswerOnce
      <4> QED BY <4>1 DEF Promise!Next
    <3> QED BY <2>1, <3>2, <3>3
  <2> QED
    BY <2>1, <2>2, <2>3
    DEF Next, vars, TakeRequest, PostRequest, TakeResponse, PostResponse, ProcessStatusSync,
        EnqueueMcl, ResumeMessage, KeepSuspended, ResumeDone, EnqueueResponse, DispatchMcl,
        StartHandler, HandlerReply, FinishHandler
<1> QED BY <1>1, <1>2, TypeCorrect, OncePlacedAlways, PTL DEF Spec
=============================================================================
