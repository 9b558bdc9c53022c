----------------------------- MODULE RfxRequest -----------------------------
(***************************************************************************)
(* The path of a RIL request through the Rfx framework                     *)
(* (src/ril/fusion/mtk-ril/framework/core):                                *)
(*                                                                         *)
(*   enqueueRequestMessage -> dispatchRequestQueue -> request thread       *)
(*     -> looper of RfxMainThread -> RfxRootController::processMessage     *)
(*       -> answered at once (radio off, no data), or                      *)
(*       -> suspended by its controller and requeued at the front, or      *)
(*       -> pendingQueue and looper of the MCL dispatcher                  *)
(*         -> looper of a channel's RfxSender -> its RfxBaseHandler        *)
(*   enqueueResponseMessage (matched with pendingQueue)                    *)
(*     -> dispatchResponseQueue -> response thread -> looper of the main   *)
(*     thread -> processMessage -> RFX_onRequestComplete                   *)
(*                                                                         *)
(* A request is identified with its token: RfxMessage::obtainRequest draws *)
(* a fresh one, and everything downstream matches by token.                *)
(***************************************************************************)
EXTENDS Naturals, Sequences

CONSTANTS
  Request,        \* the requests clients may issue, one token each
  Controller,     \* TelCore controllers that serialise their requests
  Channel,        \* MCL channels, each with an RfxSender thread
  Dispatcher,     \* the MCL dispatcher thread
  None,           \* no controller, no channel, no message
  Owner,          \* findMsgHandler: the controller registered for a request
  Home,           \* findMsgChannel: the channel with a handler for it
  Unknown,        \* requests whose id is INVALID_ID for RfxIdToMsgIdUtils
  NoData,         \* requests whose id has no registered data class
  MaxReply        \* bound: how often a handler calls responseToTelCore

ASSUME RequestAssumption ==
  /\ None \notin Request \union Controller \union Channel
  /\ Dispatcher \notin Channel
  /\ Owner \in [Request -> Controller \union {None}]
  /\ Home \in [Request -> Channel \union {None}]
  /\ Unknown \subseteq Request
  /\ NoData \subseteq Request
  /\ \A r \in Unknown : Owner[r] = None
  /\ MaxReply \in Nat \ {0}

Req(r) == [type |-> "REQUEST", token |-> r]
Resp(r) == [type |-> "RESPONSE", token |-> r]
Message == [type : {"REQUEST", "RESPONSE"}, token : Request]

\* The threads that call RfxDispatchThread::enqueueResponseMessage.
Replier == Channel \union {Dispatcher}

VARIABLES
  issued,         \* requests in the order clients issued them (history)
  forwarded,      \* requests in the order requestToMcl got them (history)
  answers,        \* RFX_onRequestComplete calls per request
  requestQueue,   \* dispatchRequestQueue
  requestThread,  \* what the request thread holds between its two queues
  looper,         \* messages of the main looper, in time order
  front,          \* its messages sent at time 0, ahead of the others
  mainPc,         \* what the main thread is doing
  mainMsg,        \* the request it is forwarding
  resumeAt,       \* index of processSuspendedMessage
  suspended,      \* m_suspended_msg_list
  doing,          \* mDoingDataAllow of each controller
  radioOff,       \* RFX_STATUS_KEY_RADIO_STATE is unavailable or off
  modemOff,       \* RFX_STATUS_KEY_MODEM_POWER_OFF
  pendingQueue,   \* requests sent to MCL and not answered by it
  mcl,            \* looper of the MCL dispatcher thread
  channel,        \* looper of each channel's sender
  handling,       \* the request each channel's handler is executing
  replies,        \* responses that handler has produced for it
  transit,        \* response taken off pendingQueue, not yet queued
  responseQueue,  \* dispatchResponseQueue
  responseThread  \* what the response thread holds between its two queues

clientVars == <<issued, answers>>
requestVars == <<requestQueue, requestThread>>
radioVars == <<radioOff, modemOff>>
mainVars == <<mainPc, mainMsg, resumeAt, suspended, doing, radioVars>>
loopVars == <<looper, front>>
mclVars == <<mcl, channel, handling, replies>>
replyVars == <<transit, responseQueue, responseThread>>
vars == <<clientVars, forwarded, requestVars, mainVars, loopVars, pendingQueue,
          mclVars, replyVars>>

ClientType ==
  /\ issued \in Seq(Request)
  /\ forwarded \in Seq(Request)
  /\ answers \in [Request -> Nat]

QueueType ==
  /\ requestQueue \in Seq(Request)
  /\ requestThread \in Request \union {None}
  /\ looper \in Seq(Message)
  /\ front \in Seq(Request)
  /\ transit \in [Replier -> Request \union {None}]
  /\ responseQueue \in Seq(Request)
  /\ responseThread \in Request \union {None}

MainType ==
  /\ mainPc \in {"poll", "forward", "resume"}
  /\ mainMsg \in Request \union {None}
  /\ mainPc = "forward" <=> mainMsg # None
  /\ resumeAt \in Nat \ {0}
  /\ suspended \in Seq(Request)
  /\ doing \in [Controller -> BOOLEAN]
  /\ radioOff \in BOOLEAN
  /\ modemOff \in BOOLEAN

MclType ==
  /\ pendingQueue \in SUBSET Request
  /\ mcl \in Seq(Request)
  /\ channel \in [Channel -> Seq(Request)]
  /\ handling \in [Channel -> Request \union {None}]
  /\ replies \in [Channel -> 0..MaxReply]

\* Every variable has its type, and the main thread holds a request exactly
\* while it forwards it (RfxRilAdapter::requestToMcl).
TypeOK == ClientType /\ QueueType /\ MainType /\ MclType

Init ==
  /\ issued = <<>>
  /\ forwarded = <<>>
  /\ answers = [r \in Request |-> 0]
  /\ requestQueue = <<>>
  /\ requestThread = None
  /\ looper = <<>>
  /\ front = <<>>
  /\ mainPc = "poll"
  /\ mainMsg = None
  /\ resumeAt = 1
  /\ suspended = <<>>
  /\ doing = [c \in Controller |-> FALSE]
  /\ radioOff = TRUE
  /\ modemOff = FALSE
  /\ pendingQueue = {}
  /\ mcl = <<>>
  /\ channel = [h \in Channel |-> <<>>]
  /\ handling = [h \in Channel |-> None]
  /\ replies = [h \in Channel |-> 0]
  /\ transit = [t \in Replier |-> None]
  /\ responseQueue = <<>>
  /\ responseThread = None

Elems(q) == {q[i] : i \in 1..Len(q)}

\* Vector::removeAt.
RemoveAt(q, i) == [j \in 1..(Len(q) - 1) |-> IF j < i THEN q[j] ELSE q[j + 1]]
-----------------------------------------------------------------------------
(* Threads of the clients and of RfxDispatchThread.                        *)

\* RfxDispatchThread::enqueueRequestMessage.
EnqueueRequest(r) ==
  /\ r \notin Elems(issued)
  /\ issued' = Append(issued, r)
  /\ IF r \in Unknown
       THEN /\ responseQueue' = Append(responseQueue, r)
            /\ UNCHANGED requestQueue
       ELSE /\ requestQueue' = Append(requestQueue, r)
            /\ UNCHANGED responseQueue
  /\ UNCHANGED <<answers, forwarded, requestThread, mainVars, loopVars,
                 pendingQueue, mclVars, transit, responseThread>>

\* processRequestMessageLooper: dequeue, then enqueue in the main looper.
TakeRequest ==
  /\ requestThread = None
  /\ requestQueue # <<>>
  /\ requestThread' = Head(requestQueue)
  /\ requestQueue' = Tail(requestQueue)
  /\ UNCHANGED <<clientVars, forwarded, mainVars, loopVars, pendingQueue,
                 mclVars, replyVars>>

PostRequest ==
  /\ requestThread # None
  /\ looper' = Append(looper, Req(requestThread))
  /\ requestThread' = None
  /\ UNCHANGED <<clientVars, forwarded, requestQueue, mainVars, front,
                 pendingQueue, mclVars, replyVars>>

\* processResponseMessageLooper.
TakeResponse ==
  /\ responseThread = None
  /\ responseQueue # <<>>
  /\ responseThread' = Head(responseQueue)
  /\ responseQueue' = Tail(responseQueue)
  /\ UNCHANGED <<clientVars, forwarded, requestVars, mainVars, loopVars,
                 pendingQueue, mclVars, transit>>

PostResponse ==
  /\ responseThread # None
  /\ looper' = Append(looper, Resp(responseThread))
  /\ responseThread' = None
  /\ UNCHANGED <<clientVars, forwarded, requestVars, mainVars, front,
                 pendingQueue, mclVars, transit, responseQueue>>
-----------------------------------------------------------------------------
(* The main thread: RfxMainHandler::handleMessage takes one message, has   *)
(* RfxRootController process it, then runs processSuspendedMessage.        *)

\* Looper: the messages sent at time 0 come first, in the order sent.
NextMessage == IF front # <<>> THEN Req(Head(front)) ELSE Head(looper)

Poll ==
  /\ mainPc = "poll"
  /\ \/ front # <<>> \/ looper # <<>>
  /\ IF front # <<>>
       THEN front' = Tail(front) /\ UNCHANGED looper
       ELSE looper' = Tail(looper) /\ UNCHANGED front

\* RfxRilAdapter::responseToRilj: one RFX_onRequestComplete.
AnswerClient(r) == answers' = [answers EXCEPT ![r] = @ + 1]

\* Mutant: the flag is not consulted.
CanAlwaysHandle(r) == Owner[r] \in Controller

\* RtcDataAllowController::isNeedSuspendRequest, onCheckIfResumeMessage.
CanHandle(r) == ~doing[Owner[r]]

\* RfxRootController::processMessage rejects a request without a controller
\* while the radio or the modem is off; RtcDataAllowController has its requests
\* executed while the radio is off ("always execute request").
Rejects(r) == IF Owner[r] # None THEN modemOff /\ ~radioOff ELSE radioOff \/ modemOff

\* Mutant: no return after the reply.
RejectAndForward(r) ==
  /\ r \in NoData \/ Rejects(r)
  /\ AnswerClient(r)
  /\ doing' = IF Owner[r] # None THEN [doing EXCEPT ![Owner[r]] = TRUE] ELSE doing
  /\ pendingQueue' = pendingQueue \union {r}
  /\ forwarded' = Append(forwarded, r)
  /\ mainMsg' = r
  /\ mainPc' = "forward"
  /\ UNCHANGED suspended

\* It replies without involving the modem: no data class, or rejected.
RejectRequest(r) ==
  /\ r \in NoData \/ Rejects(r)
  /\ AnswerClient(r)
  /\ mainPc' = "resume"
  /\ UNCHANGED <<forwarded, mainMsg, suspended, doing, pendingQueue>>

\* RfxController::processMessage: onPreviewMessage is false.
SuspendRequest(r) ==
  /\ r \notin NoData /\ ~Rejects(r)
  /\ Owner[r] # None /\ ~CanHandle(r)
  /\ suspended' = Append(suspended, r)
  /\ mainPc' = "resume"
  /\ UNCHANGED <<answers, forwarded, mainMsg, doing, pendingQueue>>

\* Mutant: requestToMcl returns before it posts the message.
ForwardUnposted(r) ==
  /\ r \notin NoData /\ ~Rejects(r)
  /\ Owner[r] # None => CanHandle(r)
  /\ doing' = IF Owner[r] # None THEN [doing EXCEPT ![Owner[r]] = TRUE] ELSE doing
  /\ pendingQueue' = pendingQueue \union {r}
  /\ forwarded' = Append(forwarded, r)
  /\ mainMsg' = r
  /\ mainPc' = "resume"
  /\ UNCHANGED <<answers, suspended>>

\* onPreviewMessage sets the flag, onHandleRequest calls requestToMcl, whose
\* first half is addMessageToPendingQueue.
ForwardRequest(r) ==
  /\ r \notin NoData /\ ~Rejects(r)
  /\ Owner[r] # None => CanHandle(r)
  /\ doing' = IF Owner[r] # None THEN [doing EXCEPT ![Owner[r]] = TRUE] ELSE doing
  /\ pendingQueue' = pendingQueue \union {r}
  /\ forwarded' = Append(forwarded, r)
  /\ mainMsg' = r
  /\ mainPc' = "forward"
  /\ UNCHANGED <<answers, suspended>>

\* Mutant: the flag stays set.
HandleResponseStillDoing(r) ==
  /\ AnswerClient(r)
  /\ mainPc' = "resume"
  /\ UNCHANGED <<forwarded, mainMsg, suspended, doing, pendingQueue>>

\* The controller's onHandleResponse, or no handler: the client is answered,
\* and the controller takes the next request.
HandleResponse(r) ==
  /\ AnswerClient(r)
  /\ doing' = IF Owner[r] # None THEN [doing EXCEPT ![Owner[r]] = FALSE] ELSE doing
  /\ mainPc' = "resume"
  /\ UNCHANGED <<forwarded, mainMsg, suspended, pendingQueue>>

\* RfxRootController::processMessage.
ProcessRequest ==
  /\ Poll
  /\ NextMessage.type = "REQUEST"
  /\ LET r == NextMessage.token
     IN RejectRequest(r) \/ SuspendRequest(r) \/ ForwardRequest(r)
  /\ UNCHANGED <<issued, requestVars, resumeAt, radioVars, mclVars, replyVars>>

ProcessResponse ==
  /\ Poll
  /\ NextMessage.type = "RESPONSE"
  /\ HandleResponse(NextMessage.token)
  /\ UNCHANGED <<issued, requestVars, resumeAt, radioVars, mclVars, replyVars>>

\* A STATUS_SYNC message changes the radio state or the modem power status.
ProcessStatusSync ==
  /\ mainPc = "poll"
  /\ \/ radioOff' = ~radioOff /\ UNCHANGED modemOff
     \/ modemOff' = ~modemOff /\ UNCHANGED radioOff
  /\ mainPc' = "resume"
  /\ UNCHANGED <<clientVars, forwarded, requestVars, mainMsg, resumeAt, suspended,
                 doing, loopVars, pendingQueue, mclVars, replyVars>>

\* The second half of RfxRilAdapter::requestToMcl.
EnqueueMcl ==
  /\ mainPc = "forward"
  /\ mcl' = Append(mcl, mainMsg)
  /\ mainMsg' = None
  /\ mainPc' = "resume"
  /\ UNCHANGED <<clientVars, forwarded, requestVars, resumeAt, suspended, doing,
                 radioVars, loopVars, pendingQueue, channel, handling, replies,
                 replyVars>>

\* Mutant: the index advances past the entry that took the removed one's place.
ResumeAndSkip ==
  /\ mainPc = "resume"
  /\ resumeAt <= Len(suspended)
  /\ CanHandle(suspended[resumeAt])
  /\ front' = Append(front, suspended[resumeAt])
  /\ suspended' = RemoveAt(suspended, resumeAt)
  /\ resumeAt' = resumeAt + 1
  /\ UNCHANGED <<clientVars, forwarded, requestVars, looper, mainPc, mainMsg,
                 doing, radioVars, pendingQueue, mclVars, replyVars>>

\* Mutant: enqueueMessage instead of enqueueMessageFront.
ResumeBehind ==
  /\ mainPc = "resume"
  /\ resumeAt <= Len(suspended)
  /\ CanHandle(suspended[resumeAt])
  /\ looper' = Append(looper, Req(suspended[resumeAt]))
  /\ suspended' = RemoveAt(suspended, resumeAt)
  /\ UNCHANGED <<clientVars, forwarded, requestVars, front, mainPc, mainMsg,
                 resumeAt, doing, radioVars, pendingQueue, mclVars, replyVars>>

\* RfxRootController::processSuspendedMessage, one turn of its loop: requeue
\* the message and stay at its index, or pass to the next one.
ResumeMessage ==
  /\ mainPc = "resume"
  /\ resumeAt <= Len(suspended)
  /\ CanHandle(suspended[resumeAt])
  /\ front' = Append(front, suspended[resumeAt])
  /\ suspended' = RemoveAt(suspended, resumeAt)
  /\ UNCHANGED <<clientVars, forwarded, requestVars, looper, mainPc, mainMsg,
                 resumeAt, doing, radioVars, pendingQueue, mclVars, replyVars>>

KeepSuspended ==
  /\ mainPc = "resume"
  /\ resumeAt <= Len(suspended)
  /\ ~CanHandle(suspended[resumeAt])
  /\ resumeAt' = resumeAt + 1
  /\ UNCHANGED <<clientVars, forwarded, requestVars, loopVars, mainPc, mainMsg,
                 suspended, doing, radioVars, pendingQueue, mclVars, replyVars>>

ResumeDone ==
  /\ mainPc = "resume"
  /\ resumeAt > Len(suspended)
  /\ resumeAt' = 1
  /\ mainPc' = "poll"
  /\ UNCHANGED <<clientVars, forwarded, requestVars, loopVars, mainMsg, suspended,
                 doing, radioVars, pendingQueue, mclVars, replyVars>>
-----------------------------------------------------------------------------
(* The MCL side.                                                           *)

\* Mutant: the message is found but not removed.
MatchAndKeep(t, r) ==
  IF r \in pendingQueue
    THEN transit' = [transit EXCEPT ![t] = r] /\ UNCHANGED pendingQueue
    ELSE UNCHANGED <<pendingQueue, transit>>

\* RfxDispatchThread::enqueueResponseMessage, called by thread t:
\* checkAndDequeue on pendingQueue; no corresponding request, nothing done.
MatchPending(t, r) ==
  IF r \in pendingQueue
    THEN /\ pendingQueue' = pendingQueue \ {r}
         /\ transit' = [transit EXCEPT ![t] = r]
    ELSE UNCHANGED <<pendingQueue, transit>>

\* Its second half: the response it built goes to dispatchResponseQueue.
EnqueueResponse(t) ==
  /\ transit[t] # None
  /\ responseQueue' = Append(responseQueue, transit[t])
  /\ transit' = [transit EXCEPT ![t] = None]
  /\ UNCHANGED <<clientVars, forwarded, requestVars, mainVars, loopVars,
                 pendingQueue, mclVars, responseThread>>

\* Mutant: a message nobody handles is dropped.
DispatchOrDrop ==
  /\ mcl # <<>>
  /\ transit[Dispatcher] = None
  /\ mcl' = Tail(mcl)
  /\ LET h == Home[Head(mcl)]
     IN channel' = IF h = None THEN channel
                              ELSE [channel EXCEPT ![h] = Append(@, Head(mcl))]
  /\ UNCHANGED <<clientVars, forwarded, requestVars, mainVars, loopVars, pendingQueue,
                 handling, replies, replyVars>>

\* RfxMclMessenger::onHandleMessage: to the channel that has a handler, or
\* answered NOT_SUPPORTED.
DispatchMcl ==
  /\ mcl # <<>>
  /\ transit[Dispatcher] = None
  /\ mcl' = Tail(mcl)
  /\ LET h == Home[Head(mcl)]
     IN IF h = None
          THEN /\ MatchPending(Dispatcher, Head(mcl))
               /\ UNCHANGED channel
          ELSE /\ channel' = [channel EXCEPT ![h] = Append(@, Head(mcl))]
               /\ UNCHANGED <<pendingQueue, transit>>
  /\ UNCHANGED <<clientVars, forwarded, requestVars, mainVars, loopVars, handling,
                 replies, responseQueue, responseThread>>

\* RfxSender::processMessage hands the message to its handler.
StartHandler(h) ==
  /\ handling[h] = None
  /\ channel[h] # <<>>
  /\ handling' = [handling EXCEPT ![h] = Head(channel[h])]
  /\ channel' = [channel EXCEPT ![h] = Tail(@)]
  /\ replies' = [replies EXCEPT ![h] = 0]
  /\ UNCHANGED <<clientVars, forwarded, requestVars, mainVars, loopVars,
                 pendingQueue, mcl, replyVars>>

\* RfxBaseHandler::responseToTelCore (or RfxHandlerManager answering that no
\* handler is registered).
HandlerReply(h) ==
  /\ handling[h] # None
  /\ transit[h] = None
  /\ replies[h] < MaxReply
  /\ replies' = [replies EXCEPT ![h] = @ + 1]
  /\ MatchPending(h, handling[h])
  /\ UNCHANGED <<clientVars, forwarded, requestVars, mainVars, loopVars, mcl,
                 channel, handling, responseQueue, responseThread>>

\* onHandleRequest returns. It has answered: the framework has no other way
\* to answer for it.
FinishHandler(h) ==
  /\ handling[h] # None
  /\ transit[h] = None
  /\ replies[h] > 0
  /\ handling' = [handling EXCEPT ![h] = None]
  /\ UNCHANGED <<clientVars, forwarded, requestVars, mainVars, loopVars,
                 pendingQueue, mcl, channel, replies, replyVars>>
-----------------------------------------------------------------------------
Next ==
  \/ \E r \in Request : EnqueueRequest(r)
  \/ TakeRequest \/ PostRequest \/ TakeResponse \/ PostResponse
  \/ ProcessRequest \/ ProcessResponse \/ ProcessStatusSync
  \/ EnqueueMcl \/ ResumeMessage \/ KeepSuspended \/ ResumeDone
  \/ \E t \in Replier : EnqueueResponse(t)
  \/ DispatchMcl
  \/ \E h \in Channel : StartHandler(h) \/ HandlerReply(h) \/ FinishHandler(h)

\* Every thread runs: each loops over blocking waits and is never starved. The
\* clients and the radio owe nothing; a handler answers and returns.
Fairness ==
  /\ WF_vars(TakeRequest) /\ WF_vars(PostRequest)
  /\ WF_vars(TakeResponse) /\ WF_vars(PostResponse)
  /\ WF_vars(EnqueueMcl)
  /\ WF_vars(ResumeMessage \/ KeepSuspended \/ ResumeDone)
  /\ WF_vars(DispatchMcl)
  /\ \A t \in Replier : WF_vars(EnqueueResponse(t))
  /\ \A h \in Channel : /\ WF_vars(StartHandler(h))
                        /\ WF_vars(HandlerReply(h))
                        /\ WF_vars(FinishHandler(h))

\* The main thread takes messages in the order of its looper: status messages
\* cannot keep it from a request or a response for ever.
MainFairness == SF_vars(ProcessRequest \/ ProcessResponse)

Spec == Init /\ [][Next]_vars
FairSpec == Spec /\ Fairness /\ MainFairness
-----------------------------------------------------------------------------
(* Where a request can be. The places are sets of requests, so that a       *)
(* request that is nowhere, or in two places, can be told.                  *)

Posted(type) == {r \in Request :
                   \E i \in 1..Len(looper) : looper[i] = [type |-> type, token |-> r]}
Held(x) == {x} \ {None}

Place == [requestQueue   |-> Elems(requestQueue),
          requestThread  |-> Held(requestThread),
          request        |-> Posted("REQUEST"),
          front          |-> Elems(front),
          suspended      |-> Elems(suspended),
          pending        |-> pendingQueue,
          transit        |-> {r \in Request : \E t \in Replier : transit[t] = r},
          responseQueue  |-> Elems(responseQueue),
          responseThread |-> Held(responseThread),
          response       |-> Posted("RESPONSE"),
          answered       |-> {r \in Request : answers[r] > 0}]

\* No queue holds a request twice, and no two threads are answering it.
Distinct(q) == \A i, j \in 1..Len(q) : q[i] = q[j] => i = j

NoDuplicate ==
  /\ \A q \in {issued, requestQueue, looper, front, suspended, responseQueue} : Distinct(q)
  /\ \A t, u \in Replier : transit[t] = transit[u] => t = u \/ transit[t] = None
  /\ \A r \in Request : answers[r] <= 1

\* Every issued request is in exactly one place: it is never lost between two
\* queues, never in two of them, and never answered while somebody may still
\* answer it. The hazard is the hand-over of a request between six threads
\* without a common lock (dequeue and enqueue are separate critical sections).
ExactlyOnePlace ==
  LET place == Place
  IN  \A r \in Request :
        /\ r \in Elems(issued) <=> \E p \in DOMAIN place : r \in place[p]
        /\ \A p, q \in DOMAIN place : r \in place[p] /\ r \in place[q] => p = q

OncePlaced == NoDuplicate /\ ExactlyOnePlace

\* What the MCL side still has to answer: the request on its way to the
\* dispatcher, in a looper, or with a handler that has not replied.
InMcl == Held(mainMsg) \union Elems(mcl) \union (UNION {Elems(channel[h]) : h \in Channel})
           \union {r \in Request : \E h \in Channel : handling[h] = r /\ replies[h] = 0}

\* pendingQueue and the MCL side agree: a pending request has somebody who
\* will answer it, and the first answer always finds its request. That is why
\* requestToMcl adds the message to pendingQueue before it posts it.
PendingIffInMcl == pendingQueue = InMcl

\* Requests a controller has forwarded and whose response it has not handled.
InFlight(c) == {r \in Request :
                  /\ Owner[r] = c
                  /\ \E p \in {"pending", "transit", "responseQueue",
                                "responseThread", "response"} : r \in Place[p]}

\* A controller that serialises its requests has at most one in flight, and
\* its flag says whether there is one, across the suspensions, resumptions and
\* rejections in between.
OneInFlight ==
  \A c \in Controller :
    /\ doing[c] <=> InFlight(c) # {}
    /\ \A r, s \in InFlight(c) : r = s

\* No lost wake-up: whenever the main thread waits for its next message, every
\* suspended request has a request in flight whose response will resume it.
NoLostWakeup ==
  mainPc = "poll" => \A i \in 1..Len(suspended) : doing[Owner[suspended[i]]]

\* A controller's requests reach the modem in the order the client issued
\* them, although a suspended one is requeued while later ones wait in the
\* looper (RfxRootController.cpp: "enqueue the msg in the front of main looper
\* so it will be processed firstly").
InIssueOrder ==
  \A i, j \in 1..Len(forwarded) :
    i < j /\ Owner[forwarded[i]] = Owner[forwarded[j]] /\ Owner[forwarded[i]] # None =>
      \E k, l \in 1..Len(issued) :
        k < l /\ issued[k] = forwarded[i] /\ issued[l] = forwarded[j]

\* Every request is answered in the end, whatever the interleaving of the
\* threads and however the radio goes off and on.
EventuallyAnswered ==
  \A r \in Request : r \in Elems(issued) ~> answers[r] = 1

\* The framework implements the promise of RequestReply.
Promise == INSTANCE RequestReply WITH issued <- Elems(issued), answers <- answers
ImplementsPromise == Promise!Spec
=============================================================================
