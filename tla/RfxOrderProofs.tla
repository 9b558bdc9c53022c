--------------------------- MODULE RfxOrderProofs ---------------------------
(***************************************************************************)
(* A controller's requests reach MCL in the order they were issued         *)
(* (InIssueOrder), for any requests, controllers and channels.             *)
(***************************************************************************)
EXTENDS RfxRequestProofs

(* Queues and sets whose elements follow a relation.                       *)
Ordered(q, R) == \A i, j \in 1..Len(q) : i < j => <<q[i], q[j]>> \in R
Precede(S, T, R) == \A x \in S, y \in T : <<x, y>> \in R

LEMMA OrderedAppend ==
  ASSUME NEW S, NEW R, NEW q \in Seq(S), NEW e \in S, Ordered(q, R), Precede(Elems(q), {e}, R)
  PROVE  Ordered(Append(q, e), R)
<1>1. /\ Len(q) \in Nat /\ Len(Append(q, e)) = Len(q) + 1
      /\ \A i \in 1..Len(q) : Append(q, e)[i] = q[i]
      /\ Append(q, e)[Len(q) + 1] = e
  BY AppendType
<1>2. \A i \in 1..Len(q) : <<q[i], e>> \in R
  BY DEF Precede, Elems
<1>3. \A i, j \in 1..(Len(q) + 1) :
        i < j => i \in 1..Len(q) /\ (j \in 1..Len(q) \/ j = Len(q) + 1)
  BY <1>1
<1> QED BY <1>1, <1>2, <1>3 DEF Ordered

LEMMA OrderedTail ==
  ASSUME NEW S, NEW R, NEW q \in Seq(S), q # <<>>, Ordered(q, R)
  PROVE  /\ Ordered(Tail(q), R)
         /\ Elems(Tail(q)) \subseteq Elems(q)
         /\ Precede({Head(q)}, Elems(Tail(q)), R)
<1>1. /\ Len(q) \in Nat \ {0} /\ Head(q) = q[1] /\ Len(Tail(q)) = Len(q) - 1
      /\ \A i \in 1..(Len(q) - 1) : Tail(q)[i] = q[i + 1]
  OBVIOUS
<1>2. /\ 1 \in 1..Len(q)
      /\ \A i \in 1..(Len(q) - 1) : i + 1 \in 1..Len(q) /\ 1 < i + 1
      /\ \A i, j \in 1..(Len(q) - 1) : i < j => i + 1 < j + 1
  BY <1>1
<1>3. Ordered(Tail(q), R)
  BY <1>1, <1>2 DEF Ordered
<1>4. \A x \in Elems(Tail(q)) : x \in Elems(q) /\ <<Head(q), x>> \in R
  <2> TAKE x \in Elems(Tail(q))
  <2>1. PICK i \in 1..(Len(q) - 1) : x = q[i + 1]
    BY <1>1 DEF Elems
  <2> QED BY <1>1, <1>2, <2>1 DEF Ordered, Elems
<1> QED BY <1>3, <1>4 DEF Precede

LEMMA OrderedRemove ==
  ASSUME NEW S, NEW R, NEW q \in Seq(S), NEW n \in 1..Len(q), Ordered(q, R)
  PROVE  /\ Ordered(RemoveAt(q, n), R)
         /\ \A x \in Elems(RemoveAt(q, n)) :
              \E i \in 1..Len(q) : x = q[i] /\ (i < n \/ <<q[n], x>> \in R)
<1> DEFINE s == RemoveAt(q, n)
<1>1. /\ Len(q) \in Nat /\ Len(s) = Len(q) - 1
      /\ \A j \in 1..(Len(q) - 1) : s[j] = IF j < n THEN q[j] ELSE q[j + 1]
  BY RemoveAtType
<1> HIDE DEF s
<1> DEFINE Old(j) == IF j < n THEN j ELSE j + 1
<1>2. \A j \in 1..(Len(q) - 1) : /\ Old(j) \in 1..Len(q) /\ s[j] = q[Old(j)]
                                 /\ Old(j) < n \/ n < Old(j)
  BY <1>1
<1>3. \A i, j \in 1..(Len(q) - 1) : i < j => Old(i) < Old(j)
  BY <1>1
<1> HIDE DEF Old
<1>4. Ordered(s, R)
  BY <1>1, <1>2, <1>3 DEF Ordered
<1>5. \A x \in Elems(s) : \E i \in 1..Len(q) : x = q[i] /\ (i < n \/ <<q[n], x>> \in R)
  <2> TAKE x \in Elems(s)
  <2>1. PICK j \in 1..(Len(q) - 1) : x = s[j]
    BY <1>1 DEF Elems
  <2>2. /\ Old(j) \in 1..Len(q) /\ x = q[Old(j)]
        /\ Old(j) < n \/ <<q[n], x>> \in R
    BY <1>2, <2>1 DEF Ordered
  <2> QED BY <2>2
<1> QED BY <1>4, <1>5 DEF s

LEMMA OrderedGrows ==
  ASSUME NEW R, NEW T, R \subseteq T
  PROVE  /\ \A q : Ordered(q, R) => Ordered(q, T)
         /\ \A A, B : Precede(A, B, R) => Precede(A, B, T)
  BY DEF Ordered, Precede
-----------------------------------------------------------------------------
(* The order of issue, between the requests of one controller.             *)
IssuedBefore(x, y) ==
  \E k, l \in 1..Len(issued) : k < l /\ issued[k] = x /\ issued[l] = y

Order == {p \in Request \X Request :
            Owner[p[1]] = Owner[p[2]] /\ Owner[p[1]] # None => IssuedBefore(p[1], p[2])}

LooperOrder == {p \in Message \X Message :
                  p[1].type = "REQUEST" /\ p[2].type = "REQUEST" =>
                    <<p[1].token, p[2].token>> \in Order}

LEMMA OrderIs ==
  ASSUME NEW x \in Request, NEW y \in Request
  PROVE  /\ <<x, y>> \in Order <=>
              (Owner[x] = Owner[y] /\ Owner[x] # None => IssuedBefore(x, y))
         /\ <<x, y>> \in Order' <=>
              (Owner[x] = Owner[y] /\ Owner[x] # None => IssuedBefore(x, y)')
  BY DEF Order

LEMMA OrderGrows ==
  ASSUME TypeOK, [Next]_vars
  PROVE  Order \subseteq Order' /\ LooperOrder \subseteq LooperOrder'
<1> USE DEF clientVars, requestVars, mainVars, radioVars, loopVars, mclVars, replyVars
<1>1. issued \in Seq(Request) /\ Len(issued) \in Nat
  BY DEF TypeOK, ClientType
<1>2. UNCHANGED issued \/ \E r \in Request : issued' = Append(issued, r)
  BY DEF Next, vars, EnqueueRequest, TakeRequest, PostRequest, TakeResponse, PostResponse,
         ProcessRequest, ProcessResponse, ProcessStatusSync, EnqueueMcl, ResumeMessage,
         KeepSuspended, ResumeDone, EnqueueResponse, DispatchMcl, StartHandler, HandlerReply,
         FinishHandler
<1>3. /\ 1..Len(issued) \subseteq 1..Len(issued')
      /\ \A i \in 1..Len(issued) : issued'[i] = issued[i]
  <2>1. CASE UNCHANGED issued
    BY <2>1
  <2>2. ASSUME NEW r \in Request, issued' = Append(issued, r)
        PROVE  /\ 1..Len(issued) \subseteq 1..Len(issued')
               /\ \A i \in 1..Len(issued) : issued'[i] = issued[i]
    BY <1>1, <2>2, AppendType
  <2> QED BY <1>2, <2>1, <2>2
<1>4. \A x, y \in Request : IssuedBefore(x, y) => IssuedBefore(x, y)'
  BY <1>3 DEF IssuedBefore
<1>5. Order \subseteq Order'
  BY <1>4 DEF Order
<1> QED BY <1>5 DEF LooperOrder
-----------------------------------------------------------------------------
(* The line a request of a controller stands in: forwarded, then waiting   *)
(* (front and suspended), then coming. While the controller is busy, what  *)
(* it suspended goes before what was requeued in front; while it is free,  *)
(* what is requeued goes before what is still suspended.                   *)
Waiting == Elems(front) \union Elems(suspended)
Coming == Posted("REQUEST") \union Held(requestThread) \union Elems(requestQueue)
Turn(x, y, R) == IF doing[Owner[y]] THEN <<y, x>> \in R ELSE <<x, y>> \in R

OrderInv ==
  /\ Elems(forwarded) \subseteq Elems(issued)
  /\ Ordered(forwarded, Order) /\ Ordered(front, Order) /\ Ordered(suspended, Order)
  /\ Ordered(looper, LooperOrder) /\ Ordered(requestQueue, Order)
  /\ Precede(Elems(forwarded), Waiting \union Coming, Order)
  /\ Precede(Waiting, Coming, Order)
  /\ Precede(Posted("REQUEST"), Held(requestThread) \union Elems(requestQueue), Order)
  /\ Precede(Held(requestThread), Elems(requestQueue), Order)
  /\ \A x \in Elems(front), y \in Elems(suspended) : Turn(x, y, Order)

\* OrderInv' but for the order, which is still that of the first state.
OrderNext ==
  /\ Elems(forwarded') \subseteq Elems(issued')
  /\ Ordered(forwarded', Order) /\ Ordered(front', Order) /\ Ordered(suspended', Order)
  /\ Ordered(looper', LooperOrder) /\ Ordered(requestQueue', Order)
  /\ Precede(Elems(forwarded'), Waiting' \union Coming', Order)
  /\ Precede(Waiting', Coming', Order)
  /\ Precede(Posted("REQUEST")', Held(requestThread') \union Elems(requestQueue'), Order)
  /\ Precede(Held(requestThread'), Elems(requestQueue'), Order)
  /\ \A x \in Elems(front'), y \in Elems(suspended') :
       IF doing'[Owner[y]] THEN <<y, x>> \in Order ELSE <<x, y>> \in Order

LEMMA OrderPrimed ==
  ASSUME TypeOK, [Next]_vars, OrderNext
  PROVE  OrderInv'
<1>1. Order \subseteq Order' /\ LooperOrder \subseteq LooperOrder'
  BY OrderGrows
<1> DEFINE R == Order
           T == Order'
           Q == LooperOrder
           U == LooperOrder'
<1>2. /\ \A q : Ordered(q, R) => Ordered(q, T)
      /\ \A q : Ordered(q, Q) => Ordered(q, U)
      /\ \A A, B : Precede(A, B, R) => Precede(A, B, T)
  <2>1. R \subseteq T /\ Q \subseteq U
    BY <1>1
  <2> HIDE DEF R, T, Q, U
  <2> QED BY <2>1, OrderedGrows
<1>3. /\ Ordered(forwarded', T) /\ Ordered(front', T) /\ Ordered(suspended', T)
      /\ Ordered(looper', U) /\ Ordered(requestQueue', T)
      /\ Precede(Elems(forwarded'), Waiting' \union Coming', T)
      /\ Precede(Waiting', Coming', T)
      /\ Precede(Posted("REQUEST")', Held(requestThread') \union Elems(requestQueue'), T)
      /\ Precede(Held(requestThread'), Elems(requestQueue'), T)
  BY <1>2 DEF OrderNext
<1>4. \A x \in Elems(front'), y \in Elems(suspended') :
        IF doing'[Owner[y]] THEN <<y, x>> \in Order' ELSE <<x, y>> \in Order'
  BY <1>1 DEF OrderNext
<1>5. Elems(forwarded') \subseteq Elems(issued')
  BY DEF OrderNext
<1>6. (\A x \in Elems(front), y \in Elems(suspended) : Turn(x, y, Order))'
  BY <1>4 DEF Turn, Elems
<1> QED BY <1>3, <1>5, <1>6 DEF OrderInv, Ordered, Precede, Elems, Held

LEMMA OrderStill ==
  ASSUME OrderInv, UNCHANGED <<issued, forwarded, front, suspended, looper, requestThread,
                               requestQueue, doing>>
  PROVE  OrderNext
<1>1. UNCHANGED Posted("REQUEST")
  BY KeptPlaces
<1> QED BY <1>1 DEF OrderInv, OrderNext, Waiting, Coming, Turn

LEMMA QueueTypes ==
  ASSUME TypeOK
  PROVE  /\ issued \in Seq(Request) /\ forwarded \in Seq(Request) /\ front \in Seq(Request)
         /\ suspended \in Seq(Request) /\ requestQueue \in Seq(Request)
         /\ looper \in Seq(Message) /\ requestThread \in Request \union {None}
         /\ doing \in [Controller -> BOOLEAN]
  BY DEF TypeOK, ClientType, QueueType, MainType

LEMMA OrderRequestThread ==
  ASSUME TypeOK, OncePlaced, OrderInv, TakeRequest \/ PostRequest \/ PostResponse
  PROVE  OrderNext
<1> USE DEF clientVars, requestVars, mainVars, radioVars, loopVars, mclVars, replyVars
<1>1. UNCHANGED <<issued, forwarded, front, suspended, doing>>
  BY DEF TakeRequest, PostRequest, PostResponse
<1>2. CASE TakeRequest
  <2>1. PICK r \in Request :
          /\ requestThread' = r /\ r \in Elems(requestQueue)
          /\ requestThread = None /\ UNCHANGED looper
          /\ Ordered(requestQueue', Order)
          /\ Elems(requestQueue') \subseteq Elems(requestQueue)
          /\ Precede({r}, Elems(requestQueue'), Order)
    <3>1. /\ requestThread' = Head(requestQueue) /\ requestQueue # <<>>
          /\ requestQueue' = Tail(requestQueue) /\ requestThread = None /\ UNCHANGED looper
      BY <1>2 DEF TakeRequest
    <3>2. Head(requestQueue) \in Request /\ Head(requestQueue) \in Elems(requestQueue)
      BY <3>1, QueueTypes, TailElems, NoDuplicateIs DEF OncePlaced
    <3>3. /\ Ordered(requestQueue', Order)
          /\ Elems(requestQueue') \subseteq Elems(requestQueue)
          /\ Precede({Head(requestQueue)}, Elems(requestQueue'), Order)
      BY <3>1, QueueTypes, OrderedTail DEF OrderInv
    <3> QED BY <3>1, <3>2, <3>3
  <2>2. Held(requestThread') = {r} /\ UNCHANGED Posted("REQUEST")
    BY <2>1, NoneFresh, KeptPlaces DEF Held
  <2>3. Coming' \subseteq Coming
    BY <2>1, <2>2 DEF Coming
  <2> QED BY <1>1, <2>1, <2>2, <2>3 DEF OrderInv, OrderNext, Waiting, Coming, Turn, Precede
<1>3. CASE PostRequest
  <2>1. /\ requestThread # None /\ requestThread' = None /\ UNCHANGED requestQueue
        /\ looper' = Append(looper, [type |-> "REQUEST", token |-> requestThread])
    BY <1>3 DEF PostRequest, Req
  <2>2. PICK r \in Request : r = requestThread
    BY <2>1, QueueTypes
  <2>3. Held(requestThread) = {r} /\ Held(requestThread') = {} /\ r \in Place["requestThread"]
    BY <2>1, <2>2, PlaceIs DEF Held
  <2>4. Posted("REQUEST")' = Posted("REQUEST") \union {r}
    <3>1. r \notin Posted("REQUEST")
      BY <2>3, OneAtATime, PlaceIs DEF OncePlaced, PlaceName
    <3> QED BY <2>1, <2>2, <3>1, PostPlaces, NoDuplicateIs DEF OncePlaced
  <2>5. Ordered(looper', LooperOrder)
    <3> DEFINE m == [type |-> "REQUEST", token |-> r]
    <3>1. m \in Message
      BY DEF Message
    <3>2. ASSUME NEW n \in Elems(looper) PROVE <<n, m>> \in LooperOrder
      <4>1. n \in Message
        BY <3>2, QueueTypes DEF Elems
      <4>2. CASE n.type = "REQUEST"
        <5>1. n.token \in Request /\ n = [type |-> "REQUEST", token |-> n.token]
          BY <4>1, <4>2 DEF Message
        <5>2. n.token \in Posted("REQUEST")
          BY <3>2, <5>1, PostedIs
        <5>3. <<n.token, r>> \in Order
          BY <2>3, <5>2 DEF OrderInv, Precede
        <5> QED BY <3>1, <4>1, <5>3 DEF LooperOrder
      <4>3. CASE n.type # "REQUEST"
        BY <3>1, <4>1, <4>3 DEF LooperOrder
      <4> QED BY <4>2, <4>3
    <3> HIDE DEF m
    <3>3. Precede(Elems(looper), {m}, LooperOrder)
      BY <3>2 DEF Precede
    <3>4. Ordered(Append(looper, m), LooperOrder)
      BY <3>1, <3>3, QueueTypes, OrderedAppend DEF OrderInv
    <3> QED BY <2>1, <2>2, <3>4 DEF m
  <2>6. Coming' \subseteq Coming
    BY <2>1, <2>3, <2>4 DEF Coming
  <2> QED BY <1>1, <2>1, <2>3, <2>4, <2>5, <2>6 DEF OrderInv, OrderNext, Waiting, Coming, Turn, Precede
<1>4. CASE PostResponse
  <2>1. /\ responseThread \in Request /\ UNCHANGED <<requestThread, requestQueue>>
        /\ looper' = Append(looper, [type |-> "RESPONSE", token |-> responseThread])
    BY <1>4 DEF PostResponse, Resp, TypeOK, QueueType
  <2>2. PICK m \in Message : m.type = "RESPONSE" /\ looper' = Append(looper, m)
    BY <2>1 DEF Message
  <2>3. Precede(Elems(looper), {m}, LooperOrder)
    <3>1. \A n \in Elems(looper) : n \in Message
      BY QueueTypes DEF Elems
    <3> QED BY <2>2, <3>1 DEF Precede, LooperOrder
  <2>4. Ordered(looper', LooperOrder)
    BY <2>2, <2>3, QueueTypes, OrderedAppend DEF OrderInv
  <2>5. Posted("REQUEST")' = Posted("REQUEST")
    <3>1. Elems(looper') = Elems(looper) \union {m}
      BY <2>2, QueueTypes, AppendElems
    <3>2. \A s \in Request : [type |-> "REQUEST", token |-> s].type # m.type
      BY <2>2
    <3>3. \A s \in Request : [type |-> "REQUEST", token |-> s] # m
      BY <3>2
    <3>4. \A s \in Request : s \in Posted("REQUEST")' <=> s \in Posted("REQUEST")
      BY <3>1, <3>3, PostedIs
    <3> QED BY <3>4, PostedIs
  <2> QED BY <1>1, <2>1, <2>4, <2>5 DEF OrderInv, OrderNext, Waiting, Coming, Turn
<1> QED BY <1>2, <1>3, <1>4

(* What the main thread takes was issued before all that is still to come, *)
(* and after all its controller has suspended.                             *)
LEMMA OrderPoll ==
  ASSUME TypeOK, WakeInv, OncePlaced, OrderInv, Poll,
         UNCHANGED <<requestThread, requestQueue>>,
         NEW r \in Request, r = NextMessage.token
  PROVE  /\ Ordered(front', Order) /\ Elems(front') \subseteq Elems(front)
         /\ Ordered(looper', LooperOrder) /\ Coming' \subseteq Coming
         /\ Posted("REQUEST")' \subseteq Posted("REQUEST")
         /\ NextMessage.type = "RESPONSE" => Elems(front') = {}
         /\ NextMessage.type = "REQUEST" =>
              /\ r \in Waiting \union Coming
              /\ Precede(Elems(suspended), {r}, Order)
              /\ Precede({r}, Elems(front') \union Coming', Order)
<1>1. \A y \in Elems(suspended) : doing[Owner[y]]
  BY DEF Poll, WakeInv, Elems
<1>2. CASE front # <<>>
  <2>1. /\ NextMessage.type = "REQUEST" /\ r = Head(front)
        /\ front' = Tail(front) /\ UNCHANGED looper
    BY <1>2 DEF NextMessage, Req, Poll
  <2>2. r \in Elems(front) /\ UNCHANGED <<Posted("REQUEST"), Coming>>
    BY <1>2, <2>1, QueueTypes, TailElems, NoDuplicateIs, KeptPlaces DEF OncePlaced, Coming
  <2>3. /\ Ordered(front', Order) /\ Elems(front') \subseteq Elems(front)
        /\ Precede({r}, Elems(front'), Order)
    BY <1>2, <2>1, QueueTypes, OrderedTail DEF OrderInv
  <2>4. Precede(Elems(suspended), {r}, Order)
    BY <1>1, <2>2 DEF OrderInv, Turn, Precede
  <2>5. Precede({r}, Coming', Order)
    BY <2>2 DEF OrderInv, Precede, Waiting
  <2> QED BY <2>1, <2>2, <2>3, <2>4, <2>5 DEF OrderInv, Waiting, Precede
<1>3. CASE front = <<>>
  <2>1. /\ looper # <<>> /\ looper' = Tail(looper) /\ UNCHANGED front
        /\ NextMessage = Head(looper) /\ Head(looper) \in Message
        /\ Elems(front') = {}
    BY <1>3, QueueTypes DEF Poll, NextMessage, Elems
  <2>2. /\ Ordered(looper', LooperOrder) /\ Elems(looper') \subseteq Elems(looper)
        /\ Precede({Head(looper)}, Elems(looper'), LooperOrder)
    BY <2>1, QueueTypes, OrderedTail DEF OrderInv
  <2>3. Posted("REQUEST")' \subseteq Posted("REQUEST")
    <3>1. \A s \in Request : s \in Posted("REQUEST")' => s \in Posted("REQUEST")
      BY <2>2, PostedIs
    <3> QED BY <3>1, PostedIs
  <2>4. Coming' \subseteq Coming
    BY <2>3 DEF Coming
  <2>5. ASSUME NextMessage.type = "REQUEST"
        PROVE  /\ r \in Posted("REQUEST")
               /\ Precede(Elems(suspended), {r}, Order)
               /\ Precede({r}, Coming', Order)
    <3> DEFINE m == [type |-> "REQUEST", token |-> r]
    <3>1. Head(looper) = m /\ m \in Message
      BY <2>1, <2>5 DEF Message
    <3>2. r \in Posted("REQUEST")
      <4>1. Head(looper) \in Elems(looper)
        BY <2>1, QueueTypes, TailElems, NoDuplicateIs DEF OncePlaced
      <4> QED BY <3>1, <4>1, PostedIs
    <3>3. Precede(Elems(suspended), {r}, Order)
      BY <3>2 DEF OrderInv, Waiting, Coming, Precede
    <3>4. ASSUME NEW s \in Posted("REQUEST")' PROVE <<r, s>> \in Order
      <4> DEFINE n == [type |-> "REQUEST", token |-> s]
      <4>1. s \in Request
        BY PostedIs
      <4>2. n \in Elems(looper')
        BY <4>1, PostedIs
      <4>3. <<m, n>> \in LooperOrder
        BY <2>2, <3>1, <4>2 DEF Precede
      <4>4. m.type = "REQUEST" /\ n.type = "REQUEST" /\ m.token = r /\ n.token = s
        OBVIOUS
      <4> HIDE DEF m, n
      <4> QED BY <4>3, <4>4 DEF LooperOrder
    <3>5. Precede({r}, Held(requestThread) \union Elems(requestQueue), Order)
      BY <3>2 DEF OrderInv, Precede
    <3> QED BY <3>2, <3>3, <3>4, <3>5 DEF Precede, Coming
  <2> QED BY <1>3, <2>1, <2>2, <2>3, <2>4, <2>5 DEF OrderInv, Coming, Precede
<1> QED BY <1>2, <1>3

LEMMA OrderProcess ==
  ASSUME TypeOK, WakeInv, OncePlaced, OrderInv, ProcessRequest \/ ProcessResponse
  PROVE  OrderNext
<1> USE DEF clientVars, requestVars, mainVars, radioVars, loopVars, mclVars, replyVars
<1>1. PICK r \in Request : r = NextMessage.token
  BY PollType DEF ProcessRequest, ProcessResponse
<1>2. Poll /\ UNCHANGED <<issued, requestThread, requestQueue>>
  BY DEF ProcessRequest, ProcessResponse
<1>3. /\ Ordered(front', Order) /\ Elems(front') \subseteq Elems(front)
      /\ Ordered(looper', LooperOrder) /\ Coming' \subseteq Coming
      /\ Posted("REQUEST")' \subseteq Posted("REQUEST")
      /\ NextMessage.type = "RESPONSE" => Elems(front') = {}
      /\ NextMessage.type = "REQUEST" =>
           /\ r \in Waiting \union Coming
           /\ Precede(Elems(suspended), {r}, Order)
           /\ Precede({r}, Elems(front') \union Coming', Order)
  BY <1>1, <1>2, OrderPoll
<1>4. \A y \in Elems(suspended) : doing[Owner[y]] /\ Owner[y] \in Controller /\ y \in Request
  BY <1>2, QueueTypes DEF Poll, WakeInv, Elems
<1>5. /\ Precede(Posted("REQUEST")', Held(requestThread') \union Elems(requestQueue'), Order)
      /\ Precede(Held(requestThread'), Elems(requestQueue'), Order)
      /\ Ordered(requestQueue', Order)
  BY <1>2, <1>3 DEF OrderInv, Precede
<1>6. CASE UNCHANGED <<forwarded, suspended, doing>>
  <2>1. Waiting' \subseteq Waiting
    BY <1>3, <1>6 DEF Waiting
  <2> QED BY <1>2, <1>3, <1>5, <1>6, <2>1 DEF OrderInv, OrderNext, Precede, Turn
<1>7. CASE ProcessRequest /\ SuspendRequest(r)
  <2>1. /\ suspended' = Append(suspended, r) /\ UNCHANGED <<forwarded, doing>>
        /\ doing[Owner[r]] /\ NextMessage.type = "REQUEST"
    BY <1>7 DEF ProcessRequest, SuspendRequest, CanHandle
  <2>2. Elems(suspended') = Elems(suspended) \union {r} /\ Ordered(suspended', Order)
    BY <1>3, <2>1, QueueTypes, AppendElems, OrderedAppend DEF OrderInv
  <2>3. /\ Waiting' \subseteq Waiting \union {r}
        /\ Waiting' \union Coming' \subseteq Waiting \union Coming
    BY <1>3, <2>1, <2>2 DEF Waiting
  <2>4. \A x \in Elems(front'), y \in Elems(suspended') :
          IF doing'[Owner[y]] THEN <<y, x>> \in Order ELSE <<x, y>> \in Order
    BY <1>3, <2>1, <2>2 DEF OrderInv, Turn, Precede
  <2>5. Precede(Waiting', Coming', Order)
    BY <1>3, <2>1, <2>3 DEF OrderInv, Precede
  <2> QED BY <1>2, <1>3, <1>5, <2>1, <2>2, <2>3, <2>4, <2>5 DEF OrderInv, OrderNext, Precede
<1>8. CASE ProcessRequest /\ ForwardRequest(r)
  <2>1. /\ forwarded' = Append(forwarded, r) /\ UNCHANGED suspended
        /\ Owner[r] # None => ~doing[Owner[r]]
        /\ \A c \in Controller : doing[c] => doing'[c]
        /\ NextMessage.type = "REQUEST"
    BY <1>8, QueueTypes DEF ProcessRequest, ForwardRequest, CanHandle
  <2>2. Elems(forwarded') = Elems(forwarded) \union {r} /\ Ordered(forwarded', Order)
    <3>1. Precede(Elems(forwarded), {r}, Order)
      BY <1>3, <2>1 DEF OrderInv, Precede
    <3> QED BY <2>1, <3>1, QueueTypes, AppendElems, OrderedAppend DEF OrderInv
  <2>3. r \in Elems(issued)
    <3>1. r \in Place[Source] /\ Source \in PlaceName
      BY <1>1, <1>2, PollPlaces, NoDuplicateIs DEF OncePlaced, PlaceName
    <3> QED BY <3>1, OneAtATime DEF OncePlaced
  <2>4. Precede({r}, Waiting' \union Coming', Order)
    <3>1. ASSUME NEW y \in Elems(suspended) PROVE <<r, y>> \in Order
      <4>1. ~(Owner[r] = Owner[y] /\ Owner[r] # None)
        BY <1>4, <2>1
      <4> QED BY <1>4, <4>1, OrderIs
    <3> QED BY <1>3, <2>1, <3>1 DEF Precede, Waiting
  <2>5. /\ Waiting' \subseteq Waiting
        /\ \A x \in Elems(front'), y \in Elems(suspended') :
             IF doing'[Owner[y]] THEN <<y, x>> \in Order ELSE <<x, y>> \in Order
    BY <1>3, <1>4, <2>1 DEF OrderInv, Turn, Waiting
  <2>6. Precede(Elems(forwarded'), Waiting' \union Coming', Order)
    BY <1>3, <2>2, <2>4, <2>5 DEF OrderInv, Precede
  <2> QED BY <1>2, <1>3, <1>5, <2>1, <2>2, <2>3, <2>5, <2>6 DEF OrderInv, OrderNext, Precede
<1>9. CASE ProcessResponse
  <2>1. UNCHANGED <<forwarded, suspended>> /\ Elems(front') = {}
    BY <1>3, <1>9 DEF ProcessResponse, HandleResponse
  <2>2. Waiting' \subseteq Waiting
    BY <2>1 DEF Waiting
  <2> QED BY <1>2, <1>3, <1>5, <2>1, <2>2 DEF OrderInv, OrderNext, Precede
<1> QED
  BY <1>1, <1>6, <1>7, <1>8, <1>9 DEF ProcessRequest, RejectRequest

LEMMA OrderResume ==
  ASSUME TypeOK, WakeInv, OncePlaced, OrderInv, ResumeMessage
  PROVE  OrderNext
<1> USE DEF clientVars, requestVars, mainVars, radioVars, loopVars, mclVars, replyVars
<1>1. /\ resumeAt \in 1..Len(suspended)
      /\ front' = Append(front, suspended[resumeAt])
      /\ suspended' = RemoveAt(suspended, resumeAt)
      /\ ~doing[Owner[suspended[resumeAt]]]
      /\ UNCHANGED <<issued, forwarded, looper, requestThread, requestQueue, doing>>
  BY DEF ResumeMessage, CanHandle, TypeOK, MainType
<1>2. PICK r \in Request :
        /\ r = suspended[resumeAt] /\ r \in Elems(suspended)
        /\ Elems(suspended') = Elems(suspended) \ {r}
  BY <1>1, QueueTypes, RemoveElems, NoDuplicateIs DEF OncePlaced
<1>3. /\ Ordered(suspended', Order)
      /\ \A y \in Elems(suspended') :
           \E i \in 1..Len(suspended) : y = suspended[i] /\ (i < resumeAt \/ <<r, y>> \in Order)
  BY <1>1, <1>2, QueueTypes, OrderedRemove DEF OrderInv
<1>4. /\ Elems(front') = Elems(front) \union {r}
      /\ Ordered(front', Order)
  <2>1. Precede(Elems(front), {r}, Order)
    BY <1>1, <1>2 DEF OrderInv, Turn, Precede
  <2>2. front \in Seq(Request) /\ front' = Append(front, r) /\ Ordered(front, Order)
    BY <1>1, <1>2, QueueTypes DEF OrderInv
  <2> HIDE DEF clientVars, requestVars, mainVars, radioVars, loopVars, mclVars, replyVars
  <2>3. Elems(front') = Elems(front) \union {r}
    BY <2>2, AppendElems
  <2>4. Ordered(Append(front, r), Order)
    BY <2>1, <2>2, OrderedAppend
  <2>5. Ordered(front', Order)
    BY <2>2, <2>4
  <2> QED BY <2>3, <2>5
<1>5. \A y \in Elems(suspended') :
        IF doing[Owner[y]] THEN <<y, r>> \in Order ELSE <<r, y>> \in Order
  <2> TAKE y \in Elems(suspended')
  <2>1. PICK i \in 1..Len(suspended) : y = suspended[i] /\ (i < resumeAt \/ <<r, y>> \in Order)
    BY <1>3
  <2>2. y \in Request
    BY <2>1, QueueTypes
  <2>3. CASE i < resumeAt
    <3>1. doing[Owner[y]] /\ <<y, r>> \in Order
      BY <1>1, <1>2, <2>1, <2>3 DEF WakeInv, OrderInv, Ordered
    <3> QED BY <3>1
  <2>4. CASE <<r, y>> \in Order /\ doing[Owner[y]]
    <3>1. Owner[y] # Owner[r]
      BY <1>1, <1>2, <2>4
    <3> QED BY <1>2, <2>2, <2>4, <3>1, OrderIs
  <2> QED BY <2>1, <2>3, <2>4
<1>6. Waiting' \subseteq Waiting /\ UNCHANGED <<Posted("REQUEST"), Coming>>
  BY <1>1, <1>2, <1>4, KeptPlaces DEF Waiting, Coming
<1>7. \A x \in Elems(front'), y \in Elems(suspended') :
        IF doing'[Owner[y]] THEN <<y, x>> \in Order ELSE <<x, y>> \in Order
  BY <1>1, <1>2, <1>4, <1>5 DEF OrderInv, Turn
<1> QED BY <1>1, <1>3, <1>4, <1>6, <1>7 DEF OrderInv, OrderNext, Precede

LEMMA OrderEnqueue ==
  ASSUME TypeOK, OncePlaced, OrderInv, NEW r \in Request, EnqueueRequest(r)
  PROVE  OrderInv'
<1> USE DEF clientVars, requestVars, mainVars, radioVars, loopVars, mclVars, replyVars
<1>1. /\ issued' = Append(issued, r)
      /\ UNCHANGED <<forwarded, front, suspended, looper, requestThread, doing>>
  BY DEF EnqueueRequest
<1>2. [Next]_vars
  BY DEF Next
<1>3. Elems(issued') = Elems(issued) \union {r}
  BY <1>1, QueueTypes, AppendElems
<1>4. UNCHANGED Posted("REQUEST") /\ UNCHANGED Held(requestThread)
  BY <1>1, KeptPlaces
<1>5. CASE r \in Unknown
  <2>1. UNCHANGED requestQueue
    BY <1>5 DEF EnqueueRequest
  <2>2. UNCHANGED <<Waiting, Coming>>
    BY <1>1, <1>4, <2>1 DEF Waiting, Coming
  <2>3. OrderNext
    BY <1>1, <1>3, <1>4, <2>1, <2>2 DEF OrderInv, OrderNext, Turn
  <2> QED BY <1>2, <2>3, OrderPrimed
<1>6. CASE r \notin Unknown
  <2>1. requestQueue' = Append(requestQueue, r)
    BY <1>6 DEF EnqueueRequest
  <2> DEFINE T == Order'
             U == LooperOrder'
  <2>2. Order \subseteq T /\ LooperOrder \subseteq U
    BY <1>2, OrderGrows
  <2>3. \A x \in Elems(issued) : <<x, r>> \in T
    <3> TAKE x \in Elems(issued)
    <3>1. PICK k \in 1..Len(issued) : issued[k] = x
      BY DEF Elems
    <3>2. /\ x \in Request /\ Len(issued) \in Nat
          /\ Len(issued') = Len(issued) + 1 /\ issued'[k] = x
          /\ issued'[Len(issued) + 1] = r
      BY <1>1, <3>1, QueueTypes, AppendType
    <3>3. k \in 1..Len(issued') /\ Len(issued) + 1 \in 1..Len(issued') /\ k < Len(issued) + 1
      BY <3>1, <3>2
    <3>4. IssuedBefore(x, r)'
      BY <3>2, <3>3 DEF IssuedBefore
    <3> QED BY <3>2, <3>4, OrderIs
  <2>4. Waiting \union Coming \subseteq Elems(issued)
    <3>1. /\ Waiting \subseteq Request /\ Coming \subseteq Request
      BY QueueTypes, PostedIs DEF Waiting, Coming, Elems, Held
    <3>2. \A x \in Request : x \in Waiting \union Coming => \E p \in PlaceName : x \in Place[p]
      BY PlaceIs DEF Waiting, Coming, PlaceName
    <3> QED BY <3>1, <3>2, OneAtATime DEF OncePlaced
  <2> HIDE DEF T, U
  <2>5. \A A \in SUBSET Elems(issued) : Precede(A, {r}, T)
    BY <2>3 DEF Precede
  <2>6. /\ Elems(requestQueue') = Elems(requestQueue) \union {r}
        /\ Ordered(requestQueue', T)
    <3>1. Elems(requestQueue) \subseteq Elems(issued)
      BY <2>4 DEF Coming
    <3>2. Precede(Elems(requestQueue), {r}, T) /\ Ordered(requestQueue, T)
      BY <2>2, <2>5, <3>1, OrderedGrows DEF OrderInv
    <3> QED BY <2>1, <3>2, QueueTypes, AppendElems, OrderedAppend
  <2>7. Coming' = Coming \union {r} /\ UNCHANGED Waiting
    BY <1>1, <1>4, <2>6 DEF Coming, Waiting
  <2>8. /\ Ordered(forwarded', T) /\ Ordered(front', T) /\ Ordered(suspended', T)
        /\ Ordered(looper', U)
    BY <1>1, <2>2, OrderedGrows DEF OrderInv
  <2>9. Precede(Elems(forwarded'), Waiting' \union Coming', T)
    BY <1>1, <2>2, <2>3, <2>7 DEF OrderInv, Precede
  <2>10. Precede(Waiting', Coming', T)
    BY <2>2, <2>3, <2>4, <2>7 DEF OrderInv, Precede
  <2>11. Posted("REQUEST") \subseteq Elems(issued) /\ Held(requestThread) \subseteq Elems(issued)
    BY <2>4 DEF Coming
  <2>12. Precede(Posted("REQUEST")', Held(requestThread)' \union Elems(requestQueue'), T)
    BY <1>4, <2>2, <2>3, <2>6, <2>11 DEF OrderInv, Precede
  <2>13. Precede(Held(requestThread)', Elems(requestQueue'), T)
    BY <1>4, <2>2, <2>3, <2>6, <2>11 DEF OrderInv, Precede
  <2>14. \A x \in Elems(front'), y \in Elems(suspended') :
           IF doing'[Owner[y]] THEN <<y, x>> \in T ELSE <<x, y>> \in T
    BY <1>1, <2>2 DEF OrderInv, Turn
  <2>15. (\A x \in Elems(front), y \in Elems(suspended) : Turn(x, y, Order))'
    BY <2>14 DEF Turn, Elems, T
  <2>16. Elems(forwarded') \subseteq Elems(issued')
    BY <1>1, <1>3 DEF OrderInv
  <2> QED
    BY <2>6, <2>8, <2>9, <2>10, <2>12, <2>13, <2>15, <2>16
    DEF OrderInv, Ordered, Precede, Elems, T, U
<1> QED BY <1>5, <1>6

LEMMA OrderStep ==
  ASSUME TypeOK, WakeInv, OncePlaced, OrderInv, [Next]_vars
  PROVE  OrderInv'
<1> USE DEF clientVars, requestVars, mainVars, radioVars, loopVars, mclVars, replyVars
<1>1. ASSUME NEW r \in Request, EnqueueRequest(r) PROVE OrderInv'
  BY <1>1, OrderEnqueue
<1>2. CASE \/ TakeRequest \/ PostRequest \/ PostResponse
           \/ ProcessRequest \/ ProcessResponse \/ ResumeMessage
  BY <1>2, OrderRequestThread, OrderProcess, OrderResume, OrderPrimed
<1>3. CASE UNCHANGED <<issued, forwarded, front, suspended, looper, requestThread,
                       requestQueue, doing>>
  BY <1>3, OrderStill, OrderPrimed
<1> QED
  BY <1>1, <1>2, <1>3
  DEF Next, vars, TakeResponse, ProcessStatusSync, EnqueueMcl, KeepSuspended, ResumeDone,
      EnqueueResponse, DispatchMcl, StartHandler, HandlerReply, FinishHandler

(* A controller's requests reach MCL in the order the clients issued them, *)
(* although suspended ones are requeued while later ones wait.             *)
THEOREM InIssueOrderAlways == Spec => []InIssueOrder
<1>1. Init => WakeInv /\ OrderInv
  <2> SUFFICES ASSUME Init PROVE WakeInv /\ OrderInv
    OBVIOUS
  <2>1. /\ issued = <<>> /\ forwarded = <<>> /\ front = <<>> /\ suspended = <<>>
        /\ looper = <<>> /\ requestQueue = <<>> /\ Held(requestThread) = {}
        /\ Posted("REQUEST") = {}
    BY DEF Init, Held, Posted
  <2>2. Elems(<<>>) = {} /\ \A R : Ordered(<<>>, R)
    BY DEF Elems, Ordered
  <2>3. OrderInv
    BY <2>1, <2>2 DEF OrderInv, Precede, Waiting, Coming
  <2> QED BY <2>3 DEF Init, WakeInv
<1>2. TypeOK /\ OncePlaced /\ (WakeInv /\ OrderInv) /\ [Next]_vars => (WakeInv /\ OrderInv)'
  BY WakeStep, OrderStep
<1>3. TypeOK /\ OrderInv => InIssueOrder
  <2> SUFFICES ASSUME TypeOK, OrderInv,
                      NEW i \in 1..Len(forwarded), NEW j \in 1..Len(forwarded), i < j,
                      Owner[forwarded[i]] = Owner[forwarded[j]], Owner[forwarded[i]] # None
               PROVE  IssuedBefore(forwarded[i], forwarded[j])
    BY DEF InIssueOrder, IssuedBefore
  <2>1. forwarded[i] \in Request /\ forwarded[j] \in Request
    BY QueueTypes
  <2>2. <<forwarded[i], forwarded[j]>> \in Order
    BY DEF OrderInv, Ordered
  <2> QED BY <2>1, <2>2, OrderIs
<1> QED BY <1>1, <1>2, <1>3, TypeCorrect, OncePlacedAlways, PTL DEF Spec
=============================================================================
