----------------------------- MODULE StatusSync -----------------------------
(***************************************************************************)
(* The two copies of the status keys: RfxStatusManager, which the          *)
(* controllers of TelCore use on the main thread, and RfxMclStatusManager, *)
(* which the handlers of MCL use on the threads of their channels.  A side *)
(* that sets a key writes its own copy and sends the value to the other    *)
(* one as STATUS_SYNC; a value that arrives is written and not sent back.  *)
(*                                                                         *)
(* To MCL the values go through its dispatcher's looper, between the       *)
(* requests of TelCore.  To TelCore they have a queue and a thread of      *)
(* their own; as responses, requests and URCs have others, the main looper *)
(* orders them with nothing but each other, so that syncQueue stands for   *)
(* the queue and for their part of the looper.                             *)
(***************************************************************************)
EXTENDS Naturals, Sequences

CONSTANTS
    Key,        \* RfxStatusKeyEnum
    Value,      \* RfxVariant
    Request,    \* the requests that share MCL's looper
    NoKey,      \* the key of a message that is a request
    Writer      \* the MCL threads that set keys

ASSUME SyncAssumption == NoKey \notin Key

VARIABLES
    tel,        \* RfxStatusManager: m_status_list
    mcl,        \* RfxMclStatusManager: m_status_list
    toMcl,      \* the looper of RfxMclDispatcherThread
    stored,     \* what an MCL thread has written and not yet sent
    syncQueue,  \* dispatchStatusSyncQueue
    crossed     \* history: keys set on one side with a value of the other side,
                \* or of another thread, still on its way

syncVars == <<tel, mcl, toMcl, stored, syncQueue, crossed>>

Update == [key : Key, value : Value]
Message == Update \cup [key : {NoKey}, value : Request]
Sync(k, v) == [key |-> k, value |-> v]
Carry(r) == [key |-> NoKey, value |-> r]

SyncTypeOK ==
    /\ tel \in [Key -> Value]
    /\ mcl \in [Key -> Value]
    /\ toMcl \in Seq(Message)
    /\ stored \in [Writer -> {<<>>} \cup {<<u>> : u \in Update}]
    /\ syncQueue \in Seq(Update)
    /\ crossed \subseteq Key

\* Equal copies and nothing on its way.
SyncInit ==
    /\ tel \in [Key -> Value]
    /\ mcl = tel
    /\ toMcl = <<>>
    /\ stored = [w \in Writer |-> <<>>]
    /\ syncQueue = <<>>
    /\ crossed = {}

Has(s, k) == \E i \in 1..Len(s) : s[i].key = k
Down(k) == Has(toMcl, k)
Up(k) == Has(syncQueue, k) \/ \E w \in Writer : Has(stored[w], k)

\* A set that meets nothing on its way makes up for an earlier crossing.
Cross(k, meets) ==
    crossed' = IF meets THEN crossed \cup {k}
               ELSE IF Up(k) \/ Down(k) THEN crossed
               ELSE crossed \ {k}

\* setValue on the main thread; out are the requests the same handler sends
\* after it.
TelSet(k, v, out) ==
    /\ tel' = [tel EXCEPT ![k] = v]
    /\ toMcl' = toMcl \o <<Sync(k, v)>> \o out
    /\ Cross(k, Up(k))
    /\ UNCHANGED <<mcl, stored, syncQueue>>
TelSend(r) ==
    /\ toMcl' = Append(toMcl, Carry(r))
    /\ UNCHANGED <<tel, mcl, stored, syncQueue, crossed>>
\* RfxRootController::processMessage of a STATUS_SYNC.
TelApply ==
    /\ syncQueue # <<>>
    /\ syncQueue' = Tail(syncQueue)
    /\ tel' = [tel EXCEPT ![Head(syncQueue).key] = Head(syncQueue).value]
    /\ UNCHANGED <<mcl, toMcl, stored, crossed>>

\* setValue on a thread of MCL: the write, with m_mutex[key] held, and, after
\* the mutex is released, the message.
MclStore(w, k, v) ==
    /\ stored[w] = <<>>
    /\ mcl' = [mcl EXCEPT ![k] = v]
    /\ stored' = [stored EXCEPT ![w] = <<Sync(k, v)>>]
    /\ Cross(k, Down(k) \/ \E x \in Writer : Has(stored[x], k))
    /\ UNCHANGED <<tel, toMcl, syncQueue>>
MclSendAtFront(w) ==        \* Mutant: the newest message first.
    /\ stored[w] # <<>>
    /\ syncQueue' = stored[w] \o syncQueue
    /\ stored' = [stored EXCEPT ![w] = <<>>]
    /\ UNCHANGED <<tel, mcl, toMcl, crossed>>
MclSend(w) ==
    /\ stored[w] # <<>>
    /\ syncQueue' = syncQueue \o stored[w]
    /\ stored' = [stored EXCEPT ![w] = <<>>]
    /\ UNCHANGED <<tel, mcl, toMcl, crossed>>

\* RfxMclMessenger: a value is written, a request goes to its channel.
MclApply ==
    /\ toMcl # <<>> /\ Head(toMcl).key \in Key
    /\ toMcl' = Tail(toMcl)
    /\ mcl' = [mcl EXCEPT ![Head(toMcl).key] = Head(toMcl).value]
    /\ UNCHANGED <<tel, stored, syncQueue, crossed>>
MclTake(r) ==
    /\ toMcl # <<>> /\ Head(toMcl) = Carry(r)
    /\ toMcl' = Tail(toMcl)
    /\ UNCHANGED <<tel, mcl, stored, syncQueue, crossed>>

SyncNext ==
    \/ \E k \in Key, v \in Value :
          \E out \in {<<>>} \cup {<<Carry(r)>> : r \in Request} : TelSet(k, v, out)
    \/ \E r \in Request : TelSend(r) \/ MclTake(r)
    \/ TelApply
    \/ \E w \in Writer, k \in Key, v \in Value : MclStore(w, k, v)
    \/ \E w \in Writer : MclSend(w)
    \/ MclApply

SyncSpec == SyncInit /\ [][SyncNext]_syncVars

(***************************************************************************)
(* Properties.                                                             *)
(***************************************************************************)
\* Unless two sets crossed, the copies of a key are equal once nothing of it is
\* on its way, in whatever order the sides have set it.
CopiesAgree == \A k \in Key \ crossed : ~Up(k) /\ ~Down(k) => tel[k] = mcl[k]
=============================================================================
