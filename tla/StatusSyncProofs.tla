-------------------------- MODULE StatusSyncProofs --------------------------
(***************************************************************************)
(* Theorems about StatusSync, for any keys, values, requests and threads   *)
(* of MCL.                                                                 *)
(***************************************************************************)
EXTENDS StatusSync, TLAPS

\* The newest of s about k has value v.
Newest(s, k, v) ==
    \E i \in 1..Len(s) : /\ s[i].key = k /\ s[i].value = v
                         /\ \A j \in 1..Len(s) : j > i => s[j].key # k

LEMMA UpdateType == Update \subseteq Message
  BY DEF Message

LEMMA SyncUpdate ==
  ASSUME NEW k \in Key, NEW v \in Value
  PROVE  Sync(k, v) \in Update /\ Sync(k, v).key = k /\ Sync(k, v).value = v
  BY DEF Sync, Update

LEMMA CarryMessage ==
  ASSUME NEW r \in Request
  PROVE  Carry(r) \in Message /\ Carry(r).key = NoKey
  BY DEF Carry, Message

LEMMA AppendIs ==
  ASSUME NEW S, NEW s \in Seq(S), NEW e \in S
  PROVE  /\ s \o <<e>> = Append(s, e)
         /\ s \o <<>> = s
         /\ Append(s, e) \in Seq(S)
         /\ Len(Append(s, e)) = Len(s) + 1
         /\ Append(s, e)[Len(s) + 1] = e
         /\ \A i \in 1..Len(s) : Append(s, e)[i] = s[i]
  OBVIOUS

LEMMA AppendKeys ==
  ASSUME NEW S, NEW s \in Seq(S), NEW e \in S, NEW k
  PROVE  /\ Has(Append(s, e), k) <=> Has(s, k) \/ e.key = k
         /\ e.key = k => Newest(Append(s, e), k, e.value)
         /\ \A v : e.key # k /\ Newest(s, k, v) => Newest(Append(s, e), k, v)
<1> DEFINE t == Append(s, e)
<1>1. /\ Len(s) \in Nat /\ Len(t) = Len(s) + 1 /\ t[Len(s) + 1] = e
      /\ \A i \in 1..Len(s) : t[i] = s[i]
  BY AppendIs
<1> HIDE DEF t
<1>2. \A i \in 1..Len(t) : i = Len(s) + 1 \/ i \in 1..Len(s)
  BY <1>1
<1>3. Len(s) + 1 \in 1..Len(t) /\ \A i \in 1..Len(s) : i \in 1..Len(t)
  BY <1>1
<1>4. Has(t, k) <=> Has(s, k) \/ e.key = k
  BY <1>1, <1>2, <1>3 DEF Has
<1>5. e.key = k => Newest(t, k, e.value)
  BY <1>1, <1>2, <1>3 DEF Newest
<1>6. ASSUME NEW v, e.key # k, Newest(s, k, v) PROVE Newest(t, k, v)
  <2>1. PICK i \in 1..Len(s) : /\ s[i].key = k /\ s[i].value = v
                               /\ \A j \in 1..Len(s) : j > i => s[j].key # k
    BY <1>6 DEF Newest
  <2>2. \A j \in 1..Len(t) : j > i => t[j].key # k
    BY <1>1, <1>2, <1>6, <2>1
  <2> QED BY <1>1, <1>3, <2>1, <2>2 DEF Newest
<1> QED BY <1>4, <1>5, <1>6 DEF t

LEMMA TailKeys ==
  ASSUME NEW S, NEW s \in Seq(S), s # <<>>, NEW k
  PROVE  /\ Tail(s) \in Seq(S) /\ Head(s) \in S
         /\ Has(s, k) <=> Head(s).key = k \/ Has(Tail(s), k)
         /\ \A v : Newest(s, k, v) =>
              IF Has(Tail(s), k) THEN Newest(Tail(s), k, v)
                                 ELSE Head(s).key = k /\ Head(s).value = v
<1> DEFINE t == Tail(s)
<1>1. /\ Len(s) \in Nat /\ Len(s) >= 1 /\ Len(t) = Len(s) - 1 /\ Head(s) = s[1]
      /\ \A i \in 1..Len(t) : t[i] = s[i + 1]
      /\ t \in Seq(S) /\ Head(s) \in S
  OBVIOUS
<1> HIDE DEF t
<1>2. \A i \in 1..Len(s) : i = 1 \/ (i - 1 \in 1..Len(t) /\ t[i - 1] = s[i])
  BY <1>1
<1>3. \A i \in 1..Len(t) : i + 1 \in 1..Len(s)
  BY <1>1
<1>4. Has(s, k) <=> Head(s).key = k \/ Has(t, k)
  <2>1. Has(s, k) => Head(s).key = k \/ Has(t, k)
    BY <1>1, <1>2 DEF Has
  <2>2. Has(t, k) => Has(s, k)
    BY <1>1, <1>3 DEF Has
  <2>3. Head(s).key = k => Has(s, k)
    BY <1>1 DEF Has
  <2> QED BY <2>1, <2>2, <2>3
<1>5. ASSUME NEW v, Newest(s, k, v)
      PROVE  IF Has(t, k) THEN Newest(t, k, v) ELSE Head(s).key = k /\ Head(s).value = v
  <2>1. PICK i \in 1..Len(s) : /\ s[i].key = k /\ s[i].value = v
                               /\ \A j \in 1..Len(s) : j > i => s[j].key # k
    BY <1>5 DEF Newest
  <2>2. CASE i = 1
    <3>1. \A j \in 1..Len(t) : t[j].key # k
      BY <1>1, <1>3, <2>1, <2>2
    <3> QED BY <1>1, <2>1, <2>2, <3>1 DEF Has
  <2>3. CASE i # 1
    <3>1. i - 1 \in 1..Len(t) /\ t[i - 1] = s[i]
      BY <1>2, <2>3
    <3>2. \A j \in 1..Len(t) : j > i - 1 => t[j].key # k
      BY <1>1, <1>3, <2>1
    <3> QED BY <2>1, <3>1, <3>2 DEF Has, Newest
  <2> QED BY <2>2, <2>3
<1> QED BY <1>1, <1>4, <1>5 DEF t

\* What a thread of MCL has to send.
LEMMA StoredKeys ==
  ASSUME SyncTypeOK, NEW w \in Writer
  PROVE  \/ stored[w] = <<>> /\ \A k : ~Has(stored[w], k)
         \/ \E u \in Update : /\ stored[w] = <<u>>
                              /\ \A k : Has(stored[w], k) <=> u.key = k
<1>1. CASE stored[w] = <<>>
  BY <1>1 DEF Has
<1>2. CASE stored[w] # <<>>
  <2>1. PICK u \in Update : stored[w] = <<u>>
    BY <1>2 DEF SyncTypeOK
  <2>2. \A k : Has(<<u>>, k) <=> u.key = k
    BY DEF Has
  <2> QED BY <2>1, <2>2
<1> QED BY <1>1, <1>2

\* setValue on the main thread, with the request that follows it or without.
LEMMA TelSetQueue ==
  ASSUME SyncTypeOK, NEW k \in Key, NEW v \in Value,
         NEW out \in {<<>>} \cup {<<Carry(r)>> : r \in Request},
         toMcl' = toMcl \o <<Sync(k, v)>> \o out
  PROVE  /\ toMcl' \in Seq(Message)
         /\ Newest(toMcl', k, v)
         /\ \A x \in Key : Has(toMcl', x) <=> Has(toMcl, x) \/ x = k
         /\ \A x \in Key \ {k} : \A u : Newest(toMcl, x, u) => Newest(toMcl', x, u)
<1> DEFINE s == Append(toMcl, Sync(k, v))
<1>1. /\ toMcl \o <<Sync(k, v)>> = s /\ s \in Seq(Message)
      /\ Newest(s, k, v)
      /\ \A x \in Key : Has(s, x) <=> Has(toMcl, x) \/ x = k
      /\ \A x \in Key \ {k} : \A u : Newest(toMcl, x, u) => Newest(s, x, u)
  <2>1. Sync(k, v) \in Message /\ toMcl \in Seq(Message)
    BY SyncUpdate, UpdateType DEF SyncTypeOK
  <2>2. toMcl \o <<Sync(k, v)>> = s /\ s \in Seq(Message)
    BY <2>1, AppendIs
  <2>3. Sync(k, v).key = k /\ Sync(k, v).value = v
    BY SyncUpdate
  <2>4. Newest(s, k, v)
    BY <2>1, <2>3, AppendKeys
  <2>5. \A x : Has(s, x) <=> Has(toMcl, x) \/ x = k
    BY <2>1, <2>3, AppendKeys
  <2>6. \A x, u : x # k /\ Newest(toMcl, x, u) => Newest(s, x, u)
    BY <2>1, <2>3, AppendKeys
  <2> QED BY <2>2, <2>4, <2>5, <2>6
<1> HIDE DEF s
<1>2. CASE out = <<>>
  <2>1. toMcl' = s
    BY <1>1, <1>2
  <2> QED BY <1>1, <2>1
<1>3. CASE out # <<>>
  <2>1. PICK r \in Request : out = <<Carry(r)>>
    BY <1>3
  <2>2. Carry(r) \in Message /\ \A x \in Key : Carry(r).key # x
    BY CarryMessage, SyncAssumption
  <2>3. toMcl' = Append(s, Carry(r)) /\ toMcl' \in Seq(Message)
    <3>1. toMcl' = s \o <<Carry(r)>>
      BY <1>1, <2>1
    <3>2. s \in Seq(Message)
      BY <1>1
    <3>3. s \o <<Carry(r)>> = Append(s, Carry(r)) /\ Append(s, Carry(r)) \in Seq(Message)
      BY <2>2, <3>2
    <3> QED BY <3>1, <3>3
  <2>4. \A x \in Key : /\ Has(toMcl', x) <=> Has(s, x)
                       /\ \A u : Newest(s, x, u) => Newest(toMcl', x, u)
    <3> TAKE x \in Key
    <3>1. Has(Append(s, Carry(r)), x) <=> Has(s, x)
      BY <1>1, <2>2, AppendKeys
    <3>2. \A u : Newest(s, x, u) => Newest(Append(s, Carry(r)), x, u)
      BY <1>1, <2>2, AppendKeys
    <3> QED BY <2>3, <3>1, <3>2
  <2> QED BY <1>1, <2>3, <2>4
<1> QED BY <1>2, <1>3

(* The copies, the queues and the history keep their types.                *)
LEMMA SyncTypeStep == SyncTypeOK /\ [SyncNext]_syncVars => SyncTypeOK'
<1> SUFFICES ASSUME SyncTypeOK, [SyncNext]_syncVars PROVE SyncTypeOK'
  OBVIOUS
<1>0. \A k \in Key : \A meets : Cross(k, meets) => crossed' \subseteq Key
  BY DEF Cross, SyncTypeOK
<1>1. ASSUME NEW k \in Key, NEW v \in Value,
             NEW out \in {<<>>} \cup {<<Carry(r)>> : r \in Request}, TelSet(k, v, out)
      PROVE  SyncTypeOK'
  BY <1>0, <1>1, TelSetQueue DEF SyncTypeOK, TelSet
<1>2. ASSUME NEW r \in Request, TelSend(r) PROVE SyncTypeOK'
  BY <1>2, CarryMessage DEF SyncTypeOK, TelSend
<1>3. ASSUME NEW r \in Request, MclTake(r) PROVE SyncTypeOK'
  BY <1>3 DEF SyncTypeOK, MclTake
<1>4. CASE TelApply
  <2>1. Head(syncQueue) \in Update /\ Tail(syncQueue) \in Seq(Update)
    BY <1>4 DEF TelApply, SyncTypeOK
  <2> QED BY <1>4, <2>1 DEF SyncTypeOK, TelApply, Update
<1>5. ASSUME NEW w \in Writer, NEW k \in Key, NEW v \in Value, MclStore(w, k, v)
      PROVE  SyncTypeOK'
  <2>1. mcl' \in [Key -> Value]
    BY <1>5 DEF SyncTypeOK, MclStore
  <2>2. stored' \in [Writer -> {<<>>} \cup {<<u>> : u \in Update}]
    BY <1>5, SyncUpdate DEF SyncTypeOK, MclStore
  <2>3. crossed' \subseteq Key
    BY <1>0, <1>5 DEF MclStore
  <2> QED BY <1>5, <2>1, <2>2, <2>3 DEF SyncTypeOK, MclStore
<1>6. ASSUME NEW w \in Writer, MclSend(w) PROVE SyncTypeOK'
  <2>1. PICK u \in Update : stored[w] = <<u>>
    BY <1>6 DEF SyncTypeOK, MclSend
  <2>2. syncQueue' \in Seq(Update)
    BY <1>6, <2>1 DEF SyncTypeOK, MclSend
  <2>3. stored' \in [Writer -> {<<>>} \cup {<<x>> : x \in Update}]
    BY <1>6 DEF SyncTypeOK, MclSend
  <2> QED BY <1>6, <2>2, <2>3 DEF SyncTypeOK, MclSend
<1>7. CASE MclApply
  <2>1. Head(toMcl) \in Message /\ Tail(toMcl) \in Seq(Message)
    BY <1>7 DEF MclApply, SyncTypeOK
  <2>2. Head(toMcl) \in Update
    BY <1>7, <2>1, SyncAssumption DEF MclApply, Message
  <2> QED BY <1>7, <2>1, <2>2 DEF SyncTypeOK, MclApply, Update
<1>8. CASE UNCHANGED syncVars
  BY <1>8 DEF SyncTypeOK, syncVars
<1> QED
  BY <1>1, <1>2, <1>3, <1>4, <1>5, <1>6, <1>7, <1>8 DEF SyncNext

THEOREM SyncTypeCorrect == SyncSpec => []SyncTypeOK
<1>1. SyncInit => SyncTypeOK
  BY DEF SyncInit, SyncTypeOK
<1> QED BY <1>1, SyncTypeStep, PTL DEF SyncSpec
-----------------------------------------------------------------------------
(* Why the copies agree: of a key no sets have crossed on, updates are on   *)
(* their way in one direction only, one thread of MCL at most has yet to    *)
(* send one, and the newest of them has the value of the copy it comes from.*)
Pending(k) == \E w \in Writer : Has(stored[w], k)

KeyInv(k) ==
    /\ ~(Up(k) /\ Down(k))
    /\ Down(k) => Newest(toMcl, k, tel[k])
    /\ \A w \in Writer : Has(stored[w], k) =>
         /\ stored[w] = <<Sync(k, mcl[k])>>
         /\ \A x \in Writer : Has(stored[x], k) => x = w
    /\ ~Pending(k) /\ Has(syncQueue, k) => Newest(syncQueue, k, mcl[k])
    /\ ~Up(k) /\ ~Down(k) => tel[k] = mcl[k]

AgreeInv == \A k \in Key \ crossed : KeyInv(k)

LEMMA UpIs == \A k : Up(k) <=> Has(syncQueue, k) \/ Pending(k)
  BY DEF Up, Pending

\* A set by TelCore.
LEMMA TelSetStep ==
  ASSUME SyncTypeOK, AgreeInv, NEW k \in Key, NEW v \in Value,
         NEW out \in {<<>>} \cup {<<Carry(r)>> : r \in Request}, TelSet(k, v, out)
  PROVE  AgreeInv'
<1> SUFFICES ASSUME NEW x \in Key \ crossed' PROVE KeyInv(x)'
  BY DEF AgreeInv
<1>1. /\ toMcl' = toMcl \o <<Sync(k, v)>> \o out
      /\ UNCHANGED <<mcl, stored, syncQueue>>
      /\ tel \in [Key -> Value] /\ tel' = [tel EXCEPT ![k] = v]
  BY DEF TelSet, SyncTypeOK
<1>2. /\ Newest(toMcl', k, v)
      /\ Has(toMcl', x) <=> Has(toMcl, x) \/ x = k
      /\ \A u : x # k /\ Newest(toMcl, x, u) => Newest(toMcl', x, u)
  BY <1>1, TelSetQueue
<1>3. (Up(x)' <=> Up(x)) /\ (Pending(x)' <=> Pending(x))
  BY <1>1 DEF Up, Pending
<1>4. CASE x = k
  <2>1. ~Up(k)
    BY <1>4 DEF TelSet, Cross
  <2>2. \A w \in Writer : ~Has(stored[w], k)
    BY <2>1 DEF Up
  <2> QED BY <1>1, <1>2, <1>3, <1>4, <2>1, <2>2 DEF KeyInv, Down, Up, Pending
<1>5. CASE x # k
  <2>1. x \notin crossed
    BY <1>5 DEF TelSet, Cross
  <2>2. KeyInv(x)
    BY <2>1 DEF AgreeInv
  <2>3. (Down(x)' <=> Down(x)) /\ tel'[x] = tel[x]
    BY <1>1, <1>2, <1>5 DEF Down
  <2> QED BY <1>1, <1>2, <1>3, <1>5, <2>2, <2>3 DEF KeyInv, Down
<1> QED BY <1>4, <1>5

\* A value of MCL arrives.
LEMMA TelApplyStep == SyncTypeOK /\ AgreeInv /\ TelApply => AgreeInv'
<1> SUFFICES ASSUME SyncTypeOK, AgreeInv, TelApply, NEW x \in Key \ crossed'
             PROVE  KeyInv(x)'
  BY DEF AgreeInv
<1>1. KeyInv(x) /\ UNCHANGED <<mcl, toMcl, stored, crossed>>
  BY DEF TelApply, AgreeInv
<1>2. /\ syncQueue # <<>> /\ syncQueue \in Seq(Update) /\ syncQueue' = Tail(syncQueue)
      /\ tel \in [Key -> Value]
      /\ tel' = [tel EXCEPT ![Head(syncQueue).key] = Head(syncQueue).value]
  BY DEF TelApply, SyncTypeOK
<1>3. /\ Has(syncQueue, x) <=> Head(syncQueue).key = x \/ Has(syncQueue', x)
      /\ \A v : Newest(syncQueue, x, v) =>
           IF Has(syncQueue', x) THEN Newest(syncQueue', x, v)
           ELSE Head(syncQueue).key = x /\ Head(syncQueue).value = v
  BY <1>2, TailKeys
<1>4. (Down(x)' <=> Down(x)) /\ (Pending(x)' <=> Pending(x))
  BY <1>1 DEF Down, Pending
<1>5. CASE Head(syncQueue).key = x
  <2>1. Up(x) /\ ~Down(x)
    BY <1>1, <1>3, <1>5, UpIs DEF KeyInv
  <2>2. tel'[x] = Head(syncQueue).value
    BY <1>2, <1>5
  <2>3. ~Pending(x) /\ ~Has(syncQueue', x) => tel'[x] = mcl[x]
    BY <1>1, <1>3, <1>5, <2>2 DEF KeyInv
  <2>4. ~Pending(x) /\ Has(syncQueue', x) => Newest(syncQueue', x, mcl[x])
    BY <1>1, <1>3, <1>5 DEF KeyInv
  <2>5. Up(x)' <=> Has(syncQueue', x) \/ Pending(x)
    BY <1>1 DEF Up, Pending
  <2> QED BY <1>1, <1>4, <2>1, <2>3, <2>4, <2>5 DEF KeyInv
<1>6. CASE Head(syncQueue).key # x
  <2>1. tel'[x] = tel[x]
    BY <1>2, <1>6
  <2>2. Up(x)' <=> Up(x)
    BY <1>1, <1>3, <1>6 DEF Up
  <2>3. Has(syncQueue', x) => \A v : Newest(syncQueue, x, v) => Newest(syncQueue', x, v)
    BY <1>3
  <2> QED BY <1>1, <1>3, <1>4, <1>6, <2>1, <2>2, <2>3 DEF KeyInv
<1> QED BY <1>5, <1>6

\* A thread of MCL writes a key ...
LEMMA MclStoreStep ==
  ASSUME SyncTypeOK, AgreeInv, NEW w \in Writer, NEW k \in Key, NEW v \in Value,
         MclStore(w, k, v)
  PROVE  AgreeInv'
<1> SUFFICES ASSUME NEW x \in Key \ crossed' PROVE KeyInv(x)'
  BY DEF AgreeInv
<1>1. /\ UNCHANGED <<tel, toMcl, syncQueue>>
      /\ mcl \in [Key -> Value] /\ mcl' = [mcl EXCEPT ![k] = v]
      /\ stored[w] = <<>> /\ DOMAIN stored = Writer
      /\ stored' = [stored EXCEPT ![w] = <<Sync(k, v)>>]
  BY DEF MclStore, SyncTypeOK
<1>2. \A y : ~Has(stored[w], y)
  BY <1>1 DEF Has
<1>3. Has(stored'[w], x) <=> x = k
  <2>1. \A y : Has(<<Sync(k, v)>>, y) <=> Sync(k, v).key = y
    BY DEF Has
  <2> QED BY <1>1, <2>1, SyncUpdate
<1>4. \A y \in Writer : y # w => stored'[y] = stored[y]
  BY <1>1
<1>5. Down(x)' <=> Down(x)
  BY <1>1 DEF Down
<1>6. CASE x = k
  <2>1. ~Down(k) /\ \A y \in Writer : ~Has(stored[y], k)
    BY <1>6 DEF MclStore, Cross
  <2>2. Pending(x)' /\ Up(x)'
    BY <1>3, <1>6 DEF Pending, Up
  <2>3. mcl'[x] = v
    BY <1>1, <1>6
  <2> QED BY <1>1, <1>3, <1>4, <1>5, <1>6, <2>1, <2>2, <2>3 DEF KeyInv
<1>7. CASE x # k
  <2>1. x \notin crossed
    BY <1>7 DEF MclStore, Cross
  <2>2. KeyInv(x) /\ mcl'[x] = mcl[x]
    BY <1>1, <1>7, <2>1 DEF AgreeInv
  <2>3. \A y \in Writer : Has(stored'[y], x) <=> Has(stored[y], x)
    BY <1>2, <1>3, <1>4, <1>7
  <2>4. (Pending(x)' <=> Pending(x)) /\ (Up(x)' <=> Up(x))
    BY <1>1, <2>3 DEF Pending, Up
  <2>5. \A y \in Writer : Has(stored'[y], x) =>
          /\ stored'[y] = <<Sync(x, mcl'[x])>>
          /\ \A z \in Writer : Has(stored'[z], x) => z = y
    BY <1>2, <1>4, <2>2, <2>3 DEF KeyInv
  <2> QED BY <1>1, <1>5, <2>2, <2>4, <2>5 DEF KeyInv
<1> QED BY <1>6, <1>7

\* ... and sends its value.
LEMMA MclSendStep ==
  ASSUME SyncTypeOK, AgreeInv, NEW w \in Writer, MclSend(w)
  PROVE  AgreeInv'
<1> SUFFICES ASSUME NEW x \in Key \ crossed' PROVE KeyInv(x)'
  BY DEF AgreeInv
<1>1. /\ KeyInv(x) /\ UNCHANGED <<tel, mcl, toMcl, crossed>>
      /\ stored' = [stored EXCEPT ![w] = <<>>] /\ DOMAIN stored = Writer
  BY DEF MclSend, AgreeInv, SyncTypeOK
<1>2. PICK u \in Update : /\ stored[w] = <<u>>
                          /\ \A k : Has(stored[w], k) <=> u.key = k
  BY StoredKeys DEF MclSend
<1>3. syncQueue \in Seq(Update) /\ syncQueue' = Append(syncQueue, u)
  BY <1>2 DEF MclSend, SyncTypeOK
<1>4. /\ Has(syncQueue', x) <=> Has(syncQueue, x) \/ u.key = x
      /\ u.key = x => Newest(syncQueue', x, u.value)
      /\ \A v : u.key # x /\ Newest(syncQueue, x, v) => Newest(syncQueue', x, v)
  BY <1>3, AppendKeys
<1>5. /\ ~Has(stored'[w], x)
      /\ \A y \in Writer : y # w => stored'[y] = stored[y]
  BY <1>1 DEF Has
<1>6. Down(x)' <=> Down(x)
  BY <1>1 DEF Down
<1>7. CASE u.key = x
  <2>1. u.value = mcl[x]
    <3>1. <<u>> = <<Sync(x, mcl[x])>>
      BY <1>1, <1>2, <1>7 DEF KeyInv
    <3>2. u = Sync(x, mcl[x])
      BY <3>1
    <3> QED BY <3>2 DEF Sync
  <2>2. \A y \in Writer : ~Has(stored'[y], x)
    BY <1>1, <1>2, <1>5, <1>7 DEF KeyInv
  <2>3. Up(x) /\ Up(x)'
    BY <1>2, <1>4, <1>7 DEF Up
  <2> QED BY <1>1, <1>4, <1>6, <1>7, <2>1, <2>2, <2>3 DEF KeyInv
<1>8. CASE u.key # x
  <2>1. \A y \in Writer : Has(stored'[y], x) <=> Has(stored[y], x)
    BY <1>2, <1>5, <1>8
  <2>2. (Pending(x)' <=> Pending(x)) /\ (Up(x)' <=> Up(x))
    BY <1>4, <1>8, <2>1 DEF Pending, Up
  <2>3. \A y \in Writer : Has(stored'[y], x) =>
          /\ stored'[y] = <<Sync(x, mcl'[x])>>
          /\ \A z \in Writer : Has(stored'[z], x) => z = y
    BY <1>1, <1>5, <2>1 DEF KeyInv
  <2> QED BY <1>1, <1>4, <1>6, <1>8, <2>2, <2>3 DEF KeyInv
<1> QED BY <1>7, <1>8

\* A value of TelCore arrives.
LEMMA MclApplyStep == SyncTypeOK /\ AgreeInv /\ MclApply => AgreeInv'
<1> SUFFICES ASSUME SyncTypeOK, AgreeInv, MclApply, NEW x \in Key \ crossed'
             PROVE  KeyInv(x)'
  BY DEF AgreeInv
<1>1. KeyInv(x) /\ UNCHANGED <<tel, stored, syncQueue, crossed>>
  BY DEF MclApply, AgreeInv
<1>2. /\ toMcl # <<>> /\ toMcl \in Seq(Message) /\ toMcl' = Tail(toMcl)
      /\ mcl \in [Key -> Value]
      /\ mcl' = [mcl EXCEPT ![Head(toMcl).key] = Head(toMcl).value]
  BY DEF MclApply, SyncTypeOK
<1>3. /\ Has(toMcl, x) <=> Head(toMcl).key = x \/ Has(toMcl', x)
      /\ \A v : Newest(toMcl, x, v) =>
           IF Has(toMcl', x) THEN Newest(toMcl', x, v)
           ELSE Head(toMcl).key = x /\ Head(toMcl).value = v
  BY <1>2, TailKeys
<1>4. (Up(x)' <=> Up(x)) /\ (Pending(x)' <=> Pending(x))
  BY <1>1 DEF Up, Pending
<1>5. CASE Head(toMcl).key = x
  <2>1. Down(x) /\ ~Up(x)
    BY <1>1, <1>3, <1>5 DEF KeyInv, Down
  <2>2. mcl'[x] = Head(toMcl).value
    BY <1>2, <1>5
  <2>3. IF Has(toMcl', x) THEN Newest(toMcl', x, tel[x]) ELSE tel[x] = mcl'[x]
    BY <1>1, <1>3, <2>1, <2>2 DEF KeyInv
  <2>4. \A w \in Writer : ~Has(stored[w], x)
    BY <2>1 DEF Up
  <2>5. ~Has(syncQueue, x)
    BY <2>1 DEF Up
  <2> QED BY <1>1, <1>4, <2>1, <2>3, <2>4, <2>5 DEF KeyInv, Down
<1>6. CASE Head(toMcl).key # x
  <2>1. mcl'[x] = mcl[x] /\ (Down(x)' <=> Down(x))
    BY <1>2, <1>3, <1>6 DEF Down
  <2>2. Down(x) => Newest(toMcl', x, tel[x])
    BY <1>1, <1>3, <1>6 DEF KeyInv, Down
  <2> QED BY <1>1, <1>4, <2>1, <2>2 DEF KeyInv
<1> QED BY <1>5, <1>6

\* A request joins the looper or leaves it.
LEMMA RequestStep ==
  ASSUME SyncTypeOK, AgreeInv, NEW r \in Request, TelSend(r) \/ MclTake(r)
  PROVE  AgreeInv'
<1> SUFFICES ASSUME NEW x \in Key \ crossed' PROVE KeyInv(x)'
  BY DEF AgreeInv
<1>1. KeyInv(x) /\ UNCHANGED <<tel, mcl, stored, syncQueue, crossed>>
  BY DEF TelSend, MclTake, AgreeInv
<1>2. toMcl \in Seq(Message) /\ Carry(r) \in Message /\ Carry(r).key # x
  BY CarryMessage, SyncAssumption DEF SyncTypeOK
<1>3. /\ Has(toMcl', x) <=> Has(toMcl, x)
      /\ \A v : Newest(toMcl, x, v) => (Has(toMcl', x) => Newest(toMcl', x, v))
  <2>1. CASE TelSend(r)
    <3>1. toMcl' = Append(toMcl, Carry(r))
      BY <2>1 DEF TelSend
    <3> QED BY <1>2, <3>1, AppendKeys
  <2>2. CASE MclTake(r)
    <3>1. toMcl # <<>> /\ toMcl' = Tail(toMcl) /\ Head(toMcl) = Carry(r)
      BY <2>2 DEF MclTake
    <3> QED BY <1>2, <3>1, TailKeys
  <2> QED BY <2>1, <2>2
<1>4. (Up(x)' <=> Up(x)) /\ (Pending(x)' <=> Pending(x)) /\ (Down(x)' <=> Down(x))
  BY <1>1, <1>3 DEF Up, Pending, Down
<1> QED BY <1>1, <1>3, <1>4 DEF KeyInv, Down

LEMMA AgreeStep == SyncTypeOK /\ AgreeInv /\ [SyncNext]_syncVars => AgreeInv'
<1> SUFFICES ASSUME SyncTypeOK, AgreeInv, [SyncNext]_syncVars PROVE AgreeInv'
  OBVIOUS
<1>1. CASE UNCHANGED syncVars
  BY <1>1 DEF AgreeInv, KeyInv, Up, Down, Pending, syncVars
<1>2. CASE SyncNext
  BY <1>2, TelSetStep, TelApplyStep, MclStoreStep, MclSendStep, MclApplyStep, RequestStep
  DEF SyncNext
<1> QED BY <1>1, <1>2

(* The copies of a key agree whenever nothing of it is on its way, for any *)
(* number of keys and of threads of MCL, unless sets of it have crossed.   *)
THEOREM CopiesAlwaysAgree == SyncSpec => []CopiesAgree
<1>1. SyncInit => SyncTypeOK /\ AgreeInv
  <2> SUFFICES ASSUME SyncInit PROVE SyncTypeOK /\ AgreeInv
    OBVIOUS
  <2>1. SyncTypeOK
    BY DEF SyncInit, SyncTypeOK
  <2>2. /\ \A k : ~Has(toMcl, k) /\ ~Has(syncQueue, k)
        /\ \A w \in Writer : \A k : ~Has(stored[w], k)
    BY DEF SyncInit, Has
  <2> QED BY <2>1, <2>2 DEF SyncInit, AgreeInv, KeyInv, Up, Down, Pending
<1>2. AgreeInv => CopiesAgree
  BY DEF AgreeInv, KeyInv, CopiesAgree
<1> QED BY <1>1, <1>2, SyncTypeStep, AgreeStep, PTL DEF SyncSpec
=============================================================================
