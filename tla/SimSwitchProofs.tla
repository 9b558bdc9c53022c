--------------------------- MODULE SimSwitchProofs ---------------------------
(***************************************************************************)
(* The switch of the main SIM, for any number of slots, of switches and    *)
(* any busy channels: a channel keeps its device, its reader and its       *)
(* context together, no device or context changes under a thread that uses *)
(* it, and the channels follow the main protocol.                          *)
(***************************************************************************)
EXTENDS SimSwitch, WellFoundedInduction, TLAPS

Class == 0 .. Offset - 1

LEMMA LeastNat ==
  ASSUME NEW S \in SUBSET Nat, S # {}
  PROVE  \E x \in S : \A y \in S : x <= y
<1>1. PICK x \in S : \A y \in S : <<y, x>> \notin OpToRel(<, Nat)
  BY WFMin, NatLessThanWellFounded, Zenon
<1>2. \A y \in S : ~(y < x)
  BY <1>1, Zenon DEF OpToRel
<1> QED BY <1>2

\* A channel is a class and a slot.
LEMMA ChannelIs ==
  /\ Slots \in Nat \ {0}
  /\ \A s \in Slot, k \in Class :
       /\ k + s * Offset \in Channel
       /\ (k + s * Offset) % Offset = k
       /\ (k + s * Offset) \div Offset = s
  /\ \A ch \in Channel :
       /\ ch % Offset \in Class
       /\ ch \div Offset \in Slot
       /\ ch = (ch % Offset) + (ch \div Offset) * Offset
       /\ ch \in Nat
  /\ \A k \in Class : k \in Channel /\ k % Offset = k
<1>1. Slots \in Nat \ {0}
  BY SwitchAssumption
<1>2. \A ch \in Nat : /\ ch % 4 \in 0 .. 3
                      /\ ch \div 4 \in Nat
                      /\ ch = (ch % 4) + (ch \div 4) * 4
  OBVIOUS
<1>3. \A s \in Nat, k \in 0 .. 3 : (k + s * 4) % 4 = k /\ (k + s * 4) \div 4 = s
  OBVIOUS
<1> QED BY <1>1, <1>2, <1>3 DEF Channel, Slot, Class, Offset

LEMMA Classes4 ==
  /\ URC \in Class /\ CMD_1 \in Class /\ CMD_9 \in Class /\ CMD_11 \in Class
  /\ \A k \in Class : k \in {URC, CMD_1, CMD_9, CMD_11}
  /\ URC # CMD_1 /\ URC # CMD_9 /\ URC # CMD_11 /\ CMD_1 # CMD_9 /\ CMD_1 # CMD_11
  /\ CMD_9 # CMD_11
  BY DEF Class, URC, CMD_1, CMD_9, CMD_11, Offset

LEMMA FirstIn ==
  ASSUME NEW todo \in SUBSET Channel, todo # {}
  PROVE  First(todo) \in todo
<1> DEFINE S == {Turn(ch) : ch \in todo}
<1>1. \A ch \in todo : Turn(ch) \in Nat
  <2>1. Channel \subseteq Nat /\ Slots \in Nat
    BY ChannelIs
  <2>2. Offset * Slots \in Nat
    BY <2>1 DEF Offset
  <2>3. \A ch \in todo : ch \in Nat /\ ch + Offset * Slots \in Nat
    BY <2>1, <2>2
  <2> QED BY <2>3 DEF Turn
<1>2. S \in SUBSET Nat /\ S # {}
  BY <1>1
<1>3. PICK x \in S : \A y \in S : x <= y
  BY <1>2, LeastNat
<1>4. \E ch \in todo : \A other \in todo : Turn(ch) <= Turn(other)
  BY <1>3
<1> QED BY <1>4 DEF First

LEMMA ExchangeIs ==
  ASSUME NEW S, NEW T, NEW f \in [S -> T], NEW a \in S, NEW b \in S
  PROVE  /\ Exchange(f, a, b) \in [S -> T]
         /\ \A x \in S : Exchange(f, a, b)[x] = IF x = a THEN f[b] ELSE IF x = b THEN f[a] ELSE f[x]
  BY DEF Exchange

\* Sender, reader and context of a channel belong together, and those of a device.
Linked(f, r, c) ==
  /\ f \in [Channel -> Channel]
  /\ r \in [Channel -> Channel]
  /\ c \in [Channel -> Channel]
  /\ \A ch \in Channel : r[ch] = f[ch] /\ c[r[ch]] = ch
  /\ \A d \in Channel : r[c[d]] = d

LEMMA ExchangeLinked ==
  ASSUME NEW f, NEW r, NEW c, Linked(f, r, c), NEW a \in Channel, NEW b \in Channel
  PROVE  Linked(Exchange(f, a, b), Exchange(r, a, b), Exchange(c, r[a], r[b]))
<1> DEFINE f1 == Exchange(f, a, b)
           r1 == Exchange(r, a, b)
           c1 == Exchange(c, r[a], r[b])
<1>1. /\ f \in [Channel -> Channel] /\ r \in [Channel -> Channel] /\ c \in [Channel -> Channel]
      /\ r[a] \in Channel /\ r[b] \in Channel
  BY DEF Linked
<1>2. /\ f1 \in [Channel -> Channel]
      /\ \A x \in Channel : f1[x] = IF x = a THEN f[b] ELSE IF x = b THEN f[a] ELSE f[x]
  BY <1>1 DEF Exchange
<1>3. /\ r1 \in [Channel -> Channel]
      /\ \A x \in Channel : r1[x] = IF x = a THEN r[b] ELSE IF x = b THEN r[a] ELSE r[x]
  BY <1>1 DEF Exchange
<1>4. /\ c1 \in [Channel -> Channel]
      /\ \A x \in Channel : c1[x] = IF x = r[a] THEN c[r[b]] ELSE IF x = r[b] THEN c[r[a]] ELSE c[x]
  BY <1>1 DEF Exchange
<1> HIDE DEF f1, r1, c1
<1>5. ASSUME NEW ch \in Channel PROVE r1[ch] = f1[ch] /\ c1[r1[ch]] = ch
  <2>1. r1[ch] = f1[ch]
    BY <1>2, <1>3 DEF Linked
  <2>2. c1[r1[ch]] = ch
    BY <1>1, <1>3, <1>4 DEF Linked
  <2> QED BY <2>1, <2>2
<1>6. ASSUME NEW d \in Channel PROVE r1[c1[d]] = d
  BY <1>1, <1>3, <1>4 DEF Linked
<1>7. Linked(f1, r1, c1)
  BY <1>2, <1>3, <1>4, <1>5, <1>6 DEF Linked
<1> QED BY <1>7 DEF f1, r1, c1

LEMMA PathForIs ==
  ASSUME NEW m \in Slot, NEW k \in Class, NEW s \in Slot
  PROVE  PathFor(m)[k + s * Offset] = k + Offset * (IF s = m THEN 0 ELSE IF s = 0 THEN m ELSE s)
<1>1. k + s * Offset \in Channel /\ (k + s * Offset) % Offset = k /\ (k + s * Offset) \div Offset = s
  BY ChannelIs
<1> QED BY <1>1 DEF PathFor

LEMMA SwitchChannelLinked ==
  ASSUME Linked(fd, reader, context), NEW k \in Class, NEW o \in Slot, NEW n \in Slot,
         SwitchChannel(k, o, n)
  PROVE  Linked(fd', reader', context')
<1>1. CASE o = n
  BY <1>1 DEF SwitchChannel, pathVars
<1>2. CASE o # n
  <2>1. k \in Channel /\ k + o * Offset \in Channel /\ k + n * Offset \in Channel
    BY ChannelIs
  <2> DEFINE f1 == Exchange(fd, k, k + o * Offset)
             r1 == Exchange(reader, k, k + o * Offset)
             c1 == Exchange(context, reader[k], reader[k + o * Offset])
             f2 == Exchange(f1, k, k + n * Offset)
             r2 == Exchange(r1, k, k + n * Offset)
             c2 == Exchange(c1, r1[k], r1[k + n * Offset])
  <2>2. fd' = f2 /\ reader' = r2 /\ context' = c2
    BY <1>2 DEF SwitchChannel
  <2>3. Linked(f1, r1, c1)
    BY <2>1, ExchangeLinked
  <2> HIDE DEF f1, r1, c1
  <2>4. Linked(f2, r2, c2)
    BY <2>1, <2>3, ExchangeLinked
  <2> QED BY <2>2, <2>4
<1> QED BY <1>1, <1>2

\* What an exchange leaves alone, and where the devices of its class go.
LEMMA SwitchChannelFd ==
  ASSUME Linked(fd, reader, context), NEW k \in Class, NEW o \in Slot, NEW n \in Slot,
         SwitchChannel(k, o, n)
  PROVE  /\ \A ch \in Channel : ch % Offset # k => fd'[ch] = fd[ch]
         /\ (\A ch \in OfClass(k) : fd[ch] = PathFor(o)[ch])
              => \A ch \in OfClass(k) : fd'[ch] = PathFor(n)[ch]
<1>1. CASE o = n
  BY <1>1 DEF SwitchChannel, pathVars
<1>2. CASE o # n
  <2> DEFINE a == k + o * Offset
             b == k + n * Offset
             f1 == Exchange(fd, k, a)
             f2 == Exchange(f1, k, b)
  <2>1. /\ k \in Channel /\ k % Offset = k
        /\ a \in Channel /\ a % Offset = k
        /\ b \in Channel /\ b % Offset = k
    BY ChannelIs
  <2>2. fd' = f2
    BY <1>2 DEF SwitchChannel
  <2>3. fd \in [Channel -> Channel]
    BY DEF Linked
  <2> HIDE DEF a, b
  <2>4. /\ f1 \in [Channel -> Channel]
        /\ \A x \in Channel : f1[x] = IF x = k THEN fd[a] ELSE IF x = a THEN fd[k] ELSE fd[x]
    BY <2>1, <2>3 DEF Exchange
  <2> HIDE DEF f1
  <2>5. \A x \in Channel : f2[x] = IF x = k THEN f1[b] ELSE IF x = b THEN f1[k] ELSE f1[x]
    BY <2>1, <2>4 DEF Exchange
  <2> HIDE DEF f2
  <2>6. \A ch \in Channel : ch % Offset # k => fd'[ch] = fd[ch]
    BY <2>1, <2>2, <2>4, <2>5
  <2>7. ASSUME \A ch \in OfClass(k) : fd[ch] = PathFor(o)[ch], NEW ch \in OfClass(k)
        PROVE  fd'[ch] = PathFor(n)[ch]
    <3> DEFINE s == ch \div Offset
    <3>1. ch \in Channel /\ s \in Slot /\ ch = k + s * Offset /\ 0 \in Slot /\ Slot \subseteq Nat
      BY ChannelIs DEF OfClass, Slot
    <3>2. \A t \in Slot : fd[k + t * Offset] = PathFor(o)[k + t * Offset]
      BY <2>7, ChannelIs DEF OfClass
    <3>3. \A t \in Slot : fd[k + t * Offset] = k + Offset * (IF t = o THEN 0 ELSE IF t = 0 THEN o ELSE t)
      BY <3>2, PathForIs
    <3>4. k = k + 0 * Offset
      BY DEF Class, Offset
    <3>5. \A t \in Slot : f1[k + t * Offset] = k + Offset * t
      <4> SUFFICES ASSUME NEW t \in Slot PROVE f1[k + t * Offset] = k + Offset * t
        OBVIOUS
      <4>1. k + t * Offset \in Channel
        BY ChannelIs
      <4>2. fd[k] = k + Offset * (IF 0 = o THEN 0 ELSE o)
        BY <3>1, <3>3, <3>4
      <4>3. fd[a] = k + Offset * 0
        BY <3>3 DEF a
      <4>4. CASE t = 0
        BY <2>4, <2>1, <3>4, <4>3, <4>4
      <4>5. CASE t # 0 /\ t = o
        <5>1. k + t * Offset = a /\ a # k
          BY <3>1, <4>5 DEF a, Offset, Class
        <5> QED BY <2>4, <2>1, <4>2, <4>5, <5>1
      <4>6. CASE t # 0 /\ t # o
        <5>1. k + t * Offset # a /\ k + t * Offset # k
          BY <3>1, <4>6 DEF a, Offset, Class
        <5> QED BY <2>4, <3>3, <4>1, <4>6, <5>1
      <4> QED BY <4>4, <4>5, <4>6
    <3>6. fd'[ch] = k + Offset * (IF s = n THEN 0 ELSE IF s = 0 THEN n ELSE s)
      <4>1. f1[k] = k + Offset * 0
        BY <3>1, <3>4, <3>5
      <4>2. f1[b] = k + Offset * n
        BY <3>5 DEF b
      <4>3. CASE s = 0
        BY <2>2, <2>5, <2>1, <3>1, <3>4, <4>1, <4>2, <4>3
      <4>4. CASE s # 0 /\ s = n
        <5>1. ch = b /\ b # k
          BY <3>1, <4>4 DEF b, Offset, Class
        <5> QED BY <2>2, <2>5, <2>1, <4>1, <4>4, <5>1
      <4>5. CASE s # 0 /\ s # n
        <5>1. ch # b /\ ch # k
          BY <3>1, <4>5 DEF b, Offset, Class
        <5>2. f1[ch] = k + Offset * s
          BY <3>1, <3>5
        <5> QED BY <2>2, <2>5, <3>1, <4>5, <5>1, <5>2
      <4> QED BY <4>3, <4>4, <4>5
    <3>7. PathFor(n)[k + s * Offset] = k + Offset * (IF s = n THEN 0 ELSE IF s = 0 THEN n ELSE s)
      BY <3>1, PathForIs
    <3> QED BY <3>1, <3>6, <3>7
  <2> QED BY <2>6, <2>7
<1> QED BY <1>1, <1>2

LEMMA SwitchChannelContext ==
  ASSUME Linked(fd, reader, context), NEW k \in Class, NEW o \in Slot, NEW n \in Slot,
         SwitchChannel(k, o, n), NEW d \in Channel
  PROVE  /\ context[d] % Offset # k => context'[d] = context[d]
         /\ context[d] % Offset = k => context'[d] % Offset = k
<1>1. CASE o = n
  BY <1>1 DEF SwitchChannel, pathVars
<1>2. CASE o # n
  <2> DEFINE a == k + o * Offset
             b == k + n * Offset
             f1 == Exchange(fd, k, a)
             r1 == Exchange(reader, k, a)
             c1 == Exchange(context, reader[k], reader[a])
             c2 == Exchange(c1, r1[k], r1[b])
  <2>1. /\ k \in Channel /\ k % Offset = k
        /\ a \in Channel /\ a % Offset = k
        /\ b \in Channel /\ b % Offset = k
    BY ChannelIs
  <2>2. context' = c2
    BY <1>2 DEF SwitchChannel
  <2>3. Linked(f1, r1, c1)
    BY <2>1, ExchangeLinked
  <2> HIDE DEF a, b, f1, r1
  <2>4. /\ c1 \in [Channel -> Channel]
        /\ c1[d] = IF d = reader[k] THEN context[reader[a]]
                   ELSE IF d = reader[a] THEN context[reader[k]] ELSE context[d]
    <3>1. context \in [Channel -> Channel] /\ reader[k] \in Channel /\ reader[a] \in Channel
      BY <2>1 DEF Linked
    <3> QED BY <3>1 DEF Exchange
  <2> HIDE DEF c1
  <2>5. c2[d] = IF d = r1[k] THEN c1[r1[b]] ELSE IF d = r1[b] THEN c1[r1[k]] ELSE c1[d]
    <3>1. r1[k] \in Channel /\ r1[b] \in Channel
      BY <2>1, <2>3 DEF Linked
    <3> QED BY <2>4, <3>1 DEF Exchange
  <2>6. context[reader[k]] = k /\ context[reader[a]] = a
    BY <2>1 DEF Linked
  <2>7. c1[r1[k]] = k /\ c1[r1[b]] = b
    BY <2>1, <2>3 DEF Linked
  <2> HIDE DEF c2
  <2>8. /\ context[d] % Offset # k => c1[d] = context[d]
        /\ context[d] % Offset = k => c1[d] % Offset = k
    BY <2>1, <2>4, <2>6
  <2>9. /\ c1[d] % Offset # k => c2[d] = c1[d]
        /\ c1[d] % Offset = k => c2[d] % Offset = k
    BY <2>1, <2>5, <2>7
  <2> QED BY <2>2, <2>8, <2>9
<1> QED BY <1>1, <1>2
-----------------------------------------------------------------------------
(***************************************************************************)
(* The places of the workers.                                              *)
(***************************************************************************)
Step(w) == work[w].step
Todo(w) == work[w].todo

\* What a worker locks with lockRestartMutex, and its steps with all of it.
Locks(w) == IF w = Switcher THEN Locked ELSE OfClass(CMD_11)
Inside == {"esimmap", "wait", "prop", "sim", "swap"}
Outer == {"need", "restart", "reader", "free"}

WorkOk(w) ==
  /\ w = Switcher =>
       /\ Step(w) \in {"idle", "efun"} \union Outer \union Inside
       /\ own = None <=> Step(w) = "idle"
       /\ Step(w) = "swap" => Todo(w) \subseteq Classes
  /\ w # Switcher =>
       /\ Step(w) \in {"idle", "entered", "readers", "freeReaders"} \union Outer
       /\ Step(w) # "idle" => noReset /\ sender[w] = "handling"
       /\ Step(w) \in {"readers", "freeReaders"} => Todo(w) \subseteq UrcChannel
  /\ Step(w) \in Outer => Todo(w) \subseteq Locks(w)
  /\ Step(w) \in {"restart", "reader"} => Todo(w) # {}

\* The switching thread is the sender of a CMD_9 channel; without a modem that
\* need not be reset no worker of a URC channel runs.
WorkInv ==
  /\ \A w \in Worker : WorkOk(w)
  /\ own # None => own \in OfClass(CMD_9) /\ sender[own] = "handling"
  /\ ~noReset => \A u \in UrcChannel : mapUrc[u] = <<>>

PathsLinked == Linked(fd, reader, context)

LEMMA WorkerIs ==
  /\ Switcher \in Worker /\ Switcher \notin UrcChannel /\ Switcher \notin Channel
  /\ \A u \in UrcChannel : u \in Worker /\ u # Switcher /\ u \in Channel /\ u % Offset = URC
  /\ \A w \in Worker : w = Switcher \/ w \in UrcChannel
  /\ URC \in UrcChannel
  /\ \A s \in Slot : CMD_9 + s * Offset \in OfClass(CMD_9)
  /\ None \notin Channel
<1>1. URC \in UrcChannel
  BY ChannelIs, Classes4 DEF UrcChannel, OfClass
<1>2. \A s \in Slot : CMD_9 + s * Offset \in OfClass(CMD_9)
  BY ChannelIs, Classes4 DEF OfClass
<1> QED BY <1>1, <1>2, SwitchAssumption DEF Worker, UrcChannel, OfClass

LEMMA LocksIs ==
  /\ \A w : Locks(w) \subseteq Channel
  /\ \A k : OfClass(k) \subseteq Channel
  /\ Classes \subseteq Channel
  /\ \A k \in Classes : k \in Class
  BY ChannelIs, Classes4 DEF Locks, Locked, OfClass, Classes

LEMMA ToIs ==
  ASSUME TypeOK, NEW step, NEW todo, To(step, todo)
  PROVE  /\ Step(Switcher)' = step /\ Todo(Switcher)' = todo
         /\ \A u \in UrcChannel : work'[u] = work[u]
  BY WorkerIs DEF To, TypeOK, Step, Todo

LEMMA UrcStepIs ==
  ASSUME TypeOK, NEW u \in UrcChannel, NEW step, NEW todo, work' = UrcStep(u, step, todo)
  PROVE  /\ Step(u)' = step /\ Todo(u)' = todo
         /\ \A w \in Worker \ {u} : work'[w] = work[w]
  BY WorkerIs DEF UrcStep, TypeOK, Step, Todo

LEMMA StepIs ==
  ASSUME TypeOK, NEW w \in Worker, NEW step, work' = [work EXCEPT ![w].step = step]
  PROVE  /\ Step(w)' = step /\ Todo(w)' = Todo(w)
         /\ \A v \in Worker \ {w} : work'[v] = work[v]
  BY DEF TypeOK, Step, Todo

LEMMA LaterIs ==
  ASSUME TypeOK, NEW w \in Worker, work' = [work EXCEPT ![w] = Later(w)]
  PROVE  /\ Step(w)' = Step(w) /\ Todo(w)' = Todo(w) \ {Next1(w)}
         /\ \A v \in Worker \ {w} : work'[v] = work[v]
  BY DEF TypeOK, Step, Todo, Later

LEMMA LockReaderIs ==
  ASSUME TypeOK, NEW w \in Worker, LockReader(w)
  PROVE  /\ Step(w)' = IF Step(w) = "reader" THEN "need" ELSE Step(w)
         /\ Todo(w)' = Todo(w) \ {Next1(w)}
         /\ \A v \in Worker \ {w} : work'[v] = work[v]
<1>1. DOMAIN work = Worker /\ DOMAIN work[w] = {"step", "todo", "old", "new"}
  BY DEF TypeOK
<1>2. work' = [work EXCEPT ![w] = IF work[w].step = "reader" THEN [Later(w) EXCEPT !.step = "need"] ELSE Later(w)]
  BY DEF LockReader
<1> QED BY <1>1, <1>2 DEF Step, Todo, Later

LEMMA IdleIs ==
  ASSUME TypeOK, NEW u \in UrcChannel, work' = [work EXCEPT ![u] = Idle]
  PROVE  /\ Step(u)' = "idle" /\ Todo(u)' = {}
         /\ \A w \in Worker \ {u} : work'[w] = work[w]
  BY WorkerIs DEF TypeOK, Step, Todo, Idle

LEMMA Next1Is ==
  ASSUME TypeOK, NEW w \in Worker, Todo(w) # {}
  PROVE  Next1(w) \in Todo(w) /\ Next1(w) \in Channel /\ Todo(w) \subseteq Channel
<1>1. work[w].todo \in SUBSET Channel
  BY DEF TypeOK
<1> QED BY <1>1, FirstIn DEF Next1, Todo

\* A worker that stays where it is.
LEMMA WorkFrame ==
  ASSUME NEW w \in Worker, WorkOk(w), work'[w] = work[w], noReset' = noReset,
         w = Switcher => own' = own,
         w # Switcher /\ Step(w) # "idle" => sender'[w] = "handling"
  PROVE  WorkOk(w)'
<1>1. Step(w)' = Step(w) /\ Todo(w)' = Todo(w) /\ Classes' = Classes
  BY DEF Step, Todo, Classes
<1>2. Locks(w)' = Locks(w)
  BY DEF Locks, Locked, Plain
<1> QED BY <1>1, <1>2 DEF WorkOk

KeepsHandling == \A ch \in Channel : sender[ch] = "handling" => sender'[ch] = "handling"

LEMMA TakeIs ==
  ASSUME TypeOK, NEW ch \in Channel, TakeMessage(ch)
  PROVE  KeepsHandling /\ sender'[ch] = "handling" /\ sender[ch] = "idle"
  BY DEF TypeOK, TakeMessage, KeepsHandling

LEMMA DoneIs ==
  ASSUME TypeOK, NEW ch \in Channel, Done(ch)
  PROVE  \A c \in Channel \ {ch} : sender'[c] = sender[c]
  BY DEF TypeOK, Done

LEMMA WokenIs ==
  ASSUME TypeOK, NEW ch \in Channel, sender' = Woken(ch)
  PROVE  KeepsHandling
  BY DEF TypeOK, Woken, KeepsHandling

\* What the threads that are not workers do.
LEMMA WorkSenders ==
  ASSUME TypeOK, WorkInv, NEW ch \in Channel, Handle(ch) \/ Finish(ch) \/ Spurious(ch) \/ Resume(ch)
  PROVE  WorkInv'
<1>1. /\ UNCHANGED <<buildVars, work, own, mapUrc>>
      /\ \A c \in Channel : sender[c] = "handling" =>
           sender'[c] = "handling" \/ (c # own /\ (c \in UrcChannel => Step(c) = "idle"))
  <2>1. CASE Handle(ch)
    BY <2>1, TakeIs DEF Handle, KeepsHandling, switchVars
  <2>2. CASE Finish(ch)
    BY <2>2, DoneIs DEF Finish, switchVars, Step
  <2>3. CASE Spurious(ch)
    BY <2>3 DEF Spurious, switchVars, TypeOK
  <2>4. CASE Resume(ch)
    BY <2>4 DEF Resume, switchVars, TypeOK
  <2> QED BY <2>1, <2>2, <2>3, <2>4
<1>2. ASSUME NEW w \in Worker PROVE WorkOk(w)'
  <2>1. w # Switcher /\ Step(w) # "idle" => sender'[w] = "handling"
    BY <1>1, WorkerIs DEF WorkInv, WorkOk
  <2> QED BY <1>1, <2>1, WorkFrame DEF WorkInv, buildVars
<1>3. own # None => own \in OfClass(CMD_9) /\ sender'[own] = "handling"
  BY <1>1, LocksIs DEF WorkInv
<1> QED BY <1>1, <1>2, <1>3 DEF WorkInv, buildVars

LEMMA WorkReaders ==
  ASSUME TypeOK, WorkInv, NEW d \in Channel, Read(d) \/ Release(d)
  PROVE  WorkInv'
<1>1. UNCHANGED <<noReset, own, mapUrc, sender>>
  BY DEF Read, Release, buildVars, switchVars
<1>2. \/ UNCHANGED work
      \/ Step(Switcher) = "wait" /\ work' = [work EXCEPT ![Switcher].step = "prop"]
  BY DEF Read, Release, Step
<1>3. CASE UNCHANGED work
  <2>1. ASSUME NEW w \in Worker PROVE WorkOk(w)'
    <3>1. w # Switcher /\ Step(w) # "idle" => sender'[w] = "handling"
      BY <1>1 DEF WorkInv, WorkOk
    <3> QED BY <1>1, <1>3, <3>1, WorkFrame DEF WorkInv
  <2> QED BY <1>1, <2>1 DEF WorkInv
<1>4. CASE Step(Switcher) = "wait" /\ work' = [work EXCEPT ![Switcher].step = "prop"]
  <2>1. /\ Step(Switcher)' = "prop" /\ Todo(Switcher)' = Todo(Switcher)
        /\ \A v \in Worker \ {Switcher} : work'[v] = work[v]
    BY <1>4, StepIs, WorkerIs
  <2>2. WorkOk(Switcher)'
    BY <1>1, <1>4, <2>1, WorkerIs DEF WorkInv, WorkOk, Inside, Outer
  <2>3. ASSUME NEW w \in Worker \ {Switcher} PROVE WorkOk(w)'
    <3>1. w # Switcher /\ Step(w) # "idle" => sender'[w] = "handling"
      BY <1>1 DEF WorkInv, WorkOk
    <3> QED BY <1>1, <2>1, <3>1, WorkFrame DEF WorkInv
  <2> QED BY <1>1, <2>2, <2>3 DEF WorkInv
<1> QED BY <1>2, <1>3, <1>4

\* A step of worker w, which leaves the others where they are.
LEMMA WorkOne ==
  ASSUME TypeOK, WorkInv, NEW w \in Worker, UNCHANGED <<noReset, own>>,
         \A v \in Worker \ {w} : work'[v] = work[v],
         KeepsHandling, ~noReset => UNCHANGED mapUrc, WorkOk(w)'
  PROVE  WorkInv'
<1>1. ASSUME NEW v \in Worker PROVE WorkOk(v)'
  <2>1. CASE v = w
    BY <2>1
  <2>2. CASE v # w
    <3>1. v # Switcher /\ Step(v) # "idle" => sender'[v] = "handling"
      BY WorkerIs DEF WorkInv, WorkOk, KeepsHandling
    <3> QED BY <2>2, <3>1, WorkFrame DEF WorkInv
  <2> QED BY <2>1, <2>2
<1>2. own # None => own \in OfClass(CMD_9) /\ sender'[own] = "handling"
  BY LocksIs DEF WorkInv, KeepsHandling
<1> QED BY <1>1, <1>2 DEF WorkInv

LEMMA WorkLocking ==
  ASSUME TypeOK, WorkInv, NEW w \in Worker, Locking(w)
  PROVE  WorkInv'
<1>1. UNCHANGED <<noReset, own, mapUrc>> /\ Locks(w)' = Locks(w) /\ UrcChannel' = UrcChannel
  BY DEF Locking, SetNeed, LockRestart, LockReader, Unlock, buildVars, switchVars, Locks,
         Locked, Plain
<1>2. Todo(w) # {}
  BY DEF Locking, SetNeed, LockRestart, LockReader, Unlock, WorkInv, WorkOk, Step, Todo
<1>3. Next1(w) \in Todo(w) /\ Next1(w) \in Channel
  BY <1>2, Next1Is
<1>4. KeepsHandling
  BY <1>3, WokenIs DEF Locking, SetNeed, LockRestart, LockReader, Unlock, KeepsHandling
<1>5. WorkOk(w)
  BY DEF WorkInv
<1>6. w # Switcher /\ Step(w) # "idle" => sender'[w] = "handling"
  BY <1>4, <1>5, WorkerIs DEF WorkOk, KeepsHandling
<1>7. CASE SetNeed(w)
  <2>1. /\ Step(w)' = "restart" /\ Todo(w)' = Todo(w) /\ Step(w) = "need"
        /\ \A v \in Worker \ {w} : work'[v] = work[v]
    BY <1>7, StepIs DEF SetNeed, Step
  <2>2. WorkOk(w)'
    BY <1>1, <1>2, <1>5, <1>6, <2>1 DEF WorkOk, Outer, Inside
  <2> QED BY <1>1, <1>4, <2>1, <2>2, WorkOne
<1>8. CASE LockRestart(w)
  <2>1. /\ Step(w)' = "reader" /\ Todo(w)' = Todo(w) /\ Step(w) = "restart"
        /\ \A v \in Worker \ {w} : work'[v] = work[v]
    BY <1>8, StepIs DEF LockRestart, Step
  <2>2. WorkOk(w)'
    BY <1>1, <1>2, <1>5, <1>6, <2>1 DEF WorkOk, Outer, Inside
  <2> QED BY <1>1, <1>4, <2>1, <2>2, WorkOne
<1>9. CASE LockReader(w)
  <2>1. /\ Step(w)' = IF Step(w) = "reader" THEN "need" ELSE Step(w)
        /\ Todo(w)' \subseteq Todo(w)
        /\ \A v \in Worker \ {w} : work'[v] = work[v]
        /\ Step(w) \in {"reader", "readers"}
    BY <1>9, LockReaderIs DEF LockReader, Step
  <2>2. WorkOk(w)'
    BY <1>1, <1>5, <1>6, <2>1 DEF WorkOk, Outer, Inside
  <2> QED BY <1>1, <1>4, <2>1, <2>2, WorkOne
<1>10. CASE Unlock(w)
  <2>1. /\ Step(w)' = Step(w) /\ Todo(w)' \subseteq Todo(w) /\ Step(w) = "free"
        /\ \A v \in Worker \ {w} : work'[v] = work[v]
    BY <1>10, LaterIs DEF Unlock, Step
  <2>2. WorkOk(w)'
    BY <1>1, <1>5, <1>6, <2>1 DEF WorkOk, Outer, Inside
  <2> QED BY <1>1, <1>4, <2>1, <2>2, WorkOne
<1> QED BY <1>7, <1>8, <1>9, <1>10 DEF Locking

LEMMA WorkStart ==
  ASSUME TypeOK, WorkInv, Start
  PROVE  WorkInv'
<1>1. PICK s \in Slot : own' = CMD_9 + s * Offset
  BY DEF Start
<1>2. own = None /\ own' \in OfClass(CMD_9) /\ own' \in Channel /\ own' # None
  BY <1>1, WorkerIs, LocksIs DEF Start
<1>3. KeepsHandling /\ sender'[own'] = "handling"
  BY <1>2, TakeIs DEF Start
<1>4. /\ Step(Switcher)' = "efun"
      /\ \A u \in UrcChannel : work'[u] = work[u]
  BY ToIs DEF Start
<1>5. UNCHANGED <<noReset, mapUrc>>
  BY DEF Start, buildVars
<1>6. ASSUME NEW w \in Worker PROVE WorkOk(w)'
  <2>1. CASE w = Switcher
    BY <1>2, <1>4, <2>1 DEF WorkOk, Outer, Inside
  <2>2. CASE w # Switcher
    <3>1. w # Switcher /\ Step(w) # "idle" => sender'[w] = "handling"
      BY <1>3, WorkerIs DEF WorkInv, WorkOk, KeepsHandling
    <3> QED BY <1>4, <1>5, <2>2, <3>1, WorkFrame, WorkerIs DEF WorkInv
  <2> QED BY <2>1, <2>2
<1> QED BY <1>2, <1>3, <1>5, <1>6 DEF WorkInv

\* The switch ends.
LEMMA WorkEnd ==
  ASSUME TypeOK, WorkInv, EfunFails \/ Reply
  PROVE  WorkInv'
<1>1. /\ Step(Switcher) \in {"efun", "free"} /\ Done(own) /\ own' = None /\ To("idle", {})
      /\ UNCHANGED <<noReset, mapUrc>>
  BY DEF EfunFails, Reply, At, Step, buildVars
<1>2. own \in OfClass(CMD_9) /\ own \in Channel /\ own \notin UrcChannel
  BY <1>1, WorkerIs, LocksIs, Classes4 DEF WorkInv, WorkOk, OfClass
<1>3. \A c \in Channel \ {own} : sender'[c] = sender[c]
  BY <1>1, <1>2, DoneIs
<1>4. /\ Step(Switcher)' = "idle"
      /\ \A u \in UrcChannel : work'[u] = work[u]
  BY <1>1, ToIs
<1>5. ASSUME NEW w \in Worker PROVE WorkOk(w)'
  <2>1. CASE w = Switcher
    BY <1>1, <1>4, <2>1 DEF WorkOk, Outer, Inside
  <2>2. CASE w # Switcher
    <3>1. w # Switcher /\ Step(w) # "idle" => sender'[w] = "handling"
      BY <1>2, <1>3, WorkerIs DEF WorkInv, WorkOk
    <3> QED BY <1>1, <1>4, <2>2, <3>1, WorkFrame, WorkerIs DEF WorkInv
  <2> QED BY <2>1, <2>2
<1> QED BY <1>1, <1>5 DEF WorkInv

LEMMA WorkSwitching ==
  ASSUME TypeOK, WorkInv, Switching
  PROVE  WorkInv'
<1>1. CASE EfunFails \/ Reply
  BY <1>1, WorkEnd
<1>2. ASSUME UNCHANGED <<noReset, own, sender>>, ~noReset => UNCHANGED mapUrc,
             Step(Switcher) \notin {"idle", "efun"} \/ EfunDone,
             NEW step \in {"need", "free"} \union Inside, NEW todo, To(step, todo),
             step \in {"need", "free"} => todo = Locked,
             step = "swap" => todo \subseteq Classes
      PROVE  WorkInv'
  <2>1. /\ Step(Switcher)' = step /\ Todo(Switcher)' = todo
        /\ \A w \in Worker \ {Switcher} : work'[w] = work[w]
    BY <1>2, ToIs, WorkerIs
  <2>2. own # None
    BY <1>2, WorkerIs DEF WorkInv, WorkOk, EfunDone, At, Step
  <2>3. Locked' = Locked /\ Classes' = Classes
    BY <1>2 DEF Locked, Plain, Classes
  <2>4. WorkOk(Switcher)'
    <3>1. step # "idle" /\ step # "restart" /\ step # "reader" /\ step \in {"idle", "efun"} \union Outer \union Inside
      BY <1>2 DEF Outer, Inside
    <3>2. step \in Outer => step \in {"need", "free"}
      BY <1>2 DEF Outer, Inside
    <3> QED BY <1>2, <2>1, <2>2, <2>3, <3>1, <3>2 DEF WorkOk, Locks
  <2>5. KeepsHandling
    BY <1>2 DEF KeepsHandling
  <2> QED BY <1>2, <2>1, <2>4, <2>5, WorkOne, WorkerIs
<1>3. CASE EfunDone
  <2>1. To("need", Locked) /\ UNCHANGED <<noReset, own, sender, mapUrc>>
    BY <1>3 DEF EfunDone, buildVars, switchVars, lockVars
  <2> QED BY <1>2, <1>3, <2>1
<1>4. CASE LocksDone
  <2>1. To("esimmap", {}) /\ Step(Switcher) = "need" /\ UNCHANGED <<noReset, own, sender, mapUrc>>
    BY <1>4 DEF LocksDone, At, Step, buildVars, switchVars, lockVars
  <2> QED BY <1>2, <2>1 DEF Inside
<1>5. CASE Esimmap
  <2>1. To("wait", {}) /\ Step(Switcher) = "esimmap" /\ UNCHANGED <<noReset, own, sender>>
    BY <1>5 DEF Esimmap, At, Step, buildVars, switchVars, lockVars
  <2>2. ~noReset => UNCHANGED mapUrc
    BY <1>5 DEF Esimmap, TypeOK
  <2> QED BY <1>2, <2>1, <2>2 DEF Inside
<1>6. CASE SetSimSwitchProp
  <2>1. /\ To("sim", {}) \/ To("swap", Classes)
        /\ Step(Switcher) = "prop" /\ UNCHANGED <<noReset, own, sender, mapUrc>>
    BY <1>6 DEF SetSimSwitchProp, At, Step, buildVars, switchVars, lockVars
  <2>2. CASE To("sim", {})
    BY <1>2, <2>1, <2>2 DEF Inside
  <2>3. CASE To("swap", Classes)
    BY <1>2, <2>1, <2>3 DEF Inside
  <2> QED BY <2>1, <2>2, <2>3
<1>7. CASE SimInitDone
  <2>1. To("swap", Classes) /\ Step(Switcher) = "sim" /\ UNCHANGED <<noReset, own, sender, mapUrc>>
    BY <1>7 DEF SimInitDone, At, Step, buildVars, switchVars, lockVars
  <2> QED BY <1>2, <2>1 DEF Inside
<1>8. CASE SimInitTimeout
  <2>1. UNCHANGED <<noReset, own, sender, mapUrc, work>>
    BY <1>8 DEF SimInitTimeout, switchVars, lockVars
  <2>2. WorkOk(Switcher)'
    BY <2>1, WorkFrame, WorkerIs DEF WorkInv
  <2> QED BY <2>1, <2>2, WorkOne, WorkerIs DEF KeepsHandling
<1>9. CASE Swap
  <2>1. /\ To("swap", Todo(Switcher) \ {Next1(Switcher)}) /\ Step(Switcher) = "swap"
        /\ UNCHANGED <<noReset, own, sender, mapUrc>>
    BY <1>9 DEF Swap, At, Step, Todo, buildVars, switchVars, lockVars
  <2>2. Todo(Switcher) \subseteq Classes
    BY <2>1, WorkerIs DEF WorkInv, WorkOk
  <2> QED BY <1>2, <2>1, <2>2 DEF Inside
<1>10. CASE Free
  <2>1. To("free", Locked) /\ Step(Switcher) = "swap" /\ UNCHANGED <<noReset, own, sender, mapUrc>>
    BY <1>10 DEF Free, At, Step, buildVars, switchVars, lockVars
  <2> QED BY <1>2, <2>1
<1> QED BY <1>1, <1>3, <1>4, <1>5, <1>6, <1>7, <1>8, <1>9, <1>10 DEF Switching

LEMMA WorkUrc ==
  ASSUME TypeOK, WorkInv, NEW u \in UrcChannel, Entered(u) \/ HandleUrc(u)
  PROVE  WorkInv'
<1>1. u \in Channel /\ u \in Worker /\ u # Switcher
  BY WorkerIs
<1>2. UNCHANGED <<noReset, own>>
  BY DEF Entered, HandleUrc, CheckIfSwitch, SwapUrc, SwapCmd11, FreeReaders, UnlockReader,
         buildVars, switchVars
<1>3. noReset
  BY <1>1 DEF Entered, HandleUrc, CheckIfSwitch, SwapUrc, SwapCmd11, FreeReaders, UnlockReader,
         WorkInv, WorkOk, Step
<1>4. ASSUME KeepsHandling, sender'[u] = "handling" \/ Step(u)' = "idle",
             \A w \in Worker \ {u} : work'[w] = work[w],
             \/ Step(u)' \in {"entered", "idle"}
             \/ Step(u)' \in {"readers", "freeReaders"} /\ Todo(u)' \subseteq UrcChannel
             \/ Step(u)' \in {"need", "free"} /\ Todo(u)' \subseteq OfClass(CMD_11)
      PROVE  WorkInv'
  <2>1. WorkOk(u)'
    BY <1>1, <1>2, <1>3, <1>4 DEF WorkOk, Locks, Outer, Inside
  <2> QED BY <1>1, <1>2, <1>3, <1>4, <2>1, WorkOne
<1>5. CASE Entered(u)
  <2>1. KeepsHandling /\ sender'[u] = "handling"
    BY <1>1, <1>5, TakeIs DEF Entered
  <2>2. Step(u)' = "entered" /\ \A w \in Worker \ {u} : work'[w] = work[w]
    BY <1>1, <1>5 DEF Entered, TypeOK, Step
  <2> QED BY <1>4, <2>1, <2>2
<1>6. ASSUME HandleUrc(u) PROVE /\ KeepsHandling /\ sender'[u] = "handling" /\ Step(u) # "idle"
  BY <1>1, <1>6 DEF HandleUrc, CheckIfSwitch, SwapUrc, SwapCmd11, FreeReaders, UnlockReader,
         lockVars, KeepsHandling, WorkInv, WorkOk, Step
<1>7. CASE CheckIfSwitch(u)
  <2>1. \/ work' = UrcStep(u, "readers", UrcChannel)
        \/ work' = [work EXCEPT ![u] = Idle]
    BY <1>7 DEF CheckIfSwitch, UrcChannel
  <2>2. Step(u)' \in {"readers", "idle"} /\ Todo(u)' \subseteq UrcChannel /\ \A w \in Worker \ {u} : work'[w] = work[w]
    BY <2>1, UrcStepIs, IdleIs
  <2> QED BY <1>4, <1>6, <1>7, <2>2 DEF HandleUrc
<1>8. CASE SwapUrc(u)
  <2>1. work' = UrcStep(u, "need", OfClass(CMD_11))
    BY <1>8 DEF SwapUrc
  <2> QED BY <1>4, <1>6, <1>8, <2>1, UrcStepIs DEF HandleUrc
<1>9. CASE SwapCmd11(u)
  <2>1. work' = UrcStep(u, "free", OfClass(CMD_11))
    BY <1>9 DEF SwapCmd11
  <2> QED BY <1>4, <1>6, <1>9, <2>1, UrcStepIs DEF HandleUrc
<1>10. CASE FreeReaders(u)
  <2>1. work' = UrcStep(u, "freeReaders", UrcChannel)
    BY <1>10 DEF FreeReaders, UrcChannel
  <2> QED BY <1>4, <1>6, <1>10, <2>1, UrcStepIs DEF HandleUrc
<1>11. CASE UnlockReader(u)
  <2>1. \/ work' = [work EXCEPT ![u] = Idle]
        \/ work' = [work EXCEPT ![u] = Later(u)]
    BY <1>11 DEF UnlockReader
  <2>2. Step(u) = "freeReaders" /\ Todo(u) \subseteq UrcChannel
    BY <1>1, <1>11 DEF UnlockReader, WorkInv, WorkOk, Step
  <2>3. Step(u)' \in {"freeReaders", "idle"} /\ Todo(u)' \subseteq UrcChannel /\ \A w \in Worker \ {u} : work'[w] = work[w]
    BY <1>1, <2>1, <2>2, LaterIs, IdleIs
  <2> QED BY <1>4, <1>6, <1>11, <2>3 DEF HandleUrc
<1> QED BY <1>5, <1>7, <1>8, <1>9, <1>10, <1>11 DEF HandleUrc

LEMMA WorkStep == TypeOK /\ WorkInv /\ [Next]_vars => WorkInv'
<1> SUFFICES ASSUME TypeOK, WorkInv, [Next]_vars PROVE WorkInv'
  OBVIOUS
<1>1. CASE UNCHANGED vars
  <2>1. UNCHANGED <<noReset, own, sender, mapUrc, work>>
    BY <1>1 DEF vars, buildVars, switchVars, lockVars
  <2>2. WorkOk(Switcher)'
    BY <2>1, WorkFrame, WorkerIs DEF WorkInv
  <2> QED BY <2>1, <2>2, WorkOne, WorkerIs DEF KeepsHandling
<1> QED BY <1>1, WorkSenders, WorkReaders, WorkStart, WorkSwitching, WorkUrc, WorkLocking
        DEF Next, Senders, Readers

-----------------------------------------------------------------------------
(***************************************************************************)
(* The devices of the channels, and the types.                             *)
(***************************************************************************)
Moves == LocksDone \/ Swap \/ \E u \in UrcChannel : SwapUrc(u) \/ SwapCmd11(u)

\* Who changes the devices.
LEMMA PathMoves == [Next]_vars => UNCHANGED pathVars \/ Moves
  BY DEF Next, vars, Moves, Senders, Readers, Locking, Switching, HandleUrc,
         Handle, Finish, Spurious, Resume, Read, Release, SetNeed, LockRestart, LockReader, Unlock,
         Start, EfunFails, EfunDone, Esimmap, SetSimSwitchProp, SimInitDone, SimInitTimeout, Free,
         Reply, Entered, CheckIfSwitch, FreeReaders, UnlockReader

LEMMA SwapIs ==
  ASSUME TypeOK, WorkInv, Swap
  PROVE  /\ Next1(Switcher) \in Classes /\ Next1(Switcher) \in Class
         /\ Next1(Switcher) \in Todo(Switcher)
         /\ Step(Switcher) = "swap" /\ Step(Switcher)' = "swap"
         /\ Todo(Switcher)' = Todo(Switcher) \ {Next1(Switcher)}
         /\ SwitchChannel(Next1(Switcher), old, new)
<1>1. Step(Switcher) = "swap" /\ Todo(Switcher) # {} /\ Todo(Switcher) \subseteq Classes
  BY WorkerIs DEF Swap, At, Step, Todo, WorkInv, WorkOk
<1>2. Next1(Switcher) \in Todo(Switcher)
  BY <1>1, Next1Is, WorkerIs
<1>3. To("swap", Todo(Switcher) \ {Next1(Switcher)}) /\ SwitchChannel(Next1(Switcher), old, new)
  BY DEF Swap, Todo
<1>4. Step(Switcher)' = "swap" /\ Todo(Switcher)' = Todo(Switcher) \ {Next1(Switcher)}
  BY <1>3, ToIs
<1> QED BY <1>1, <1>2, <1>3, <1>4, LocksIs

LEMMA MoveIs ==
  ASSUME TypeOK, WorkInv, Moves
  PROVE  UNCHANGED pathVars \/ \E k \in Class, o, n \in Slot : SwitchChannel(k, o, n)
<1>1. CASE LocksDone
  BY <1>1, Classes4 DEF LocksDone, TypeOK
<1>2. CASE Swap
  BY <1>2, SwapIs DEF TypeOK
<1>3. ASSUME NEW u \in UrcChannel, SwapUrc(u) \/ SwapCmd11(u)
      PROVE  \E k \in Class, o, n \in Slot : SwitchChannel(k, o, n)
  <2>1. work[u].old \in Slot /\ work[u].new \in Slot
    BY WorkerIs DEF TypeOK
  <2> QED BY <1>3, <2>1, Classes4 DEF SwapUrc, SwapCmd11
<1> QED BY <1>1, <1>2, <1>3 DEF Moves

LEMMA LinkedStep == TypeOK /\ WorkInv /\ PathsLinked /\ [Next]_vars => PathsLinked'
<1> SUFFICES ASSUME TypeOK, WorkInv, PathsLinked, [Next]_vars PROVE PathsLinked'
  OBVIOUS
<1>1. CASE UNCHANGED pathVars
  BY <1>1 DEF PathsLinked, pathVars
<1>2. CASE \E k \in Class, o, n \in Slot : SwitchChannel(k, o, n)
  BY <1>2, SwitchChannelLinked DEF PathsLinked
<1> QED BY <1>1, <1>2, PathMoves, MoveIs

StepName == {"idle", "efun", "need", "restart", "reader", "esimmap", "wait", "prop", "sim", "swap",
             "free", "entered", "readers", "freeReaders"}
WorkType == [Worker -> [step : StepName, todo : SUBSET Channel, old : Slot, new : Slot]]

LEMMA WorkTypes ==
  ASSUME TypeOK
  PROVE  /\ work \in WorkType
         /\ \A step \in StepName, todo \in SUBSET Channel :
              /\ To(step, todo) => work' \in WorkType
              /\ \A w \in Worker : UrcStep(w, step, todo) \in WorkType
         /\ \A w \in Worker, step \in StepName : [work EXCEPT ![w].step = step] \in WorkType
         /\ \A w \in Worker : [work EXCEPT ![w] = Later(w)] \in WorkType
         /\ \A w \in Worker : [work EXCEPT ![w] = Idle] \in WorkType
<1>1. work \in WorkType
  BY DEF TypeOK, WorkType, StepName
<1>2. \A w \in Worker : Later(w) \in [step : StepName, todo : SUBSET Channel, old : Slot, new : Slot]
  BY <1>1 DEF Later, WorkType
<1>3. Idle \in [step : StepName, todo : SUBSET Channel, old : Slot, new : Slot]
  BY ChannelIs DEF Idle, StepName, Slot
<1>4. ASSUME NEW step \in StepName, NEW todo \in SUBSET Channel
      PROVE /\ To(step, todo) => work' \in WorkType
            /\ \A w \in Worker : UrcStep(w, step, todo) \in WorkType
  BY <1>1 DEF To, UrcStep, WorkType
<1>5. \A w \in Worker, step \in StepName : [work EXCEPT ![w].step = step] \in WorkType
  BY <1>1 DEF WorkType
<1>6. \A w \in Worker : [work EXCEPT ![w] = Later(w)] \in WorkType /\ [work EXCEPT ![w] = Idle] \in WorkType
  BY <1>1, <1>2, <1>3 DEF WorkType
<1> QED BY <1>1, <1>4, <1>5, <1>6

\* The types but those of the devices.
CoreType ==
  /\ noReset \in BOOLEAN /\ halted \in BOOLEAN
  /\ major \in Slot /\ flag \in BOOLEAN
  /\ need \in [Channel -> BOOLEAN]
  /\ restart \in [Channel -> BOOLEAN]
  /\ readerLock \in [Channel -> BOOLEAN]
  /\ sender \in [Channel -> {"idle", "handling", "waiting", "woken"}]
  /\ reading \subseteq Channel
  /\ work \in WorkType
  /\ own \in Channel \union {None}
  /\ old \in Slot /\ new \in Slot
  /\ mapUrc \in [UrcChannel -> Seq(Slot)]
  /\ switches \in 0 .. MaxSwitch

LEMMA TypeSplit == TypeOK <=> CoreType /\ fd \in [Channel -> Channel] /\ reader \in [Channel -> Channel]
                              /\ context \in [Channel -> Channel]
  BY DEF TypeOK, CoreType, WorkType, StepName

LEMMA TypeStep == TypeOK /\ WorkInv /\ [Next]_vars => CoreType'
<1> SUFFICES ASSUME TypeOK, WorkInv, [Next]_vars PROVE CoreType'
  OBVIOUS
<1> USE DEF buildVars, statusVars, lockVars, switchVars
<1>0. CoreType
  BY TypeSplit
<1>1. ASSUME NEW ch \in Channel, Handle(ch) \/ Finish(ch) \/ Spurious(ch) \/ Resume(ch)
      PROVE  CoreType'
  BY <1>0, <1>1 DEF CoreType, Handle, Finish, Spurious, Resume, TakeMessage, Done
<1>2. ASSUME NEW d \in Channel, Read(d) \/ Release(d)
      PROVE  CoreType'
  <2>1. work' \in WorkType
    BY <1>2, WorkTypes, WorkerIs DEF Read, Release, StepName
  <2> QED BY <1>0, <1>2, <2>1 DEF CoreType, Read, Release
<1>3. CASE Start
  <2>1. work' \in WorkType
    BY <1>3, WorkTypes DEF Start, StepName
  <2>2. own' \in Channel
    BY <1>3, WorkerIs, LocksIs DEF Start
  <2>3. switches' \in 0 .. MaxSwitch
    BY <1>0, <1>3, SwitchAssumption DEF Start, CoreType
  <2> QED BY <1>0, <1>3, <2>1, <2>2, <2>3 DEF CoreType, Start, TakeMessage
<1>4. CASE Switching
  <2>1. work' \in WorkType
    <3>1. Locked \in SUBSET Channel /\ Classes \in SUBSET Channel /\ {} \in SUBSET Channel
      BY LocksIs DEF Locks
    <3>2. work[Switcher].todo \ {Next1(Switcher)} \in SUBSET Channel
      BY <1>0, WorkerIs DEF CoreType, WorkType
    <3>3. ASSUME NEW step \in StepName, NEW todo \in SUBSET Channel, To(step, todo)
          PROVE  work' \in WorkType
      BY <3>3, WorkTypes
    <3>4. CASE EfunFails \/ Reply \/ LocksDone \/ Esimmap
      BY <3>1, <3>3, <3>4 DEF EfunFails, Reply, LocksDone, Esimmap, StepName
    <3>5. CASE EfunDone \/ Free \/ SimInitDone \/ Swap
      BY <3>1, <3>2, <3>3, <3>5 DEF EfunDone, Free, SimInitDone, Swap, StepName
    <3>6. CASE SetSimSwitchProp
      BY <3>1, <3>3, <3>6 DEF SetSimSwitchProp, StepName
    <3>7. CASE SimInitTimeout
      BY <1>0, <3>7 DEF SimInitTimeout, CoreType
    <3> QED BY <1>4, <3>4, <3>5, <3>6, <3>7 DEF Switching
  <2>2. CASE EfunFails \/ Reply
    BY <1>0, <2>1, <2>2 DEF CoreType, EfunFails, Reply, Done
  <2>3. CASE EfunDone \/ LocksDone \/ Swap \/ Free \/ SimInitDone \/ SimInitTimeout
    BY <1>0, <2>1, <2>3 DEF CoreType, EfunDone, LocksDone, Swap, Free, SimInitDone, SimInitTimeout
  <2>4. CASE SetSimSwitchProp
    BY <1>0, <2>1, <2>4 DEF CoreType, SetSimSwitchProp
  <2>5. CASE Esimmap
    <3>1. mapUrc' \in [UrcChannel -> Seq(Slot)]
      BY <1>0, <2>5 DEF Esimmap, CoreType
    <3> QED BY <1>0, <2>1, <2>5, <3>1 DEF CoreType, Esimmap
  <2> QED BY <1>4, <2>2, <2>3, <2>4, <2>5 DEF Switching
<1>5. ASSUME NEW u \in UrcChannel, Entered(u) PROVE CoreType'
  <2>1. u \in Channel /\ Head(mapUrc[u]) \in Slot /\ Tail(mapUrc[u]) \in Seq(Slot) /\ u \in Worker
    BY <1>0, <1>5, WorkerIs DEF Entered, CoreType
  <2>2. work' \in WorkType
    BY <1>0, <1>5, <2>1 DEF Entered, CoreType, WorkType, StepName
  <2> QED BY <1>0, <1>5, <2>1, <2>2 DEF CoreType, Entered, TakeMessage
<1>6. ASSUME NEW u \in UrcChannel, HandleUrc(u) PROVE CoreType'
  <2>1. work' \in WorkType
    BY <1>6, WorkTypes, WorkerIs, LocksIs DEF HandleUrc, CheckIfSwitch, SwapUrc, SwapCmd11, FreeReaders,
       UnlockReader, StepName
  <2> QED BY <1>0, <1>6, <2>1 DEF CoreType, HandleUrc, CheckIfSwitch, SwapUrc, SwapCmd11, FreeReaders,
       UnlockReader
<1>7. ASSUME NEW w \in Worker, Locking(w) PROVE CoreType'
  <2>1. work' \in WorkType
    <3>1. CASE LockReader(w)
      <4>1. work[w] \in [step : StepName, todo : SUBSET Channel, old : Slot, new : Slot]
        BY <1>0 DEF CoreType, WorkType
      <4>2. (IF work[w].step = "reader" THEN [Later(w) EXCEPT !.step = "need"] ELSE Later(w))
              \in [step : StepName, todo : SUBSET Channel, old : Slot, new : Slot]
        BY <4>1 DEF Later, StepName
      <4>3. work' = [work EXCEPT ![w] = IF work[w].step = "reader" THEN [Later(w) EXCEPT !.step = "need"]
                                                                   ELSE Later(w)]
        BY <3>1 DEF LockReader
      <4> QED BY <1>0, <4>2, <4>3 DEF CoreType, WorkType
    <3> QED BY <1>7, <3>1, WorkTypes DEF Locking, SetNeed, LockRestart, Unlock, StepName
  <2> QED BY <1>0, <1>7, <2>1 DEF CoreType, Locking, SetNeed, LockRestart, LockReader, Unlock, Woken
<1>8. CASE UNCHANGED vars
  BY <1>0, <1>8 DEF CoreType, vars
<1> QED BY <1>1, <1>2, <1>3, <1>4, <1>5, <1>6, <1>7, <1>8 DEF Next, Senders, Readers

\* The devices for main slot m; taken twice, they are the channels again.
LEMMA PathForTwice ==
  ASSUME NEW m \in Slot
  PROVE  /\ PathFor(m) \in [Channel -> Channel]
         /\ \A ch \in Channel : PathFor(m)[PathFor(m)[ch]] = ch
<1> DEFINE P(s) == IF s = m THEN 0 ELSE IF s = 0 THEN m ELSE s
<1>1. 0 \in Slot /\ m \in Slot
  BY ChannelIs DEF Slot
<1>2. \A s \in Slot : P(s) \in Slot /\ P(P(s)) = s
  BY <1>1
<1>3. \A k \in Class, s \in Slot : PathFor(m)[k + s * Offset] = k + P(s) * Offset
  <2> SUFFICES ASSUME NEW k \in Class, NEW s \in Slot
               PROVE  PathFor(m)[k + s * Offset] = k + P(s) * Offset
    OBVIOUS
  <2>1. PathFor(m)[k + s * Offset] = k + Offset * P(s)
    BY PathForIs
  <2>2. P(s) \in Nat
    BY <1>2 DEF Slot
  <2> HIDE DEF P
  <2>3. Offset * P(s) = P(s) * Offset
    BY <2>2 DEF Offset
  <2> QED BY <2>1, <2>3 DEF P
<1> HIDE DEF P
<1>4. ASSUME NEW ch \in Channel
      PROVE  PathFor(m)[ch] \in Channel /\ PathFor(m)[PathFor(m)[ch]] = ch
  <2> DEFINE k == ch % Offset
             s == ch \div Offset
  <2>1. k \in Class /\ s \in Slot /\ ch = k + s * Offset
    BY ChannelIs
  <2> HIDE DEF k, s
  <2>2. PathFor(m)[ch] = k + P(s) * Offset
    BY <1>3, <2>1
  <2>3. P(s) \in Slot /\ P(P(s)) = s
    BY <1>2, <2>1
  <2>4. k + P(s) * Offset \in Channel
    BY <2>1, <2>3, ChannelIs
  <2>5. PathFor(m)[k + P(s) * Offset] = k + P(P(s)) * Offset
    BY <1>3, <2>1, <2>3
  <2> QED BY <2>1, <2>2, <2>3, <2>4, <2>5
<1>5. DOMAIN PathFor(m) = Channel /\ PathFor(m) = [ch \in Channel |-> PathFor(m)[ch]]
  BY DEF PathFor
<1> QED BY <1>4, <1>5

LEMMA InitLinked == Init => PathsLinked
<1> SUFFICES ASSUME Init PROVE PathsLinked
  OBVIOUS
<1> DEFINE p == PathFor(major)
<1>1. p \in [Channel -> Channel] /\ \A ch \in Channel : p[p[ch]] = ch
  BY PathForTwice DEF Init
<1>2. fd = p /\ reader = p /\ context = [d \in Channel |-> CHOOSE ch \in Channel : p[ch] = d]
  BY DEF Init
<1> HIDE DEF p
<1>3. ASSUME NEW d \in Channel PROVE context[d] = p[d]
  <2>1. p[d] \in Channel /\ p[p[d]] = d
    BY <1>1
  <2>2. \A ch \in Channel : p[ch] = d => ch = p[d]
    BY <1>1
  <2>3. (CHOOSE ch \in Channel : p[ch] = d) = p[d]
    BY <2>1, <2>2
  <2> QED BY <1>2, <2>3
<1>4. context = [d \in Channel |-> p[d]]
  BY <1>2, <1>3
<1> QED BY <1>1, <1>2, <1>3, <1>4 DEF PathsLinked, Linked

LEMMA InitOk == Init => TypeOK /\ WorkInv
<1> SUFFICES ASSUME Init PROVE TypeOK /\ WorkInv
  OBVIOUS
<1>1. CoreType
  <2>1. Idle \in [step : StepName, todo : SUBSET Channel, old : Slot, new : Slot] /\ 0 \in Slot
    BY ChannelIs DEF Idle, StepName, Slot
  <2>2. work \in WorkType
    BY <2>1 DEF Init, WorkType
  <2>3. switches \in 0 .. MaxSwitch
    BY SwitchAssumption DEF Init
  <2>4. mapUrc \in [UrcChannel -> Seq(Slot)]
    BY DEF Init
  <2>5. /\ need \in [Channel -> BOOLEAN] /\ restart \in [Channel -> BOOLEAN]
        /\ readerLock \in [Channel -> BOOLEAN]
        /\ sender \in [Channel -> {"idle", "handling", "waiting", "woken"}]
    BY DEF Init
  <2>6. /\ noReset \in BOOLEAN /\ halted \in BOOLEAN /\ major \in Slot /\ flag \in BOOLEAN
        /\ reading \subseteq Channel /\ own = None /\ old = 0 /\ new = 0
    BY DEF Init
  <2> QED BY <2>1, <2>2, <2>3, <2>4, <2>5, <2>6 DEF CoreType
<1>2. TypeOK
  BY <1>1, InitLinked, TypeSplit DEF PathsLinked, Linked
<1>3. \A w \in Worker : Step(w) = "idle"
  BY DEF Init, Step, Idle
<1>4. WorkInv
  BY <1>3 DEF Init, WorkInv, WorkOk, Outer, Inside
<1> QED BY <1>2, <1>4

PlaceInv == TypeOK /\ WorkInv /\ PathsLinked

LEMMA PlaceInvAlways == Spec => []PlaceInv
<1>1. Init => PlaceInv
  BY InitOk, InitLinked DEF PlaceInv
<1>2. PlaceInv /\ [Next]_vars => PlaceInv'
  <2> SUFFICES ASSUME PlaceInv, [Next]_vars PROVE PlaceInv'
    OBVIOUS
  <2>1. WorkInv' /\ PathsLinked' /\ CoreType'
    BY WorkStep, LinkedStep, TypeStep DEF PlaceInv
  <2>2. fd' \in [Channel -> Channel] /\ reader' \in [Channel -> Channel] /\ context' \in [Channel -> Channel]
    BY <2>1 DEF PathsLinked, Linked
  <2>3. TypeOK'
    BY <2>1, <2>2 DEF CoreType, TypeOK, WorkType, StepName
  <2> QED BY <2>1, <2>3 DEF PlaceInv
<1> QED BY <1>1, <1>2, PTL DEF Spec

(* The types of the switch: whatever a channel is switched to is a device, *)
(* and the threads are at places they have (SimSwitch!TypeOK).             *)
THEOREM SwitchTypeCorrect == Spec => []TypeOK
<1>1. PlaceInv => TypeOK
  BY DEF PlaceInv
<1> QED BY <1>1, PlaceInvAlways, PTL

(* switchChannelByRealId exchanges the device of the sender, the device of *)
(* the reader and the reader's context in three assignments: a channel     *)
(* always has all three of one device, in whatever order switches and      *)
(* +ESIMMAP lines exchange the channels.                                   *)
THEOREM PairedAlways == Spec => []Paired
<1>1. PlaceInv => Paired
  BY DEF PlaceInv, PathsLinked, Linked, Paired
<1> QED BY <1>1, PlaceInvAlways, PTL

-----------------------------------------------------------------------------
(***************************************************************************)
(* The channels follow the main protocol.                                  *)
(***************************************************************************)
\* The channels that the switching thread leaves to the +ESIMMAP handler.
Proxied(k) == noReset /\ k \in {URC, CMD_11}

\* It has exchanged class k, if at all.
Swapped(k) ==
  \/ Step(Switcher) = "free"
  \/ Step(Switcher) = "swap" /\ k \notin Todo(Switcher)
  \/ k = URC /\ Step(Switcher) \in Inside

MainOf(k) == IF own = None THEN major ELSE IF Swapped(k) THEN new ELSE old

ClassAt(k, m) == \A ch \in OfClass(k) : fd[ch] = PathFor(m)[ch]

MajorInv == own # None => major = IF Step(Switcher) \in {"sim", "swap", "free"} THEN new ELSE old
PathInv == MajorInv /\ \A k \in Class : Proxied(k) \/ ClassAt(k, MainOf(k))

LEMMA ClassFrame ==
  ASSUME NEW k \in Class, Proxied(k) \/ ClassAt(k, MainOf(k)), noReset' = noReset,
         ~Proxied(k) => (\A ch \in OfClass(k) : fd'[ch] = fd[ch]) /\ MainOf(k)' = MainOf(k)
  PROVE  Proxied(k)' \/ ClassAt(k, MainOf(k))'
<1>1. CASE Proxied(k)
  BY <1>1 DEF Proxied
<1>2. CASE ~Proxied(k)
  <2> DEFINE m == MainOf(k)
  <2>1. MainOf(k)' = m
    BY <1>2
  <2> HIDE DEF m
  <2>2. ClassAt(k, m)
    BY <1>2 DEF m
  <2>3. \A ch \in OfClass(k) : fd'[ch] = PathFor(m)[ch]
    BY <1>2, <2>2 DEF ClassAt
  <2> QED BY <2>1, <2>3 DEF ClassAt
<1> QED BY <1>1, <1>2

LEMMA ClassMoved ==
  ASSUME NEW k \in Class, PathsLinked, NEW o \in Slot, NEW n \in Slot, SwitchChannel(k, o, n)
  PROVE  /\ ClassAt(k, o) => \A ch \in OfClass(k) : fd'[ch] = PathFor(n)[ch]
         /\ \A j \in Class \ {k} : \A ch \in OfClass(j) : fd'[ch] = fd[ch]
<1>1. \A ch \in Channel : ch % Offset # k => fd'[ch] = fd[ch]
  BY SwitchChannelFd DEF PathsLinked
<1>2. (\A ch \in OfClass(k) : fd[ch] = PathFor(o)[ch])
         => \A ch \in OfClass(k) : fd'[ch] = PathFor(n)[ch]
  BY SwitchChannelFd DEF PathsLinked
<1> QED BY <1>1, <1>2 DEF ClassAt, OfClass

\* All but the switching thread and the start of a switch.
LEMMA PathOthers ==
  ASSUME TypeOK, WorkInv, PathsLinked, PathInv, UNCHANGED <<noReset, major, own, old, new>>,
         \/ Step(Switcher)' = Step(Switcher) /\ Todo(Switcher)' = Todo(Switcher)
         \/ {Step(Switcher), Step(Switcher)'} \subseteq {"need", "restart", "reader", "wait", "prop"}
            /\ (Step(Switcher) \in Inside <=> Step(Switcher)' \in Inside)
         \/ Step(Switcher)' = "free" /\ Step(Switcher) = "free",
         \/ UNCHANGED fd
         \/ \E u \in UrcChannel : SwapUrc(u) \/ SwapCmd11(u)
  PROVE  PathInv'
<1>1. \A k \in Class : MainOf(k)' = MainOf(k)
  BY DEF MainOf, Swapped, Inside
<1>2. MajorInv'
  BY DEF MajorInv, PathInv
<1>3. ASSUME NEW k \in Class, ~Proxied(k) PROVE \A ch \in OfClass(k) : fd'[ch] = fd[ch]
  <2>1. CASE UNCHANGED fd
    BY <2>1
  <2>2. ASSUME NEW u \in UrcChannel, SwapUrc(u) \/ SwapCmd11(u)
        PROVE  \A ch \in OfClass(k) : fd'[ch] = fd[ch]
    <3>1. noReset /\ work[u].old \in Slot /\ work[u].new \in Slot
      BY <2>2, WorkerIs DEF SwapUrc, SwapCmd11, WorkInv, WorkOk, Step, TypeOK
    <3>2. PICK j \in {URC, CMD_11} : SwitchChannel(j, work[u].old, work[u].new)
      BY <2>2 DEF SwapUrc, SwapCmd11
    <3>3. j # k /\ j \in Class
      BY <1>3, <3>1, <3>2, Classes4 DEF Proxied
    <3> QED BY <3>1, <3>2, <3>3, ClassMoved
  <2> QED BY <2>1, <2>2
<1>4. \A k \in Class : Proxied(k)' \/ ClassAt(k, MainOf(k))'
  BY <1>1, <1>3, ClassFrame DEF PathInv
<1> QED BY <1>2, <1>4 DEF PathInv

LEMMA PathSwitching ==
  ASSUME TypeOK, WorkInv, PathsLinked, PathInv, Switching
  PROVE  PathInv'
<1> USE DEF buildVars, statusVars, lockVars, switchVars, pathVars
<1>1. own # None /\ noReset' = noReset
  BY WorkerIs DEF Switching, EfunFails, EfunDone, LocksDone, Esimmap, SetSimSwitchProp, SimInitDone,
     SimInitTimeout, Swap, Free, Reply, At, Step, WorkInv, WorkOk
<1>2. old \in Slot /\ new \in Slot /\ URC \in Class
  BY Classes4 DEF TypeOK
\* Steps that exchange nothing.
<1>3. ASSUME UNCHANGED fd, \A k \in Class : ~Proxied(k) => MainOf(k)' = MainOf(k), MajorInv'
      PROVE  PathInv'
  BY <1>1, <1>3, ClassFrame DEF PathInv
<1>4. CASE EfunFails \/ Reply
  <2>1. /\ own' = None /\ UNCHANGED <<fd, major>>
        /\ Step(Switcher) = "efun" \/ Step(Switcher) = "free"
    BY <1>4 DEF EfunFails, Reply, At, Step
  <2>2. \A k \in Class : MainOf(k)' = MainOf(k)
    BY <1>1, <2>1 DEF MainOf, Swapped, PathInv, MajorInv, Inside
  <2>3. MajorInv'
    BY <2>1 DEF MajorInv
  <2> QED BY <1>3, <2>1, <2>2, <2>3
<1>5. CASE EfunDone
  <2>1. Step(Switcher) = "efun" /\ Step(Switcher)' = "need" /\ UNCHANGED <<fd, own, major, old, new>>
    BY <1>5, ToIs DEF EfunDone, At, Step
  <2>2. \A k \in Class : MainOf(k)' = MainOf(k)
    BY <2>1 DEF MainOf, Swapped, Inside
  <2>3. MajorInv'
    BY <2>1 DEF MajorInv, PathInv
  <2> QED BY <1>3, <2>1, <2>2, <2>3
<1>6. CASE LocksDone
  <2>1. /\ Step(Switcher) = "need" /\ Step(Switcher)' = "esimmap"
        /\ UNCHANGED <<own, major, old, new>>
    BY <1>6, ToIs DEF LocksDone, At, Step
  <2>2. \A k \in Class : MainOf(k) = old /\ MainOf(k)' = IF k = URC THEN new ELSE old
    BY <1>1, <2>1 DEF MainOf, Swapped, Inside
  <2>3. MajorInv'
    BY <2>1 DEF MajorInv, PathInv
  <2>4. CASE noReset
    <3>1. UNCHANGED fd
      BY <1>6, <2>4 DEF LocksDone
    <3>2. \A k \in Class : ~Proxied(k) => MainOf(k)' = MainOf(k)
      BY <2>2, <2>4 DEF Proxied
    <3> QED BY <1>3, <2>3, <3>1, <3>2
  <2>5. CASE ~noReset
    <3>1. SwitchChannel(URC, old, new)
      BY <1>6, <2>5 DEF LocksDone
    <3>2. \A k \in Class \ {URC} : Proxied(k)' \/ ClassAt(k, MainOf(k))'
      <4> SUFFICES ASSUME NEW k \in Class \ {URC} PROVE Proxied(k)' \/ ClassAt(k, MainOf(k))'
        OBVIOUS
      <4>1. \A ch \in OfClass(k) : fd'[ch] = fd[ch]
        BY <1>2, <3>1, ClassMoved
      <4> QED BY <1>1, <2>2, <4>1, ClassFrame DEF PathInv
    <3>3. ClassAt(URC, old)
      <4>1. Proxied(URC) \/ ClassAt(URC, MainOf(URC))
        BY <1>2 DEF PathInv
      <4> QED BY <1>2, <2>2, <2>5, <4>1 DEF Proxied
    <3>4. \A ch \in OfClass(URC) : fd'[ch] = PathFor(new)[ch]
      BY <1>2, <3>1, <3>3, ClassMoved
    <3>5. ClassAt(URC, MainOf(URC))'
      BY <1>2, <2>2, <3>4 DEF ClassAt
    <3> QED BY <2>3, <3>2, <3>5 DEF PathInv
  <2> QED BY <2>4, <2>5
<1>7. CASE Esimmap
  <2>1. /\ Step(Switcher) = "esimmap" /\ Step(Switcher)' = "wait"
        /\ UNCHANGED <<fd, own, major, old, new>>
    BY <1>7, ToIs DEF Esimmap, At, Step
  <2>2. \A k \in Class : MainOf(k)' = MainOf(k)
    BY <2>1 DEF MainOf, Swapped, Inside
  <2>3. MajorInv'
    BY <2>1 DEF MajorInv, PathInv
  <2> QED BY <1>3, <2>1, <2>2, <2>3
<1>8. CASE SetSimSwitchProp \/ SimInitDone
  <2>1. /\ Step(Switcher) \in {"prop", "sim"}
        /\ \/ Step(Switcher)' = "sim"
           \/ Step(Switcher)' = "swap" /\ Todo(Switcher)' = Classes
        /\ UNCHANGED <<fd, own, old, new>>
    BY <1>8, ToIs DEF SetSimSwitchProp, SimInitDone, At, Step
  <2>2. ASSUME NEW k \in Class, ~Proxied(k) PROVE MainOf(k)' = MainOf(k)
    <3>1. k = URC \/ k \in Classes
      BY <2>2, Classes4 DEF Proxied, Classes
    <3>2. k \in Classes => k # URC
      BY Classes4 DEF Classes
    <3>3. Swapped(k) <=> k = URC
      BY <2>1 DEF Swapped, Inside
    <3>4. Swapped(k)' <=> k = URC
      BY <2>1, <3>1, <3>2 DEF Swapped, Inside
    <3> QED BY <1>1, <2>1, <3>3, <3>4 DEF MainOf
  <2>3. major' = new
    BY <1>1, <1>8, <2>1 DEF SetSimSwitchProp, SimInitDone, MajorInv, PathInv, At, Step
  <2>4. MajorInv'
    BY <2>1, <2>3 DEF MajorInv
  <2> QED BY <1>3, <2>1, <2>2, <2>4
<1>9. CASE SimInitTimeout
  <2>1. UNCHANGED <<fd, own, major, old, new, work>>
    BY <1>9 DEF SimInitTimeout
  <2>2. \A k \in Class : MainOf(k)' = MainOf(k)
    BY <2>1 DEF MainOf, Swapped, Inside, Step, Todo
  <2>3. MajorInv'
    BY <2>1 DEF MajorInv, PathInv, Step
  <2> QED BY <1>3, <2>1, <2>2, <2>3
<1>10. CASE Swap
  <2>1. PICK j \in Class :
           /\ j \in Classes /\ j \in Todo(Switcher)
           /\ Step(Switcher) = "swap" /\ Step(Switcher)' = "swap"
           /\ Todo(Switcher)' = Todo(Switcher) \ {j}
           /\ SwitchChannel(j, old, new)
           /\ UNCHANGED <<own, major, old, new>>
    BY <1>10, SwapIs DEF Swap
  <2>2. j # URC /\ ~Proxied(j)
    BY <2>1, Classes4 DEF Classes, Proxied
  <2>3. MainOf(j) = old /\ MainOf(j)' = new
    BY <1>1, <2>1, <2>2 DEF MainOf, Swapped
  <2>4. \A k \in Class \ {j} : MainOf(k)' = MainOf(k)
    BY <2>1 DEF MainOf, Swapped, Inside
  <2>5. \A k \in Class \ {j} : Proxied(k)' \/ ClassAt(k, MainOf(k))'
    <3> SUFFICES ASSUME NEW k \in Class \ {j} PROVE Proxied(k)' \/ ClassAt(k, MainOf(k))'
      OBVIOUS
    <3>1. \A ch \in OfClass(k) : fd'[ch] = fd[ch]
      BY <1>2, <2>1, ClassMoved
    <3> QED BY <1>1, <2>4, <3>1, ClassFrame DEF PathInv
  <2>6. ClassAt(j, old)
    BY <2>1, <2>2, <2>3 DEF PathInv
  <2>7. \A ch \in OfClass(j) : fd'[ch] = PathFor(new)[ch]
    BY <1>2, <2>1, <2>6, ClassMoved
  <2>8. ClassAt(j, MainOf(j))'
    BY <2>1, <2>3, <2>7 DEF ClassAt
  <2>9. MajorInv'
    BY <2>1 DEF MajorInv, PathInv
  <2> QED BY <2>5, <2>8, <2>9 DEF PathInv
<1>11. CASE Free
  <2>1. /\ Step(Switcher) = "swap" /\ Step(Switcher)' = "free" /\ Todo(Switcher) = {}
        /\ UNCHANGED <<fd, own, major, old, new>>
    BY <1>11, ToIs DEF Free, At, Step, Todo
  <2>2. \A k \in Class : MainOf(k)' = MainOf(k)
    BY <2>1 DEF MainOf, Swapped, Inside
  <2>3. MajorInv'
    BY <2>1 DEF MajorInv, PathInv
  <2> QED BY <1>3, <2>1, <2>2, <2>3
<1> QED BY <1>4, <1>5, <1>6, <1>7, <1>8, <1>9, <1>10, <1>11 DEF Switching

LEMMA PathStart ==
  ASSUME TypeOK, PathInv, Start
  PROVE  PathInv'
<1>1. own = None /\ own' # None /\ old' = major /\ UNCHANGED <<noReset, major, fd>>
  <2>1. own' \in Channel
    BY WorkerIs, LocksIs DEF Start
  <2> QED BY <2>1, WorkerIs DEF Start, buildVars, statusVars, pathVars
<1>2. Step(Switcher)' = "efun"
  BY ToIs DEF Start
<1>3. MajorInv'
  BY <1>1, <1>2 DEF MajorInv
<1>4. \A k \in Class : MainOf(k)' = MainOf(k)
  BY <1>1, <1>2 DEF MainOf, Swapped, Inside
<1> QED BY <1>1, <1>3, <1>4, ClassFrame DEF PathInv

LEMMA UrcAlone ==
  ASSUME TypeOK, NEW u \in UrcChannel, Entered(u) \/ HandleUrc(u)
  PROVE  work'[Switcher] = work[Switcher]
<1>1. CASE Entered(u) \/ UnlockReader(u)
  <2>1. PICK r : work' = [work EXCEPT ![u] = r]
    BY <1>1 DEF Entered, UnlockReader
  <2> QED BY <2>1, WorkerIs DEF TypeOK
<1>2. CASE CheckIfSwitch(u) \/ SwapUrc(u) \/ SwapCmd11(u) \/ FreeReaders(u)
  <2>1. PICK step, todo : work' = UrcStep(u, step, todo) \/ work' = [work EXCEPT ![u] = Idle]
    BY <1>2 DEF CheckIfSwitch, SwapUrc, SwapCmd11, FreeReaders
  <2> QED BY <2>1, UrcStepIs, IdleIs, WorkerIs
<1> QED BY <1>1, <1>2 DEF HandleUrc

LEMMA LockingPlaces ==
  ASSUME TypeOK, NEW w \in Worker, Locking(w)
  PROVE  /\ \A v \in Worker \ {w} : work'[v] = work[v]
         /\ \/ {Step(w), Step(w)'} \subseteq {"need", "restart", "reader"}
            \/ Step(w) \in {"readers", "free"} /\ Step(w)' = Step(w)
  BY StepIs, LaterIs, LockReaderIs DEF Locking, SetNeed, LockRestart, LockReader, Unlock, Step

LEMMA PathStep == PlaceInv /\ PathInv /\ [Next]_vars => PathInv'
<1> SUFFICES ASSUME TypeOK, WorkInv, PathsLinked, PathInv, [Next]_vars PROVE PathInv'
  BY DEF PlaceInv
<1> USE DEF buildVars, statusVars, switchVars, pathVars
<1>1. ASSUME NEW ch \in Channel, Handle(ch) \/ Finish(ch) \/ Spurious(ch) \/ Resume(ch)
      PROVE  PathInv'
  <2>1. UNCHANGED <<noReset, major, own, old, new, fd, work>>
    BY <1>1 DEF Handle, Finish, Spurious, Resume
  <2> QED BY <2>1, PathOthers DEF Step, Todo
<1>2. ASSUME NEW d \in Channel, Read(d) \/ Release(d)
      PROVE  PathInv'
  <2>1. UNCHANGED <<noReset, major, own, old, new, fd>>
    BY <1>2 DEF Read, Release
  <2>2. \/ UNCHANGED work
        \/ Step(Switcher) = "wait" /\ work' = [work EXCEPT ![Switcher].step = "prop"]
    BY <1>2 DEF Read, Release, Step
  <2>3. CASE UNCHANGED work
    BY <2>1, <2>3, PathOthers DEF Step, Todo
  <2>4. CASE Step(Switcher) = "wait" /\ work' = [work EXCEPT ![Switcher].step = "prop"]
    <3>1. Step(Switcher)' = "prop"
      BY <2>4, StepIs, WorkerIs
    <3> QED BY <2>1, <2>4, <3>1, PathOthers DEF Inside
  <2> QED BY <2>2, <2>3, <2>4
<1>3. ASSUME NEW u \in UrcChannel, Entered(u) \/ HandleUrc(u)
      PROVE  PathInv'
  <2>1. UNCHANGED <<noReset, major, own, old, new>>
    BY <1>3 DEF Entered, HandleUrc, CheckIfSwitch, SwapUrc, SwapCmd11, FreeReaders, UnlockReader, lockVars
  <2>2. UNCHANGED fd \/ SwapUrc(u) \/ SwapCmd11(u)
    BY <1>3 DEF Entered, HandleUrc, CheckIfSwitch, FreeReaders, UnlockReader
  <2>3. work'[Switcher] = work[Switcher]
    BY <1>3, UrcAlone
  <2> QED BY <2>1, <2>2, <2>3, PathOthers DEF Step, Todo
<1>4. ASSUME NEW w \in Worker, Locking(w)
      PROVE  PathInv'
  <2>1. UNCHANGED <<noReset, major, own, old, new, fd>>
    BY <1>4 DEF Locking, SetNeed, LockRestart, LockReader, Unlock
  <2>2. /\ \A v \in Worker \ {w} : work'[v] = work[v]
        /\ \/ {Step(w), Step(w)'} \subseteq {"need", "restart", "reader"}
           \/ Step(w) \in {"readers", "free"} /\ Step(w)' = Step(w)
    BY <1>4, LockingPlaces
  <2>3. CASE w = Switcher
    <3>1. Step(w) # "readers"
      BY <2>3, WorkerIs DEF WorkInv, WorkOk, Outer, Inside
    <3> QED BY <2>1, <2>2, <2>3, <3>1, PathOthers DEF Inside
  <2>4. CASE w # Switcher
    <3>1. work'[Switcher] = work[Switcher]
      BY <2>2, <2>4, WorkerIs
    <3> QED BY <2>1, <3>1, PathOthers DEF Step, Todo
  <2> QED BY <2>3, <2>4
<1>5. CASE UNCHANGED vars
  <2>1. UNCHANGED <<noReset, major, own, old, new, fd, work>>
    BY <1>5 DEF vars
  <2> QED BY <2>1, PathOthers DEF Step, Todo
<1> QED BY <1>1, <1>2, <1>3, <1>4, <1>5, PathStart, PathSwitching DEF Next, Senders, Readers

LEMMA InitPath == Init => PathInv
  BY DEF Init, PathInv, MajorInv, MainOf, ClassAt

(* The exchanges "from old main slot to slot 0" and "from 0 to new main    *)
(* slot id", class by class, put every channel of the switching thread on  *)
(* the device of its slot's protocol, after any number of switches.        *)
THEOREM PathFollowsMajorAlways == Spec => []PathFollowsMajor
<1>1. Init => PathInv
  BY InitPath
<1>2. PlaceInv /\ PathInv /\ [Next]_vars => PathInv'
  BY PathStep
<1>3. PathInv => PathFollowsMajor
  <2> SUFFICES ASSUME PathInv, own = None, NEW ch \in Channel, ~(noReset /\ ch % Offset \in {URC, CMD_11})
               PROVE  fd[ch] = PathFor(major)[ch]
    BY DEF PathFollowsMajor
  <2>1. ch % Offset \in Class /\ ch \in OfClass(ch % Offset)
    BY ChannelIs DEF OfClass
  <2>2. ClassAt(ch % Offset, major)
    BY <2>1 DEF PathInv, MainOf, Proxied
  <2> QED BY <2>1, <2>2 DEF ClassAt
<1> QED BY <1>1, <1>2, <1>3, PlaceInvAlways, PTL DEF Spec

-----------------------------------------------------------------------------
(***************************************************************************)
(* What the workers have locked.                                           *)
(***************************************************************************)
Held(w) ==
  CASE Step(w) \in {"need", "restart"} -> Locks(w) \ Todo(w)
    [] Step(w) = "reader" -> (Locks(w) \ Todo(w)) \union {Next1(w)}
    [] Step(w) \in Inside -> Locks(w)
    [] Step(w) = "free" -> Todo(w)
    [] OTHER -> {}

\* The readers that the worker of a URC channel locks first and frees last.
Outermost(w) == IF w = Switcher THEN {} ELSE UrcChannel
HeldReaders(w) ==
  CASE Step(w) \in {"need", "restart", "reader"} -> (Locks(w) \ Todo(w)) \union Outermost(w)
    [] Step(w) \in Inside -> Locks(w)
    [] Step(w) = "free" -> Todo(w) \union Outermost(w)
    [] Step(w) = "readers" -> UrcChannel \ Todo(w)
    [] Step(w) = "freeReaders" -> Todo(w)
    [] OTHER -> {}

HoldsSame(w) == Held(w)' = Held(w) /\ HeldReaders(w)' = HeldReaders(w)

LEMMA HeldSteps ==
  ASSUME NEW w
  PROVE  /\ Step(w) \in {"idle", "efun", "entered"} => Held(w) = {} /\ HeldReaders(w) = {}
         /\ Step(w) \in {"need", "restart"} => Held(w) = Locks(w) \ Todo(w)
         /\ Step(w) = "reader" => Held(w) = (Locks(w) \ Todo(w)) \union {Next1(w)}
         /\ Step(w) \in {"need", "restart", "reader"} =>
              HeldReaders(w) = (Locks(w) \ Todo(w)) \union Outermost(w)
         /\ Step(w) \in Inside => Held(w) = Locks(w) /\ HeldReaders(w) = Locks(w)
         /\ Step(w) = "free" => Held(w) = Todo(w) /\ HeldReaders(w) = Todo(w) \union Outermost(w)
         /\ Step(w) = "readers" => Held(w) = {} /\ HeldReaders(w) = UrcChannel \ Todo(w)
         /\ Step(w) = "freeReaders" => Held(w) = {} /\ HeldReaders(w) = Todo(w)
  BY DEF Held, HeldReaders, Inside

LEMMA HeldStepsNext ==
  ASSUME NEW w
  PROVE  /\ Step(w)' \in {"idle", "efun", "entered"} => Held(w)' = {} /\ HeldReaders(w)' = {}
         /\ Step(w)' \in {"need", "restart"} => Held(w)' = Locks(w)' \ Todo(w)'
         /\ Step(w)' = "reader" => Held(w)' = (Locks(w)' \ Todo(w)') \union {Next1(w)'}
         /\ Step(w)' \in {"need", "restart", "reader"} =>
              HeldReaders(w)' = (Locks(w)' \ Todo(w)') \union Outermost(w)
         /\ Step(w)' \in Inside => Held(w)' = Locks(w)' /\ HeldReaders(w)' = Locks(w)'
         /\ Step(w)' = "free" => Held(w)' = Todo(w)' /\ HeldReaders(w)' = Todo(w)' \union Outermost(w)
         /\ Step(w)' = "readers" => Held(w)' = {} /\ HeldReaders(w)' = UrcChannel \ Todo(w)'
         /\ Step(w)' = "freeReaders" => Held(w)' = {} /\ HeldReaders(w)' = Todo(w)'
  BY DEF Held, HeldReaders, Inside, Outermost

LEMMA HeldFrame ==
  ASSUME NEW w, Step(w)' = Step(w), Todo(w)' = Todo(w), Locks(w)' = Locks(w)
  PROVE  HoldsSame(w)
<1>1. Next1(w)' = Next1(w) /\ Outermost(w)' = Outermost(w)
  BY DEF Next1, Todo, Outermost
<1> QED BY <1>1 DEF HoldsSame, Held, HeldReaders

\* Whoever stays at a place where nothing is locked, or with the same channels.
LEMMA HeldKept ==
  ASSUME NEW w \in Worker, work'[w] = work[w], noReset' = noReset, w = Switcher => own' = own
  PROVE  HoldsSame(w)
<1>1. Step(w)' = Step(w) /\ Todo(w)' = Todo(w) /\ Locks(w)' = Locks(w)
  BY DEF Step, Todo, Locks, Locked, Plain
<1> QED BY <1>1, HeldFrame

LEMMA HeldLocking ==
  ASSUME TypeOK, WorkInv, NEW w \in Worker, Locking(w)
  PROVE  /\ \A v \in Worker \ {w} : HoldsSame(v)
         /\ \/ SetNeed(w) /\ HoldsSame(w)
            \/ /\ LockRestart(w) /\ HeldReaders(w)' = HeldReaders(w)
               /\ Held(w)' = Held(w) \union {Next1(w)}
            \/ /\ LockReader(w) /\ HeldReaders(w)' = HeldReaders(w) \union {Next1(w)}
               /\ Held(w)' = Held(w)
            \/ /\ Unlock(w) /\ HeldReaders(w)' = HeldReaders(w) \ {Next1(w)}
               /\ Held(w)' = Held(w) \ {Next1(w)} /\ Next1(w) \in Held(w)
<1>1. UNCHANGED <<noReset, own>> /\ Locks(w)' = Locks(w)
  <2>1. UNCHANGED <<noReset, own>>
    BY DEF Locking, SetNeed, LockRestart, LockReader, Unlock, buildVars, switchVars
  <2> QED BY <2>1 DEF Locks, Locked, Plain
<1>2. Todo(w) # {} /\ WorkOk(w)
  BY DEF Locking, SetNeed, LockRestart, LockReader, Unlock, WorkInv, WorkOk, Step, Todo
<1>3. Next1(w) \in Todo(w) /\ Next1(w) \in Channel
  BY <1>2, Next1Is
<1>4. ASSUME \A v \in Worker \ {w} : work'[v] = work[v]
      PROVE  \A v \in Worker \ {w} : HoldsSame(v)
  BY <1>1, <1>4, HeldKept
<1>5. CASE SetNeed(w)
  <2>1. /\ Step(w)' = "restart" /\ Todo(w)' = Todo(w) /\ Step(w) = "need"
        /\ \A v \in Worker \ {w} : work'[v] = work[v]
    BY <1>5, StepIs DEF SetNeed, Step
  <2>2. Held(w)' = Locks(w) \ Todo(w) /\ HeldReaders(w)' = (Locks(w) \ Todo(w)) \union Outermost(w)
    BY <1>1, <2>1, HeldStepsNext
  <2>3. HoldsSame(w)
    BY <2>1, <2>2, HeldSteps DEF HoldsSame
  <2> QED BY <1>4, <1>5, <2>1, <2>3
<1>6. CASE LockRestart(w)
  <2>1. /\ Step(w)' = "reader" /\ Todo(w)' = Todo(w) /\ Step(w) = "restart"
        /\ \A v \in Worker \ {w} : work'[v] = work[v]
    BY <1>6, StepIs DEF LockRestart, Step
  <2>2. Next1(w)' = Next1(w)
    BY <2>1 DEF Next1, Todo
  <2>3. /\ Held(w)' = (Locks(w) \ Todo(w)) \union {Next1(w)}
        /\ HeldReaders(w)' = (Locks(w) \ Todo(w)) \union Outermost(w)
    BY <1>1, <2>1, <2>2, HeldStepsNext
  <2>4. Held(w)' = Held(w) \union {Next1(w)} /\ HeldReaders(w)' = HeldReaders(w)
    BY <2>1, <2>3, HeldSteps
  <2> QED BY <1>4, <1>6, <2>1, <2>4
<1>7. CASE LockReader(w)
  <2>1. /\ Step(w)' = IF Step(w) = "reader" THEN "need" ELSE Step(w)
        /\ Todo(w)' = Todo(w) \ {Next1(w)}
        /\ \A v \in Worker \ {w} : work'[v] = work[v]
        /\ Step(w) \in {"reader", "readers"}
    BY <1>7, LockReaderIs DEF LockReader, Step
  <2>2. CASE Step(w) = "reader"
    <3>1. Next1(w) \in Locks(w)
      BY <1>2, <1>3, <2>2 DEF WorkOk, Outer
    <3>2. /\ Held(w)' = Locks(w) \ (Todo(w) \ {Next1(w)})
          /\ HeldReaders(w)' = (Locks(w) \ (Todo(w) \ {Next1(w)})) \union Outermost(w)
      BY <1>1, <2>1, <2>2, HeldStepsNext
    <3>3. Held(w)' = Held(w) /\ HeldReaders(w)' = HeldReaders(w) \union {Next1(w)}
      BY <2>2, <3>1, <3>2, HeldSteps
    <3> QED BY <1>4, <1>7, <2>1, <3>3
  <2>3. CASE Step(w) = "readers"
    <3>1. Next1(w) \in UrcChannel
      BY <1>2, <1>3, <2>3, WorkerIs DEF WorkOk, Outer, Inside
    <3>2. Held(w)' = {} /\ HeldReaders(w)' = UrcChannel \ (Todo(w) \ {Next1(w)})
      BY <1>1, <2>1, <2>3, HeldStepsNext
    <3>3. Held(w)' = Held(w) /\ HeldReaders(w)' = HeldReaders(w) \union {Next1(w)}
      BY <2>3, <3>1, <3>2, HeldSteps
    <3> QED BY <1>4, <1>7, <2>1, <3>3
  <2> QED BY <2>1, <2>2, <2>3
<1>8. CASE Unlock(w)
  <2>1. /\ Step(w)' = Step(w) /\ Todo(w)' = Todo(w) \ {Next1(w)} /\ Step(w) = "free"
        /\ \A v \in Worker \ {w} : work'[v] = work[v]
    BY <1>8, LaterIs DEF Unlock, Step
  <2>2. Next1(w) \notin Outermost(w)
    BY <1>2, <1>3, <2>1, Classes4 DEF WorkOk, Outer, Locks, Outermost, UrcChannel, OfClass
  <2>3. Held(w)' = Todo(w) \ {Next1(w)} /\ HeldReaders(w)' = (Todo(w) \ {Next1(w)}) \union Outermost(w)
    BY <1>1, <2>1, HeldStepsNext
  <2>4. Held(w)' = Held(w) \ {Next1(w)} /\ HeldReaders(w)' = HeldReaders(w) \ {Next1(w)} /\ Next1(w) \in Held(w)
    BY <1>3, <2>1, <2>2, <2>3, HeldSteps
  <2> QED BY <1>4, <1>8, <2>1, <2>4
<1> QED BY <1>5, <1>6, <1>7, <1>8 DEF Locking

LEMMA HeldSwitching ==
  ASSUME TypeOK, WorkInv, Switching
  PROVE  \A w \in Worker : HoldsSame(w)
<1> USE DEF buildVars, switchVars
<1>1. /\ noReset' = noReset
      /\ \A u \in UrcChannel : work'[u] = work[u]
  BY ToIs DEF Switching, EfunFails, EfunDone, LocksDone, Esimmap, SetSimSwitchProp,
     SimInitDone, SimInitTimeout, Swap, Free, Reply
<1>2. \A u \in UrcChannel : HoldsSame(u)
  BY <1>1, HeldKept, WorkerIs
<1>3. CASE EfunFails \/ Reply
  <2>1. /\ Step(Switcher) = "efun" \/ (Step(Switcher) = "free" /\ Todo(Switcher) = {})
        /\ Step(Switcher)' = "idle"
    BY <1>3, ToIs DEF EfunFails, Reply, At, Step, Todo
  <2>2. Held(Switcher) = {} /\ HeldReaders(Switcher) = {}
    BY <2>1, HeldSteps DEF Outermost
  <2>3. Held(Switcher)' = {} /\ HeldReaders(Switcher)' = {}
    BY <2>1, HeldStepsNext
  <2> QED BY <1>2, <2>2, <2>3, WorkerIs DEF HoldsSame
<1>4. ASSUME ~(EfunFails \/ Reply) PROVE own' = own /\ Locks(Switcher)' = Locks(Switcher)
  BY <1>1, <1>4 DEF Switching, EfunDone, LocksDone, Esimmap, SetSimSwitchProp,
     SimInitDone, SimInitTimeout, Swap, Free, Locks, Locked, Plain
<1>5. CASE EfunDone /\ ~(EfunFails \/ Reply)
  <2>1. Step(Switcher) = "efun" /\ Step(Switcher)' = "need" /\ Todo(Switcher)' = Locks(Switcher)
    BY <1>5, ToIs DEF EfunDone, At, Step, Locks
  <2>2. Held(Switcher) = {} /\ HeldReaders(Switcher) = {}
    BY <2>1, HeldSteps
  <2>3. Held(Switcher)' = {} /\ HeldReaders(Switcher)' = {}
    BY <1>4, <1>5, <2>1, HeldStepsNext DEF Outermost
  <2> QED BY <1>2, <2>2, <2>3, WorkerIs DEF HoldsSame
<1>6. CASE /\ LocksDone \/ Esimmap \/ SetSimSwitchProp \/ SimInitDone \/ Swap
           /\ ~(EfunFails \/ Reply)
  <2>1. /\ Step(Switcher) \in Inside \/ (Step(Switcher) = "need" /\ Todo(Switcher) = {})
        /\ Step(Switcher)' \in Inside
    BY <1>6, ToIs DEF LocksDone, Esimmap, SetSimSwitchProp, SimInitDone, Swap, At, Step, Todo, Inside
  <2>2. Held(Switcher) = Locks(Switcher) /\ HeldReaders(Switcher) = Locks(Switcher)
    BY <2>1, HeldSteps DEF Outermost
  <2>3. Held(Switcher)' = Locks(Switcher) /\ HeldReaders(Switcher)' = Locks(Switcher)
    BY <1>4, <1>6, <2>1, HeldStepsNext
  <2> QED BY <1>2, <2>2, <2>3, WorkerIs DEF HoldsSame
<1>7. CASE Free /\ ~(EfunFails \/ Reply)
  <2>1. Step(Switcher) = "swap" /\ Step(Switcher)' = "free" /\ Todo(Switcher)' = Locks(Switcher)
    BY <1>7, ToIs DEF Free, At, Step, Locks
  <2>2. Held(Switcher) = Locks(Switcher) /\ HeldReaders(Switcher) = Locks(Switcher)
    BY <2>1, HeldSteps DEF Inside
  <2>3. Held(Switcher)' = Locks(Switcher) /\ HeldReaders(Switcher)' = Locks(Switcher)
    BY <1>4, <1>7, <2>1, HeldStepsNext DEF Outermost
  <2> QED BY <1>2, <2>2, <2>3, WorkerIs DEF HoldsSame
<1>8. CASE SimInitTimeout /\ ~(EfunFails \/ Reply)
  <2>1. work'[Switcher] = work[Switcher]
    BY <1>8 DEF SimInitTimeout
  <2> QED BY <1>1, <1>2, <1>4, <1>8, <2>1, HeldKept, WorkerIs
<1> QED BY <1>3, <1>5, <1>6, <1>7, <1>8 DEF Switching

LEMMA HeldStart ==
  ASSUME TypeOK, WorkInv, Start
  PROVE  \A w \in Worker : HoldsSame(w)
<1>1. noReset' = noReset /\ Step(Switcher)' = "efun" /\ \A u \in UrcChannel : work'[u] = work[u]
  BY ToIs DEF Start, buildVars
<1>2. Step(Switcher) = "idle"
  BY WorkerIs DEF Start, WorkInv, WorkOk
<1>3. HoldsSame(Switcher)
  BY <1>1, <1>2 DEF HoldsSame, Held, HeldReaders, Inside
<1> QED BY <1>1, <1>3, HeldKept, WorkerIs

LEMMA HeldUrc ==
  ASSUME TypeOK, WorkInv, NEW u \in UrcChannel, Entered(u) \/ HandleUrc(u)
  PROVE  /\ \A v \in Worker \ {u} : HoldsSame(v)
         /\ Held(u)' = Held(u)
         /\ \/ HeldReaders(u)' = HeldReaders(u) /\ UNCHANGED readerLock
            \/ /\ Next1(u) \in HeldReaders(u)
               /\ HeldReaders(u)' = HeldReaders(u) \ {Next1(u)}
               /\ readerLock' = [readerLock EXCEPT ![Next1(u)] = FALSE]
<1> USE DEF buildVars, switchVars, lockVars
<1>1. u \in Worker /\ u # Switcher /\ Locks(u) = OfClass(CMD_11) /\ Outermost(u) = UrcChannel
  BY WorkerIs DEF Locks, Outermost
<1>2. UNCHANGED <<noReset, own>> /\ Locks(u)' = Locks(u)
  BY <1>1 DEF Entered, HandleUrc, CheckIfSwitch, SwapUrc, SwapCmd11, FreeReaders, UnlockReader, Locks
<1>3. ASSUME \A v \in Worker \ {u} : work'[v] = work[v]
      PROVE  \A v \in Worker \ {u} : HoldsSame(v)
  BY <1>2, <1>3, HeldKept
<1>4. CASE Entered(u)
  <2>1. Step(u)' = "entered" /\ \A v \in Worker \ {u} : work'[v] = work[v]
    BY <1>1, <1>4 DEF Entered, TypeOK, Step
  <2>2. Step(u) = "idle"
    BY <1>1, <1>4 DEF Entered, TakeMessage, WorkInv, WorkOk
  <2>3. UNCHANGED readerLock
    BY <1>4 DEF Entered
  <2> QED BY <1>3, <2>1, <2>2, <2>3, HeldSteps, HeldStepsNext
<1>5. CASE CheckIfSwitch(u)
  <2>1. Step(u) = "entered" /\ UNCHANGED readerLock
    BY <1>5 DEF CheckIfSwitch, Step
  <2>2. work' = UrcStep(u, "readers", UrcChannel) \/ work' = [work EXCEPT ![u] = Idle]
    BY <1>5 DEF CheckIfSwitch, UrcChannel
  <2>3. /\ \A v \in Worker \ {u} : work'[v] = work[v]
        /\ Step(u)' = "idle" \/ (Step(u)' = "readers" /\ Todo(u)' = UrcChannel)
    BY <2>2, UrcStepIs, IdleIs
  <2> QED BY <1>3, <2>1, <2>3, HeldSteps, HeldStepsNext
<1>6. CASE SwapUrc(u)
  <2>1. /\ Step(u) = "readers" /\ Todo(u) = {} /\ UNCHANGED readerLock
        /\ work' = UrcStep(u, "need", OfClass(CMD_11))
    BY <1>6 DEF SwapUrc, Step, Todo
  <2>2. /\ \A v \in Worker \ {u} : work'[v] = work[v]
        /\ Step(u)' = "need" /\ Todo(u)' = OfClass(CMD_11)
    BY <2>1, UrcStepIs
  <2>3. Held(u) = {} /\ HeldReaders(u) = UrcChannel
    BY <2>1, HeldSteps
  <2>4. Held(u)' = {} /\ HeldReaders(u)' = UrcChannel
    BY <1>1, <1>2, <2>2, HeldStepsNext
  <2> QED BY <1>3, <2>1, <2>2, <2>3, <2>4
<1>7. CASE SwapCmd11(u)
  <2>1. /\ Step(u) = "need" /\ Todo(u) = {} /\ UNCHANGED readerLock
        /\ work' = UrcStep(u, "free", OfClass(CMD_11))
    BY <1>7 DEF SwapCmd11, Step, Todo
  <2>2. /\ \A v \in Worker \ {u} : work'[v] = work[v]
        /\ Step(u)' = "free" /\ Todo(u)' = OfClass(CMD_11)
    BY <2>1, UrcStepIs
  <2>3. Held(u) = OfClass(CMD_11) /\ HeldReaders(u) = OfClass(CMD_11) \union UrcChannel
    BY <1>1, <2>1, HeldSteps
  <2>4. Held(u)' = OfClass(CMD_11) /\ HeldReaders(u)' = OfClass(CMD_11) \union UrcChannel
    BY <1>1, <1>2, <2>2, HeldStepsNext
  <2> QED BY <1>3, <2>1, <2>2, <2>3, <2>4
<1>8. CASE FreeReaders(u)
  <2>1. /\ Step(u) = "free" /\ Todo(u) = {} /\ UNCHANGED readerLock
        /\ work' = UrcStep(u, "freeReaders", UrcChannel)
    BY <1>8 DEF FreeReaders, Step, Todo, UrcChannel
  <2>2. /\ \A v \in Worker \ {u} : work'[v] = work[v]
        /\ Step(u)' = "freeReaders" /\ Todo(u)' = UrcChannel
    BY <2>1, UrcStepIs
  <2>3. Held(u) = {} /\ HeldReaders(u) = UrcChannel
    BY <1>1, <2>1, HeldSteps
  <2>4. Held(u)' = {} /\ HeldReaders(u)' = UrcChannel
    BY <2>2, HeldStepsNext
  <2> QED BY <1>3, <2>1, <2>2, <2>3, <2>4
<1>9. CASE UnlockReader(u)
  <2>1. Step(u) = "freeReaders"
    BY <1>9 DEF UnlockReader, Step
  <2>2. Held(u) = {} /\ HeldReaders(u) = Todo(u)
    BY <2>1, HeldSteps
  <2>3. CASE Todo(u) = {}
    <3>1. work' = [work EXCEPT ![u] = Idle] /\ UNCHANGED readerLock
      BY <1>9, <2>3 DEF UnlockReader, Todo
    <3>2. Step(u)' = "idle" /\ \A v \in Worker \ {u} : work'[v] = work[v]
      BY <3>1, IdleIs
    <3> QED BY <1>3, <2>2, <2>3, <3>1, <3>2, HeldStepsNext
  <2>4. CASE Todo(u) # {}
    <3>1. work' = [work EXCEPT ![u] = Later(u)] /\ readerLock' = [readerLock EXCEPT ![Next1(u)] = FALSE]
      BY <1>9, <2>4 DEF UnlockReader, Todo
    <3>2. /\ Step(u)' = "freeReaders" /\ Todo(u)' = Todo(u) \ {Next1(u)}
          /\ \A v \in Worker \ {u} : work'[v] = work[v]
      BY <1>1, <2>1, <3>1, LaterIs
    <3>3. Next1(u) \in Todo(u)
      BY <1>1, <2>4, Next1Is
    <3> QED BY <1>3, <2>2, <3>1, <3>2, <3>3, HeldStepsNext
  <2> QED BY <2>3, <2>4
<1> QED BY <1>4, <1>5, <1>6, <1>7, <1>8, <1>9 DEF HandleUrc

LEMMA HeldSenders ==
  ASSUME TypeOK, WorkInv, NEW ch \in Channel, Handle(ch) \/ Finish(ch) \/ Spurious(ch) \/ Resume(ch)
  PROVE  \A w \in Worker : HoldsSame(w)
<1>1. UNCHANGED <<noReset, own, work>>
  BY DEF Handle, Finish, Spurious, Resume, buildVars, switchVars
<1> QED BY <1>1, HeldKept

LEMMA HeldReading ==
  ASSUME TypeOK, WorkInv, NEW d \in Channel, Read(d) \/ Release(d)
  PROVE  \A w \in Worker : HoldsSame(w)
<1>1. UNCHANGED <<noReset, own>>
  BY DEF Read, Release, buildVars, switchVars
<1>2. \/ UNCHANGED work
      \/ Step(Switcher) = "wait" /\ work' = [work EXCEPT ![Switcher].step = "prop"]
  BY DEF Read, Release, Step
<1>3. CASE UNCHANGED work
  BY <1>1, <1>3, HeldKept
<1>4. CASE Step(Switcher) = "wait" /\ work' = [work EXCEPT ![Switcher].step = "prop"]
  <2>1. /\ Step(Switcher)' = "prop"
        /\ \A v \in Worker \ {Switcher} : work'[v] = work[v]
    BY <1>4, StepIs, WorkerIs
  <2>2. Locks(Switcher)' = Locks(Switcher)
    BY <1>1 DEF Locks, Locked, Plain
  <2>3. HoldsSame(Switcher)
    BY <1>4, <2>1, <2>2, HeldSteps, HeldStepsNext DEF HoldsSame, Inside
  <2> QED BY <1>1, <2>1, <2>3, HeldKept
<1> QED BY <1>2, <1>3, <1>4

LEMMA HeldChannels ==
  ASSUME TypeOK, WorkInv, NEW w \in Worker
  PROVE  /\ Held(w) \subseteq Channel /\ HeldReaders(w) \subseteq Channel
         /\ w # Switcher => HeldReaders(w) \intersect OfClass(CMD_9) = {}
         /\ own \notin HeldReaders(w)
<1>1. WorkOk(w) /\ Todo(w) \subseteq Channel /\ Locks(w) \subseteq Channel /\ UrcChannel \subseteq Channel
  BY LocksIs DEF WorkInv, TypeOK, Todo, UrcChannel
<1>2. Step(w) = "reader" => Next1(w) \in Channel
  BY <1>1, Next1Is DEF WorkOk
<1>3. Step(w) \in {"idle", "efun", "entered", "readers", "freeReaders"} \union Outer \union Inside
  BY <1>1 DEF WorkOk
<1>4. Held(w) \subseteq Channel
  BY <1>1, <1>2, <1>3, HeldSteps DEF Outer
<1>5. Outermost(w) \subseteq UrcChannel /\ (w = Switcher => Outermost(w) = {})
  BY DEF Outermost
<1>6. HeldReaders(w) \subseteq Locks(w) \union Outermost(w)
  <2>1. Step(w) = "readers" \/ Step(w) = "freeReaders" => w # Switcher /\ Outermost(w) = UrcChannel
    BY <1>1 DEF WorkOk, Outer, Inside, Outermost
  <2> QED BY <1>1, <1>3, <2>1, HeldSteps DEF WorkOk, Outer
<1>7. HeldReaders(w) \subseteq Channel
  BY <1>1, <1>5, <1>6
<1>8. w # Switcher => \A ch \in HeldReaders(w) : ch % Offset \in {URC, CMD_11}
  BY <1>5, <1>6 DEF Locks, UrcChannel, OfClass
<1>9. w # Switcher => HeldReaders(w) \intersect OfClass(CMD_9) = {}
  BY <1>8, Classes4 DEF OfClass
<1>10. own # None => own \in OfClass(CMD_9)
  BY DEF WorkInv
<1>11. w = Switcher => own \notin HeldReaders(w)
  <2>1. own \notin Locked
    BY <1>10, WorkerIs, Classes4 DEF Locked, Plain, OfClass
  <2> QED BY <1>5, <1>6, <2>1 DEF Locks
<1> QED BY <1>4, <1>7, <1>9, <1>10, <1>11, WorkerIs

-----------------------------------------------------------------------------
(***************************************************************************)
(* m_restartMutex: whoever stopped a sender, it handles nothing.           *)
(***************************************************************************)
RestartInv ==
  /\ \A w \in Worker : \A ch \in Held(w) : restart[ch] /\ sender[ch] # "handling"
  /\ \A ch \in Channel : sender[ch] = "handling" => restart[ch]
  /\ \A v, w \in Worker : v # w => Held(v) \intersect Held(w) = {}

\* A step that locks nothing from outside and takes nothing that is locked.
LEMMA RestartFrame ==
  ASSUME TypeOK, WorkInv, RestartInv, \A w \in Worker : Held(w)' = Held(w),
         \A ch \in Channel :
           /\ sender'[ch] = "handling" => restart'[ch] /\ (sender[ch] = "handling" \/ ~restart[ch])
           /\ restart[ch] /\ sender[ch] # "handling" => restart'[ch]
  PROVE  RestartInv'
<1>1. \A w \in Worker : Held(w) \subseteq Channel
  BY HeldChannels
<1>2. ASSUME NEW w \in Worker, NEW ch \in Held(w)
      PROVE  restart'[ch] /\ sender'[ch] # "handling"
  BY <1>1, <1>2 DEF RestartInv
<1>3. \A w \in Worker : \A ch \in Held(w)' : restart'[ch] /\ sender'[ch] # "handling"
  BY <1>2
<1>4. \A v, w \in Worker : v # w => Held(v)' \intersect Held(w)' = {}
  BY DEF RestartInv
<1> QED BY <1>3, <1>4 DEF RestartInv

\* What a sender does with the mutex of its channel.
LEMMA TakeRestart ==
  ASSUME TypeOK, RestartInv, NEW c \in Channel, TakeMessage(c)
  PROVE  \A ch \in Channel :
           /\ sender'[ch] = "handling" => restart'[ch] /\ (sender[ch] = "handling" \/ ~restart[ch])
           /\ restart[ch] /\ sender[ch] # "handling" => restart'[ch]
  BY DEF TypeOK, TakeMessage, RestartInv

LEMMA DoneRestart ==
  ASSUME TypeOK, RestartInv, NEW c \in Channel, sender[c] = "handling", Done(c)
  PROVE  \A ch \in Channel :
           /\ sender'[ch] = "handling" => restart'[ch] /\ (sender[ch] = "handling" \/ ~restart[ch])
           /\ restart[ch] /\ sender[ch] # "handling" => restart'[ch]
  BY DEF TypeOK, Done, RestartInv

LEMMA RestartLocking ==
  ASSUME TypeOK, WorkInv, RestartInv, NEW w \in Worker, Locking(w)
  PROVE  RestartInv'
<1> DEFINE n == Next1(w)
<1>1. /\ \A v \in Worker \ {w} : Held(v)' = Held(v)
      /\ \/ SetNeed(w) /\ Held(w)' = Held(w)
         \/ LockRestart(w) /\ Held(w)' = Held(w) \union {n}
         \/ LockReader(w) /\ Held(w)' = Held(w)
         \/ Unlock(w) /\ Held(w)' = Held(w) \ {n} /\ n \in Held(w)
  BY HeldLocking DEF HoldsSame
<1>2. Todo(w) # {}
  BY DEF Locking, SetNeed, LockRestart, LockReader, Unlock, WorkInv, WorkOk, Step, Todo
<1>3. n \in Channel
  BY <1>2, Next1Is
<1> HIDE DEF n
<1>4. \A v \in Worker : Held(v) \subseteq Channel
  BY HeldChannels
<1>5. ASSUME Held(w)' = Held(w), UNCHANGED <<restart, sender>>
      PROVE  RestartInv'
  <2>1. \A v \in Worker : Held(v)' = Held(v)
    BY <1>1, <1>5
  <2>2. \A ch \in Channel : sender[ch] = "handling" => restart[ch]
    BY DEF RestartInv
  <2> QED BY <1>5, <2>1, <2>2, RestartFrame
<1>6. CASE SetNeed(w) \/ LockReader(w)
  <2>1. UNCHANGED <<restart, sender>>
    BY <1>6 DEF SetNeed, LockReader
  <2>2. ~LockRestart(w) /\ ~Unlock(w)
    BY <1>6 DEF SetNeed, LockReader, LockRestart, Unlock
  <2> QED BY <1>1, <1>5, <2>1, <2>2
<1>7. CASE LockRestart(w) /\ Held(w)' = Held(w) \union {n}
  <2>1. ~restart[n] /\ restart' = [restart EXCEPT ![n] = TRUE] /\ UNCHANGED sender
    BY <1>7 DEF LockRestart, n
  <2>2. sender[n] # "handling" /\ \A v \in Worker : n \notin Held(v)
    BY <1>3, <2>1 DEF RestartInv
  <2>3. \A ch \in Channel : restart'[ch] <=> restart[ch] \/ ch = n
    BY <1>3, <2>1 DEF TypeOK
  <2>4. \A v \in Worker : Held(v)' \subseteq Held(v) \union {n}
    BY <1>1, <1>7
  <2>5. \A v \in Worker : \A ch \in Held(v)' : restart'[ch] /\ sender'[ch] # "handling"
    BY <1>3, <1>4, <2>1, <2>2, <2>3, <2>4 DEF RestartInv
  <2>6. \A ch \in Channel : sender'[ch] = "handling" => restart'[ch]
    BY <2>1, <2>3 DEF RestartInv
  <2>7. ASSUME NEW v \in Worker, NEW x \in Worker, v # x
        PROVE  Held(v)' \intersect Held(x)' = {}
    <3>1. Held(v) \intersect Held(x) = {}
      BY <2>7 DEF RestartInv
    <3> QED BY <1>1, <1>7, <2>2, <2>7, <3>1
  <2> QED BY <2>5, <2>6, <2>7 DEF RestartInv
<1>8. CASE Unlock(w) /\ Held(w)' = Held(w) \ {n} /\ n \in Held(w)
  <2>1. restart' = [restart EXCEPT ![n] = FALSE] /\ sender' = Woken(n)
    BY <1>8 DEF Unlock, n
  <2>2. /\ sender[n] # "handling"
        /\ \A v \in Worker \ {w} : n \notin Held(v)
    BY <1>8 DEF RestartInv
  <2>3. \A ch \in Channel : /\ restart'[ch] <=> restart[ch] /\ ch # n
                            /\ sender'[ch] = "handling" <=> sender[ch] = "handling"
    BY <1>3, <2>1 DEF TypeOK, Woken
  <2>4. \A v \in Worker : Held(v)' \subseteq Held(v) \ {n}
    BY <1>1, <1>8, <2>2
  <2>5. \A v \in Worker : \A ch \in Held(v)' : restart'[ch] /\ sender'[ch] # "handling"
    BY <1>4, <2>3, <2>4 DEF RestartInv
  <2>6. \A ch \in Channel : sender'[ch] = "handling" => restart'[ch]
    BY <2>2, <2>3 DEF RestartInv
  <2>7. \A v, x \in Worker : v # x => Held(v)' \intersect Held(x)' = {}
    BY <2>4 DEF RestartInv
  <2> QED BY <2>5, <2>6, <2>7 DEF RestartInv
<1> QED BY <1>1, <1>6, <1>7, <1>8

LEMMA RestartStep == TypeOK /\ WorkInv /\ RestartInv /\ [Next]_vars => RestartInv'
<1> SUFFICES ASSUME TypeOK, WorkInv, RestartInv, [Next]_vars PROVE RestartInv'
  OBVIOUS
<1> USE DEF lockVars, buildVars, switchVars
<1>1. \A ch \in Channel : sender[ch] = "handling" => restart[ch]
  BY DEF RestartInv
<1>2. ASSUME NEW ch \in Channel, Handle(ch) \/ Finish(ch) \/ Spurious(ch) \/ Resume(ch)
      PROVE  RestartInv'
  <2>1. \A w \in Worker : Held(w)' = Held(w)
    BY <1>2, HeldSenders DEF HoldsSame
  <2>2. CASE Handle(ch)
    BY <2>1, <2>2, TakeRestart, RestartFrame DEF Handle
  <2>3. CASE Finish(ch)
    BY <2>1, <2>3, DoneRestart, RestartFrame DEF Finish
  <2>4. CASE Spurious(ch) \/ Resume(ch)
    <3>1. /\ UNCHANGED restart
          /\ \A c \in Channel : sender'[c] = "handling" <=> sender[c] = "handling"
      BY <2>4 DEF Spurious, Resume, TypeOK
    <3> QED BY <1>1, <2>1, <3>1, RestartFrame
  <2> QED BY <1>2, <2>2, <2>3, <2>4
<1>3. ASSUME NEW d \in Channel, Read(d) \/ Release(d)
      PROVE  RestartInv'
  <2>1. UNCHANGED <<restart, sender>> /\ \A w \in Worker : Held(w)' = Held(w)
    BY <1>3, HeldReading DEF HoldsSame, Read, Release
  <2> QED BY <1>1, <2>1, RestartFrame
<1>4. CASE Start
  <2>1. own' \in Channel
    BY <1>4, WorkerIs, LocksIs DEF Start
  <2>2. PICK c \in Channel : TakeMessage(c)
    BY <1>4, <2>1 DEF Start
  <2>3. \A w \in Worker : Held(w)' = Held(w)
    BY <1>4, HeldStart DEF HoldsSame
  <2> QED BY <2>2, <2>3, TakeRestart, RestartFrame
<1>5. CASE Switching
  <2>1. \A w \in Worker : Held(w)' = Held(w)
    BY <1>5, HeldSwitching DEF HoldsSame
  <2>2. CASE EfunFails \/ Reply
    <3>1. Done(own) /\ Step(Switcher) # "idle"
      BY <2>2 DEF EfunFails, Reply, At, Step
    <3>2. own \in Channel /\ sender[own] = "handling"
      BY <3>1, WorkerIs, LocksIs DEF WorkInv, WorkOk
    <3> QED BY <2>1, <3>1, <3>2, DoneRestart, RestartFrame
  <2>3. CASE ~(EfunFails \/ Reply)
    <3>1. UNCHANGED <<restart, sender>>
      BY <1>5, <2>3 DEF Switching, EfunDone, LocksDone, Esimmap, SetSimSwitchProp, SimInitDone,
         SimInitTimeout, Swap, Free
    <3> QED BY <1>1, <2>1, <3>1, RestartFrame
  <2> QED BY <2>2, <2>3
<1>6. ASSUME NEW u \in UrcChannel, Entered(u) \/ HandleUrc(u)
      PROVE  RestartInv'
  <2>1. \A w \in Worker : Held(w)' = Held(w)
    BY <1>6, HeldUrc, WorkerIs DEF HoldsSame
  <2>2. CASE Entered(u)
    BY <2>1, <2>2, TakeRestart, RestartFrame, WorkerIs DEF Entered
  <2>3. CASE HandleUrc(u)
    <3>1. UNCHANGED <<restart, sender>>
      BY <2>3 DEF HandleUrc, CheckIfSwitch, SwapUrc, SwapCmd11, FreeReaders, UnlockReader
    <3> QED BY <1>1, <2>1, <3>1, RestartFrame
  <2> QED BY <1>6, <2>2, <2>3
<1>7. CASE UNCHANGED vars
  <2>1. UNCHANGED <<restart, sender, work, noReset, own>>
    BY <1>7 DEF vars
  <2>2. \A w \in Worker : Held(w)' = Held(w)
    BY <2>1, HeldKept DEF HoldsSame
  <2> QED BY <1>1, <2>1, <2>2, RestartFrame
<1> QED BY <1>2, <1>3, <1>4, <1>5, <1>6, <1>7, RestartLocking DEF Next, Senders, Readers

LEMMA InitHeld == Init => \A w \in Worker : Held(w) = {} /\ HeldReaders(w) = {}
<1> SUFFICES ASSUME Init, NEW w \in Worker PROVE Held(w) = {} /\ HeldReaders(w) = {}
  OBVIOUS
<1>1. Step(w) = "idle"
  BY DEF Init, Step, Idle
<1> QED BY <1>1, HeldSteps

LEMMA InitRestart == Init => RestartInv
<1> SUFFICES ASSUME Init PROVE RestartInv
  OBVIOUS
<1>1. \A ch \in Channel : sender[ch] # "handling"
  BY DEF Init
<1> QED BY <1>1, InitHeld DEF RestartInv

-----------------------------------------------------------------------------
(***************************************************************************)
(* Whoever exchanges a class of channels has stopped them.                 *)
(***************************************************************************)
\* The CMD_9 channels are yet to be exchanged, and nothing can stop it.
Before9 ==
  \/ Step(Switcher) \in {"prop", "sim"}
  \/ Step(Switcher) = "swap" /\ CMD_9 \in Todo(Switcher)

MovedBy(w, k, o, n) ==
  /\ SwitchChannel(k, o, n)
  /\ OfClass(k) \ {own} \subseteq HeldReaders(w)
  /\ (noReset /\ k = URC) \/ OfClass(k) \ {own} \subseteq Held(w)
  /\ Before9' => Before9
  /\ k = CMD_9 => Before9 /\ ~Before9'

LEMMA LockedIs ==
  ASSUME TypeOK, WorkInv
  PROVE  /\ \A k \in Classes : OfClass(k) \ {own} \subseteq Locked
         /\ ~noReset => OfClass(URC) \subseteq Locked
  BY Classes4 DEF Locked, Plain, Classes, OfClass

LEMMA Moved ==
  ASSUME TypeOK, WorkInv, Moves
  PROVE  /\ UNCHANGED <<readerLock, reading>> /\ \A w \in Worker : HoldsSame(w)
         /\ \/ UNCHANGED pathVars
            \/ \E w \in Worker, k \in Class, o, n \in Slot : MovedBy(w, k, o, n)
<1> USE DEF lockVars
<1>1. CASE LocksDone
  <2>1. /\ UNCHANGED <<readerLock, reading>> /\ \A w \in Worker : HoldsSame(w)
        /\ Step(Switcher) = "need" /\ Todo(Switcher) = {} /\ Step(Switcher)' = "esimmap"
    BY <1>1, HeldSwitching, ToIs DEF LocksDone, Switching, At, Step, Todo
  <2>2. ASSUME ~noReset PROVE MovedBy(Switcher, URC, old, new)
    <3>1. Held(Switcher) = Locked /\ HeldReaders(Switcher) = Locked
      BY <2>1, HeldSteps DEF Locks, Outermost
    <3>2. ~Before9'
      BY <2>1 DEF Before9
    <3>3. URC # CMD_9 /\ OfClass(URC) \subseteq Locked
      BY <2>2, LockedIs, Classes4
    <3>4. SwitchChannel(URC, old, new)
      BY <1>1, <2>2 DEF LocksDone
    <3> QED BY <3>1, <3>2, <3>3, <3>4 DEF MovedBy
  <2>3. noReset => UNCHANGED pathVars
    BY <1>1 DEF LocksDone
  <2>4. Switcher \in Worker /\ URC \in Class /\ old \in Slot /\ new \in Slot
    BY WorkerIs, Classes4 DEF TypeOK
  <2> QED BY <2>1, <2>2, <2>3, <2>4
<1>2. CASE Swap
  <2>1. UNCHANGED <<readerLock, reading>> /\ \A w \in Worker : HoldsSame(w)
    BY <1>2, HeldSwitching DEF Swap, Switching
  <2>2. PICK j \in Class :
           /\ j \in Classes /\ j \in Todo(Switcher)
           /\ Step(Switcher) = "swap" /\ Step(Switcher)' = "swap"
           /\ Todo(Switcher)' = Todo(Switcher) \ {j}
           /\ SwitchChannel(j, old, new)
    BY <1>2, SwapIs
  <2>3. Held(Switcher) = Locked /\ HeldReaders(Switcher) = Locked
    BY <2>2, HeldSteps DEF Locks, Inside
  <2>4. OfClass(j) \ {own} \subseteq Locked
    BY <2>2, LockedIs
  <2>5. (Before9' => Before9) /\ (j = CMD_9 => Before9 /\ ~Before9')
    BY <2>2 DEF Before9
  <2>6. MovedBy(Switcher, j, old, new)
    BY <2>2, <2>3, <2>4, <2>5 DEF MovedBy
  <2> QED BY <2>1, <2>6, WorkerIs DEF TypeOK
<1>3. ASSUME NEW u \in UrcChannel, SwapUrc(u) \/ SwapCmd11(u)
      PROVE  /\ UNCHANGED <<readerLock, reading>> /\ \A w \in Worker : HoldsSame(w)
             /\ \E w \in Worker, k \in Class, o, n \in Slot : MovedBy(w, k, o, n)
  <2>1. /\ u \in Worker /\ u # Switcher /\ Locks(u) = OfClass(CMD_11) /\ Outermost(u) = UrcChannel
        /\ work[u].old \in Slot /\ work[u].new \in Slot
    BY WorkerIs DEF Locks, Outermost, TypeOK
  <2>2. UNCHANGED <<readerLock, reading>>
    BY <1>3 DEF SwapUrc, SwapCmd11
  <2>3. /\ \A v \in Worker \ {u} : HoldsSame(v)
        /\ Held(u)' = Held(u)
        /\ \/ HeldReaders(u)' = HeldReaders(u)
           \/ readerLock' = [readerLock EXCEPT ![Next1(u)] = FALSE] /\ Next1(u) \in HeldReaders(u)
              /\ HeldReaders(u)' = HeldReaders(u) \ {Next1(u)}
    BY <1>3, HeldUrc DEF HandleUrc
  <2>4. \E step, todo : work' = UrcStep(u, step, todo)
    BY <1>3 DEF SwapUrc, SwapCmd11
  <2>5. work'[Switcher] = work[Switcher]
    BY <2>1, <2>4, UrcStepIs, WorkerIs
  <2>6. Before9' <=> Before9
    BY <2>5 DEF Before9, Step, Todo
  <2>7. noReset
    BY <1>3, <2>1 DEF SwapUrc, SwapCmd11, WorkInv, WorkOk, Step
  <2>8. CASE SwapUrc(u)
    <3>1. /\ Step(u) = "readers" /\ Todo(u) = {} /\ SwitchChannel(URC, work[u].old, work[u].new)
          /\ work' = UrcStep(u, "need", OfClass(CMD_11))
      BY <2>8 DEF SwapUrc, Step, Todo
    <3>2. HeldReaders(u) = UrcChannel
      BY <3>1, HeldSteps
    <3>3. HeldReaders(u)' = UrcChannel
      <4>1. Step(u)' = "need" /\ Todo(u)' = OfClass(CMD_11)
        BY <3>1, UrcStepIs
      <4>2. Locks(u)' = Locks(u)
        BY <2>1 DEF Locks
      <4> QED BY <2>1, <4>1, <4>2, HeldStepsNext
    <3>4. MovedBy(u, URC, work[u].old, work[u].new)
      BY <2>6, <2>7, <3>1, <3>2, Classes4 DEF MovedBy, UrcChannel
    <3> QED BY <2>1, <2>2, <2>3, <3>2, <3>3, <3>4, Classes4 DEF HoldsSame
  <2>9. CASE SwapCmd11(u)
    <3>1. /\ Step(u) = "need" /\ Todo(u) = {} /\ SwitchChannel(CMD_11, work[u].old, work[u].new)
          /\ work' = UrcStep(u, "free", OfClass(CMD_11))
      BY <2>9 DEF SwapCmd11, Step, Todo
    <3>2. Held(u) = OfClass(CMD_11) /\ HeldReaders(u) = OfClass(CMD_11) \union UrcChannel
      BY <2>1, <3>1, HeldSteps
    <3>3. HeldReaders(u)' = OfClass(CMD_11) \union UrcChannel
      <4>1. Step(u)' = "free" /\ Todo(u)' = OfClass(CMD_11)
        BY <3>1, UrcStepIs
      <4> QED BY <2>1, <4>1, HeldStepsNext
    <3>4. MovedBy(u, CMD_11, work[u].old, work[u].new)
      BY <2>6, <3>1, <3>2, Classes4 DEF MovedBy
    <3> QED BY <2>1, <2>2, <2>3, <3>2, <3>3, <3>4, Classes4 DEF HoldsSame
  <2> QED BY <1>3, <2>8, <2>9
<1> QED BY <1>1, <1>2, <1>3 DEF Moves

LEMMA FdStays ==
  ASSUME PlaceInv, RestartInv, [Next]_vars, NEW ch \in Channel,
         sender[ch] = "handling", ch # own, ~(noReset /\ ch % Offset = URC)
  PROVE  fd'[ch] = fd[ch]
<1>1. CASE UNCHANGED pathVars
  BY <1>1 DEF pathVars
<1>2. CASE \E w \in Worker, k \in Class, o, n \in Slot : MovedBy(w, k, o, n)
  <2>1. PICK w \in Worker, k \in Class, o \in Slot, n \in Slot : MovedBy(w, k, o, n)
    BY <1>2
  <2>2. ch \notin Held(w)
    BY DEF RestartInv
  <2>3. ch % Offset # k
    BY <2>1, <2>2 DEF MovedBy, OfClass
  <2> QED BY <2>1, <2>3, SwitchChannelFd DEF MovedBy, PlaceInv, PathsLinked
<1> QED BY <1>1, <1>2, PathMoves, Moved DEF PlaceInv

(* m_restartMutex: a sender's device does not change while it handles a    *)
(* message, except on the switching thread's own channel and on the URC    *)
(* channels of a modem that need not be reset (SimSwitch!FdStable).        *)
THEOREM FdStableAlways == Spec => FdStable
<1> DEFINE Stable == \A ch \in Channel :
             \/ sender[ch] # "handling" \/ ch = own
             \/ noReset /\ ch % Offset = URC
             \/ fd'[ch] = fd[ch]
<1>1. Init => RestartInv
  BY InitRestart
<1>2. PlaceInv /\ RestartInv /\ [Next]_vars => RestartInv'
  BY RestartStep DEF PlaceInv
<1>3. PlaceInv /\ RestartInv /\ [Next]_vars => [Stable]_vars
  BY FdStays
<1> QED BY <1>1, <1>2, <1>3, PlaceInvAlways, PTL DEF Spec, FdStable

-----------------------------------------------------------------------------
(***************************************************************************)
(* m_readerMutex: whoever stopped a reader, it processes no line.          *)
(***************************************************************************)
Cmd9 == OfClass(CMD_9)
Others == Channel \ Cmd9

Reads(ch) == \E d \in reading : context[d] = ch

\* In C, a mutex that a worker holds is held against every reader, and that of
\* a reader at work is locked.
Guarded(C) ==
  /\ \A w \in Worker : \A ch \in HeldReaders(w) \intersect C : readerLock[ch] /\ ~Reads(ch)
  /\ \A d \in reading : context[d] \in C => readerLock[context[d]]

ReadersApart == \A v, w \in Worker : v # w => HeldReaders(v) \intersect HeldReaders(w) = {}

ReaderInv == Guarded(Others) /\ ReadersApart

\* A CMD_9 channel that nobody will unlock: every later switch stops at it.
Orphan9 == \E ch \in Cmd9 : /\ \A w \in Worker : ch \notin HeldReaders(w)
                            /\ readerLock[ch] /\ ~Reads(ch)

\* The reader of the switching thread's channel may unlock the mutex of another
\* one after the exchange. So the CMD_9 channels are guarded up to it only.
Inv9 == Guarded(Cmd9) \/ (Orphan9 /\ ~Before9)

\* What a step may do with the mutexes, by who does it.
HeldSame == \A w \in Worker : HeldReaders(w)' = HeldReaders(w)
Rests == UNCHANGED <<readerLock, reading>> /\ HeldSame
LocksOne(w, n) ==
  /\ ~readerLock[n] /\ readerLock' = [readerLock EXCEPT ![n] = TRUE] /\ UNCHANGED reading
  /\ HeldReaders(w)' = HeldReaders(w) \union {n}
  /\ \A v \in Worker \ {w} : HeldReaders(v)' = HeldReaders(v)
  /\ n \in Cmd9 => w = Switcher
FreesOne(w, n) ==
  /\ readerLock' = [readerLock EXCEPT ![n] = FALSE] /\ UNCHANGED reading
  /\ n \in HeldReaders(w) /\ HeldReaders(w)' = HeldReaders(w) \ {n}
  /\ \A v \in Worker \ {w} : HeldReaders(v)' = HeldReaders(v)
ReaderStep ==
  \/ Rests
  \/ \E d \in Channel : HeldSame /\ (Read(d) \/ Release(d))
  \/ \E w \in Worker, n \in Channel : LocksOne(w, n) \/ FreesOne(w, n)

LEMMA LockedOne ==
  ASSUME TypeOK, WorkInv, NEW w \in Worker, Locking(w)
  PROVE  ReaderStep
<1> DEFINE n == Next1(w)
<1>1. /\ \A v \in Worker \ {w} : HeldReaders(v)' = HeldReaders(v)
      /\ \/ SetNeed(w) /\ HeldReaders(w)' = HeldReaders(w)
         \/ LockRestart(w) /\ HeldReaders(w)' = HeldReaders(w)
         \/ LockReader(w) /\ HeldReaders(w)' = HeldReaders(w) \union {n}
         \/ Unlock(w) /\ HeldReaders(w)' = HeldReaders(w) \ {n} /\ n \in Held(w)
  BY HeldLocking DEF HoldsSame
<1>2. Todo(w) # {} /\ WorkOk(w)
  BY DEF Locking, SetNeed, LockRestart, LockReader, Unlock, WorkInv, WorkOk, Step, Todo
<1>3. n \in Channel /\ n \in Todo(w)
  BY <1>2, Next1Is
<1>4. SetNeed(w) \/ LockRestart(w) => ReaderStep
  BY <1>1 DEF SetNeed, LockRestart, LockReader, Unlock, ReaderStep, Rests, HeldSame
<1>5. CASE LockReader(w) /\ HeldReaders(w)' = HeldReaders(w) \union {n}
  <2>1. /\ ~readerLock[n] /\ readerLock' = [readerLock EXCEPT ![n] = TRUE] /\ UNCHANGED reading
        /\ Step(w) \in {"reader", "readers"}
    BY <1>5 DEF LockReader, Step
  <2>2. w # Switcher => n % Offset \in {URC, CMD_11}
    BY <1>2, <1>3, <2>1 DEF WorkOk, Outer, Inside, Locks, UrcChannel, OfClass
  <2>3. n \in Cmd9 => w = Switcher
    BY <2>2, Classes4 DEF Cmd9, OfClass
  <2>4. LocksOne(w, n)
    BY <1>1, <1>5, <2>1, <2>3 DEF LocksOne
  <2> QED BY <1>3, <2>4 DEF ReaderStep
<1>6. CASE Unlock(w) /\ HeldReaders(w)' = HeldReaders(w) \ {n}
  <2>1. /\ readerLock' = [readerLock EXCEPT ![n] = FALSE] /\ UNCHANGED reading
        /\ Step(w) = "free"
    BY <1>6 DEF Unlock, Step
  <2>2. n \in HeldReaders(w)
    BY <1>3, <2>1, HeldSteps
  <2>3. FreesOne(w, n)
    BY <1>1, <1>6, <2>1, <2>2 DEF FreesOne
  <2> QED BY <1>3, <2>3 DEF ReaderStep
<1> QED BY <1>1, <1>4, <1>5, <1>6

LEMMA ReaderSteps ==
  ASSUME TypeOK, WorkInv, [Next]_vars
  PROVE  \/ UNCHANGED pathVars /\ ReaderStep
         \/ Rests /\ \E w \in Worker, k \in Class, o, n \in Slot : MovedBy(w, k, o, n)
<1>1. CASE Moves
  <2>1. Rests
    BY <1>1, Moved DEF Rests, HeldSame, HoldsSame
  <2> QED BY <1>1, <2>1, Moved DEF ReaderStep
<1>2. ASSUME NEW ch \in Channel, Handle(ch) \/ Finish(ch) \/ Spurious(ch) \/ Resume(ch)
      PROVE  ReaderStep
  BY <1>2, HeldSenders DEF HoldsSame, HeldSame, Rests, ReaderStep, Handle, Finish, Spurious, Resume
<1>3. ASSUME NEW d \in Channel, Read(d) \/ Release(d)
      PROVE  ReaderStep
  BY <1>3, HeldReading DEF HoldsSame, HeldSame, ReaderStep
<1>4. Start => ReaderStep
  BY HeldStart DEF HoldsSame, HeldSame, Rests, ReaderStep, Start
<1>5. ASSUME Switching PROVE ReaderStep
  <2>1. HeldSame
    BY <1>5, HeldSwitching DEF HoldsSame, HeldSame
  <2>2. UNCHANGED <<readerLock, reading>>
    BY <1>5 DEF Switching, EfunFails, EfunDone, LocksDone, Esimmap, SetSimSwitchProp, SimInitDone,
       SimInitTimeout, Swap, Free, Reply, lockVars
  <2>3. Rests
    BY <2>1, <2>2 DEF Rests
  <2> QED BY <2>3 DEF ReaderStep
<1>6. ASSUME NEW u \in UrcChannel, Entered(u) \/ HandleUrc(u)
      PROVE  ReaderStep
  <2>1. UNCHANGED reading
    BY <1>6 DEF Entered, HandleUrc, CheckIfSwitch, SwapUrc, SwapCmd11, FreeReaders, UnlockReader
  <2>2. u \in Worker /\ \A v \in Worker \ {u} : HeldReaders(v)' = HeldReaders(v)
    BY <1>6, HeldUrc, WorkerIs DEF HoldsSame
  <2>3. CASE HeldReaders(u)' = HeldReaders(u) /\ UNCHANGED readerLock
    BY <2>1, <2>2, <2>3 DEF ReaderStep, Rests, HeldSame
  <2>4. CASE /\ Next1(u) \in HeldReaders(u)
             /\ HeldReaders(u)' = HeldReaders(u) \ {Next1(u)}
             /\ readerLock' = [readerLock EXCEPT ![Next1(u)] = FALSE]
    <3>1. FreesOne(u, Next1(u)) /\ Next1(u) \in Channel
      BY <2>1, <2>2, <2>4, HeldChannels DEF FreesOne
    <3> QED BY <2>2, <3>1 DEF ReaderStep
  <2> QED BY <1>6, <2>3, <2>4, HeldUrc
<1>7. ASSUME UNCHANGED vars PROVE ReaderStep
  <2>1. UNCHANGED <<noReset, own, work, readerLock, reading>>
    BY <1>7 DEF vars, buildVars, lockVars, switchVars
  <2>2. HeldSame
    BY <2>1, HeldKept DEF HoldsSame, HeldSame
  <2>3. Rests
    BY <2>1, <2>2 DEF Rests
  <2> QED BY <2>3 DEF ReaderStep
<1>8. ReaderStep
  <2>1. Senders \/ Readers => ReaderStep
    BY <1>2, <1>3 DEF Senders, Readers
  <2>2. (\E w \in Worker : Locking(w)) => ReaderStep
    BY LockedOne
  <2> QED BY <1>4, <1>5, <1>6, <1>7, <2>1, <2>2 DEF Next
<1> QED BY <1>1, <1>8, PathMoves

\* Two readers have two contexts.
LEMMA OneReader ==
  ASSUME PathsLinked, NEW d \in Channel, NEW e \in Channel, context[d] = context[e]
  PROVE  d = e
  BY DEF PathsLinked, Linked

LEMMA GuardedStep ==
  ASSUME TypeOK, WorkInv, PathsLinked, NEW C \in SUBSET Channel, Guarded(C), ReadersApart,
         UNCHANGED pathVars, ReaderStep
  PROVE  Guarded(C)'
<1>1. /\ UNCHANGED context /\ context \in [Channel -> Channel] /\ reading \subseteq Channel
      /\ readerLock \in [Channel -> BOOLEAN]
      /\ \A w \in Worker : HeldReaders(w) \subseteq Channel
  BY HeldChannels DEF pathVars, TypeOK
<1>2. CASE Rests
  BY <1>1, <1>2 DEF Rests, HeldSame, Guarded, Reads
<1>3. ASSUME NEW d \in Channel, HeldSame, Read(d)
      PROVE  Guarded(C)'
  <2>1. /\ ~readerLock[context[d]] /\ reading' = reading \union {d}
        /\ readerLock' = [readerLock EXCEPT ![context[d]] = TRUE]
    BY <1>3 DEF Read
  <2>2. \A ch \in Channel : readerLock'[ch] <=> readerLock[ch] \/ ch = context[d]
    BY <1>1, <2>1
  <2>3. \A w \in Worker : \A ch \in HeldReaders(w) \intersect C : ch # context[d]
    BY <2>1 DEF Guarded
  <2>4. ASSUME NEW w \in Worker, NEW ch \in HeldReaders(w)' \intersect C
        PROVE  readerLock'[ch] /\ ~Reads(ch)'
    <3>1. ch \in HeldReaders(w) \intersect C /\ ch \in Channel
      BY <1>1, <1>3, <2>4 DEF HeldSame
    <3> QED BY <1>1, <2>1, <2>2, <2>3, <3>1 DEF Guarded, Reads
  <2>5. \A e \in reading' : context'[e] \in C => readerLock'[context'[e]]
    BY <1>1, <2>1, <2>2 DEF Guarded
  <2> QED BY <2>4, <2>5 DEF Guarded
<1>4. ASSUME NEW d \in Channel, HeldSame, Release(d)
      PROVE  Guarded(C)'
  <2>1. /\ d \in reading /\ reading' = reading \ {d}
        /\ readerLock' = [readerLock EXCEPT ![context[d]] = FALSE]
    BY <1>4 DEF Release
  <2>2. \A ch \in Channel : readerLock'[ch] <=> readerLock[ch] /\ ch # context[d]
    BY <1>1, <2>1
  <2>3. \A w \in Worker : \A ch \in HeldReaders(w) \intersect C : ch # context[d]
    BY <2>1 DEF Guarded, Reads
  <2>4. ASSUME NEW w \in Worker, NEW ch \in HeldReaders(w)' \intersect C
        PROVE  readerLock'[ch] /\ ~Reads(ch)'
    <3>1. ch \in HeldReaders(w) \intersect C /\ ch \in Channel
      BY <1>1, <1>4, <2>4 DEF HeldSame
    <3> QED BY <1>1, <2>1, <2>2, <2>3, <3>1 DEF Guarded, Reads
  <2>5. \A e \in reading' : context'[e] \in C => readerLock'[context'[e]]
    <3>1. \A e \in reading' : context[e] # context[d]
      BY <1>1, <2>1, OneReader
    <3> QED BY <1>1, <2>1, <2>2, <3>1 DEF Guarded
  <2> QED BY <2>4, <2>5 DEF Guarded
<1>5. ASSUME NEW w \in Worker, NEW n \in Channel, LocksOne(w, n)
      PROVE  Guarded(C)'
  <2>1. /\ UNCHANGED reading /\ \A ch \in Channel : readerLock'[ch] <=> readerLock[ch] \/ ch = n
        /\ \A v \in Worker : HeldReaders(v)' \subseteq HeldReaders(v) \union {n}
    BY <1>1, <1>5 DEF LocksOne
  <2>2. n \in C => ~Reads(n)
    BY <1>5 DEF LocksOne, Guarded, Reads
  <2>3. ASSUME NEW v \in Worker, NEW ch \in HeldReaders(v)' \intersect C
        PROVE  readerLock'[ch] /\ ~Reads(ch)'
    <3>1. ch \in Channel /\ (ch = n \/ ch \in HeldReaders(v) \intersect C)
      BY <1>1, <2>1, <2>3
    <3> QED BY <1>1, <2>1, <2>2, <3>1 DEF Guarded, Reads
  <2>4. \A e \in reading' : context'[e] \in C => readerLock'[context'[e]]
    BY <1>1, <2>1 DEF Guarded
  <2> QED BY <2>3, <2>4 DEF Guarded
<1>6. ASSUME NEW w \in Worker, NEW n \in Channel, FreesOne(w, n)
      PROVE  Guarded(C)'
  <2>1. /\ UNCHANGED reading /\ \A ch \in Channel : readerLock'[ch] <=> readerLock[ch] /\ ch # n
        /\ n \in HeldReaders(w)
    BY <1>1, <1>6 DEF FreesOne
  <2>2. \A v \in Worker : HeldReaders(v)' \subseteq HeldReaders(v) \ {n}
    BY <1>6 DEF FreesOne, ReadersApart
  <2>3. n \in C => ~Reads(n)
    BY <2>1 DEF Guarded
  <2>4. ASSUME NEW v \in Worker, NEW ch \in HeldReaders(v)' \intersect C
        PROVE  readerLock'[ch] /\ ~Reads(ch)'
    <3>1. ch # n /\ ch \in Channel /\ ch \in HeldReaders(v) \intersect C
      BY <1>1, <2>2, <2>4
    <3> QED BY <1>1, <2>1, <3>1 DEF Guarded, Reads
  <2>5. \A e \in reading' : context'[e] \in C => readerLock'[context'[e]]
    BY <1>1, <2>1, <2>3 DEF Guarded, Reads
  <2> QED BY <2>4, <2>5 DEF Guarded
<1> QED BY <1>2, <1>3, <1>4, <1>5, <1>6 DEF ReaderStep

LEMMA ApartStep ==
  ASSUME TypeOK, WorkInv, ReaderInv, ReaderStep
  PROVE  ReadersApart'
<1>1. CASE HeldSame
  BY <1>1 DEF HeldSame, ReaderInv, ReadersApart
<1>2. ASSUME NEW w \in Worker, NEW n \in Channel, LocksOne(w, n)
      PROVE  ReadersApart'
  <2>1. \A v \in Worker \ {w} : n \notin HeldReaders(v)
    <3>1. CASE n \in Cmd9
      BY <1>2, <3>1, HeldChannels DEF LocksOne, Cmd9
    <3>2. CASE n \notin Cmd9
      BY <1>2, <3>2 DEF LocksOne, ReaderInv, Guarded, Others
    <3> QED BY <3>1, <3>2
  <2>2. /\ HeldReaders(w)' = HeldReaders(w) \union {n}
        /\ \A v \in Worker \ {w} : HeldReaders(v)' = HeldReaders(v)
    BY <1>2 DEF LocksOne
  <2>3. ASSUME NEW v \in Worker, NEW x \in Worker, v # x
        PROVE  HeldReaders(v)' \intersect HeldReaders(x)' = {}
    <3>1. HeldReaders(v) \intersect HeldReaders(x) = {}
      BY <2>3 DEF ReaderInv, ReadersApart
    <3> QED BY <2>1, <2>2, <2>3, <3>1
  <2> QED BY <2>3 DEF ReadersApart
<1>3. ASSUME NEW w \in Worker, NEW n \in Channel, FreesOne(w, n)
      PROVE  ReadersApart'
  <2>1. \A v \in Worker : HeldReaders(v)' \subseteq HeldReaders(v)
    BY <1>3 DEF FreesOne
  <2> QED BY <2>1 DEF ReaderInv, ReadersApart
<1> QED BY <1>1, <1>2, <1>3 DEF ReaderStep, Rests

\* An exchange moves the contexts of its class among themselves.
LEMMA MovedContext ==
  ASSUME PlaceInv, NEW w \in Worker, NEW k \in Class, NEW o \in Slot, NEW n \in Slot,
         MovedBy(w, k, o, n), NEW d \in reading
  PROVE  /\ d \in Channel /\ context[d] \in Channel
         /\ context[d] \notin OfClass(k) => context'[d] = context[d]
         /\ context[d] \in OfClass(k) <=> context'[d] \in OfClass(k)
<1>1. /\ d \in Channel /\ context[d] \in Channel
      /\ Linked(fd, reader, context) /\ Linked(fd', reader', context')
  <2>1. Linked(fd, reader, context) /\ SwitchChannel(k, o, n)
    BY DEF PlaceInv, PathsLinked, MovedBy
  <2> QED BY <2>1, SwitchChannelLinked DEF PlaceInv, TypeOK
<1>2. context'[d] \in Channel
  BY <1>1 DEF Linked
<1>3. /\ context[d] % Offset # k => context'[d] = context[d]
      /\ context[d] % Offset = k => context'[d] % Offset = k
  BY <1>1, SwitchChannelContext DEF MovedBy
<1> QED BY <1>1, <1>2, <1>3 DEF OfClass

LEMMA GuardedMoved ==
  ASSUME PlaceInv, Rests, NEW w \in Worker, NEW k \in Class, NEW o \in Slot, NEW n \in Slot,
         MovedBy(w, k, o, n), NEW C \in SUBSET Channel, Guarded(C),
         OfClass(k) \intersect C = {} \/ (k # CMD_9 /\ OfClass(k) \subseteq C)
  PROVE  Guarded(C)'
<1>1. ASSUME NEW d \in reading, context'[d] \in C
      PROVE  context'[d] = context[d]
  <2>1. CASE OfClass(k) \intersect C = {}
    BY <1>1, <2>1, MovedContext
  <2>2. CASE k # CMD_9 /\ OfClass(k) \subseteq C
    <3>1. OfClass(k) \subseteq HeldReaders(w)
      BY <2>2, WorkerIs DEF MovedBy, PlaceInv, WorkInv, OfClass
    <3>2. context[d] \notin OfClass(k)
      BY <2>2, <3>1 DEF Guarded, Reads
    <3> QED BY <3>2, MovedContext
  <2> QED BY <2>1, <2>2
<1>2. UNCHANGED <<readerLock, reading>> /\ \A v \in Worker : HeldReaders(v)' = HeldReaders(v)
  BY DEF Rests, HeldSame
<1>3. ASSUME NEW v \in Worker, NEW ch \in HeldReaders(v)' \intersect C
      PROVE  readerLock'[ch] /\ ~Reads(ch)'
  BY <1>1, <1>2, <1>3 DEF Guarded, Reads
<1>4. \A d \in reading' : context'[d] \in C => readerLock'[context'[d]]
  BY <1>1, <1>2 DEF Guarded
<1> QED BY <1>3, <1>4 DEF Guarded

LEMMA ReaderInvStep == PlaceInv /\ ReaderInv /\ [Next]_vars => ReaderInv'
<1> SUFFICES ASSUME PlaceInv, ReaderInv, [Next]_vars PROVE ReaderInv'
  OBVIOUS
<1>1. Others \in SUBSET Channel /\ TypeOK /\ WorkInv /\ PathsLinked
  BY DEF Others, PlaceInv
<1>2. CASE UNCHANGED pathVars /\ ReaderStep
  BY <1>1, <1>2, GuardedStep, ApartStep DEF ReaderInv
<1>3. CASE Rests /\ \E w \in Worker, k \in Class, o, n \in Slot : MovedBy(w, k, o, n)
  <2>1. PICK w \in Worker, k \in Class, o \in Slot, n \in Slot : MovedBy(w, k, o, n)
    BY <1>3
  <2>2. OfClass(k) \intersect Others = {} \/ (k # CMD_9 /\ OfClass(k) \subseteq Others)
    BY DEF Others, Cmd9, OfClass
  <2>3. Guarded(Others)'
    BY <1>1, <1>3, <2>1, <2>2, GuardedMoved DEF ReaderInv
  <2>4. ReadersApart'
    BY <1>1, <1>3, ApartStep DEF ReaderStep
  <2> QED BY <2>3, <2>4 DEF ReaderInv
<1> QED BY <1>1, <1>2, <1>3, ReaderSteps

\* How the exchange of the CMD_9 channels comes near: a line of the switching
\* thread's channel lets it go on.
LEMMA Nearer9 ==
  ASSUME TypeOK, WorkInv, [Next]_vars, Before9'
  PROVE  \/ Before9
         \/ Step(Switcher) = "wait" /\ ~readerLock[own]
<1>1. work'[Switcher] = work[Switcher] => Before9
  BY DEF Before9, Step, Todo
<1>2. ASSUME NEW ch \in Channel, Handle(ch) \/ Finish(ch) \/ Spurious(ch) \/ Resume(ch)
      PROVE  Before9
  BY <1>1, <1>2 DEF Handle, Finish, Spurious, Resume
<1>3. ASSUME NEW d \in Channel, Read(d) \/ Release(d)
      PROVE  Before9 \/ (Step(Switcher) = "wait" /\ ~readerLock[own])
  BY <1>1, <1>3 DEF Read, Release, Step
<1>4. ~Start
  BY ToIs DEF Start, Before9
<1>5. ASSUME Switching PROVE Before9
  <2>1. ~(EfunFails \/ Reply \/ EfunDone \/ LocksDone \/ Esimmap \/ Free)
    BY ToIs DEF EfunFails, Reply, EfunDone, LocksDone, Esimmap, Free, Before9
  <2>2. SetSimSwitchProp \/ SimInitDone => Before9
    BY DEF SetSimSwitchProp, SimInitDone, At, Before9, Step
  <2>3. SimInitTimeout => Before9
    BY <1>1 DEF SimInitTimeout
  <2>4. Swap => Before9
    BY SwapIs DEF Before9
  <2> QED BY <1>5, <2>1, <2>2, <2>3, <2>4 DEF Switching
<1>6. ASSUME NEW u \in UrcChannel, Entered(u) \/ HandleUrc(u)
      PROVE  Before9
  BY <1>1, <1>6, UrcAlone
<1>7. ASSUME NEW w \in Worker, Locking(w)
      PROVE  Before9
  <2>1. CASE w = Switcher
    <3>1. Step(Switcher)' \in {"need", "restart", "reader", "readers", "free"}
      BY <1>7, <2>1, LockingPlaces
    <3> QED BY <3>1 DEF Before9
  <2>2. CASE w # Switcher
    BY <1>1, <1>7, <2>2, LockingPlaces, WorkerIs
  <2> QED BY <2>1, <2>2
<1>8. UNCHANGED vars => Before9
  BY <1>1 DEF vars
<1>9. Senders \/ Readers => Before9 \/ (Step(Switcher) = "wait" /\ ~readerLock[own])
  BY <1>2, <1>3 DEF Senders, Readers
<1> QED BY <1>4, <1>5, <1>6, <1>7, <1>8, <1>9 DEF Next

\* An orphan stays locked, and it is the channel the switching thread waits on.
LEMMA OrphanLocked ==
  ASSUME TypeOK, WorkInv, Orphan9, Step(Switcher) = "wait"
  PROVE  readerLock[own]
<1>1. HeldReaders(Switcher) = Locked
  BY HeldSteps DEF Inside, Locks
<1>2. Cmd9 \ {own} \subseteq Locked
  BY LockedIs DEF Cmd9, Classes
<1> QED BY <1>1, <1>2, WorkerIs DEF Orphan9

LEMMA OrphanStep ==
  ASSUME PlaceInv, Orphan9, ~Before9, [Next]_vars
  PROVE  Orphan9' /\ ~Before9'
<1>1. ~Before9'
  BY Nearer9, OrphanLocked DEF PlaceInv
<1>2. PICK ch \in Cmd9 : /\ \A w \in Worker : ch \notin HeldReaders(w)
                         /\ readerLock[ch] /\ ~Reads(ch)
  BY DEF Orphan9
<1>3. ch \in Channel /\ TypeOK /\ WorkInv
  BY DEF Cmd9, OfClass, PlaceInv
<1>4. ASSUME \A w \in Worker : ch \notin HeldReaders(w)', readerLock'[ch], ~Reads(ch)'
      PROVE  Orphan9'
  BY <1>4 DEF Orphan9, Cmd9, OfClass
<1>5. CASE UNCHANGED pathVars /\ ReaderStep
  <2>1. UNCHANGED context
    BY <1>5 DEF pathVars
  <2>2. CASE Rests
    <3>1. readerLock'[ch] /\ \A w \in Worker : ch \notin HeldReaders(w)'
      BY <1>2, <2>2 DEF Rests, HeldSame
    <3>2. ~Reads(ch)'
      BY <1>2, <2>1, <2>2 DEF Rests, Reads
    <3> QED BY <1>1, <1>4, <3>1, <3>2
  <2>3. ASSUME NEW d \in Channel, HeldSame, Read(d) \/ Release(d)
        PROVE  Orphan9'
    <3>1. readerLock'[ch] /\ ~Reads(ch)'
      <4>1. readerLock \in [Channel -> BOOLEAN] /\ context[d] \in Channel
        BY <1>3 DEF TypeOK
      <4> QED BY <1>2, <1>3, <2>1, <2>3, <4>1 DEF Read, Release, Reads
    <3> QED BY <1>2, <1>4, <2>3, <3>1 DEF HeldSame
  <2>4. ASSUME NEW w \in Worker, NEW n \in Channel, LocksOne(w, n) \/ FreesOne(w, n)
        PROVE  Orphan9'
    <3>1. readerLock \in [Channel -> BOOLEAN]
      BY <1>3 DEF TypeOK
    <3>2. n # ch
      BY <1>2, <2>4 DEF LocksOne, FreesOne
    <3>3. readerLock'[ch] /\ UNCHANGED reading
      BY <1>2, <1>3, <2>4, <3>1 DEF LocksOne, FreesOne
    <3>4. \A v \in Worker : HeldReaders(v)' \subseteq HeldReaders(v) \union {n}
      BY <2>4 DEF LocksOne, FreesOne
    <3>5. \A v \in Worker : ch \notin HeldReaders(v)'
      BY <1>2, <3>2, <3>4
    <3> QED BY <1>2, <1>4, <2>1, <3>3, <3>5 DEF Reads
  <2>5. (\E d \in Channel : HeldSame /\ (Read(d) \/ Release(d))) => Orphan9'
    BY <2>3
  <2>6. (\E w \in Worker, n \in Channel : LocksOne(w, n) \/ FreesOne(w, n)) => Orphan9'
    BY <2>4
  <2>7. Orphan9'
    BY <1>5, <2>2, <2>5, <2>6 DEF ReaderStep
  <2> QED BY <1>1, <2>7
<1>6. CASE Rests /\ \E w \in Worker, k \in Class, o, n \in Slot : MovedBy(w, k, o, n)
  <2>1. PICK w \in Worker, k \in Class, o \in Slot, n \in Slot : MovedBy(w, k, o, n)
    BY <1>6
  <2>2. k # CMD_9
    BY <2>1 DEF MovedBy
  <2>3. ch \notin OfClass(k)
    BY <2>2 DEF Cmd9, OfClass
  <2>4. \A d \in reading : context'[d] = ch => context[d] = ch
    BY <2>1, <2>3, MovedContext
  <2>5. readerLock'[ch] /\ \A v \in Worker : ch \notin HeldReaders(v)'
    BY <1>2, <1>6 DEF Rests, HeldSame
  <2>6. ~Reads(ch)'
    BY <1>2, <1>6, <2>4 DEF Rests, Reads
  <2> QED BY <1>1, <1>4, <2>5, <2>6
<1> QED BY <1>1, <1>3, <1>5, <1>6, ReaderSteps

\* The exchange of the CMD_9 channels, while the switching thread's own may be
\* under a reader.
LEMMA Moved9 ==
  ASSUME PlaceInv, Guarded(Cmd9), Rests, NEW w \in Worker, NEW o \in Slot, NEW n \in Slot,
         CMD_9 \in Class, MovedBy(w, CMD_9, o, n)
  PROVE  Inv9'
<1>1. \A d \in reading : context[d] \in Cmd9 => context[d] = own
  BY DEF MovedBy, Guarded, Reads, Cmd9
<1>2. \A d \in reading : /\ context[d] \in Cmd9 <=> context'[d] \in Cmd9
                         /\ d \in Channel
  BY MovedContext DEF Cmd9
<1>3. UNCHANGED <<readerLock, reading>> /\ \A v \in Worker : HeldReaders(v)' = HeldReaders(v)
  BY DEF Rests, HeldSame
<1>4. CASE \A d \in reading : context'[d] \in Cmd9 => context'[d] = own
  <2>1. \A d \in reading : context'[d] \in Cmd9 => context'[d] = context[d]
    BY <1>1, <1>2, <1>4
  <2>2. ASSUME NEW v \in Worker, NEW ch \in HeldReaders(v)' \intersect Cmd9
        PROVE  readerLock'[ch] /\ ~Reads(ch)'
    BY <1>3, <2>1, <2>2 DEF Guarded, Reads
  <2>3. \A d \in reading' : context'[d] \in Cmd9 => readerLock'[context'[d]]
    BY <1>3, <2>1 DEF Guarded
  <2> QED BY <2>2, <2>3 DEF Inv9, Guarded, Cmd9, OfClass
<1>5. CASE \E d \in reading : context'[d] \in Cmd9 /\ context'[d] # own
  <2>1. PICK d \in reading : context'[d] \in Cmd9 /\ context'[d] # own
    BY <1>5
  <2>2. context[d] = own /\ own \in Cmd9 /\ readerLock[own]
    BY <1>1, <1>2, <2>1 DEF Guarded
  <2>3. \A e \in reading : context'[e] = own => e = d
    BY <1>1, <1>2, <2>2, OneReader DEF PlaceInv
  <2>4. ~(\E e \in reading' : context'[e] = own)
    BY <1>3, <2>1, <2>3
  <2>5. \A v \in Worker : own \notin HeldReaders(v)'
    BY <1>3, HeldChannels DEF PlaceInv
  <2>6. PICK ch \in Cmd9 : ch = own
    BY <2>2
  <2>7. readerLock'[ch] /\ ~Reads(ch)' /\ \A v \in Worker : ch \notin HeldReaders(v)'
    BY <1>3, <2>2, <2>4, <2>5, <2>6 DEF Reads
  <2>8. Orphan9'
    BY <2>7 DEF Orphan9, Cmd9, OfClass
  <2>9. ~Before9'
    BY DEF MovedBy
  <2> QED BY <2>8, <2>9 DEF Inv9
<1> QED BY <1>4, <1>5

LEMMA Inv9Step == PlaceInv /\ ReaderInv /\ Inv9 /\ [Next]_vars => Inv9'
<1> SUFFICES ASSUME PlaceInv, ReaderInv, Inv9, [Next]_vars PROVE Inv9'
  OBVIOUS
<1>1. Cmd9 \in SUBSET Channel /\ TypeOK /\ WorkInv /\ PathsLinked
  BY DEF Cmd9, OfClass, PlaceInv
<1>2. CASE Orphan9 /\ ~Before9
  BY <1>2, OrphanStep DEF Inv9
<1>3. CASE Guarded(Cmd9)
  <2>1. CASE UNCHANGED pathVars /\ ReaderStep
    BY <1>1, <1>3, <2>1, GuardedStep DEF ReaderInv, Inv9
  <2>2. CASE Rests /\ \E w \in Worker, k \in Class, o, n \in Slot : MovedBy(w, k, o, n)
    <3>1. PICK w \in Worker, k \in Class, o \in Slot, n \in Slot : MovedBy(w, k, o, n)
      BY <2>2
    <3>2. CASE k = CMD_9
      BY <1>3, <2>2, <3>1, <3>2, Moved9
    <3>3. CASE k # CMD_9
      <4>1. OfClass(k) \intersect Cmd9 = {}
        BY <3>3 DEF Cmd9, OfClass
      <4> QED BY <1>1, <1>3, <2>2, <3>1, <4>1, GuardedMoved DEF Inv9
    <3> QED BY <3>2, <3>3
  <2> QED BY <1>1, <2>1, <2>2, ReaderSteps
<1> QED BY <1>2, <1>3 DEF Inv9

LEMMA InitReaders == Init => ReaderInv /\ Inv9
<1> SUFFICES ASSUME Init PROVE ReaderInv /\ Inv9
  OBVIOUS
<1>1. reading = {} /\ \A w \in Worker : HeldReaders(w) = {}
  BY InitHeld DEF Init
<1> QED BY <1>1 DEF ReaderInv, Inv9, Guarded, ReadersApart

LEMMA ContextStays ==
  ASSUME PlaceInv, ReaderInv, Inv9, [Next]_vars, NEW d \in reading, context[d] # own
  PROVE  context'[d] = context[d]
<1>1. CASE UNCHANGED pathVars
  BY <1>1 DEF pathVars
<1>2. CASE \E w \in Worker, k \in Class, o, n \in Slot : MovedBy(w, k, o, n)
  <2>1. PICK w \in Worker, k \in Class, o \in Slot, n \in Slot : MovedBy(w, k, o, n)
    BY <1>2
  <2>2. context[d] \notin OfClass(k)
    <3>1. \A ch \in OfClass(k) \ {own} : ch \in HeldReaders(w)
      BY <2>1 DEF MovedBy
    <3>2. Guarded(OfClass(k))
      <4>1. CASE k = CMD_9
        BY <2>1, <4>1 DEF MovedBy, Inv9, Cmd9
      <4>2. CASE k # CMD_9
        <5>1. OfClass(k) \subseteq Others
          BY <4>2 DEF Others, Cmd9, OfClass
        <5> QED BY <5>1 DEF ReaderInv, Guarded
      <4> QED BY <4>1, <4>2
    <3> QED BY <3>1, <3>2 DEF Guarded, Reads
  <2> QED BY <2>1, <2>2, MovedContext
<1> QED BY <1>1, <1>2, ReaderSteps DEF PlaceInv

(* m_readerMutex: the context under a reader that processes a line does    *)
(* not change, save that of the switching thread's own channel, whose      *)
(* mutex it does not lock. It holds although that reader may unlock the    *)
(* mutex of another channel afterwards (SimSwitch!ContextStable).          *)
THEOREM ContextStableAlways == Spec => ContextStable
<1> DEFINE Stable == \A d \in reading : context[d] = own \/ context'[d] = context[d]
<1>1. Init => ReaderInv /\ Inv9
  BY InitReaders
<1>2. PlaceInv /\ ReaderInv /\ Inv9 /\ [Next]_vars => (ReaderInv /\ Inv9)'
  BY ReaderInvStep, Inv9Step
<1>3. PlaceInv /\ ReaderInv /\ Inv9 /\ [Next]_vars => [Stable]_vars
  BY ContextStays
<1> QED BY <1>1, <1>2, <1>3, PlaceInvAlways, PTL DEF Spec, ContextStable
=============================================================================
