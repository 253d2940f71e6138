-------------------------- MODULE SafeQueueProofs ---------------------------
(***************************************************************************)
(* Theorems about SafeQueue, for any number of producers, consumers and    *)
(* closers, any frames and any capacity.                                   *)
(*                                                                         *)
(* The inductive invariant IInv joins three facts.  TypeOK alone is not    *)
(* inductive: a pop hands out a frame only because the queue it found      *)
(* non-empty is still non-empty.  GuardsStillHold alone is not inductive   *)
(* either: it survives another thread's push or pop only because that      *)
(* other thread cannot be in the critical section, which is                *)
(* MutualExclusion.                                                        *)
(***************************************************************************)
EXTENDS SafeQueue, FiniteSetTheorems, TLAPS

IInv == TypeOK /\ MutualExclusion /\ GuardsStillHold

\* The initial state satisfies the inductive invariant.
LEMMA InitIInv == Init => IInv
<1> SUFFICES ASSUME Init PROVE IInv
  OBVIOUS
<1> USE DEF Init
<1>1. TypeOK
  <2>1. m_maxSize \in Nat \ {0}
    BY SizesAssumption
  <2>2. pc \in [Threads -> ProducerPoints \cup ConsumerPoints \cup CloserPoints]
    BY DEF ProducerPoints
  <2>3. /\ \A p \in Producers : pc[p] \in ProducerPoints /\ pc[p] = "idle"
        /\ \A c \in Consumers : pc[c] \in ConsumerPoints
        /\ \A x \in Closers : pc[x] \in CloserPoints
    BY DEF Threads, ProducerPoints, ConsumerPoints, CloserPoints
  <2>4. v \in [Threads -> Frames \cup {NullFrame}]
    OBVIOUS
  <2>5. m_queue \in Seq(Frames)
    OBVIOUS
  <2> QED
    BY <2>1, <2>2, <2>3, <2>4, <2>5 DEF TypeOK
<1>2. MutualExclusion
  BY ThreadsAssumption DEF MutualExclusion, InLock
<1>3. GuardsStillHold
  BY DEF GuardsStillHold
<1> QED
  BY <1>1, <1>2, <1>3 DEF IInv

\* notify_one only ever takes a thread out of the set of sleepers.
LEMMA NotifyOneShrinks ==
  ASSUME NEW sleepers, NEW sleepersNext, NotifyOne(sleepers, sleepersNext)
  PROVE  sleepersNext \subseteq sleepers
  BY DEF NotifyOne

\* The three kinds of thread do not overlap, and none is NoThread.
LEMMA ThreadKinds ==
  /\ Producers \subseteq Threads /\ Consumers \subseteq Threads
  /\ Closers \subseteq Threads /\ NoThread \notin Threads
  /\ \A p \in Producers : p \notin Consumers /\ p \notin Closers
  /\ \A c \in Consumers : c \notin Closers
  BY ThreadsAssumption DEF Threads

\* Every step keeps every variable within its type.
LEMMA TypeStep ==
  ASSUME IInv, Next
  PROVE  TypeOK'
<1> USE ThreadKinds DEF TypeOK, ProducerPoints, ConsumerPoints, CloserPoints
<1> TypeOK /\ GuardsStillHold
  BY DEF IInv
<1>1. ASSUME NEW p \in Producers, NEW f \in Frames, ProductCall(p, f)
      PROVE  TypeOK'
  BY <1>1 DEF ProductCall, Goto
<1>2. ASSUME NEW t \in Producers \cup Consumers, Lock(t)
      PROVE  TypeOK'
  BY <1>2 DEF Lock, Goto
<1>3. ASSUME NEW p \in Producers, ProductTest(p)
      PROVE  TypeOK'
  BY <1>3 DEF ProductTest, Goto
<1>4. ASSUME NEW p \in Producers, ProductPush(p)
      PROVE  TypeOK'
  <2>1. m_queue' \in Seq(Frames)
    BY <1>4 DEF ProductPush
  <2>2. m_notEmpty' \in SUBSET Consumers
    BY <1>4, NotifyOneShrinks DEF ProductPush
  <2> QED
    BY <1>4, <2>1, <2>2 DEF ProductPush, Goto
<1>5. ASSUME NEW c \in Consumers, ConsumptionCall(c)
      PROVE  TypeOK'
  BY <1>5 DEF ConsumptionCall, Goto
<1>6. ASSUME NEW c \in Consumers, ConsumptionTest(c)
      PROVE  TypeOK'
  BY <1>6 DEF ConsumptionTest, Goto
<1>7. ASSUME NEW c \in Consumers, ConsumptionLoad(c)
      PROVE  TypeOK'
  BY <1>7 DEF ConsumptionLoad, Goto
<1>8. ASSUME NEW c \in Consumers, ConsumptionWait(c)
      PROVE  TypeOK'
  BY <1>8 DEF ConsumptionWait, Goto
<1>9. ASSUME NEW c \in Consumers, ConsumptionPop(c)
      PROVE  TypeOK'
  <2>1. m_queue # <<>>
    BY <1>9 DEF ConsumptionPop, GuardsStillHold, isEmpty
  <2>2. Head(m_queue) \in Frames /\ m_queue' \in Seq(Frames)
    BY <1>9, <2>1 DEF ConsumptionPop
  <2>3. m_notFull' \in SUBSET Producers
    BY <1>9, NotifyOneShrinks DEF ConsumptionPop
  <2> QED
    BY <1>9, <2>2, <2>3 DEF ConsumptionPop, Goto
<1>10. ASSUME NEW x \in Closers, ExitStore(x) \/ ExitNotify(x)
       PROVE  TypeOK'
  BY <1>10 DEF ExitStore, ExitNotify, ExitNotifyEmpty, ExitNotifyFull, Goto
<1>11. ASSUME NEW n \in MaxSizes, SetMaxSize(n)
       PROVE  TypeOK'
  BY <1>11, SizesAssumption DEF SetMaxSize
<1>12. ASSUME NEW t \in Threads, SpuriousWakeup(t)
       PROVE  TypeOK'
  BY <1>12 DEF SpuriousWakeup
<1> QED
  BY <1>1, <1>2, <1>3, <1>4, <1>5, <1>6, <1>7, <1>8, <1>9, <1>10, <1>11, <1>12
     DEF Next, Product, Consumption, ConsumptionStep

\* Every step keeps the mutex with the thread that is inside.
LEMMA MutexStep ==
  ASSUME IInv, Next
  PROVE  MutualExclusion'
<1> USE ThreadKinds DEF MutualExclusion, InLock
<1> TypeOK /\ MutualExclusion
  BY DEF IInv
<1> pc \in [Threads -> ProducerPoints \cup ConsumerPoints \cup CloserPoints]
  BY DEF TypeOK
<1>1. ASSUME NEW p \in Producers, NEW f \in Frames, ProductCall(p, f)
      PROVE  MutualExclusion'
  BY <1>1 DEF ProductCall, Goto
<1>2. ASSUME NEW t \in Producers \cup Consumers, Lock(t)
      PROVE  MutualExclusion'
  BY <1>2 DEF Lock, Goto
<1>3. ASSUME NEW p \in Producers, ProductTest(p)
      PROVE  MutualExclusion'
  BY <1>3 DEF ProductTest, Goto
<1>4. ASSUME NEW p \in Producers, ProductPush(p)
      PROVE  MutualExclusion'
  BY <1>4 DEF ProductPush, Goto
<1>5. ASSUME NEW c \in Consumers, ConsumptionCall(c)
      PROVE  MutualExclusion'
  BY <1>5 DEF ConsumptionCall, Goto
<1>6. ASSUME NEW c \in Consumers, ConsumptionTest(c)
      PROVE  MutualExclusion'
  BY <1>6 DEF ConsumptionTest, Goto
<1>7. ASSUME NEW c \in Consumers, ConsumptionLoad(c)
      PROVE  MutualExclusion'
  BY <1>7 DEF ConsumptionLoad, Goto
<1>8. ASSUME NEW c \in Consumers, ConsumptionWait(c)
      PROVE  MutualExclusion'
  BY <1>8 DEF ConsumptionWait, Goto
<1>9. ASSUME NEW c \in Consumers, ConsumptionPop(c)
      PROVE  MutualExclusion'
  BY <1>9 DEF ConsumptionPop, Goto
<1>10. ASSUME NEW x \in Closers, ExitStore(x) \/ ExitNotify(x)
       PROVE  MutualExclusion'
  BY <1>10 DEF ExitStore, ExitNotify, ExitNotifyEmpty, ExitNotifyFull, Goto
<1>11. ASSUME NEW n \in MaxSizes, SetMaxSize(n)
       PROVE  MutualExclusion'
  BY <1>11 DEF SetMaxSize
<1>12. ASSUME NEW t \in Threads, SpuriousWakeup(t)
       PROVE  MutualExclusion'
  BY <1>12 DEF SpuriousWakeup
<1> QED
  BY <1>1, <1>2, <1>3, <1>4, <1>5, <1>6, <1>7, <1>8, <1>9, <1>10, <1>11, <1>12
     DEF Next, Product, Consumption, ConsumptionStep

\* Every step keeps what the loop conditions established: only the owner of
\* the mutex touches the queue, and it leaves the critical section doing so.
LEMMA GuardsStep ==
  ASSUME IInv, Next
  PROVE  GuardsStillHold'
<1> USE ThreadKinds DEF GuardsStillHold, isEmpty, isFull
<1> TypeOK /\ MutualExclusion /\ GuardsStillHold
  BY DEF IInv
<1> pc \in [Threads -> ProducerPoints \cup ConsumerPoints \cup CloserPoints]
  BY DEF TypeOK
<1>1. ASSUME NEW p \in Producers, NEW f \in Frames, ProductCall(p, f)
      PROVE  GuardsStillHold'
  BY <1>1 DEF ProductCall, Goto
<1>2. ASSUME NEW t \in Producers \cup Consumers, Lock(t)
      PROVE  GuardsStillHold'
  BY <1>2 DEF Lock, Goto
<1>3. ASSUME NEW p \in Producers, ProductTest(p)
      PROVE  GuardsStillHold'
  BY <1>3 DEF ProductTest, Goto
<1>4. ASSUME NEW p \in Producers, ProductPush(p)
      PROVE  GuardsStillHold'
  BY <1>4 DEF ProductPush, Goto, MutualExclusion, InLock
<1>5. ASSUME NEW c \in Consumers, ConsumptionCall(c)
      PROVE  GuardsStillHold'
  BY <1>5 DEF ConsumptionCall, Goto
<1>6. ASSUME NEW c \in Consumers, ConsumptionTest(c)
      PROVE  GuardsStillHold'
  BY <1>6 DEF ConsumptionTest, Goto
<1>7. ASSUME NEW c \in Consumers, ConsumptionLoad(c)
      PROVE  GuardsStillHold'
  BY <1>7 DEF ConsumptionLoad, Goto
<1>8. ASSUME NEW c \in Consumers, ConsumptionWait(c)
      PROVE  GuardsStillHold'
  BY <1>8 DEF ConsumptionWait, Goto
<1>9. ASSUME NEW c \in Consumers, ConsumptionPop(c)
      PROVE  GuardsStillHold'
  BY <1>9 DEF ConsumptionPop, Goto, MutualExclusion, InLock
<1>10. ASSUME NEW x \in Closers, ExitStore(x) \/ ExitNotify(x)
       PROVE  GuardsStillHold'
  BY <1>10 DEF ExitStore, ExitNotify, ExitNotifyEmpty, ExitNotifyFull, Goto
<1>11. ASSUME NEW n \in MaxSizes, SetMaxSize(n)
       PROVE  GuardsStillHold'
  BY <1>11 DEF SetMaxSize, MutualExclusion, InLock
<1>12. ASSUME NEW t \in Threads, SpuriousWakeup(t)
       PROVE  GuardsStillHold'
  BY <1>12 DEF SpuriousWakeup
<1> QED
  BY <1>1, <1>2, <1>3, <1>4, <1>5, <1>6, <1>7, <1>8, <1>9, <1>10, <1>11, <1>12
     DEF Next, Product, Consumption, ConsumptionStep

LEMMA StepIInv == IInv /\ [Next]_vars => IInv'
<1>1. ASSUME IInv, Next PROVE IInv'
  BY <1>1, TypeStep, MutexStep, GuardsStep DEF IInv
<1>2. ASSUME IInv, UNCHANGED vars PROVE IInv'
  BY <1>2 DEF IInv, vars, TypeOK, MutualExclusion, GuardsStillHold, InLock,
              isEmpty, isFull
<1> QED
  BY <1>1, <1>2

\* The inductive invariant holds in every reachable state.
THEOREM IInvHolds == Spec => []IInv
  BY InitIInv, StepIInv, PTL DEF Spec

\* Every variable of the queue stays within its type.
THEOREM TypeCorrect == Spec => []TypeOK
<1>1. IInv => TypeOK
  BY DEF IInv
<1> QED
  BY <1>1, IInvHolds, PTL

\* Only the owner of m_mutex is in a critical section of product or consumption.
THEOREM MutexCorrect == Spec => []MutualExclusion
<1>1. IInv => MutualExclusion
  BY DEF IInv
<1> QED
  BY <1>1, IInvHolds, PTL

\* A push always finds room and a pop always finds a frame, whatever exit and
\* setMaxSize do between a thread's test and its use of the queue.
THEOREM GuardsCorrect == Spec => []GuardsStillHold
<1>1. IInv => GuardsStillHold
  BY DEF IInv
<1> QED
  BY <1>1, IInvHolds, PTL
-----------------------------------------------------------------------------
(***************************************************************************)
(* The program never calls setMaxSize.  From here on the capacity is the   *)
(* one the constructor was given; without that hypothesis the theorems are *)
(* false: isFull, a test for equality, misses a queue that is too long.    *)
(***************************************************************************)
FixedCapacity == m_maxSize = DefaultMaxSize

ChannelIInv == IInv /\ FixedCapacity /\ Capacity

\* With a fixed capacity, isFull's test for equality is a test for "at least".
LEMMA ChannelIInvStep ==
  ASSUME MaxSizes = {}, ChannelIInv, [Next]_vars
  PROVE  ChannelIInv'
<1> USE DEF FixedCapacity, Capacity
<1>1. IInv'
  BY StepIInv DEF ChannelIInv
<1>2. /\ m_queue \in Seq(Frames) /\ m_maxSize \in Nat
      /\ Len(m_queue) \in Nat /\ Len(m_queue) <= m_maxSize
      /\ m_maxSize = DefaultMaxSize /\ GuardsStillHold
  BY DEF ChannelIInv, IInv, TypeOK
<1>3. CASE UNCHANGED <<m_queue, m_maxSize>>
  BY <1>1, <1>2, <1>3 DEF ChannelIInv
<1>4. ASSUME NEW p \in Producers, ProductPush(p)
      PROVE  ChannelIInv'
  <2>1. Len(m_queue) # m_maxSize
    BY <1>2, <1>4, ThreadKinds DEF ProductPush, GuardsStillHold, isFull
  <2>2. /\ m_maxSize' = m_maxSize
        /\ m_queue' = Append(m_queue, v[p])
    BY <1>4 DEF ProductPush
  <2>3. Len(m_queue') = Len(m_queue) + 1
    BY <1>2, <2>2
  <2> QED
    BY <1>1, <1>2, <2>1, <2>2, <2>3 DEF ChannelIInv
<1>5. ASSUME NEW c \in Consumers, ConsumptionPop(c)
      PROVE  ChannelIInv'
  <2>1. m_queue # <<>>
    BY <1>2, <1>5, ThreadKinds DEF ConsumptionPop, GuardsStillHold, isEmpty
  <2>2. m_maxSize' = m_maxSize /\ m_queue' = Tail(m_queue)
    BY <1>5 DEF ConsumptionPop
  <2>3. Len(m_queue') = Len(m_queue) - 1
    BY <1>2, <2>1, <2>2
  <2> QED
    BY <1>1, <1>2, <2>2, <2>3 DEF ChannelIInv
<1> QED
  BY <1>3, <1>4, <1>5
     DEF Next, vars, Product, ProductCall, Lock, ProductTest, Consumption,
         ConsumptionStep, ConsumptionCall, ConsumptionTest, ConsumptionLoad,
         ConsumptionWait, ExitStore, ExitNotify, ExitNotifyEmpty,
         ExitNotifyFull, SetMaxSize, SpuriousWakeup

LEMMA ChannelIInvHolds ==
  ASSUME MaxSizes = {}
  PROVE  Spec => []ChannelIInv
<1>1. Init => ChannelIInv
  BY InitIInv, SizesAssumption
     DEF Init, ChannelIInv, FixedCapacity, Capacity
<1>2. ChannelIInv /\ [Next]_vars => ChannelIInv'
  BY ChannelIInvStep
<1> QED
  BY <1>1, <1>2, PTL DEF Spec

\* The queue never holds more frames than its capacity, however many
\* producers push and whenever exit wakes them.
THEOREM CapacityHolds ==
  ASSUME MaxSizes = {}
  PROVE  Spec => []Capacity
<1>1. ChannelIInv => Capacity
  BY DEF ChannelIInv
<1> QED
  BY <1>1, ChannelIInvHolds, PTL

\* Each step of the monitor is a step of the atomic channel or leaves it
\* unchanged: the push is Send, the pop Receive, the return on a set flag
\* ReceiveClosed, and the store of the flag Close.
LEMMA ChannelStep ==
  ASSUME ChannelIInv, [Next]_vars, MaxSizes = {}
  PROVE  [Channel!Next]_(Channel!chanVars)
<1> USE ThreadKinds DEF Channel!chanVars
<1>1. /\ TypeOK /\ GuardsStillHold /\ Len(m_queue) <= m_maxSize
      /\ m_maxSize = DefaultMaxSize
  BY DEF ChannelIInv, IInv, FixedCapacity, Capacity
<1>2. m_queue \in Seq(Frames) /\ m_maxSize \in Nat /\ v \in [Threads -> Frames \cup {NullFrame}]
  BY <1>1 DEF TypeOK
<1>3. CASE /\ UNCHANGED <<m_queue, m_isExit>>
           /\ \A c \in Consumers : v'[c] = v[c]
  BY <1>3
<1>4. ASSUME NEW p \in Producers, NEW f \in Frames, ProductCall(p, f)
      PROVE  \A c \in Consumers : v'[c] = v[c]
  BY <1>2, <1>4 DEF ProductCall
<1>5. ASSUME NEW p \in Producers, ProductPush(p)
      PROVE  Channel!Next
  <2>1. pc[p] = "push" /\ v[p] \in Frames
    BY <1>1, <1>5 DEF ProductPush, TypeOK
  <2>2. Len(m_queue) < DefaultMaxSize
    BY <1>1, <1>2, <2>1 DEF GuardsStillHold, isFull
  <2>3. Channel!Send(v[p])
    BY <1>5, <2>2 DEF ProductPush, Channel!Send
  <2> QED
    BY <2>1, <2>3 DEF Channel!Next
<1>6. ASSUME NEW c \in Consumers, ConsumptionPop(c)
      PROVE  Channel!Next
  <2>1. m_queue # <<>>
    BY <1>1, <1>6 DEF ConsumptionPop, GuardsStillHold, isEmpty
  <2>2. [r \in Consumers |-> v'[r]]
          = [[r \in Consumers |-> v[r]] EXCEPT ![c] = Head(m_queue)]
    BY <1>2, <1>6 DEF ConsumptionPop
  <2>3. Channel!Receive(c)
    BY <1>6, <2>1, <2>2 DEF ConsumptionPop, Channel!Receive
  <2> QED
    BY <2>3 DEF Channel!Next
<1>7. ASSUME NEW c \in Consumers, ConsumptionLoad(c), m_isExit
      PROVE  Channel!Next
  <2>1. m_queue = <<>>
    BY <1>1, <1>7 DEF ConsumptionLoad, GuardsStillHold, isEmpty
  <2>2. [r \in Consumers |-> v'[r]]
          = [[r \in Consumers |-> v[r]] EXCEPT ![c] = NullFrame]
    BY <1>2, <1>7 DEF ConsumptionLoad
  <2>3. Channel!ReceiveClosed(c)
    BY <1>7, <2>1, <2>2 DEF ConsumptionLoad, Channel!ReceiveClosed
  <2> QED
    BY <2>3 DEF Channel!Next
<1>8. ASSUME NEW x \in Closers, ExitStore(x)
      PROVE  Channel!Next
  <2>1. Channel!Close
    BY <1>8 DEF ExitStore, Channel!Close
  <2> QED
    BY <2>1 DEF Channel!Next
<1>9. ASSUME ~ \E p \in Producers : ProductPush(p) \/ \E f \in Frames : ProductCall(p, f),
             ~ \E c \in Consumers : ConsumptionPop(c) \/ (ConsumptionLoad(c) /\ m_isExit),
             ~ \E x \in Closers : ExitStore(x)
      PROVE  UNCHANGED <<m_queue, m_isExit, v>>
  BY <1>9
     DEF Next, vars, Product, Lock, ProductTest, Consumption,
         ConsumptionStep, ConsumptionCall, ConsumptionTest, ConsumptionLoad,
         ConsumptionWait, ExitNotify, ExitNotifyEmpty,
         ExitNotifyFull, SetMaxSize, SpuriousWakeup
<1>10. ASSUME NEW p \in Producers, NEW f \in Frames, ProductCall(p, f)
       PROVE  UNCHANGED <<m_queue, m_isExit>>
  BY <1>10 DEF ProductCall
<1> QED
  BY <1>3, <1>4, <1>5, <1>6, <1>7, <1>8, <1>9, <1>10

\* The monitor implements the bounded closable channel: frames come out once,
\* in order, and nullptr comes out only when the queue is closed and drained.
THEOREM SafeQueueImplementsChannel ==
  ASSUME MaxSizes = {}
  PROVE  Spec => ImplementsChannel
<1>1. Init => Channel!Init
  BY ThreadKinds DEF Init, Channel!Init
<1>2. ChannelIInv /\ [Next]_vars => [Channel!Next]_(Channel!chanVars)
  BY ChannelStep
<1> QED
  BY <1>1, <1>2, ChannelIInvHolds, PTL DEF Spec, ImplementsChannel, Channel!Spec
-----------------------------------------------------------------------------
(* Wake-ups: nobody sleeps while there is work for him *)

ComingConsumers == Coming(Consumers, m_notEmpty, "pop")
ComingProducers == Coming(Producers, m_notFull, "push")

\* A sleeper is inside wait().
Asleep == \A t \in m_notEmpty \cup m_notFull : pc[t] = "relock"

LEMMA AsleepStep == IInv /\ Asleep /\ [Next]_vars => Asleep'
<1> SUFFICES ASSUME IInv, Asleep, [Next]_vars PROVE Asleep'
  OBVIOUS
<1> USE ThreadKinds DEF Asleep
<1> pc \in [Threads -> ProducerPoints \cup ConsumerPoints \cup CloserPoints]
    /\ m_notEmpty \subseteq Consumers /\ m_notFull \subseteq Producers
  BY DEF IInv, TypeOK
<1>1. CASE UNCHANGED vars
  BY <1>1 DEF vars
<1>2. ASSUME NEW p \in Producers, NEW f \in Frames, ProductCall(p, f)
      PROVE  Asleep'
  BY <1>2 DEF ProductCall, Goto
<1>3. ASSUME NEW t \in Producers \cup Consumers, Lock(t)
      PROVE  Asleep'
  BY <1>3 DEF Lock, Goto
<1>4. ASSUME NEW p \in Producers, ProductTest(p)
      PROVE  Asleep'
  BY <1>4 DEF ProductTest, Goto
<1>5. ASSUME NEW p \in Producers, ProductPush(p)
      PROVE  Asleep'
  <2>1. m_notEmpty' \subseteq m_notEmpty
    BY <1>5, NotifyOneShrinks DEF ProductPush
  <2> QED
    BY <1>5, <2>1 DEF ProductPush, Goto
<1>6. ASSUME NEW c \in Consumers, ConsumptionCall(c) \/ ConsumptionTest(c) \/ ConsumptionLoad(c)
      PROVE  Asleep'
  BY <1>6 DEF ConsumptionCall, ConsumptionTest, ConsumptionLoad, Goto
<1>7. ASSUME NEW c \in Consumers, ConsumptionWait(c)
      PROVE  Asleep'
  BY <1>7 DEF ConsumptionWait, Goto
<1>8. ASSUME NEW c \in Consumers, ConsumptionPop(c)
      PROVE  Asleep'
  <2>1. m_notFull' \subseteq m_notFull
    BY <1>8, NotifyOneShrinks DEF ConsumptionPop
  <2> QED
    BY <1>8, <2>1 DEF ConsumptionPop, Goto
<1>9. ASSUME NEW x \in Closers, ExitStore(x) \/ ExitNotify(x)
      PROVE  Asleep'
  BY <1>9 DEF ExitStore, ExitNotify, ExitNotifyEmpty, ExitNotifyFull, Goto
<1>10. ASSUME NEW n \in MaxSizes, SetMaxSize(n)
       PROVE  Asleep'
  BY <1>10 DEF SetMaxSize
<1>11. ASSUME NEW t \in Threads, SpuriousWakeup(t)
       PROVE  Asleep'
  BY <1>11 DEF SpuriousWakeup
<1> QED
  BY <1>1, <1>2, <1>3, <1>4, <1>5, <1>6, <1>7, <1>8, <1>9, <1>10, <1>11
     DEF Next, Product, Consumption, ConsumptionStep

\* Counting: a set with no less in it, with one more, with at most one less.
LEMMA NoLess ==
  ASSUME NEW T, IsFiniteSet(T), NEW S, S \subseteq T
  PROVE  Cardinality(S) \in Nat /\ Cardinality(T) \in Nat /\ Cardinality(S) <= Cardinality(T)
  BY FS_Subset, FS_CardinalityType

LEMMA OneMore ==
  ASSUME NEW T, IsFiniteSet(T), NEW e \in T, NEW S, S \subseteq T \ {e}
  PROVE  Cardinality(S) \in Nat /\ Cardinality(T) \in Nat /\ Cardinality(S) + 1 <= Cardinality(T)
<1>1. IsFiniteSet(T \ {e}) /\ Cardinality(T \ {e}) = Cardinality(T) - 1
  BY FS_RemoveElement
<1>2. Cardinality(S) <= Cardinality(T \ {e})
  BY <1>1, FS_Subset
<1> QED
  BY <1>1, <1>2, NoLess

LEMMA OneLess ==
  ASSUME NEW S, IsFiniteSet(S), NEW e, NEW T, IsFiniteSet(T), S \ {e} \subseteq T
  PROVE  Cardinality(S) \in Nat /\ Cardinality(T) \in Nat /\ Cardinality(S) - 1 <= Cardinality(T)
<1>1. S \ {e} \subseteq S /\ Cardinality(S \ {e}) >= Cardinality(S) - 1
  BY FS_RemoveElement, FS_CardinalityType
<1> QED
  BY <1>1, NoLess

LEMMA ComingFinite == IsFiniteSet(ComingConsumers) /\ IsFiniteSet(ComingProducers)
<1>1. ComingConsumers \subseteq Consumers /\ ComingProducers \subseteq Producers
  BY DEF ComingConsumers, ComingProducers, Coming
<1> QED
  BY <1>1, ThreadsAssumption, FS_Subset

\* Every step keeps the frames and their consumers in balance.
LEMMA FrameStep ==
  ASSUME IInv, Asleep, NoStrandedFrame, [Next]_vars
  PROVE  NoStrandedFrame'
<1> USE ThreadKinds
<1>1. /\ pc \in [Threads -> ProducerPoints \cup ConsumerPoints \cup CloserPoints]
      /\ m_notEmpty \subseteq Consumers /\ m_queue \in Seq(Frames) /\ Len(m_queue) \in Nat
      /\ GuardsStillHold /\ TypeOK
  BY DEF IInv, TypeOK
<1>2. IsFiniteSet(ComingConsumers) /\ IsFiniteSet(ComingConsumers')
  <2>1. ComingConsumers' \subseteq Consumers
    BY DEF ComingConsumers, Coming
  <2> QED
    BY <2>1, ComingFinite, ThreadsAssumption, FS_Subset
<1>3. CASE m_notEmpty' = {}
  BY <1>3 DEF NoStrandedFrame
<1>4. CASE /\ m_queue' = m_queue /\ m_notEmpty' \subseteq m_notEmpty
           /\ ComingConsumers \subseteq ComingConsumers'
  <2>1. Cardinality(ComingConsumers) <= Cardinality(ComingConsumers')
        /\ Cardinality(ComingConsumers) \in Nat /\ Cardinality(ComingConsumers') \in Nat
    BY <1>2, <1>4, NoLess
  <2>2. m_notEmpty' # {} => Cardinality(ComingConsumers') >= Len(m_queue')
    BY <1>1, <1>4, <2>1 DEF NoStrandedFrame, ComingConsumers
  <2> QED
    BY <2>2 DEF NoStrandedFrame, ComingConsumers
<1>5. CASE m_queue = <<>> /\ m_queue' = m_queue
  <2>1. Len(m_queue') = 0 /\ Cardinality(ComingConsumers') \in Nat
    BY <1>2, <1>5, FS_CardinalityType
  <2> QED
    BY <2>1 DEF NoStrandedFrame, ComingConsumers
<1>6. ASSUME NEW p \in Producers, ProductPush(p), m_notEmpty' # {}
      PROVE  NoStrandedFrame'
  <2>1. PICK t \in m_notEmpty : m_notEmpty' = m_notEmpty \ {t}
    BY <1>6 DEF ProductPush, NotifyOne
  <2>2. \A c \in Consumers : pc'[c] = pc[c]
    BY <1>1, <1>6 DEF ProductPush, Goto
  <2>3. t \in ComingConsumers' /\ t \notin ComingConsumers
    BY <1>1, <2>1, <2>2 DEF ComingConsumers, Coming, Asleep
  <2>4. ComingConsumers \subseteq ComingConsumers' \ {t}
    BY <2>1, <2>2, <2>3 DEF ComingConsumers, Coming
  <2>5. Cardinality(ComingConsumers) + 1 <= Cardinality(ComingConsumers')
        /\ Cardinality(ComingConsumers) \in Nat /\ Cardinality(ComingConsumers') \in Nat
    BY <1>2, <2>3, <2>4, OneMore
  <2>6. v[p] \in Frames
    BY <1>1, <1>6 DEF TypeOK, ProductPush
  <2>7. Len(m_queue') = Len(m_queue) + 1
    BY <1>1, <1>6, <2>6 DEF ProductPush
  <2>8. Cardinality(ComingConsumers) >= Len(m_queue)
    BY <2>1 DEF NoStrandedFrame, ComingConsumers
  <2>9. Cardinality(ComingConsumers') >= Len(m_queue')
    BY <1>1, <2>5, <2>7, <2>8
  <2> QED
    BY <2>9 DEF NoStrandedFrame, ComingConsumers
<1>7. ASSUME NEW c \in Consumers, ConsumptionPop(c), m_notEmpty' # {}
      PROVE  NoStrandedFrame'
  <2>1. m_queue # <<>> /\ m_notEmpty' = m_notEmpty
    BY <1>1, <1>7 DEF ConsumptionPop, GuardsStillHold, isEmpty
  <2>2. Len(m_queue') = Len(m_queue) - 1
    BY <1>1, <1>7, <2>1 DEF ConsumptionPop
  <2>3. ComingConsumers \ {c} \subseteq ComingConsumers'
    BY <1>1, <1>7, <2>1 DEF ConsumptionPop, Goto, ComingConsumers, Coming
  <2>4. Cardinality(ComingConsumers) - 1 <= Cardinality(ComingConsumers')
        /\ Cardinality(ComingConsumers) \in Nat /\ Cardinality(ComingConsumers') \in Nat
    BY <1>2, <2>3, OneLess
  <2>5. Cardinality(ComingConsumers) >= Len(m_queue)
    BY <1>7, <2>1 DEF NoStrandedFrame, ComingConsumers
  <2>6. Cardinality(ComingConsumers') >= Len(m_queue')
    BY <1>1, <2>2, <2>4, <2>5
  <2> QED
    BY <2>6 DEF NoStrandedFrame, ComingConsumers
<1>8. ASSUME NEW c \in Consumers, ConsumptionTest(c)
      PROVE  NoStrandedFrame'
  <2>1. CASE isEmpty
    BY <1>5, <1>8, <2>1 DEF ConsumptionTest, isEmpty
  <2>2. CASE ~isEmpty
    BY <1>1, <1>4, <1>8, <2>2 DEF ConsumptionTest, Goto, ComingConsumers, Coming
  <2> QED
    BY <2>1, <2>2
<1>9. ASSUME NEW c \in Consumers, ConsumptionWait(c)
      PROVE  NoStrandedFrame'
  BY <1>1, <1>5, <1>9 DEF ConsumptionWait, GuardsStillHold, isEmpty
<1>10. ASSUME NEW c \in Consumers, ConsumptionCall(c) \/ ConsumptionLoad(c)
       PROVE  NoStrandedFrame'
  BY <1>1, <1>4, <1>10 DEF ConsumptionCall, ConsumptionLoad, Goto, ComingConsumers, Coming
<1>11. ASSUME NEW t \in Producers \cup Consumers, Lock(t)
       PROVE  NoStrandedFrame'
  BY <1>1, <1>4, <1>11 DEF Lock, Goto, ComingConsumers, Coming
<1>12. ASSUME NEW p \in Producers, ProductTest(p) \/ \E f \in Frames : ProductCall(p, f)
       PROVE  NoStrandedFrame'
  BY <1>1, <1>4, <1>12 DEF ProductTest, ProductCall, Goto, ComingConsumers, Coming
<1>13. ASSUME NEW x \in Closers, ExitStore(x) \/ ExitNotify(x)
       PROVE  NoStrandedFrame'
  <2>1. CASE ExitNotifyEmpty(x)
    BY <1>3, <2>1 DEF ExitNotifyEmpty
  <2>2. CASE ExitStore(x) \/ ExitNotifyFull(x)
    BY <1>1, <1>4, <2>2 DEF ExitStore, ExitNotifyFull, Goto, ComingConsumers, Coming
  <2> QED
    BY <1>13, <2>1, <2>2 DEF ExitNotify
<1>14. ASSUME NEW n \in MaxSizes, SetMaxSize(n)
       PROVE  NoStrandedFrame'
  BY <1>4, <1>14 DEF SetMaxSize, ComingConsumers, Coming
<1>15. ASSUME NEW t \in Threads, SpuriousWakeup(t)
       PROVE  NoStrandedFrame'
  BY <1>1, <1>4, <1>15 DEF SpuriousWakeup, ComingConsumers, Coming
<1>16. CASE UNCHANGED vars
  BY <1>4, <1>16 DEF vars, ComingConsumers, Coming
<1> QED
  BY <1>3, <1>6, <1>7, <1>8, <1>9, <1>10, <1>11, <1>12, <1>13, <1>14, <1>15, <1>16
     DEF Next, Product, Consumption, ConsumptionStep

\* For any number of threads and any capacities, a frame is never left in the
\* queue for want of a wake-up: not by product, consumption, exit or setMaxSize.
THEOREM NoFrameStranded == Spec => []NoStrandedFrame
<1>1. Init => NoStrandedFrame /\ Asleep
  BY DEF Init, NoStrandedFrame, Asleep
<1>2. IInv /\ Asleep /\ NoStrandedFrame /\ [Next]_vars => Asleep' /\ NoStrandedFrame'
  BY AsleepStep, FrameStep
<1> QED
  BY <1>1, <1>2, IInvHolds, PTL DEF Spec

\* The mirror image, which a raised capacity would disturb.
LEMMA SlotStep ==
  ASSUME MaxSizes = {}, ChannelIInv, Asleep, NoStrandedSlot, [Next]_vars
  PROVE  NoStrandedSlot'
<1> USE ThreadKinds
<1>1. /\ pc \in [Threads -> ProducerPoints \cup ConsumerPoints \cup CloserPoints]
      /\ m_notFull \subseteq Producers /\ m_queue \in Seq(Frames) /\ Len(m_queue) \in Nat
      /\ m_maxSize \in Nat /\ Len(m_queue) <= m_maxSize
      /\ GuardsStillHold /\ TypeOK
  BY DEF ChannelIInv, IInv, TypeOK, Capacity
<1>2. m_maxSize' = m_maxSize
  BY ChannelIInvStep DEF ChannelIInv, FixedCapacity
<1>3. IsFiniteSet(ComingProducers) /\ IsFiniteSet(ComingProducers')
  <2>1. ComingProducers' \subseteq Producers
    BY DEF ComingProducers, Coming
  <2> QED
    BY <2>1, ComingFinite, ThreadsAssumption, FS_Subset
<1>4. CASE m_notFull' = {}
  BY <1>4 DEF NoStrandedSlot
<1>5. CASE /\ m_queue' = m_queue /\ m_notFull' \subseteq m_notFull
           /\ ComingProducers \subseteq ComingProducers'
  <2>1. Cardinality(ComingProducers) <= Cardinality(ComingProducers')
        /\ Cardinality(ComingProducers) \in Nat /\ Cardinality(ComingProducers') \in Nat
    BY <1>3, <1>5, NoLess
  <2>2. m_notFull' # {} => Cardinality(ComingProducers') >= m_maxSize' - Len(m_queue')
    BY <1>1, <1>2, <1>5, <2>1 DEF NoStrandedSlot, ComingProducers
  <2> QED
    BY <2>2 DEF NoStrandedSlot, ComingProducers
<1>6. CASE isFull /\ m_queue' = m_queue
  <2>1. m_maxSize' - Len(m_queue') = 0 /\ Cardinality(ComingProducers') \in Nat
    BY <1>1, <1>2, <1>3, <1>6, FS_CardinalityType DEF isFull
  <2> QED
    BY <2>1 DEF NoStrandedSlot, ComingProducers
<1>7. ASSUME NEW c \in Consumers, ConsumptionPop(c), m_notFull' # {}
      PROVE  NoStrandedSlot'
  <2>1. PICK t \in m_notFull : m_notFull' = m_notFull \ {t}
    BY <1>7 DEF ConsumptionPop, NotifyOne
  <2>2. \A p \in Producers : pc'[p] = pc[p]
    BY <1>1, <1>7 DEF ConsumptionPop, Goto
  <2>3. t \in ComingProducers' /\ t \notin ComingProducers
    BY <1>1, <2>1, <2>2 DEF ComingProducers, Coming, Asleep
  <2>4. ComingProducers \subseteq ComingProducers' \ {t}
    BY <2>1, <2>2, <2>3 DEF ComingProducers, Coming
  <2>5. Cardinality(ComingProducers) + 1 <= Cardinality(ComingProducers')
        /\ Cardinality(ComingProducers) \in Nat /\ Cardinality(ComingProducers') \in Nat
    BY <1>3, <2>3, <2>4, OneMore
  <2>6. m_queue # <<>>
    BY <1>1, <1>7 DEF ConsumptionPop, GuardsStillHold, isEmpty
  <2>7. Len(m_queue') = Len(m_queue) - 1
    BY <1>1, <1>7, <2>6 DEF ConsumptionPop
  <2>8. Cardinality(ComingProducers) >= m_maxSize - Len(m_queue)
    BY <2>1 DEF NoStrandedSlot, ComingProducers
  <2>9. Cardinality(ComingProducers') >= m_maxSize' - Len(m_queue')
    BY <1>1, <1>2, <2>5, <2>7, <2>8
  <2> QED
    BY <2>9 DEF NoStrandedSlot, ComingProducers
<1>8. ASSUME NEW p \in Producers, ProductPush(p), m_notFull' # {}
      PROVE  NoStrandedSlot'
  <2>1. m_notFull' = m_notFull /\ v[p] \in Frames
    BY <1>1, <1>8 DEF ProductPush, TypeOK
  <2>2. Len(m_queue') = Len(m_queue) + 1
    BY <1>1, <1>8, <2>1 DEF ProductPush
  <2>3. ComingProducers \ {p} \subseteq ComingProducers'
    BY <1>1, <1>8, <2>1 DEF ProductPush, Goto, ComingProducers, Coming
  <2>4. Cardinality(ComingProducers) - 1 <= Cardinality(ComingProducers')
        /\ Cardinality(ComingProducers) \in Nat /\ Cardinality(ComingProducers') \in Nat
    BY <1>3, <2>3, OneLess
  <2>5. Cardinality(ComingProducers) >= m_maxSize - Len(m_queue)
    BY <1>8, <2>1 DEF NoStrandedSlot, ComingProducers
  <2>6. Cardinality(ComingProducers') >= m_maxSize' - Len(m_queue')
    BY <1>1, <1>2, <2>2, <2>4, <2>5
  <2> QED
    BY <2>6 DEF NoStrandedSlot, ComingProducers
<1>9. ASSUME NEW p \in Producers, ProductTest(p)
      PROVE  NoStrandedSlot'
  <2>1. CASE isFull
    BY <1>6, <1>9, <2>1 DEF ProductTest
  <2>2. CASE ~isFull
    BY <1>1, <1>5, <1>9, <2>2 DEF ProductTest, Goto, ComingProducers, Coming
  <2> QED
    BY <2>1, <2>2
<1>10. ASSUME NEW p \in Producers, NEW f \in Frames, ProductCall(p, f)
       PROVE  NoStrandedSlot'
  BY <1>1, <1>5, <1>10 DEF ProductCall, Goto, ComingProducers, Coming
<1>11. ASSUME NEW t \in Producers \cup Consumers, Lock(t)
       PROVE  NoStrandedSlot'
  BY <1>1, <1>5, <1>11 DEF Lock, Goto, ComingProducers, Coming
<1>12. ASSUME NEW c \in Consumers,
              ConsumptionCall(c) \/ ConsumptionTest(c) \/ ConsumptionLoad(c) \/ ConsumptionWait(c)
       PROVE  NoStrandedSlot'
  BY <1>1, <1>5, <1>12
     DEF ConsumptionCall, ConsumptionTest, ConsumptionLoad, ConsumptionWait, Goto, ComingProducers, Coming
<1>13. ASSUME NEW x \in Closers, ExitStore(x) \/ ExitNotify(x)
       PROVE  NoStrandedSlot'
  <2>1. CASE ExitNotifyFull(x)
    BY <1>4, <2>1 DEF ExitNotifyFull
  <2>2. CASE ExitStore(x) \/ ExitNotifyEmpty(x)
    BY <1>1, <1>5, <2>2 DEF ExitStore, ExitNotifyEmpty, Goto, ComingProducers, Coming
  <2> QED
    BY <1>13, <2>1, <2>2 DEF ExitNotify
<1>14. ASSUME NEW t \in Threads, SpuriousWakeup(t)
       PROVE  NoStrandedSlot'
  BY <1>1, <1>5, <1>14 DEF SpuriousWakeup, ComingProducers, Coming
<1>15. CASE UNCHANGED vars
  BY <1>5, <1>15 DEF vars, ComingProducers, Coming
<1> QED
  BY <1>4, <1>7, <1>8, <1>9, <1>10, <1>11, <1>12, <1>13, <1>14, <1>15
     DEF Next, Product, Consumption, ConsumptionStep

\* With a fixed capacity and any number of threads, a free slot is never kept
\* from a sleeping producer.
THEOREM NoSlotStranded ==
  ASSUME MaxSizes = {}
  PROVE  Spec => []NoStrandedSlot
<1>1. Init => NoStrandedSlot /\ Asleep
  BY DEF Init, NoStrandedSlot, Asleep
<1>2. ChannelIInv /\ Asleep /\ NoStrandedSlot /\ [Next]_vars => Asleep' /\ NoStrandedSlot'
  BY AsleepStep, SlotStep DEF ChannelIInv
<1> QED
  BY <1>1, <1>2, ChannelIInvHolds, PTL DEF Spec

\* With one thread at an end, nobody else can be on the way: a consumer sleeps on an
\* empty queue only, a producer on a full one.
LEMMA LoneConsumer ==
  ASSUME IInv, NoStrandedFrame, NEW c, Consumers = {c}, c \in m_notEmpty,
         pc[c] \notin {"test", "pop"}
  PROVE  Len(m_queue) = 0
<1>1. Cardinality(Coming(Consumers, m_notEmpty, "pop")) = 0
  <2>1. Coming(Consumers, m_notEmpty, "pop") = {}
    BY DEF Coming
  <2> QED
    BY <2>1, FS_EmptySet
<1>2. Len(m_queue) \in Nat
  BY DEF IInv, TypeOK
<1> QED
  BY <1>1, <1>2 DEF NoStrandedFrame

LEMMA LoneProducer ==
  ASSUME IInv, Capacity, NoStrandedSlot, NEW p, Producers = {p}, p \in m_notFull,
         pc[p] \notin {"test", "push"}
  PROVE  isFull
<1>1. Cardinality(Coming(Producers, m_notFull, "push")) = 0
  <2>1. Coming(Producers, m_notFull, "push") = {}
    BY DEF Coming
  <2> QED
    BY <2>1, FS_EmptySet
<1>2. Len(m_queue) \in Nat /\ m_maxSize \in Nat
  BY DEF IInv, TypeOK
<1> QED
  BY <1>1, <1>2 DEF NoStrandedSlot, Capacity, isFull
=============================================================================
