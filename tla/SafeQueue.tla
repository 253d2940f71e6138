----------------------------- MODULE SafeQueue ------------------------------
(***************************************************************************)
(* inc/SafeQueue.h: the bounded blocking queue that carries decoded frames *)
(* from the streaming thread of a pipeline (product, called by             *)
(* cb_appsink_new_sample) to the inference thread of a task (consumption,  *)
(* called by Yolov5Task::InferenceFrame), and that Yolov5Task::Stop closes *)
(* (exit).                                                                 *)
(*                                                                         *)
(* product, consumption and setMaxSize run under m_mutex.  exit does not   *)
(* take m_mutex: its store to m_isExit and its two broadcasts interleave   *)
(* with the critical sections of the others, which are therefore cut at    *)
(* every point where exit can come between.                                *)
(***************************************************************************)
EXTENDS Naturals, Sequences, FiniteSets

CONSTANTS Producers,        \* threads that call product
          Consumers,        \* threads that call consumption
          Closers,          \* threads that call exit
          Frames,           \* the frames, abstract values
          NullFrame,        \* nullptr
          NoThread,         \* the owner of a free mutex
          DefaultMaxSize,   \* the constructor's maxSize (25 in the code)
          MaxSizes,         \* the values setMaxSize is called with
          SpuriousWakeups   \* whether wait() may return without a notify

Threads == Producers \cup Consumers \cup Closers

ASSUME ThreadsAssumption ==
    /\ Producers \cap Consumers = {}
    /\ Producers \cap Closers = {}
    /\ Consumers \cap Closers = {}
    /\ NoThread \notin Threads
    /\ IsFiniteSet(Consumers) /\ IsFiniteSet(Producers)

ASSUME SizesAssumption ==
    /\ DefaultMaxSize \in Nat \ {0}
    /\ MaxSizes \subseteq Nat \ {0}
    /\ SpuriousWakeups \in BOOLEAN

ASSUME FramesAssumption == NullFrame \notin Frames

VARIABLES
    m_queue,     \* the frames held, oldest first
    m_maxSize,   \* the capacity
    m_isExit,    \* set once by exit, never reset
    m_mutex,     \* the thread that holds the mutex, or NoThread
    m_notEmpty,  \* the threads asleep on this condition variable
    m_notFull,   \* the threads asleep on this condition variable
    pc,          \* where each thread is in its call
    v            \* each call's parameter: the frame in, or the frame out

vars == <<m_queue, m_maxSize, m_isExit, m_mutex, m_notEmpty, m_notFull, pc, v>>

(***************************************************************************)
(* Control points.  "lock": about to construct the unique_lock; "relock":  *)
(* inside wait(), asleep while in a wait set and then reacquiring the      *)
(* mutex; "test": at the head of the while loop; "push", "pop": past the   *)
(* loop; "load", "wait": in the body of consumption's loop.                *)
(***************************************************************************)
InLock == {"test", "push", "load", "wait", "pop"}
ProducerPoints == {"idle", "lock", "relock", "test", "push"}
ConsumerPoints == {"idle", "lock", "relock", "test", "load", "wait", "pop"}
CloserPoints   == {"idle", "notifyEmpty", "notifyFull"}

\* Fault: the off-by-one that admits one frame too many.
isFullLate == Len(m_queue) > m_maxSize

isEmpty == m_queue = <<>>
isFull == Len(m_queue) = m_maxSize

Init ==
    /\ m_queue = <<>>
    /\ m_maxSize = DefaultMaxSize
    /\ m_isExit = FALSE
    /\ m_mutex = NoThread
    /\ m_notEmpty = {}
    /\ m_notFull = {}
    /\ pc = [t \in Threads |-> "idle"]
    /\ v = [t \in Threads |-> NullFrame]

Goto(t, point) == pc' = [pc EXCEPT ![t] = point]

(***************************************************************************)
(* notify_one wakes one sleeper of the scheduler's choice, if there is one *)
(***************************************************************************)
NotifyOne(sleepers, sleepersNext) ==
    IF sleepers = {} THEN sleepersNext = {}
                     ELSE \E t \in sleepers : sleepersNext = sleepers \ {t}

\* Fault: `if` in place of the `while` around wait(): a woken thread does not
\* look at the queue again.
LockWithoutRetest(t) ==
    /\ pc[t] \in {"lock", "relock"}
    /\ t \notin m_notEmpty \cup m_notFull
    /\ m_mutex = NoThread
    /\ m_mutex' = t
    /\ Goto(t, IF pc[t] = "lock" THEN "test"
               ELSE IF t \in Producers THEN "push" ELSE "pop")
    /\ UNCHANGED <<m_queue, m_maxSize, m_isExit, m_notEmpty, m_notFull, v>>

\* The first lock of a call, and the reacquisition wait() does once woken.
Lock(t) ==
    /\ pc[t] \in {"lock", "relock"}
    /\ t \notin m_notEmpty \cup m_notFull
    /\ m_mutex = NoThread
    /\ m_mutex' = t
    /\ Goto(t, "test")
    /\ UNCHANGED <<m_queue, m_maxSize, m_isExit, m_notEmpty, m_notFull, v>>

\* wait(locker) may return though nobody notified.
SpuriousWakeup(t) ==
    /\ SpuriousWakeups
    /\ t \in m_notEmpty \cup m_notFull
    /\ m_notEmpty' = m_notEmpty \ {t}
    /\ m_notFull' = m_notFull \ {t}
    /\ UNCHANGED <<m_queue, m_maxSize, m_isExit, m_mutex, pc, v>>
-----------------------------------------------------------------------------
(* product *)

ProductCall(p, f) ==
    /\ pc[p] = "idle"
    /\ v' = [v EXCEPT ![p] = f]
    /\ Goto(p, "lock")
    /\ UNCHANGED <<m_queue, m_maxSize, m_isExit, m_mutex, m_notEmpty, m_notFull>>

\* while (isFull()) m_notFull.wait(locker): sleeping releases the mutex in
\* the same step.  m_isExit is not looked at.
ProductTest(p) ==
    /\ pc[p] = "test"
    /\ IF isFull
         THEN /\ m_notFull' = m_notFull \cup {p}
              /\ m_mutex' = NoThread
              /\ Goto(p, "relock")
         ELSE /\ Goto(p, "push")
              /\ UNCHANGED <<m_notFull, m_mutex>>
    /\ UNCHANGED <<m_queue, m_maxSize, m_isExit, m_notEmpty, v>>

\* Fault: a notification only when the queue stops being empty.
ProductPushNotifyFirst(p) ==
    /\ pc[p] = "push"
    /\ m_queue' = Append(m_queue, v[p])
    /\ IF isEmpty THEN NotifyOne(m_notEmpty, m_notEmpty') ELSE m_notEmpty' = m_notEmpty
    /\ m_mutex' = NoThread
    /\ Goto(p, "idle")
    /\ UNCHANGED <<m_maxSize, m_isExit, m_notFull, v>>

\* Fault: the notification goes to the producers.
ProductPushNotFull(p) ==
    /\ pc[p] = "push"
    /\ m_queue' = Append(m_queue, v[p])
    /\ NotifyOne(m_notFull, m_notFull')
    /\ m_mutex' = NoThread
    /\ Goto(p, "idle")
    /\ UNCHANGED <<m_maxSize, m_isExit, m_notEmpty, v>>

\* push_back, notify_one, and the unlock at the end of the scope.
ProductPush(p) ==
    /\ pc[p] = "push"
    /\ m_queue' = Append(m_queue, v[p])
    /\ NotifyOne(m_notEmpty, m_notEmpty')
    /\ m_mutex' = NoThread
    /\ Goto(p, "idle")
    /\ UNCHANGED <<m_maxSize, m_isExit, m_notFull, v>>

Product(p) ==
    \/ \E f \in Frames : ProductCall(p, f)
    \/ Lock(p)
    \/ ProductTest(p)
    \/ ProductPush(p)
-----------------------------------------------------------------------------
(* consumption *)

ConsumptionCall(c) ==
    /\ pc[c] = "idle"
    /\ Goto(c, "lock")
    /\ UNCHANGED <<m_queue, m_maxSize, m_isExit, m_mutex, m_notEmpty, m_notFull, v>>

\* Fault: the exit flag is honoured before the queue is drained.
ConsumptionTestExitFirst(c) ==
    /\ pc[c] = "test"
    /\ Goto(c, IF m_isExit \/ isEmpty THEN "load" ELSE "pop")
    /\ UNCHANGED <<m_queue, m_maxSize, m_isExit, m_mutex, m_notEmpty, m_notFull, v>>

ConsumptionTest(c) ==
    /\ pc[c] = "test"
    /\ Goto(c, IF isEmpty THEN "load" ELSE "pop")
    /\ UNCHANGED <<m_queue, m_maxSize, m_isExit, m_mutex, m_notEmpty, m_notFull, v>>

\* if (m_isExit.load()) { v = nullptr; return; }
ConsumptionLoad(c) ==
    /\ pc[c] = "load"
    /\ IF m_isExit
         THEN /\ v' = [v EXCEPT ![c] = NullFrame]
              /\ m_mutex' = NoThread
              /\ Goto(c, "idle")
         ELSE /\ Goto(c, "wait")
              /\ UNCHANGED <<m_mutex, v>>
    /\ UNCHANGED <<m_queue, m_maxSize, m_isExit, m_notEmpty, m_notFull>>

\* m_notEmpty.wait(locker): between the load and this step exit may have
\* stored its flag and sent its only broadcast.
ConsumptionWait(c) ==
    /\ pc[c] = "wait"
    /\ m_notEmpty' = m_notEmpty \cup {c}
    /\ m_mutex' = NoThread
    /\ Goto(c, "relock")
    /\ UNCHANGED <<m_queue, m_maxSize, m_isExit, m_notFull, v>>

\* Fault: a notification only when the queue stops being full.
ConsumptionPopNotifyFirst(c) ==
    /\ pc[c] = "pop"
    /\ v' = [v EXCEPT ![c] = Head(m_queue)]
    /\ m_queue' = Tail(m_queue)
    /\ IF isFull THEN NotifyOne(m_notFull, m_notFull') ELSE m_notFull' = m_notFull
    /\ m_mutex' = NoThread
    /\ Goto(c, "idle")
    /\ UNCHANGED <<m_maxSize, m_isExit, m_notEmpty>>

\* Fault: consumption does not notify at all.
ConsumptionPopSilent(c) ==
    /\ pc[c] = "pop"
    /\ v' = [v EXCEPT ![c] = Head(m_queue)]
    /\ m_queue' = Tail(m_queue)
    /\ m_mutex' = NoThread
    /\ Goto(c, "idle")
    /\ UNCHANGED <<m_maxSize, m_isExit, m_notEmpty, m_notFull>>

ConsumptionPop(c) ==
    /\ pc[c] = "pop"
    /\ v' = [v EXCEPT ![c] = Head(m_queue)]
    /\ m_queue' = Tail(m_queue)
    /\ NotifyOne(m_notFull, m_notFull')
    /\ m_mutex' = NoThread
    /\ Goto(c, "idle")
    /\ UNCHANGED <<m_maxSize, m_isExit, m_notEmpty>>

\* Everything a consumer does inside a call.
ConsumptionStep(c) ==
    \/ Lock(c)
    \/ ConsumptionTest(c)
    \/ ConsumptionLoad(c)
    \/ ConsumptionWait(c)
    \/ ConsumptionPop(c)

Consumption(c) == ConsumptionCall(c) \/ ConsumptionStep(c)
-----------------------------------------------------------------------------
(* exit and setMaxSize *)

ExitStore(x) ==
    /\ pc[x] = "idle"
    /\ m_isExit' = TRUE
    /\ Goto(x, "notifyEmpty")
    /\ UNCHANGED <<m_queue, m_maxSize, m_mutex, m_notEmpty, m_notFull, v>>

\* Fault: the consumers are not notified.
ExitNotifyEmptyMissing(x) ==
    /\ pc[x] = "notifyEmpty"
    /\ Goto(x, "notifyFull")
    /\ UNCHANGED <<m_queue, m_maxSize, m_isExit, m_mutex, m_notEmpty, m_notFull, v>>

ExitNotifyEmpty(x) ==
    /\ pc[x] = "notifyEmpty"
    /\ m_notEmpty' = {}
    /\ Goto(x, "notifyFull")
    /\ UNCHANGED <<m_queue, m_maxSize, m_isExit, m_mutex, m_notFull, v>>

ExitNotifyFull(x) ==
    /\ pc[x] = "notifyFull"
    /\ m_notFull' = {}
    /\ Goto(x, "idle")
    /\ UNCHANGED <<m_queue, m_maxSize, m_isExit, m_mutex, m_notEmpty, v>>

ExitNotify(x) == ExitNotifyEmpty(x) \/ ExitNotifyFull(x)

\* The whole critical section in one step; it notifies nobody.
SetMaxSize(n) ==
    /\ m_mutex = NoThread
    /\ m_maxSize' = n
    /\ UNCHANGED <<m_queue, m_isExit, m_mutex, m_notEmpty, m_notFull, pc, v>>
-----------------------------------------------------------------------------
Next ==
    \/ \E p \in Producers : Product(p)
    \/ \E c \in Consumers : Consumption(c)
    \/ \E x \in Closers : ExitStore(x) \/ ExitNotify(x)
    \/ \E n \in MaxSizes : SetMaxSize(n)
    \/ \E t \in Threads : SpuriousWakeup(t)

Spec == Init /\ [][Next]_vars

(***************************************************************************)
(* Threads that are inside a call are run by the scheduler, and the        *)
(* inference loop calls consumption again and again.  Nothing obliges the  *)
(* source to deliver another frame, or anyone to call exit.  A mutex that  *)
(* keeps being taken by others is not promised to a waiting thread.        *)
(***************************************************************************)
Fairness ==
    /\ \A p \in Producers : WF_vars(Lock(p) \/ ProductTest(p) \/ ProductPush(p))
    /\ \A c \in Consumers : WF_vars(Consumption(c))
    /\ \A x \in Closers : WF_vars(ExitNotify(x))

FairSpec == Spec /\ Fairness
-----------------------------------------------------------------------------
(* Properties *)

\* Every thread is at a point of its own operation, the queue holds frames
\* and only producers sleep on m_notFull, only consumers on m_notEmpty.
TypeOK ==
    /\ m_queue \in Seq(Frames)
    /\ m_maxSize \in Nat \ {0}
    /\ m_isExit \in BOOLEAN
    /\ m_mutex \in Threads \cup {NoThread}
    /\ m_notEmpty \in SUBSET Consumers
    /\ m_notFull \in SUBSET Producers
    /\ pc \in [Threads -> ProducerPoints \cup ConsumerPoints \cup CloserPoints]
    /\ \A p \in Producers : pc[p] \in ProducerPoints
    /\ \A c \in Consumers : pc[c] \in ConsumerPoints
    /\ \A x \in Closers : pc[x] \in CloserPoints
    /\ v \in [Threads -> Frames \cup {NullFrame}]
    /\ \A p \in Producers : pc[p] # "idle" => v[p] \in Frames

\* The thread inside the critical section is the owner of m_mutex, so that
\* what a loop condition established still holds when the loop is left: a
\* push finds room and a pop finds a frame.
MutualExclusion ==
    \A t \in Threads : pc[t] \in InLock <=> m_mutex = t

GuardsStillHold ==
    \A t \in Threads :
        /\ pc[t] = "push" => ~isFull
        /\ pc[t] = "pop" => ~isEmpty
        /\ pc[t] \in {"load", "wait"} => isEmpty

\* The capacity is a capacity: the queue never holds more than m_maxSize
\* frames ("the maximum capacity of the queue", the comment on m_maxSize).
Capacity == Len(m_queue) <= m_maxSize

\* The threads a wake-up is on its way to, or that are in the critical section.
Coming(threads, sleeping, past) ==
    {t \in threads : \/ pc[t] = "relock" /\ t \notin sleeping
                     \/ pc[t] \in {"test", past}}

\* No lost wake-up between product and consumption: as long as a consumer
\* sleeps on m_notEmpty, every frame in the queue has a consumer of its own
\* that is awake and coming for it, however pushes, pops and wake-ups mix.
NoStrandedFrame ==
    m_notEmpty # {} =>
        Cardinality(Coming(Consumers, m_notEmpty, "pop")) >= Len(m_queue)

\* The mirror image: as long as a producer sleeps on m_notFull, every free
\* slot has an awake producer coming for it.
NoStrandedSlot ==
    m_notFull # {} =>
        Cardinality(Coming(Producers, m_notFull, "push")) >= m_maxSize - Len(m_queue)

\* While the inference loop consumes, every call of product returns, also one
\* that had to sleep on a full queue.
ProductReturns == \A p \in Producers : pc[p] # "idle" ~> pc[p] = "idle"

\* A frame in the queue is picked up, also when the consumer was asleep.
QueueDrains == m_queue # <<>> ~> \E c \in Consumers : pc[c] = "pop"

\* The monitor implements the atomic channel: frames come out once and in the
\* order they went in, and nullptr comes out only of a closed, drained queue.
Channel == INSTANCE FrameChannel WITH
    Receivers <- Consumers,
    Capacity  <- DefaultMaxSize,
    buffer    <- m_queue,
    closed    <- m_isExit,
    received  <- [c \in Consumers |-> v[c]]

ImplementsChannel == Channel!Spec
=============================================================================
