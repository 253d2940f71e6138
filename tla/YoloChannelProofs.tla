------------------------- MODULE YoloChannelProofs --------------------------
(***************************************************************************)
(* Theorems about YoloChannel, for any frames and any capacity of the      *)
(* queue.                                                                  *)
(*                                                                         *)
(* The queue inside is the monitor of SafeQueue: each step of the channel  *)
(* is a step of the queue or leaves it alone (QueueStep), so that the      *)
(* invariant proved in SafeQueueProofs carries over and is not proved      *)
(* again.  Around it the inductive invariant says where the three threads  *)
(* can be for each point of the controller (Life), what the pipeline can   *)
(* be doing (Pipeline), and what a stop has achieved (Stopped).            *)
(***************************************************************************)
EXTENDS YoloChannel, FiniteSetTheorems, TLAPS

QueueFacts == INSTANCE SafeQueueProofs WITH
    Producers <- {Streamer}, Consumers <- {Infer}, Closers <- {Controller},
    DefaultMaxSize <- QueueSize, MaxSizes <- {}, SpuriousWakeups <- FALSE

Types ==
    /\ current \in {"null", "prerolling", "paused", "playing"}
    /\ target \in {"null", "paused", "playing"}
    /\ isRunning \in BOOLEAN
    /\ inferThread \in BOOLEAN
    /\ inferPc \in {"absent", "test", "consume", "done"}
    /\ ctl \in {"idle", "startTask", "pause", "awaitPaused", "destroy", "stopTask",
                "exit", "join", "gone", "terminated"}
    /\ request \in {"none", "start", "stop", "delete"}
    /\ eosDropped \in BOOLEAN
    /\ gaveUp \in BOOLEAN /\ overtaken \in BOOLEAN /\ startedTwice \in BOOLEAN
    /\ inferThread <=> inferPc # "absent"

\* Only a thread that is there is in a call of the queue, and the controller
\* is at a point of the request it handles.
Life ==
    /\ pc[Infer] # "idle" => inferPc = "consume"
    /\ pc[Controller] # "idle" => ctl = "join"
    /\ ctl \in {"startTask", "terminated"} => request = "start"
    /\ ctl \in {"pause", "awaitPaused"} => request = "stop"
    /\ ctl \in {"stopTask", "exit", "join"} => request \in {"stop", "delete"}
    /\ ctl \in {"destroy", "gone"} => request = "delete"
    /\ request = "delete" => ctl # "idle"
    /\ ctl = "gone" => ~inferThread

\* A callback runs only while the pipeline plays, and a deleted pipeline does
\* not play.
Pipeline ==
    /\ InCallback => current = "playing"
    /\ current = "playing" => target = "playing"
    /\ current = "prerolling" => ctl = "awaitPaused"
    /\ ctl = "awaitPaused" => target = "paused"
    /\ request = "delete" /\ ctl # "destroy" => current = "null" /\ target = "null"

\* A stop that is past the pause leaves the pipeline stopped or has given up,
\* and a pipeline that is to play has its task, but for the same exception.
Stopped ==
    /\ request = "stop" /\ ctl # "pause" => target # "playing" \/ gaveUp
    /\ target = "playing" => inferThread \/ ctl = "startTask" \/ gaveUp

IInv == QueueFacts!IInv /\ Types /\ Life /\ Pipeline /\ Stopped
-----------------------------------------------------------------------------
(* The queue inside the channel *)

\* The three threads meet what the theorems about the queue assume.
LEMMA QueueAssumptions ==
  /\ QueueFacts!ThreadsAssumption
  /\ QueueFacts!SizesAssumption
  /\ QueueFacts!FramesAssumption
<1>1. IsFiniteSet({Streamer}) /\ IsFiniteSet({Infer})
  BY FS_Singleton
<1>2. QueueFacts!IsFiniteSet({Streamer}) /\ QueueFacts!IsFiniteSet({Infer})
  BY <1>1 DEF QueueFacts!IsFiniteSet, IsFiniteSet
<1>3. QueueFacts!ThreadsAssumption
  BY <1>2, ThreadsAssumption DEF QueueFacts!Threads
<1>4. QueueFacts!SizesAssumption
  BY ConstantsAssumption
<1>5. QueueFacts!FramesAssumption
  BY ConstantsAssumption
<1> QED
  BY <1>3, <1>4, <1>5

LEMMA QueueStep == QueueFacts!IInv /\ [QueueFacts!Next]_queueVars => QueueFacts!IInv'
  BY QueueAssumptions, QueueFacts!StepIInv DEF QueueFacts!vars, queueVars

LEMMA QueueInit == Queue!Init => QueueFacts!IInv
  BY QueueAssumptions, QueueFacts!InitIInv
     DEF QueueFacts!Init, Queue!Init, QueueFacts!Threads, Queue!Threads

\* Where a thread is depends on that thread alone.
LEMMA PcFunction ==
  ASSUME QueueFacts!IInv
  PROVE  /\ pc = [t \in {Streamer, Infer, Controller} |-> pc[t]]
         /\ m_mutex \in {Streamer, Infer, Controller, NoThread}
  BY DEF QueueFacts!IInv, QueueFacts!TypeOK, QueueFacts!Threads

\* A step of the callback is a step of the queue, of the streaming thread.
LEMMA StreamerMoves ==
  ASSUME QueueFacts!IInv, NewSample \/ CallbackStep
  PROVE  /\ QueueFacts!Next
         /\ pc'[Infer] = pc[Infer] /\ pc'[Controller] = pc[Controller]
         /\ CallbackStep => InCallback
<1> USE PcFunction, ThreadsAssumption
<1>1. ASSUME NEW f \in Frames, Queue!ProductCall(Streamer, f)
      PROVE  /\ QueueFacts!Product(Streamer)
             /\ pc'[Infer] = pc[Infer] /\ pc'[Controller] = pc[Controller]
  BY <1>1 DEF QueueFacts!Product, QueueFacts!ProductCall, QueueFacts!Goto,
              Queue!ProductCall, Queue!Goto
<1>2. ASSUME Queue!Lock(Streamer)
      PROVE  /\ QueueFacts!Product(Streamer)
             /\ pc'[Infer] = pc[Infer] /\ pc'[Controller] = pc[Controller]
             /\ InCallback
  BY <1>2 DEF QueueFacts!Product, QueueFacts!Lock, QueueFacts!Goto, Queue!Lock,
              Queue!Goto, InCallback
<1>3. ASSUME Queue!ProductTest(Streamer)
      PROVE  /\ QueueFacts!Product(Streamer)
             /\ pc'[Infer] = pc[Infer] /\ pc'[Controller] = pc[Controller]
             /\ InCallback
  BY <1>3 DEF QueueFacts!Product, QueueFacts!ProductTest, QueueFacts!Goto,
              QueueFacts!isFull, Queue!ProductTest, Queue!Goto, Queue!isFull, InCallback
<1>4. ASSUME Queue!ProductPush(Streamer)
      PROVE  /\ QueueFacts!Product(Streamer)
             /\ pc'[Infer] = pc[Infer] /\ pc'[Controller] = pc[Controller]
             /\ InCallback
  BY <1>4 DEF QueueFacts!Product, QueueFacts!ProductPush, QueueFacts!Goto,
              QueueFacts!NotifyOne, Queue!ProductPush, Queue!Goto, Queue!NotifyOne,
              InCallback
<1>5. QueueFacts!Product(Streamer) => QueueFacts!Next
  BY DEF QueueFacts!Next
<1>6. CASE NewSample
  <2>1. PICK f \in Frames : Queue!ProductCall(Streamer, f)
    BY <1>6 DEF NewSample
  <2>2. ~CallbackStep \/ InCallback
    BY <1>2, <1>3, <1>4 DEF CallbackStep
  <2> QED
    BY <1>1, <1>5, <2>1, <2>2
<1>7. CASE CallbackStep
  BY <1>2, <1>3, <1>4, <1>5, <1>7 DEF CallbackStep
<1> QED
  BY <1>6, <1>7

\* A step of consumption is a step of the queue, of the inference thread.
LEMMA InferMoves ==
  ASSUME QueueFacts!IInv, Queue!ConsumptionCall(Infer) \/ Queue!ConsumptionStep(Infer)
  PROVE  /\ QueueFacts!Next
         /\ pc'[Streamer] = pc[Streamer] /\ pc'[Controller] = pc[Controller]
<1> USE PcFunction, ThreadsAssumption
<1> DEFINE Moved == /\ QueueFacts!Consumption(Infer)
                    /\ pc'[Streamer] = pc[Streamer] /\ pc'[Controller] = pc[Controller]
<1>1. ASSUME Queue!ConsumptionCall(Infer) PROVE Moved
  BY <1>1 DEF QueueFacts!Consumption, QueueFacts!ConsumptionCall, QueueFacts!Goto,
              Queue!ConsumptionCall, Queue!Goto
<1>2. ASSUME Queue!Lock(Infer) PROVE Moved
  BY <1>2 DEF QueueFacts!Consumption, QueueFacts!ConsumptionStep, QueueFacts!Lock,
              QueueFacts!Goto, Queue!Lock, Queue!Goto
<1>3. ASSUME Queue!ConsumptionTest(Infer) PROVE Moved
  BY <1>3 DEF QueueFacts!Consumption, QueueFacts!ConsumptionStep,
              QueueFacts!ConsumptionTest, QueueFacts!Goto, QueueFacts!isEmpty,
              Queue!ConsumptionTest, Queue!Goto, Queue!isEmpty
<1>4. ASSUME Queue!ConsumptionLoad(Infer) PROVE Moved
  BY <1>4 DEF QueueFacts!Consumption, QueueFacts!ConsumptionStep,
              QueueFacts!ConsumptionLoad, QueueFacts!Goto, Queue!ConsumptionLoad,
              Queue!Goto
<1>5. ASSUME Queue!ConsumptionWait(Infer) PROVE Moved
  BY <1>5 DEF QueueFacts!Consumption, QueueFacts!ConsumptionStep,
              QueueFacts!ConsumptionWait, QueueFacts!Goto, Queue!ConsumptionWait,
              Queue!Goto
<1>6. ASSUME Queue!ConsumptionPop(Infer) PROVE Moved
  BY <1>6 DEF QueueFacts!Consumption, QueueFacts!ConsumptionStep,
              QueueFacts!ConsumptionPop, QueueFacts!Goto, QueueFacts!NotifyOne,
              Queue!ConsumptionPop, Queue!Goto, Queue!NotifyOne
<1>7. Moved
  BY <1>1, <1>2, <1>3, <1>4, <1>5, <1>6 DEF Queue!ConsumptionStep
<1>8. QueueFacts!Consumption(Infer) => QueueFacts!Next
  BY DEF QueueFacts!Next
<1> QED
  BY <1>7, <1>8

\* A step of exit is a step of the queue, of the controller.
LEMMA ControllerMoves ==
  ASSUME QueueFacts!IInv, Queue!ExitStore(Controller) \/ Queue!ExitNotify(Controller)
  PROVE  /\ QueueFacts!Next
         /\ pc'[Streamer] = pc[Streamer] /\ pc'[Infer] = pc[Infer]
<1> USE PcFunction, ThreadsAssumption
<1>1. ASSUME Queue!ExitStore(Controller)
      PROVE  /\ QueueFacts!ExitStore(Controller)
             /\ pc'[Streamer] = pc[Streamer] /\ pc'[Infer] = pc[Infer]
  BY <1>1 DEF QueueFacts!ExitStore, QueueFacts!Goto, Queue!ExitStore, Queue!Goto
<1>2. ASSUME Queue!ExitNotifyEmpty(Controller)
      PROVE  /\ QueueFacts!ExitNotify(Controller)
             /\ pc'[Streamer] = pc[Streamer] /\ pc'[Infer] = pc[Infer]
  BY <1>2 DEF QueueFacts!ExitNotify, QueueFacts!ExitNotifyEmpty, QueueFacts!Goto,
              Queue!ExitNotifyEmpty, Queue!Goto
<1>3. ASSUME Queue!ExitNotifyFull(Controller)
      PROVE  /\ QueueFacts!ExitNotify(Controller)
             /\ pc'[Streamer] = pc[Streamer] /\ pc'[Infer] = pc[Infer]
  BY <1>3 DEF QueueFacts!ExitNotify, QueueFacts!ExitNotifyFull, QueueFacts!Goto,
              Queue!ExitNotifyFull, Queue!Goto
<1>4. QueueFacts!ExitStore(Controller) \/ QueueFacts!ExitNotify(Controller) => QueueFacts!Next
  BY DEF QueueFacts!Next
<1> QED
  BY <1>1, <1>2, <1>3, <1>4 DEF Queue!ExitNotify
-----------------------------------------------------------------------------
(* The inductive invariant *)

LEMMA InitIInv == Init => IInv
<1> SUFFICES ASSUME Init PROVE IInv
  OBVIOUS
<1>1. QueueFacts!IInv
  BY QueueInit DEF Init
<1>2. \A t \in {Streamer, Infer, Controller} : pc[t] = "idle"
  BY DEF Init, Queue!Init, Queue!Threads
<1>3. Types /\ Life /\ Pipeline /\ Stopped
  BY <1>2 DEF Init, Types, Life, Pipeline, Stopped, InCallback
<1> QED
  BY <1>1, <1>3 DEF IInv

\* The steps that GStreamer takes, outside and inside the callback.
LEMMA PipelineStep ==
  ASSUME IInv, PipelineSettles \/ PipelineFails \/ SourceEnds \/ NewSample \/ CallbackStep
  PROVE  IInv'
<1> USE DEF IInv, Types, Life, Pipeline, Stopped, InCallback
<1>1. CASE PipelineSettles
  <2>1. QueueFacts!IInv'
    BY <1>1, QueueStep DEF PipelineSettles, queueVars
  <2> QED
    BY <1>1, <2>1 DEF PipelineSettles, queueVars, taskVars, controlVars, history
<1>2. CASE PipelineFails
  <2>1. QueueFacts!IInv'
    BY <1>2, QueueStep DEF PipelineFails, queueVars
  <2> QED
    BY <1>2, <2>1 DEF PipelineFails, queueVars, taskVars, controlVars, history
<1>3. CASE SourceEnds
  <2>1. QueueFacts!IInv'
    BY <1>3, QueueStep DEF SourceEnds, queueVars
  <2> QED
    BY <1>3, <2>1 DEF SourceEnds, queueVars, taskVars, controlVars, history
<1>4. CASE NewSample \/ CallbackStep
  <2>1. QueueFacts!IInv'
    BY <1>4, StreamerMoves, QueueStep
  <2> QED
    BY <1>4, <2>1, StreamerMoves
       DEF NewSample, CallbackStep, pipelineVars, taskVars, controlVars, history
<1> QED
  BY <1>1, <1>2, <1>3, <1>4

\* The steps of the inference thread.
LEMMA InferenceStep ==
  ASSUME IInv, Inference
  PROVE  IInv'
<1> USE DEF IInv, Types, Life, Pipeline, Stopped, InCallback
<1>1. CASE InferTest
  <2>1. CASE isRunning
    <3>1. QueueFacts!IInv'
      BY <1>1, <2>1, InferMoves, QueueStep DEF InferTest
    <3> QED
      BY <1>1, <2>1, <3>1, InferMoves DEF InferTest, pipelineVars, controlVars, history
  <2>2. CASE ~isRunning
    <3>1. QueueFacts!IInv'
      BY <1>1, <2>2, QueueStep DEF InferTest
    <3> QED
      BY <1>1, <2>2, <3>1 DEF InferTest, queueVars, pipelineVars, controlVars, history
  <2> QED
    BY <2>1, <2>2
<1>2. CASE InferConsume
  <2>1. QueueFacts!IInv'
    BY <1>2, InferMoves, QueueStep DEF InferConsume
  <2> QED
    BY <1>2, <2>1, InferMoves DEF InferConsume, pipelineVars, taskVars, controlVars, history
<1>3. CASE InferUse
  <2>1. QueueFacts!IInv'
    BY <1>3, QueueStep DEF InferUse
  <2> QED
    BY <1>3, <2>1 DEF InferUse, queueVars, pipelineVars, controlVars, history
<1> QED
  BY <1>1, <1>2, <1>3 DEF Inference

\* The beginning of a request, and what it does to the pipeline.
LEMMA RequestStep ==
  ASSUME IInv,
         \/ StartPipeline \/ StopPipeline \/ DeletePipeline
         \/ StartTask \/ StopPause \/ StopAwaitPaused \/ DestroyPipeline
  PROVE  IInv'
<1> USE DEF IInv, Types, Life, Pipeline, Stopped, InCallback, queueVars, pipelineVars,
            taskVars, history
<1>1. QueueFacts!IInv'
  BY QueueStep DEF StartPipeline, StopPipeline, DeletePipeline, StartTask, StopPause,
                   StopAwaitPaused, DestroyPipeline
<1>2. CASE StartPipeline
  BY <1>1, <1>2 DEF StartPipeline
<1>3. CASE StopPipeline
  BY <1>1, <1>3 DEF StopPipeline
<1>4. CASE DeletePipeline
  BY <1>1, <1>4 DEF DeletePipeline
<1>5. CASE StartTask
  BY <1>1, <1>5 DEF StartTask
<1>6. CASE StopPause
  BY <1>1, <1>6 DEF StopPause
<1>7. CASE StopAwaitPaused
  BY <1>1, <1>7 DEF StopAwaitPaused
<1>8. CASE DestroyPipeline
  BY <1>1, <1>8 DEF DestroyPipeline
<1> QED
  BY <1>2, <1>3, <1>4, <1>5, <1>6, <1>7, <1>8

\* What a stop and a delete do to the task.
LEMMA TaskStep ==
  ASSUME IInv, TaskTest \/ TaskExit \/ TaskExitNotify \/ TaskJoin
  PROVE  IInv'
<1> USE DEF IInv, Types, Life, Pipeline, Stopped, InCallback, pipelineVars, taskVars,
            history, Finished
<1>1. CASE TaskTest
  <2>1. QueueFacts!IInv'
    BY <1>1, QueueStep DEF TaskTest
  <2> QED
    BY <1>1, <2>1 DEF TaskTest, queueVars
<1>2. CASE TaskExit
  <2>1. QueueFacts!IInv'
    BY <1>2, ControllerMoves, QueueStep DEF TaskExit
  <2> QED
    BY <1>2, <2>1, ControllerMoves DEF TaskExit
<1>3. CASE TaskExitNotify
  <2>1. QueueFacts!IInv'
    BY <1>3, ControllerMoves, QueueStep DEF TaskExitNotify
  <2> QED
    BY <1>3, <2>1, ControllerMoves DEF TaskExitNotify, controlVars
<1>4. CASE TaskJoin
  <2>1. QueueFacts!IInv'
    BY <1>4, QueueStep DEF TaskJoin
  <2> QED
    BY <1>4, <2>1 DEF TaskJoin, queueVars, ExitReturned
<1> QED
  BY <1>1, <1>2, <1>3, <1>4

LEMMA StepIInv == IInv /\ [Next]_vars => IInv'
<1>1. ASSUME IInv, Next PROVE IInv'
  BY <1>1, PipelineStep, InferenceStep, RequestStep, TaskStep DEF Next, Handling
<1>2. ASSUME IInv, UNCHANGED vars PROVE IInv'
  <2>1. QueueFacts!IInv'
    BY <1>2, QueueStep DEF IInv, vars
  <2> QED
    BY <1>2, <2>1 DEF IInv, Types, Life, Pipeline, Stopped, InCallback, vars, queueVars,
                      pipelineVars, taskVars, controlVars, history
<1> QED
  BY <1>1, <1>2

LEMMA Invariance == Spec => []IInv
  BY InitIInv, StepIInv, PTL DEF Spec
-----------------------------------------------------------------------------
(* Theorems *)

\* The variables of the channel and of the queue in it stay within their types,
\* and the thread object exists exactly while the thread does.
THEOREM TypeCorrect == Spec => []TypeOK
<1>1. IInv => TypeOK
  <2> SUFFICES ASSUME IInv PROVE TypeOK
    OBVIOUS
  <2>1. Queue!TypeOK
    BY DEF IInv, QueueFacts!IInv, QueueFacts!TypeOK, Queue!TypeOK, QueueFacts!Threads,
           Queue!Threads, QueueFacts!ProducerPoints, Queue!ProducerPoints,
           QueueFacts!ConsumerPoints, Queue!ConsumerPoints, QueueFacts!CloserPoints,
           Queue!CloserPoints
  <2> QED
    BY <2>1 DEF IInv, Types, TypeOK
<1> QED
  BY <1>1, Invariance, PTL

\* Whenever the delete of a channel has been answered, the streaming thread is
\* out of the callback and cannot enter it again, the inference thread has
\* ended, and nobody holds the mutex of the queue that is freed.
THEOREM NothingAfterDelete == Spec => []NothingRunsAfterDelete
<1>1. IInv => NothingRunsAfterDelete
  <2> SUFFICES ASSUME IInv, ctl = "gone"
               PROVE  /\ ~InCallback /\ current = "null" /\ target = "null"
                      /\ inferPc = "absent" /\ m_mutex = NoThread
    BY DEF NothingRunsAfterDelete
  <2>1. /\ ~InCallback /\ current = "null" /\ target = "null"
        /\ inferPc = "absent"
    BY DEF IInv, Types, Life, Pipeline
  <2>2. pc[Streamer] = "idle" /\ pc[Infer] = "idle" /\ pc[Controller] = "idle"
    BY <2>1 DEF IInv, Life, InCallback
  <2>3. QueueFacts!IInv
    BY DEF IInv
  <2>4. \A t \in {Streamer, Infer, Controller} : m_mutex # t
    BY <2>2, <2>3 DEF QueueFacts!IInv, QueueFacts!MutualExclusion, QueueFacts!InLock,
                      QueueFacts!Threads
  <2> QED
    BY <2>1, <2>3, <2>4, PcFunction
<1> QED
  BY <1>1, Invariance, PTL

\* A stop that has been answered has kept the pipeline from playing, unless a
\* stop found it between two states and gave up.
THEOREM StopStops == Spec => []StoppedUnlessGaveUp
<1>1. IInv => StoppedUnlessGaveUp
  BY DEF IInv, Stopped, StoppedUnlessGaveUp
<1> QED
  BY <1>1, Invariance, PTL

\* The controller waits for a callback that waits for a consumer that is gone
\* only after a stop that gave up, whatever the capacity of the queue.
THEOREM WedgeNeedsGivingUp == Spec => []WedgedOnlyAfterGivingUp
<1>1. IInv => WedgedOnlyAfterGivingUp
  BY DEF IInv, Pipeline, Stopped, Wedged, WedgedOnlyAfterGivingUp
<1> QED
  BY <1>1, Invariance, PTL

\* The thread object is empty whenever a start may come, but the one that follows
\* a start; and then it is not.
Starts ==
    /\ ctl = "idle" => (inferThread <=> request = "start")
    /\ ctl = "startTask" => (inferThread <=> startedTwice)
    /\ OnlyRestartTerminates

\* Any client, with repeated starts or without: the program is brought down by the
\* start of a channel that is started, by each such start and by nothing else.
THEOREM RestartTerminates == Spec => []OnlyRestartTerminates
<1>1. Init => Starts
  BY DEF Init, Starts, OnlyRestartTerminates
<1>2. IInv /\ Starts /\ [Next]_vars => Starts'
  <2> SUFFICES ASSUME IInv, Starts, [Next]_vars PROVE Starts'
    OBVIOUS
  <2> USE DEF Starts, OnlyRestartTerminates, taskVars, controlVars, history
  <2>1. CASE PipelineSettles \/ PipelineFails \/ SourceEnds \/ NewSample \/ CallbackStep
    BY <2>1 DEF PipelineSettles, PipelineFails, SourceEnds, NewSample, CallbackStep
  <2>2. CASE Inference
    BY <2>2 DEF Inference, InferTest, InferConsume, InferUse
  <2>3. CASE StartPipeline
    BY <2>3 DEF StartPipeline
  <2>4. CASE StopPipeline \/ DeletePipeline
    BY <2>4 DEF StopPipeline, DeletePipeline
  <2>5. CASE StartTask
    BY <2>5 DEF IInv, Types, Life, StartTask
  <2>6. CASE StopPause \/ StopAwaitPaused \/ DestroyPipeline
    BY <2>6 DEF StopPause, StopAwaitPaused, DestroyPipeline
  <2>7. CASE TaskTest
    BY <2>7 DEF IInv, Types, Life, TaskTest, Finished
  <2>8. CASE TaskExit \/ TaskExitNotify
    BY <2>8 DEF TaskExit, TaskExitNotify
  <2>9. CASE TaskJoin
    BY <2>9 DEF IInv, Types, Life, TaskJoin, Finished
  <2>10. CASE UNCHANGED vars
    BY <2>10 DEF vars
  <2> QED
    BY <2>1, <2>2, <2>3, <2>4, <2>5, <2>6, <2>7, <2>8, <2>9, <2>10 DEF Next, Handling
<1>3. Starts => OnlyRestartTerminates
  BY DEF Starts
<1> QED
  BY <1>1, <1>2, <1>3, Invariance, PTL DEF Spec
-----------------------------------------------------------------------------
(* The channel as a user of its queue *)

\* Whatever the channel does, its queue takes a step of its own or none.
LEMMA QueueMoves == IInv /\ [Next]_vars => [QueueFacts!Next]_queueVars
<1> SUFFICES ASSUME IInv, [Next]_vars PROVE [QueueFacts!Next]_queueVars
  OBVIOUS
<1> QueueFacts!IInv
  BY DEF IInv
<1>1. CASE PipelineSettles \/ PipelineFails \/ SourceEnds
  BY <1>1 DEF PipelineSettles, PipelineFails, SourceEnds
<1>2. CASE NewSample \/ CallbackStep
  BY <1>2, StreamerMoves
<1>3. CASE Inference
  BY <1>3, InferMoves DEF Inference, InferTest, InferConsume, InferUse
<1>4. CASE StartPipeline \/ StopPipeline \/ DeletePipeline \/ StartTask
  BY <1>4 DEF StartPipeline, StopPipeline, DeletePipeline, StartTask
<1>5. CASE StopPause \/ StopAwaitPaused \/ DestroyPipeline
  BY <1>5 DEF StopPause, StopAwaitPaused, DestroyPipeline
<1>6. CASE TaskTest \/ TaskJoin
  BY <1>6 DEF TaskTest, TaskJoin
<1>7. CASE TaskExit \/ TaskExitNotify
  BY <1>7, ControllerMoves DEF TaskExit, TaskExitNotify
<1>8. CASE UNCHANGED vars
  BY <1>8 DEF vars
<1> QED
  BY <1>1, <1>2, <1>3, <1>4, <1>5, <1>6, <1>7, <1>8 DEF Next, Handling

\* The channel uses its queue as SafeQueue supposes: a call begins only when the
\* one before it has returned, on the thread it belongs to, across every start,
\* stop and delete.  What is proved of SafeQueue holds of the queue in the channel.
THEOREM ChannelRunsQueue == Spec => QueueFacts!Spec
<1>1. Init => QueueFacts!Init
  BY DEF Init, Queue!Init, QueueFacts!Init, Queue!Threads, QueueFacts!Threads
<1>2. IInv /\ [Next]_vars => [QueueFacts!Next]_(QueueFacts!vars)
  BY QueueMoves DEF queueVars, QueueFacts!vars
<1> QED
  BY <1>1, <1>2, Invariance, PTL DEF Spec, QueueFacts!Spec

\* From Yolov5Task::Start to DeInit, however often the task is stopped and started
\* again, the frames go from the callback to the inference thread as through the
\* channel FrameChannel, which FramePath takes the queue for: once, in order, and
\* with a null frame only when exit has been called and the queue is empty.
THEOREM ChannelImplementsFrameChannel == Spec => QueueFacts!ImplementsChannel
<1>1. QueueFacts!Spec => QueueFacts!ImplementsChannel
  BY QueueAssumptions, QueueFacts!SafeQueueImplementsChannel
<1> QED
  BY <1>1, ChannelRunsQueue
-----------------------------------------------------------------------------
(* Deadlocks *)

\* The flag of a task with a thread is down, and the thread at its end, only while
\* that thread is told to end and joined.
Joined ==
    /\ inferThread /\ ~isRunning => ctl \in {"exit", "join"}
    /\ inferPc = "done" => ctl \in {"exit", "join"}
    /\ ctl \in {"exit", "join"} => inferThread
    /\ ctl = "join" => m_isExit

\* Once the flag of exit is up, the inference thread is at its wait only if the flag
\* came after its load, and asleep only then or until the broadcast.
Overtaken ==
    m_isExit => /\ pc[Infer] = "wait" => overtaken
                /\ Infer \in m_notEmpty => overtaken \/ pc[Controller] = "notifyEmpty"

DInv == IInv /\ Joined /\ Overtaken

\* What the threads of the queue leave of the facts that Overtaken is about.
LEMMA StreamerLeaves ==
  ASSUME IInv, NewSample \/ CallbackStep
  PROVE  /\ m_isExit' = m_isExit /\ pc'[Infer] = pc[Infer]
         /\ pc'[Controller] = pc[Controller]
         /\ m_notEmpty' \subseteq m_notEmpty
<1> QueueFacts!IInv
  BY DEF IInv
<1>1. pc'[Infer] = pc[Infer] /\ pc'[Controller] = pc[Controller]
  BY StreamerMoves
<1>2. m_isExit' = m_isExit /\ m_notEmpty' \subseteq m_notEmpty
  BY DEF NewSample, CallbackStep, Queue!ProductCall, Queue!Lock, Queue!ProductTest,
         Queue!ProductPush, Queue!NotifyOne
<1> QED
  BY <1>1, <1>2

LEMMA JoinedStep == IInv /\ Joined /\ [Next]_vars => Joined'
<1> SUFFICES ASSUME IInv, Joined, [Next]_vars PROVE Joined'
  OBVIOUS
<1> USE DEF Joined, taskVars, controlVars
<1>1. CASE PipelineSettles \/ PipelineFails \/ SourceEnds
  BY <1>1 DEF PipelineSettles, PipelineFails, SourceEnds, queueVars
<1>2. CASE NewSample \/ CallbackStep
  BY <1>2, StreamerLeaves DEF NewSample, CallbackStep
<1>3. CASE Inference
  <2>1. m_isExit' = m_isExit
    BY <1>3 DEF Inference, InferTest, InferConsume, InferUse, queueVars,
                Queue!ConsumptionCall, Queue!ConsumptionStep, Queue!Lock,
                Queue!ConsumptionTest, Queue!ConsumptionLoad, Queue!ConsumptionWait,
                Queue!ConsumptionPop
  <2> QED
    BY <1>3, <2>1 DEF Inference, InferTest, InferConsume, InferUse, IInv, Types
<1>4. CASE StartPipeline \/ StopPipeline \/ DeletePipeline \/ StartTask
  BY <1>4 DEF StartPipeline, StopPipeline, DeletePipeline, StartTask, queueVars, IInv, Types
<1>5. CASE StopPause \/ StopAwaitPaused \/ DestroyPipeline
  BY <1>5 DEF StopPause, StopAwaitPaused, DestroyPipeline, queueVars
<1>6. CASE TaskTest
  BY <1>6 DEF TaskTest, Finished, IInv, Types
<1>7. CASE TaskExit
  BY <1>7 DEF TaskExit, Queue!ExitStore
<1>8. CASE TaskExitNotify
  BY <1>8 DEF TaskExitNotify, Queue!ExitNotify, Queue!ExitNotifyEmpty, Queue!ExitNotifyFull
<1>9. CASE TaskJoin
  BY <1>9 DEF TaskJoin, Finished, IInv, Types
<1>10. CASE UNCHANGED vars
  BY <1>10 DEF vars, queueVars
<1> QED
  BY <1>1, <1>2, <1>3, <1>4, <1>5, <1>6, <1>7, <1>8, <1>9, <1>10 DEF Next, Handling

LEMMA OvertakenStep == IInv /\ Overtaken /\ [Next]_vars => Overtaken'
<1> SUFFICES ASSUME IInv, Overtaken, [Next]_vars PROVE Overtaken'
  OBVIOUS
<1> QueueFacts!IInv
  BY DEF IInv
<1> USE ThreadsAssumption, PcFunction DEF Overtaken, controlVars, history
<1>1. CASE \/ PipelineSettles \/ PipelineFails \/ SourceEnds \/ StartPipeline \/ StopPipeline
           \/ DeletePipeline \/ StartTask \/ StopPause \/ StopAwaitPaused
           \/ DestroyPipeline \/ TaskTest \/ TaskJoin \/ UNCHANGED vars
  BY <1>1 DEF PipelineSettles, PipelineFails, SourceEnds, StartPipeline, StopPipeline, DeletePipeline,
              StartTask, StopPause, StopAwaitPaused, DestroyPipeline, TaskTest, TaskJoin,
              queueVars, vars
<1>2. CASE NewSample \/ CallbackStep
  <2>1. overtaken' = overtaken
    BY <1>2 DEF NewSample, CallbackStep
  <2> QED
    BY <1>2, <2>1, StreamerLeaves
<1>3. CASE InferTest \/ InferUse
  BY <1>3 DEF InferTest, InferUse, queueVars, Queue!ConsumptionCall, Queue!Goto
<1>4. CASE InferConsume
  <2>1. overtaken' = overtaken
    BY <1>4 DEF InferConsume
  <2>2. CASE Queue!Lock(Infer) \/ Queue!ConsumptionTest(Infer) \/ Queue!ConsumptionPop(Infer)
    BY <2>1, <2>2 DEF Queue!Lock, Queue!ConsumptionTest, Queue!ConsumptionPop, Queue!Goto
  <2>3. CASE Queue!ConsumptionLoad(Infer)
    BY <2>1, <2>3 DEF Queue!ConsumptionLoad, Queue!Goto
  <2>4. CASE Queue!ConsumptionWait(Infer)
    BY <2>1, <2>4 DEF Queue!ConsumptionWait, Queue!Goto
  <2> QED
    BY <1>4, <2>2, <2>3, <2>4 DEF InferConsume, Queue!ConsumptionStep
<1>5. CASE TaskExit
  BY <1>5 DEF TaskExit, Queue!ExitStore, Queue!Goto
<1>6. CASE TaskExitNotify
  BY <1>6 DEF TaskExitNotify, Queue!ExitNotify, Queue!ExitNotifyEmpty,
              Queue!ExitNotifyFull, Queue!Goto
<1> QED
  BY <1>1, <1>2, <1>3, <1>4, <1>5, <1>6 DEF Next, Handling, Inference

LEMMA DInvariance == Spec => []DInv
<1>1. Init => DInv
  <2> SUFFICES ASSUME Init PROVE DInv
    OBVIOUS
  <2>1. IInv
    BY InitIInv
  <2>2. Joined /\ Overtaken
    BY <2>1 DEF Init, Queue!Init, Joined, Overtaken, IInv, Types
  <2> QED
    BY <2>1, <2>2 DEF DInv
<1>2. DInv /\ [Next]_vars => DInv'
  BY StepIInv, JoinedStep, OvertakenStep DEF DInv
<1> QED
  BY <1>1, <1>2, PTL DEF Spec

\* At a standstill nobody holds the mutex, so that those who wait sleep.
LEMMA MutexFree ==
  ASSUME IInv, Standstill
  PROVE  m_mutex = NoThread
<1> USE ThreadsAssumption
<1>1. QueueFacts!IInv
  BY DEF IInv
<1>2. \A t \in {Streamer, Infer, Controller} :
         pc[t] \in {"test", "push", "load", "wait", "pop"} <=> m_mutex = t
  BY <1>1 DEF QueueFacts!IInv, QueueFacts!MutualExclusion, QueueFacts!InLock,
              QueueFacts!Threads
<1>3. m_mutex # Streamer
  BY <1>2 DEF Standstill, Waiting, InCallback
<1>4. m_mutex # Infer
  BY <1>2 DEF Standstill, Waiting, IInv, Types, Life
<1>5. m_mutex # Controller
  BY <1>1, <1>2 DEF QueueFacts!IInv, QueueFacts!TypeOK, QueueFacts!CloserPoints
<1> QED
  BY <1>1, <1>3, <1>4, <1>5, PcFunction

LEMMA KnownDeadlocks ==
  ASSUME DInv, QueueFacts!NoStrandedFrame, QueueFacts!NoStrandedSlot, QueueFacts!Capacity,
         Standstill
  PROVE  LostWakeup \/ Wedged \/ NeverPaused
<1> USE ThreadsAssumption, ConstantsAssumption
<1>1. IInv /\ QueueFacts!IInv /\ m_mutex = NoThread
  BY MutexFree DEF DInv, IInv
<1>2. /\ m_notEmpty \subseteq {Infer} /\ m_notFull \subseteq {Streamer}
      /\ Len(m_queue) \in Nat /\ m_maxSize \in Nat \ {0}
  BY <1>1 DEF QueueFacts!IInv, QueueFacts!TypeOK
<1>3. inferPc \in {"test", "consume"} => Infer \in m_notEmpty /\ Len(m_queue) = 0
  <2>1. inferPc \in {"test", "consume"}
          => Infer \in m_notEmpty /\ pc[Infer] \notin {"test", "pop"}
    BY <1>1, <1>2 DEF Standstill, Waiting
  <2> QED
    BY <1>1, <2>1, QueueAssumptions, QueueFacts!LoneConsumer
<1>4. CASE ctl \in {"pause", "destroy"} /\ InCallback
  <2>1. Streamer \in m_notFull /\ pc[Streamer] \notin {"test", "push"}
    BY <1>1, <1>2, <1>4 DEF Standstill, Waiting
  <2>2. QueueFacts!isFull
    BY <1>1, <2>1, QueueAssumptions, QueueFacts!LoneProducer
  <2>3. Queue!isFull /\ Len(m_queue) # 0
    BY <1>2, <2>2 DEF QueueFacts!isFull, Queue!isFull
  <2>4. inferPc = "absent"
    BY <1>1, <1>3, <1>4, <2>3 DEF DInv, Joined, IInv, Types
  <2> QED
    BY <1>1, <1>4, <2>3, <2>4 DEF Wedged, IInv, Types
<1>5. CASE ctl = "join" /\ ExitReturned /\ inferPc # "done"
  <2>1. inferPc \in {"test", "consume"}
    BY <1>1, <1>5 DEF DInv, Joined, IInv, Types
  <2>2. overtaken
    BY <1>3, <1>5, <2>1 DEF DInv, Joined, Overtaken, ExitReturned
  <2> QED
    BY <1>3, <1>5, <2>1, <2>2 DEF LostWakeup
<1>6. CASE ctl = "awaitPaused" /\ current # target
  BY <1>6 DEF Standstill, NeverPaused
<1> QED
  BY <1>4, <1>5, <1>6 DEF Standstill

\* For any capacity of the queue: however starts, stops, a delete, callbacks, changes
\* of state and the inference thread interleave, a request in progress can be left
\* with nobody to go on in three ways only, by the broadcast of exit that the inference
\* thread sleeps through, with the callback left without a consumer, or with a stop
\* that waits for a looped file at its end to preroll.
THEOREM NoOtherDeadlock == Spec => []OnlyKnownDeadlocks
<1>1. QueueFacts!Spec => /\ []QueueFacts!NoStrandedFrame /\ []QueueFacts!NoStrandedSlot
                         /\ []QueueFacts!Capacity
  BY QueueAssumptions, QueueFacts!NoFrameStranded, QueueFacts!NoSlotStranded,
     QueueFacts!CapacityHolds
<1>2. /\ DInv /\ QueueFacts!NoStrandedFrame
      /\ QueueFacts!NoStrandedSlot /\ QueueFacts!Capacity
      => OnlyKnownDeadlocks
  BY KnownDeadlocks DEF OnlyKnownDeadlocks
<1> QED
  BY <1>1, <1>2, ChannelRunsQueue, DInvariance, PTL
=============================================================================
