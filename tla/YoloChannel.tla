---------------------------- MODULE YoloChannel -----------------------------
(***************************************************************************)
(* The life of one channel: src/YoloChannel.cpp over src/Yolov5Task.cpp    *)
(* and the Start, Stop and Destroy of src/DeepStreamPipeline.cpp, composed *)
(* with the frame queue of SafeQueue.tla.  Three threads share the state:  *)
(*                                                                         *)
(*   Streamer    the streaming thread of the appsink, which GStreamer runs *)
(*               while the pipeline plays; each sample calls product       *)
(*   Infer       the inference thread, created by Yolov5Task::Start        *)
(*   Controller  the HTTP worker that runs Start, Stop and the delete of   *)
(*               the channel, one request after the other                  *)
(*                                                                         *)
(* GStreamer is external: a change of state is asynchronous and ends when  *)
(* the environment lets it; leaving PLAYING, and going to NULL, waits for  *)
(* the appsink callback in progress.  A change to PAUSED ends when each    *)
(* sink has a buffer to preroll or has seen the end of the stream, which a *)
(* file that is to be looped never shows them.                             *)
(***************************************************************************)
EXTENDS Naturals, Sequences, FiniteSets

CONSTANTS Streamer, Infer, Controller,
          Frames, NullFrame, NoThread,
          QueueSize       \* capacity of the frame queue (25 in the code)

VARIABLES m_queue, m_maxSize, m_isExit, m_mutex, m_notEmpty, m_notFull, pc, v

Queue == INSTANCE SafeQueue WITH
    Producers <- {Streamer}, Consumers <- {Infer}, Closers <- {Controller},
    DefaultMaxSize <- QueueSize, MaxSizes <- {}, SpuriousWakeups <- FALSE

ASSUME ThreadsAssumption ==
    /\ Streamer # Infer /\ Streamer # Controller /\ Infer # Controller
    /\ NoThread \notin {Streamer, Infer, Controller}

ASSUME ConstantsAssumption ==
    /\ QueueSize \in Nat \ {0}
    /\ NullFrame \notin Frames

VARIABLES
    current,      \* GStreamer's state of the pipeline
    target,       \* the state the pipeline was last asked to go to
    eosDropped,   \* the file is at its end and the probe has dropped its EOS
    isRunning,    \* Yolov5Task::isRunning
    inferThread,  \* whether Yolov5Task::inferThread holds a std::thread
    inferPc,      \* where the inference thread is
    ctl,          \* where the controller is
    request,      \* the request it handles, or handled last
    gaveUp,       \* history: since the last Start a Stop left the pipeline as it was
    overtaken,    \* history: the last exit came between a load of its flag and the wait
    startedTwice  \* history: a start has followed a start

queueVars == <<m_queue, m_maxSize, m_isExit, m_mutex, m_notEmpty, m_notFull, pc, v>>
pipelineVars == <<current, target, eosDropped>>
taskVars == <<isRunning, inferThread, inferPc>>
history == <<gaveUp, overtaken, startedTwice>>
controlVars == <<ctl, request, history>>
vars == <<queueVars, pipelineVars, taskVars, controlVars>>

Init ==
    /\ Queue!Init
    /\ current = "null" /\ target = "null"
    /\ eosDropped = FALSE
    /\ isRunning = FALSE
    /\ inferThread = FALSE
    /\ inferPc = "absent"
    /\ ctl = "idle"
    /\ request = "none"
    /\ gaveUp = FALSE
    /\ overtaken = FALSE
    /\ startedTwice = FALSE

InCallback == pc[Streamer] # "idle"
Alive == ctl # "terminated"   \* std::terminate ends every thread
ExitReturned == pc[Controller] = "idle"
-----------------------------------------------------------------------------
(* GStreamer and the appsink callback *)

\* Each sink has to preroll a buffer of its own, and none comes any more.
NothingToPreroll == current = "prerolling" /\ eosDropped

\* A pending change of state completes.
PipelineSettles ==
    /\ Alive
    /\ current # target
    /\ ~NothingToPreroll
    /\ current' = target
    /\ UNCHANGED <<target, eosDropped, queueVars, taskVars, controlVars>>

\* A start that was accepted fails later on, as for a file that is not there: the
\* pipeline stays where it was or gets no further than paused.  Nobody watches
\* the bus on which GStreamer reports it.
PipelineFails ==
    /\ Alive
    /\ target = "playing" /\ current # "playing"
    /\ target' \in {current, "paused"}
    /\ current' = target'
    /\ UNCHANGED <<eosDropped, queueVars, taskVars, controlVars>>

\* cb_reset_stream_probe at the end of a file that is to be looped, whose last
\* buffers have gone through the sinks: the EOS is dropped, and the seek that
\* should bring more is left to a main loop that the program does not run.
SourceEnds ==
    /\ Alive
    /\ current \in {"playing", "prerolling"}
    /\ ~eosDropped
    /\ eosDropped' = TRUE
    /\ UNCHANGED <<current, target, queueVars, taskVars, controlVars>>

\* cb_appsink_new_sample: a sample arrives, is cloned and given to product.
NewSample ==
    /\ Alive
    /\ current = "playing"
    /\ ~eosDropped
    /\ \E f \in Frames : Queue!ProductCall(Streamer, f)
    /\ UNCHANGED <<pipelineVars, taskVars, controlVars>>

CallbackStep ==
    /\ Alive
    /\ Queue!Lock(Streamer) \/ Queue!ProductTest(Streamer) \/ Queue!ProductPush(Streamer)
    /\ UNCHANGED <<pipelineVars, taskVars, controlVars>>
-----------------------------------------------------------------------------
(* Yolov5Task::InferenceFrame *)

\* while (isRunning): the next call of consumption, or the end of the thread.
InferTest ==
    /\ Alive
    /\ inferPc = "test"
    /\ IF isRunning
         THEN Queue!ConsumptionCall(Infer) /\ inferPc' = "consume"
         ELSE inferPc' = "done" /\ UNCHANGED queueVars
    /\ UNCHANGED <<isRunning, inferThread, pipelineVars, controlVars>>

InferConsume ==
    /\ Alive
    /\ inferPc = "consume"
    /\ Queue!ConsumptionStep(Infer)
    /\ UNCHANGED <<pipelineVars, taskVars, controlVars>>

\* if (image): detect and feed the results; a null image is passed over.
InferUse ==
    /\ Alive
    /\ inferPc = "consume"
    /\ pc[Infer] = "idle"
    /\ inferPc' = "test"
    /\ UNCHANGED <<isRunning, inferThread, queueVars, pipelineVars, controlVars>>

Inference == InferTest \/ InferConsume \/ InferUse
-----------------------------------------------------------------------------
(* YoloChannel::Start *)

\* m_vp->Start(): the request to play is accepted, or refused and ignored.
StartPipeline ==
    /\ ctl = "idle"
    /\ target' \in {"playing", target}
    /\ request' = "start"
    /\ ctl' = "startTask"
    /\ gaveUp' = FALSE
    /\ startedTwice' = (request = "start")
    /\ UNCHANGED <<overtaken, current, eosDropped, queueVars, taskVars>>

\* m_vt->Start(): a new std::thread replaces the one in inferThread; to destroy
\* one that has not been joined terminates the program.
StartTask ==
    /\ ctl = "startTask"
    /\ isRunning' = TRUE
    /\ IF inferThread
         THEN ctl' = "terminated" /\ UNCHANGED <<inferThread, inferPc>>
         ELSE ctl' = "idle" /\ inferThread' = TRUE /\ inferPc' = "test"
    /\ UNCHANGED <<request, history, queueVars, pipelineVars>>
-----------------------------------------------------------------------------
(* YoloChannel::Stop *)

\* Fault: a playing pipeline is not paused.
StopPipelineUnpaused ==
    /\ ctl = "idle"
    /\ request' = "stop"
    /\ ctl' = "stopTask"
    /\ gaveUp' = (gaveUp \/ current # target \/ current = "null")
    /\ UNCHANGED <<overtaken, startedTwice, queueVars, pipelineVars, taskVars>>

\* DeepStreamPipeline::Stop asks for the state and waits 5 ms: a pending change
\* gives ASYNC.  Its result is ignored.
StopPipeline ==
    /\ ctl = "idle"
    /\ request' = "stop"
    /\ LET playing == current = target /\ current = "playing"
           paused  == current = target /\ current = "paused"
       IN  /\ ctl' = IF playing THEN "pause" ELSE "stopTask"
           /\ gaveUp' = (gaveUp \/ ~(playing \/ paused))
    /\ UNCHANGED <<overtaken, startedTwice, queueVars, pipelineVars, taskVars>>

\* set_state(PAUSED) waits for the callback in progress.
StopPause ==
    /\ ctl = "pause"
    /\ ~InCallback
    /\ current' = "prerolling"
    /\ target' = "paused"
    /\ ctl' = "awaitPaused"
    /\ UNCHANGED <<eosDropped, request, history, queueVars, taskVars>>

\* get_state(GST_CLOCK_TIME_NONE)
StopAwaitPaused ==
    /\ ctl = "awaitPaused"
    /\ current = target
    /\ ctl' = "stopTask"
    /\ UNCHANGED <<request, history, queueVars, pipelineVars, taskVars>>
-----------------------------------------------------------------------------
(* YoloChannel::DeInit, run by the delete of the channel: m_vp first *)

\* Fault: only the task is released; the pipeline is left to its callbacks.
DeletePipelineKept ==
    /\ ctl = "idle"
    /\ request' = "delete"
    /\ ctl' = "stopTask"
    /\ UNCHANGED <<history, queueVars, pipelineVars, taskVars>>

DeletePipeline ==
    /\ ctl = "idle"
    /\ request' = "delete"
    /\ ctl' = "destroy"
    /\ UNCHANGED <<history, queueVars, pipelineVars, taskVars>>

\* DeepStreamPipeline::Destroy: set_state(NULL) waits for the callback.
DestroyPipeline ==
    /\ ctl = "destroy"
    /\ ~InCallback
    /\ current' = "null"
    /\ target' = "null"
    /\ ctl' = "stopTask"
    /\ UNCHANGED <<eosDropped, request, history, queueVars, taskVars>>
-----------------------------------------------------------------------------
(* Yolov5Task::Stop and Yolov5Task::DeInit do the same to the thread *)

Finished == IF request = "delete" THEN "gone" ELSE "idle"

TaskTest ==
    /\ ctl = "stopTask"
    /\ isRunning' = IF inferThread THEN FALSE ELSE isRunning
    /\ ctl' = IF inferThread THEN "exit" ELSE Finished
    /\ UNCHANGED <<inferThread, inferPc, request, history, queueVars, pipelineVars>>

TaskExit ==
    /\ ctl = "exit"
    /\ Queue!ExitStore(Controller)
    /\ ctl' = "join"
    /\ overtaken' = (pc[Infer] = "wait")
    /\ UNCHANGED <<request, gaveUp, startedTwice, pipelineVars, taskVars>>

TaskExitNotify ==
    /\ ctl = "join"
    /\ Queue!ExitNotify(Controller)
    /\ UNCHANGED <<pipelineVars, taskVars, controlVars>>

\* Fault: the handle is not reset after the join.
TaskJoinKeepsHandle ==
    /\ ctl = "join"
    /\ ExitReturned
    /\ inferPc = "done"
    /\ inferPc' = "absent"
    /\ ctl' = Finished
    /\ UNCHANGED <<isRunning, inferThread, request, history, queueVars, pipelineVars>>

\* Fault: the thread is detached where it should be joined.
TaskDetach ==
    /\ ctl = "join"
    /\ ExitReturned
    /\ inferThread' = FALSE
    /\ ctl' = Finished
    /\ UNCHANGED <<isRunning, inferPc, request, history, queueVars, pipelineVars>>

\* inferThread->join() and inferThread.reset()
TaskJoin ==
    /\ ctl = "join"
    /\ ExitReturned
    /\ inferPc = "done"
    /\ inferPc' = "absent"
    /\ inferThread' = FALSE
    /\ ctl' = Finished
    /\ UNCHANGED <<isRunning, request, history, queueVars, pipelineVars>>

\* A request that has been begun.
Handling ==
    \/ StartTask
    \/ StopPause \/ StopAwaitPaused
    \/ DestroyPipeline
    \/ TaskTest \/ TaskExit \/ TaskExitNotify \/ TaskJoin
-----------------------------------------------------------------------------
Next ==
    \/ PipelineSettles \/ PipelineFails \/ SourceEnds
    \/ NewSample \/ CallbackStep
    \/ Inference
    \/ StartPipeline \/ StopPipeline \/ DeletePipeline
    \/ Handling

Spec == Init /\ [][Next]_vars

(***************************************************************************)
(* Every thread that can go on does, and a state change that GStreamer has *)
(* begun ends or fails: a live source needs no preroll, and a file goes on *)
(* delivering after the pause until its end, which the sinks are told of,  *)
(* or are not if it is to be looped; then nothing obliges the change to    *)
(* end. The mutexes are taken strongly fairly: after a restart the         *)
(* inference thread takes and releases m_mutex without pause, and the      *)
(* appsink takes its own lock for every sample; std::mutex and GStreamer   *)
(* promise a waiting thread no turn, but a thread that is scheduled again  *)
(* and again while the lock is free gets it. Nothing obliges the source to *)
(* deliver a sample to the callback or a client to send a request.         *)
(***************************************************************************)
Fairness ==
    /\ WF_vars(PipelineSettles \/ PipelineFails)
    /\ WF_vars(Inference)
    /\ WF_vars(Handling)
    /\ SF_vars(CallbackStep)
    /\ SF_vars(StopPause \/ DestroyPipeline)

FairSpec == Spec /\ Fairness
-----------------------------------------------------------------------------
(* Properties *)

\* The types; the thread object exists exactly while the thread does.
TypeOK ==
    /\ Queue!TypeOK
    /\ current \in {"null", "prerolling", "paused", "playing"}
    /\ target \in {"null", "paused", "playing"}
    /\ isRunning \in BOOLEAN
    /\ inferThread \in BOOLEAN
    /\ inferPc \in {"absent", "test", "consume", "done"}
    /\ ctl \in {"idle", "startTask", "pause", "awaitPaused", "destroy", "stopTask",
                "exit", "join", "gone", "terminated"}
    /\ request \in {"none", "start", "stop", "delete"}
    /\ eosDropped \in BOOLEAN
    /\ gaveUp \in BOOLEAN /\ overtaken \in BOOLEAN /\ startedTwice \in BOOLEAN
    /\ inferThread <=> inferPc # "absent"

\* Deleting a channel, at any moment and in any state, leaves no thread behind
\* that could use what DeInit has freed: no callback is in progress, none can
\* begin, and the inference thread is gone.
NothingRunsAfterDelete ==
    ctl = "gone" => /\ ~InCallback
                    /\ current = "null" /\ target = "null"
                    /\ inferPc = "absent"
                    /\ m_mutex = NoThread

\* What brings the program down is a start of a channel that was started and not
\* stopped since, and nothing else, and each such start does: whatever a client
\* mixes of starts, stops that give up, and deletes, the thread object that
\* Yolov5Task::Start overwrites is otherwise empty.
OnlyRestartTerminates ==
    ctl = "terminated" <=> startedTwice /\ ctl # "startTask"

\* The inference thread sleeps through the only broadcast that exit sends: it
\* had found the flag down before exit set it, and began to wait after.
LostWakeup ==
    ctl = "join" /\ ExitReturned /\ overtaken /\ Infer \in m_notEmpty

\* The callback sleeps in product, nobody consumes, and the controller waits
\* for the callback.
Wedged ==
    /\ ctl \in {"pause", "destroy"}
    /\ InCallback
    /\ Queue!isFull
    /\ ~inferThread

\* The controller waits, without limit, for the pipeline to be paused, and the
\* looped file that would have to preroll is at its end.
NeverPaused ==
    /\ ctl = "awaitPaused"
    /\ NothingToPreroll

\* A thread in a call of the queue that sleeps, or for which the mutex is not free.
Waiting(t) ==
    /\ pc[t] \in {"lock", "relock"}
    /\ t \in m_notEmpty \cup m_notFull \/ m_mutex # NoThread

\* A request is in progress, and nobody can go on: the controller waits for the
\* callback, for the pipeline or for the inference thread, callback and inference
\* thread wait in the queue or are not there, and no change of state can end.
Standstill ==
    /\ \/ ctl \in {"pause", "destroy"} /\ InCallback
       \/ ctl = "awaitPaused" /\ current # target
       \/ ctl = "join" /\ ExitReturned /\ inferPc # "done"
    /\ current = target \/ NothingToPreroll
    /\ InCallback => Waiting(Streamer)
    /\ inferPc \in {"test", "consume"} => Waiting(Infer)

\* The three hangs are the only ones: however the three threads and the changes of
\* state come to wait for each other, it is the broadcast of exit that was slept
\* through, the callback that is left without a consumer, or the end of a looped
\* file that the sinks are not told of.
OnlyKnownDeadlocks == Standstill => LostWakeup \/ Wedged \/ NeverPaused

\* The controller and the callback wait for each other only after a Stop that
\* found the pipeline on its way to another state and went on to stop the task.
WedgedOnlyAfterGivingUp == Wedged => gaveUp

\* When a stop has been answered the pipeline is not on its way to play, unless
\* a stop since the last start found it between two states and gave up.
StoppedUnlessGaveUp ==
    (ctl = "idle" /\ request = "stop") => (target # "playing" \/ gaveUp)

\* Every request is answered, unless it runs into one of those three or is the
\* start that terminates the program.
RequestReturns ==
    ctl \notin {"idle", "gone"}
        ~> (ctl \in {"idle", "gone", "terminated"} \/ LostWakeup \/ Wedged \/ NeverPaused)

\* While the task runs, a frame in the queue is analysed: the flag that a Stop
\* left set in the queue does not keep a restarted thread from its frames.
FramesAreAnalysed ==
    (m_queue # <<>> /\ isRunning /\ inferThread)
        ~> \/ inferPc = "consume" /\ pc[Infer] = "idle" /\ v[Infer] # NullFrame
           \/ ~isRunning \/ ~Alive

\* "Stop channel success.", the answer to every stop, is sent: the inference
\* thread is joined.
JoinReturns == ctl = "join" ~> ctl \in {"idle", "gone"}
=============================================================================
