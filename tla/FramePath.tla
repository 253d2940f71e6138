----------------------------- MODULE FramePath ------------------------------
(***************************************************************************)
(* The way of the pictures through a running channel, and of the results   *)
(* back to them: the graph that Create of src/DeepStreamPipeline.cpp has   *)
(* built with an inference branch and a display, its two callbacks that    *)
(* touch pictures, and the inference thread of src/Yolov5Task.cpp.         *)
(*                                                                         *)
(*     tee0 -> queue00 -> probe, which draws results -> display            *)
(*          -> queue01 -> nvvideoconvert1 -> appsink callback              *)
(*                -> frame queue -> inference thread -> result cache       *)
(*                                                                         *)
(* The frame queue and the result cache are their abstract specifications  *)
(* FrameChannel and ResultCache, which SafeQueue and DoubleBufCache        *)
(* implement.  Pictures are numbered as the source delivers them.  Both    *)
(* branches of the tee hold the same buffer: what the probe draws into it  *)
(* is seen by a converter that comes later.  A batch is one picture, as    *)
(* batch-size is 1.                                                        *)
(***************************************************************************)
EXTENDS Naturals, Sequences, Functions

CONSTANTS MaxPictures,  \* bound: how many pictures the source delivers
          MaxDropped,   \* bound: how many samples the callback gives up
          BranchSize,   \* room in queue00 and in queue01 (GStreamer: 200 buffers)
          QueueSize,    \* m_maxSize of the frame queue
          FrameFormat   \* colorFormat of the surfaces

ASSUME SizesAssumption ==
    /\ MaxPictures \in Nat /\ MaxDropped \in Nat
    /\ BranchSize \in Nat \ {0} /\ QueueSize \in Nat \ {0}

VARIABLES
    sent,       \* the last picture the tee has been given
    teeAt,      \* "done", or the branch the tee pushes it to next
    queue00,    \* pictures before the probe
    queue01,    \* pictures before the converter
    probe,      \* where the display thread is: "idle", "fetch" or "draw"
    surface,    \* the picture it has mapped, or 0
    shown,      \* pictures that have left the probe
    boxed,      \* pictures drawn into before the converter has read them
    callback,   \* where the inference branch's thread is: "idle" or "product"
    sample,     \* the frame in its hands, or NoFrame
    dropped,    \* samples given up by the callback
    isRunning,  \* Yolov5Task::isRunning
    infer,      \* where the inference thread is
    buffer, closed, received,   \* the frame queue
    latest, taken,              \* the result cache
    analysed    \* the pictures the results came of: analysed[n] of the n-th

sourceVars == <<sent, teeAt, queue00, queue01>>
probeVars == <<probe, surface, shown>>
callbackVars == <<callback, sample, dropped>>
taskVars == <<isRunning, infer>>
queueVars == <<buffer, closed, received>>
resultVars == <<latest, taken, analysed>>
vars == <<sourceVars, probeVars, boxed, callbackVars, taskVars, queueVars, resultVars>>

Pictures == 1..MaxPictures
FrameValues == [picture : Pictures, boxed : BOOLEAN]
NoFrame == [picture |-> 0, boxed |-> FALSE]

Queue == INSTANCE FrameChannel WITH
    Receivers <- {"infer"}, Frames <- FrameValues, NullFrame <- NoFrame,
    Capacity <- QueueSize

Cache == INSTANCE ResultCache

Init ==
    /\ sent = 0 /\ teeAt = "done"
    /\ queue00 = <<>> /\ queue01 = <<>>
    /\ probe = "idle" /\ surface = 0 /\ shown = 0
    /\ boxed = {}
    /\ callback = "idle" /\ sample = NoFrame /\ dropped = 0
    /\ isRunning = FALSE /\ infer = "absent"
    /\ Queue!Init
    /\ Cache!Init
    /\ analysed = <<>>
-----------------------------------------------------------------------------
(* The tee: each picture to queue00, which was linked first, then to queue01 *)

SourceDelivers ==
    /\ teeAt = "done"
    /\ sent < MaxPictures
    /\ sent' = sent + 1
    /\ teeAt' = "queue00"
    /\ UNCHANGED <<queue00, queue01, probeVars, boxed, callbackVars, taskVars, queueVars, resultVars>>

\* Fault: a full queue00 leaks.
TeeToDisplayOrLeak ==
    /\ teeAt = "queue00"
    /\ queue00' = IF Len(queue00) < BranchSize THEN Append(queue00, sent) ELSE queue00
    /\ teeAt' = "queue01"
    /\ UNCHANGED <<sent, queue01, probeVars, boxed, callbackVars, taskVars, queueVars, resultVars>>

\* A full branch holds up the tee, and with it the other branch.
TeeToDisplay ==
    /\ teeAt = "queue00"
    /\ Len(queue00) < BranchSize
    /\ queue00' = Append(queue00, sent)
    /\ teeAt' = "queue01"
    /\ UNCHANGED <<sent, queue01, probeVars, boxed, callbackVars, taskVars, queueVars, resultVars>>

TeeToInference ==
    /\ teeAt = "queue01"
    /\ Len(queue01) < BranchSize
    /\ queue01' = Append(queue01, sent)
    /\ teeAt' = "done"
    /\ UNCHANGED <<sent, queue00, probeVars, boxed, callbackVars, taskVars, queueVars, resultVars>>

Tee == TeeToDisplay \/ TeeToInference
-----------------------------------------------------------------------------
(* cb_queue00_src_probe, on the thread of queue00 *)

\* The pictures whose buffer the converter has still to read.
Unconverted == {p \in 1..sent : p = sent /\ teeAt # "done"} \cup Range(queue01)

\* Fault: a picture that cannot be mapped is not passed on.
ProbeMapOrDrop ==
    /\ probe = "idle"
    /\ queue00 # <<>>
    /\ queue00' = Tail(queue00)
    /\ \/ probe' = "fetch" /\ surface' = Head(queue00)
       \/ UNCHANGED <<probe, surface>>
    /\ UNCHANGED <<sent, teeAt, queue01, shown, boxed, callbackVars, taskVars, queueVars, resultVars>>

\* NvBufSurfaceMap; if it fails the picture is passed on as it is.
ProbeMap ==
    /\ probe = "idle"
    /\ queue00 # <<>>
    /\ queue00' = Tail(queue00)
    /\ \/ probe' = "fetch" /\ surface' = Head(queue00) /\ UNCHANGED shown
       \/ shown' = shown + 1 /\ UNCHANGED <<probe, surface>>
    /\ UNCHANGED <<sent, teeAt, queue01, boxed, callbackVars, taskVars, queueVars, resultVars>>

\* m_resultCache->fetch()
ProbeFetch ==
    /\ probe = "fetch"
    /\ Cache!Fetch
    /\ probe' = "draw"
    /\ UNCHANGED <<sourceVars, surface, shown, boxed, callbackVars, taskVars, queueVars, analysed>>

\* Results are drawn into surfaces of two formats; the surface is unmapped and
\* the picture passed on.  Nothing waits for the converter.
ProbeDraw ==
    /\ probe = "draw"
    /\ boxed' = IF taken # 0 /\ FrameFormat \in {"NV12", "RGBA"} /\ surface \in Unconverted
                  THEN boxed \cup {surface}
                  ELSE boxed
    /\ probe' = "idle" /\ surface' = 0
    /\ shown' = shown + 1
    /\ UNCHANGED <<sourceVars, callbackVars, taskVars, queueVars, resultVars>>

Probe == ProbeMap \/ ProbeFetch \/ ProbeDraw
-----------------------------------------------------------------------------
(* nvvideoconvert1 and cb_appsink_new_sample, on the thread of queue01 *)

\* The picture is converted into a buffer of its own.
Convert ==
    /\ callback = "idle"
    /\ queue01 # <<>>
    /\ queue01' = Tail(queue01)
    /\ sample' = [picture |-> Head(queue01), boxed |-> Head(queue01) \in boxed]
    /\ boxed' = boxed \ {Head(queue01)}
    /\ callback' = "product"
    /\ UNCHANGED <<sent, teeAt, queue00, probeVars, dropped, taskVars, queueVars, resultVars>>

\* No sample, no buffer, no caps, or a surface that cannot be mapped: the sample
\* is released and nothing comes of it.
SampleDropped ==
    /\ callback = "product"
    /\ dropped < MaxDropped
    /\ callback' = "idle" /\ sample' = NoFrame
    /\ dropped' = dropped + 1
    /\ UNCHANGED <<sourceVars, probeVars, boxed, taskVars, queueVars, resultVars>>

\* Fault: what is found to be in the way is passed over and not waited for.
SampleProductOrSkip ==
    /\ callback = "product"
    /\ \/ Queue!Send(sample)
       \/ Len(buffer) = QueueSize /\ UNCHANGED queueVars
    /\ callback' = "idle" /\ sample' = NoFrame
    /\ UNCHANGED <<dropped, sourceVars, probeVars, boxed, taskVars, resultVars>>

\* A clone of the frame is given to product, which waits while the queue is full.
SampleProduct ==
    /\ callback = "product"
    /\ Queue!Send(sample)
    /\ callback' = "idle" /\ sample' = NoFrame
    /\ UNCHANGED <<dropped, sourceVars, probeVars, boxed, taskVars, resultVars>>

Callback == Convert \/ SampleDropped \/ SampleProduct
-----------------------------------------------------------------------------
(* Yolov5Task: Start, InferenceFrame, Stop *)

TaskStart ==
    /\ infer = "absent"
    /\ isRunning' = TRUE
    /\ infer' = "test"
    /\ UNCHANGED <<sourceVars, probeVars, boxed, callbackVars, queueVars, resultVars>>

\* The thread is joined by the TaskStop that cleared the flag.
InferTest ==
    /\ infer = "test"
    /\ infer' = IF isRunning THEN "consume" ELSE "absent"
    /\ UNCHANGED <<isRunning, sourceVars, probeVars, boxed, callbackVars, queueVars, resultVars>>

\* consumption; a null image is passed over.
InferConsume ==
    /\ infer = "consume"
    /\ \/ Queue!Receive("infer") /\ infer' = "detect"
       \/ Queue!ReceiveClosed("infer") /\ infer' = "test"
    /\ UNCHANGED <<isRunning, sourceVars, probeVars, boxed, callbackVars, resultVars>>

\* detect, whatever comes of it, and feed
InferFeed ==
    /\ infer = "detect"
    /\ Cache!Feed
    /\ analysed' = Append(analysed, received["infer"].picture)
    /\ infer' = "test"
    /\ UNCHANGED <<isRunning, sourceVars, probeVars, boxed, callbackVars, queueVars>>

\* The part of Stop that the pictures notice: the pipeline may go on, when it
\* was found between two states.
TaskStop ==
    /\ infer # "absent"
    /\ isRunning' = FALSE
    /\ Queue!Close
    /\ UNCHANGED <<infer, sourceVars, probeVars, boxed, callbackVars, resultVars>>

Inference == InferTest \/ InferConsume \/ InferFeed
-----------------------------------------------------------------------------
Next ==
    \/ SourceDelivers \/ Tee \/ Probe \/ Callback
    \/ TaskStart \/ Inference \/ TaskStop

Spec == Init /\ [][Next]_vars

\* Every thread that can go on does.  The source need not deliver, nobody has to
\* start or stop the task.
Fairness ==
    /\ WF_vars(Tee)
    /\ WF_vars(Probe)
    /\ WF_vars(Callback)
    /\ WF_vars(Inference)

FairSpec == Spec /\ Fairness
-----------------------------------------------------------------------------
(* Properties *)

\* The types; the pictures of both branches and of the frame queue are in order
\* and the oldest still to be shown is the one after the last shown.
TypeOK ==
    /\ sent \in 0..MaxPictures
    /\ teeAt \in {"done", "queue00", "queue01"}
    /\ queue00 \in Seq(Pictures) /\ queue01 \in Seq(Pictures)
    /\ probe \in {"idle", "fetch", "draw"}
    /\ surface \in 0..MaxPictures
    /\ shown \in 0..MaxPictures
    /\ boxed \subseteq Pictures
    /\ callback \in {"idle", "product"}
    /\ sample \in FrameValues \cup {NoFrame}
    /\ dropped \in 0..MaxDropped
    /\ isRunning \in BOOLEAN
    /\ infer \in {"absent", "test", "consume", "detect"}
    /\ buffer \in Seq(FrameValues)
    /\ closed \in BOOLEAN
    /\ received \in [{"infer"} -> FrameValues \cup {NoFrame}]
    /\ latest \in 0..MaxPictures /\ taken \in 0..latest
    /\ analysed \in Seq(Pictures) /\ Len(analysed) = latest
    /\ \A i \in 1..Len(queue00) : queue00[i] = shown + i + (IF probe = "idle" THEN 0 ELSE 1)

\* The picture whose results the last fetch returned.
Drawn == IF taken = 0 THEN 0 ELSE analysed[taken]

\* From picture to picture of the display, the results drawn are of the same or
\* of a later picture, through a queue, a thread and a cache.
ResultsGoForward == [][Drawn' >= Drawn]_vars

\* A display that lags behind is not drawn over with boxes of the far future:
\* the results come of a picture no more than a queue ahead of the one shown.
ResultsNotFarAhead == probe = "draw" => Drawn <= surface + BranchSize

\* The display runs ahead of the inference by no more than the two queues hold
\* and the three that the tee, the callback and the detector have in hand: an
\* inference that is slower than the video, or stopped, slows or stops it.
DisplayWaitsForInference ==
    shown <= Len(analysed) + dropped + BranchSize + QueueSize + 3

\* No thread can go on: the tee waits for room or for the source, the display thread
\* for a picture, the callback for room or for a picture, and the inference thread
\* for a frame, if there is one.
AtRest ==
    /\ teeAt = "queue00" => Len(queue00) = BranchSize
    /\ teeAt = "queue01" => Len(queue01) = BranchSize
    /\ probe = "idle" /\ queue00 = <<>>
    /\ IF callback = "idle" THEN queue01 = <<>> ELSE Len(buffer) = QueueSize
    /\ infer = "absent" \/ (infer = "consume" /\ buffer = <<>> /\ ~closed)

\* The threads never wait for each other with a picture between them: when none can
\* go on, every picture that was delivered has been shown and, with the task
\* running, analysed or given up.
NothingLeftAtRest ==
    AtRest => /\ shown = sent
              /\ infer # "absent" => Len(analysed) + dropped = sent

\* If the task is started and runs for good, every picture is shown, though the
\* inference branch fills up and holds up the tee again and again ...
EveryPictureShown ==
    <>[]isRunning => \A p \in Pictures : (sent = p) ~> (shown >= p)

\* ... and is analysed, unless the callback had to give up its sample.
EveryPictureAnalysed ==
    <>[]isRunning => \A p \in Pictures : (sent = p) ~> (Len(analysed) + dropped >= p)

\* "probe for nvvideoconvert sync ans osd process", the comment on the probe: what
\* the detector is given is the picture as it was before results were drawn on it.
DetectsCleanFrames == infer = "detect" => ~received["infer"].boxed
=============================================================================
