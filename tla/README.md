# YoloRunner in TLA+

This directory holds a formal model of YoloRunner (`src/edge`): an HTTP server that adds, starts, stops
and deletes video channels; each channel runs a GStreamer/DeepStream pipeline that hands frames to a
Yolov5 inference thread and draws the results over the video. The modules are checked with TLC on small
instances (`*.cfg`); the `*Proofs.tla` modules are checked with TLAPS for every value of the constants.
`PROJECT.json` maps each definition to the lines it translates, lists runs, mutants, findings, hazards
and theorems.

    tlc -config SafeQueue_safety.cfg MCSafeQueue.tla
    tlapm SafeQueueProofs.tla

## 1. Inventory

| component | state | operations | meets the others through |
|---|---|---|---|
| frame queue, `SafeQueue.h` | `m_queue`, `m_maxSize`, `m_isExit`, a mutex, two condition variables | `product`, `consumption`, `exit`, `setMaxSize` | shared by the streaming thread (product), the inference thread (consumption) and the HTTP worker (exit) |
| result cache, `DoubleBufferCache.h` | `front_sp`, `back_sp`, `swap_ready`, a mutex | `feed`, `fetch` | fed by the inference thread, fetched by the display streaming thread |
| inference task, `Yolov5Task.cpp` | `isRunning`, `inferThread`, the detector | `Init`, `Start`, `Stop`, `DeInit`, `InferenceFrame` | the queue and the cache; called by the channel |
| pipeline, life, `DeepStreamPipeline.cpp` | GStreamer's state, two branches of pictures, two callbacks in progress | `Start`, `Stop`, `Destroy`, `cb_appsink_new_sample`, `cb_queue00_src_probe` | the queue and the cache; called by the channel and by GStreamer's threads |
| pipeline, construction, same file | the elements, the pads, the links | `Create`, `cb_uridecodebin_*`, `cb_decodebin_child_added`, `Destroy` | the parsed configuration |
| stream loop, same file | the accumulated bases of the time stamps, a timeout | `cb_reset_stream_probe`, `cb_seek_decoded_file` | GStreamer's events, GLib's main loop |
| channel, `YoloChannel.cpp` | pipeline, task, queue, cache | `Init`, `Start`, `Stop`, `DeInit` | owns the four |
| controller, `ChannelController.cpp` | `m_channelList`, the creators | `AddChannel`, `DeletaChannel`, `StartChannel`, `StopChannel` | called by HTTP workers, without a lock |
| configuration, `ConfigCenter.cpp` | three maps of configurations, one reader | `ConfigParse`, `DeleteChannelConfig`, `Get...` | called by the controller and by HTTP workers |
| HTTP server, `HttpServer.cpp` | none of its own | six handlers | httplib's pool of workers |
| drawing, `DrawNV12.h`, `DrawRGBA.h`, `CharacterBitmaps.h` | the frame that is mapped | `drawNV12`, `drawRGBA` | called by the probe with fetched results |
| `main.cpp`, `Logger.h`, `Common.h` | - | - | start-up, logging |

**What is hard here.** A monitor with two condition variables that is closed from outside its mutex; a
double buffer with a flag outside its mutex; two branches of a tee that hold the same buffers and hold
each other up; a pipeline whose state changes are asynchronous, wait for callbacks, and are given up
after 5 ms; a thread object that is joined and made anew; four maps that describe one channel and are
changed by several workers without a lock; a parser whose callers drop its results, so that half a
configuration goes on to build half a graph; sums of 64-bit times that wrap; sample arithmetic at the
borders of a frame. `PROJECT.json` "hazards" has each at its line.

**What makes each correct.** Queue: frames come out once and in order, never above capacity, nobody
sleeps while there is work for him. Cache: nothing torn, nothing older after something newer, nothing
kept back. Pictures: each is shown and analysed, results go forward and are not drawn far from where they
belong. Stream loop: each run of a file comes after the one before. Channel: every request ends, a
stopped channel stops, a deleted channel leaves no thread in what was freed. Registries: the maps agree,
and an add does not replace. Construction: what is read was assigned, what is used was made, the graph is
whole. Drawing: inside the frame, a closed outline, colour and brightness of one shape.

## 2. Modules

| module | models | extends / uses |
|---|---|---|
| `FrameChannel` | what the queue promises: an atomic bounded channel that can be closed | |
| `SafeQueue` | `SafeQueue.h`, one step per lock, test, wait, wake-up and update | refines `FrameChannel` |
| `ResultCache` | what the cache promises: an atomic place whose fetches never go back to an older result | |
| `DoubleBufCache` | `feed` and `fetch`, one step per access to shared state | refines `ResultCache` |
| `FramePath` | the pictures on their way through tee, probe, callback, detector, and the results on their way back | `FrameChannel`, `ResultCache` by INSTANCE |
| `YoloChannel` | Start, Stop and delete of a channel against streaming and inference thread | `SafeQueue` by INSTANCE |
| `StreamLoop` | the probe that plays a file again and again | |
| `ChannelRegistry` | the handlers over the four maps, one step per map operation | |
| `ConfigParse` | the parsers, member by member | |
| `PipelineGraph` | `Create`, the linking callbacks, `Destroy` | |
| `ChannelBuild` | `AddChannel` from the body to the running, then deleted, channel | `ConfigParse`, `PipelineGraph` by INSTANCE |
| `DrawNV12` | the samples each call of `drawRect` and `drawString` writes | |
| `SafeQueueProofs`, `DoubleBufCacheProofs`, `FramePathProofs`, `YoloChannelProofs`, `StreamLoopProofs`, `ChannelRegistryProofs`, `ChannelBuildProofs`, `DrawNV12Proofs` | theorems | `YoloChannelProofs` takes the queue's lemmas from `SafeQueueProofs` by INSTANCE |
| `MC...` | values of constants for TLC | |

An operator marked *Fault* is a plausible mistake in the definition after it. No specification uses it;
the mutants of `PROJECT.json` put it in its place, and the property named there must then fail.

**SafeQueue.** `pc[t]` is the point a thread has reached: `relock` (waiting for the mutex), `test` (the
loop condition), `load` (the test of `m_isExit`), `wait`, `push`/`pop`. Sleepers are the sets
`m_notEmpty`, `m_notFull`; `notify_one` removes any one, `notify_all` everyone. A sleeper that was
removed is in `relock` and competes for the mutex. `exit` is three steps, none under the mutex, as in the
code. `SpuriousWakeups` switches spurious wake-ups on.

**DoubleBufCache.** Buffers are numbered in the order they are fed. `fetched` (what the last fetch
returned) and `overlapped` (a feed was announced between the copy and the clear of the last fetch)
are history. It implements `ResultCache`: a feed takes effect when it stores the front buffer, a fetch
when it returns, with what may not be the latest.

**FramePath.** The graph of a channel with both branches. Pictures are numbered; the tee gives each to
`queue00`, then to `queue01`, the order in which `Create` links them, and waits for a branch that is
full. `probe` is the display thread in `cb_queue00_src_probe` (map, fetch, draw), `callback` the thread of
`queue01` in the converter and in `cb_appsink_new_sample`, `infer` the inference thread. `boxed` are the
pictures that were drawn into while the converter had still to read the same buffer; the frame it makes
remembers that. `analysed[n]` is the picture of which the n-th result came. The frame queue and the cache
are the two abstract specifications, which the detailed modules implement.

**YoloChannel.** `current`/`target` are GStreamer's state and the one asked for. `PipelineSettles` is the
asynchronous end of a change, `PipelineFails` a start that was accepted and failed later, of which the
program never hears. `ctl` is the point of the controlling HTTP worker in Start, Stop and `DeInit`.
`eosDropped` is a file that is to be looped and has come to its end: `SourceEnds` is the probe that drops
the end of the stream, and since nothing restarts the file (see `StreamLoop`), no sample comes any more and
a change to PAUSED, which needs a new buffer in every sink, has nothing to end with. Clients may send the
requests in any order, a start of a started channel included. `gaveUp`, `overtaken` and `startedTwice` are
history and let three properties name their exceptions.
`target' \in {"playing", target}` in `StartPipeline` is a `set_state` that failed; its result is ignored.
`isRunning` is a plain `bool` read by another thread. Between two reads that thread takes a mutex, so a
build reads it anew; the model reads its current value.

**StreamLoop.** Times are numbers of `Width` bits, 64 in the code; sums wrap, and the largest is
`GST_CLOCK_TIME_NONE`, for a buffer without a time or a segment of unknown end. `MainLoop` says whether the
process runs a GLib main loop. That of `main.cpp` runs none, as `InstallApi` (35) does not return and
`g_main_loop` (37) is NULL, so that a looped file is played once; the callbacks are written for a process
that runs one, and what they do with the times there is checked with TRUE. `earliest`, `latest`, `before`
and `wrapped` are history.

**ChannelRegistry.** `wpc[w]` is the point of a worker in its handler. Every order of map operations of
different requests, also for one name, is a behaviour. `met[n]` is history: the pairs of requests that
have been in progress together on `n` since it was last free; each property names the pairs it takes to
break it. A delete takes three steps in the list, as in the code: `DeInit` leaves the channel `released`,
the reset leaves a null pointer, the erase leaves no entry; each looks the name up anew. A start and a stop
hold an iterator between `find` and its use. The erase makes the iterators of its entry `dangling`, and an
add that puts the name back does not make them valid again. A use of a dangling iterator, of a released
channel or of a null pointer sets `undefined` and ends the model there. `getChannelConfig` is
modelled since its second look-up is `operator[]`, which makes a null node of a name that was erased in
between. What two workers do to one `std::map` in the same instant has no outcomes to enumerate and is
outside.

**ConfigParse, PipelineGraph, ChannelBuild.** A document is chosen while it is read: each member of
`Faulty` is right, missing or of another type. `assigned` are the fields the parser filled, `read` those
something read later; `made` are the elements made, `used` those the code went through a member to;
`links` is the graph. Each factory and each link may fail; `Create` gives up at the first that does, while
`cb_uridecodebin_pad_added` logs a pad it cannot link and leaves the source unlinked. `decoder` are the two
members a callback sets and `Destroy` uses: `Init` sets the id of the probe to -1 and not the decoder, and
`Destroy` tests the id first.

**DrawNV12.** `luma` and `chroma` are the samples the last call wrote, as pairs of column and row. Order
and colour of writes are left out; integers are unbounded.

## 3. Runs

| run | shows | bounds | distinct states |
|---|---|---|---|
| `SafeQueue_safety` | guards that still hold when used, capacity, no stranded frame or slot, refinement of `FrameChannel` | 2 producers, 2 consumers, a closer, capacity 2, 2 frames, spurious wake-ups | 496,350 |
| `SafeQueue_live` | every `product` returns, every frame is picked up, also when the capacity is raised | 1 + 1 thread as in the program, capacity 2, raised to 3 | 2,240 |
| `DoubleBufCache_overlap` | no torn buffer, staleness only by the one overlap, refinement of `ResultCache`, progress otherwise | 6 feeds | 719 |
| `DoubleBufCache_latest` | *violation*: the overlap can keep the last result from ever being drawn | 3 feeds | |
| `FramePath_deliver` | results go forward and not far ahead, the display waits for a slow inference, nothing is left behind at rest, every picture is shown and analysed | 6 pictures, branches of 1, queue of 1, one sample given up | 192,486 |
| `FramePath_clean` | *violation*: the detector is given a picture with boxes on it | 2 pictures | |
| `YoloChannel_serial` | delete frees nothing in use, `std::terminate` by each repeated start and by nothing else, the three hangs told apart exactly and no other standstill, every other request answered, frames analysed after a restart | capacity 2, any sequence of requests | 11,106 |
| `YoloChannel_join` | *violation*: the join hangs on a lost wake-up | capacity 1 | |
| `StreamLoop_loop` | with a main loop, what is played comes after what was played | times of 4 bits, ends 2, 3 and unknown, 5 segments | 172,005 |
| `ChannelRegistry_overlap` | the maps agree, orphans, uses of what is released, null or erased, and replacements only after the overlaps named | 3 workers, 1 name, 2 revisions, 3 kinds of body, symmetry | 4,408,634 |
| `ChannelBuild_add` | what is read was assigned, what is used was made, the graph is whole but for a source that is not linked | 13 members that may err, every input, every set of outputs, every failure | 1,047,891 |
| `DrawNV12_draw` | inside the planes, colour follows brightness, a box is a closed outline of the largest size that has room | boxes -3..10 x -3..7 with sides 0..7 x 0..6 in a 9 x 6 picture, thickness 0, 1, 2, 4 | 296,088 |

**Why the bounds are enough.** *Queue*: two threads per side is the least at which a notification can go
to the wrong one, and capacity 2 the least with a state that is neither empty nor full; what this run
shows is proved for all sizes. *Cache*: an overlap takes two feeds, so six hold two overlaps and a clean
fetch between them. *Pictures*: the inference side holds one picture in each of queue, callback, frame
queue and detector and one more may be given up, so that with six pictures it is full, holds up the tee,
and empties again; GStreamer's queues hold 200 and the frame queue 25, and the safety properties are
proved for all sizes. *Channel*: capacity 2 has a queue that is empty, full and neither; the invariants are
proved for any. *Stream loop*: five segments of the longer end nearly use up four bits, and one of unknown
end wraps at once; proved for any width. *Registries*: an interference takes two workers and its exception a
third; names do not interfere, since every map operation and every history is of one name; two revisions
tell an entry from its replacement; a stop is like a start here, and a partial body fails as a nameless
one does, before it reaches a map; proved for all. *Parser*: `FaultyMembers` has at least one
member of each parser, of each kind (section, value, array), of each branch (camera, stream, display,
rtmp, model), and each of the type names; other members differ in name only. *Drawing*: 9 x 6 has an odd
and an even side, and boxes of both parities lie inside, across every border and outside, with negative
coordinates where C's division truncates upwards; every thickness that `(thick + 1) / 2 * 2` tells apart
up to the size of the picture occurs. All three invariants are proved for all sizes.

`CHECK_DEADLOCK FALSE` stands where the system stops of itself: a channel ends deleted, an add ends
refused or deleted, a frame ends drawn, a file ends after its last segment or where no main loop runs, and
a registry ends at an undefined step. The three hangs of the channel are states of its run, and are
described by `LostWakeup`, `Wedged` and `NeverPaused`, which `RequestReturns` admits and nothing else but
the start that terminates the program. `OnlyKnownDeadlocks` says what TLC's own check
would say of the rest: in a `Standstill`, where a request waits and no thread and no change of state can
go on, it is one of the three. `NothingLeftAtRest` says the same of the path: where none of its threads can
go on (`AtRest`), it is for want of pictures. Both are written as predicates of the state and not with
ENABLED, so that they can be proved; in every state of the two runs they agree with ENABLED. The queues,
the cache and the path of the pictures are also checked for deadlock.

**Fairness.** *Queue*: a thread inside a call, and a consumer, are scheduled (WF per thread); no producer
must call, nobody must exit. *Cache*: a feed that has begun ends (WF), and frames keep coming to the probe
(WF); no feed must come. *Pictures*: WF for the tee, the display thread, the callback's thread and the
inference thread; no picture must come, and nobody must start or stop the task. *Channel*: WF for the
inference thread, for the request in progress and for a state change begun by GStreamer, which ends or fails
unless it waits for buffers of a looped file that has ended (`NothingToPreroll`): a live source needs no
preroll, and any other file delivers buffers or the end of its stream. SF for the two who wait for a lock
that is free again and again: the callback (after a restart the inference thread polls the queue, since
`m_isExit` stays set, and frees the mutex each time) and the `set_state` that waits for the appsink callback
between two samples. Neither `std::mutex` nor GStreamer promises a turn; a scheduler that runs a waiting
thread while the lock is free does. No sample and no request is fair. *Stream loop*: WF for a timeout, if
there is a main loop to call it.

**External, modelled by use.** GStreamer: `set_state` down from PLAYING waits for the appsink callback;
a change of state may be pending and then ends or fails, one from PLAYING to PAUSED when each sink has
prerolled a new buffer or seen the end of the stream; a pad links at most once; a tee gives a picture
to its pads in the order they were linked; a full `queue` blocks; `nvvideoconvert` copies into a buffer of
its own; a demuxer sends buffers whose times lie in their segment or are unknown, and segments that do not
end at 0; the request-pad loop of `Destroy` ends. GLib: a timeout is called by a main loop only. The
standard library: condition variables may wake without cause; destroying a joinable thread terminates.
jsoncpp: asking a non-object for a member throws out of the handler. httplib: a pool of workers.
TensorRT and OpenCV: a detection takes any time and returns any boxes.

## 4. What is proved

Every invariant, action property and refinement that the passing runs check is proved for all values of
the constants; where a theorem has a hypothesis it is named here.

*SafeQueueProofs*, for any sets of threads (finite ones) and frames and any capacity. The inductive
invariant is `TypeOK /\ MutualExclusion /\ GuardsStillHold`: a push has room only because the test was
made under the mutex it still holds, so neither of the last two is inductive without the other, and
`setMaxSize` needs the mutex to be free. Theorems: `TypeCorrect`, `MutexCorrect`, `GuardsCorrect`. With
a capacity that is never changed (`MaxSizes = {}`, as in the program) also `CapacityHolds` and
`SafeQueueImplementsChannel`: every step is a send, a receive, a close or a stutter of `FrameChannel`.
`NoFrameStranded` and `NoSlotStranded` count: a push adds a frame and, if someone sleeps, one thread that
is coming for it; a thread that comes and finds nothing must have found the queue empty, so that none is
owed; the counting is done with `NoLess`, `OneMore` and `OneLess`. The second needs a fixed capacity, as
`setMaxSize` makes room without waking anyone. `LoneConsumer` and `LoneProducer` say what the two come to
with one thread on a side: it does not sleep beside a frame, or beside room.

*DoubleBufCacheProofs*, for any number of feeds. `Order` (`fetched <= back_sp <= front_sp <= fed`) gives
`FetchMonotone`. `Announced` (with the flag down, or about to be cleared, and no feed between its store
and its flag, the back buffer is the front one unless an overlap happened) gives `StaleOnlyInWindow`; its
second case is what the clear turns into the first. `NeverTorn` follows from the types.
`DoubleBufImplementsCache` maps every step to a feed, a fetch or a stutter of `ResultCache`.

*FramePathProofs*, for any number of pictures and any sizes. The invariant counts each side of the tee:
what the display branch was given has been shown, is in the probe or waits in order (`DisplaySide`); what
the inference branch was given has been analysed or dropped, or is in one of four places (`Counted`,
`InferenceSide`). The two counts differ by one at most, which gives `DisplayWaits`. `InOrder` carries the
order of pictures from the callback through the frame queue and the detector to the results; with the
cache's `taken` it gives `GoForward` and, with the room in the branches, `NotFarAhead`. `RestIsDone` uses the
same counts: at rest the four places are empty. `PathRunsQueueAndCache` shows that the path uses
`FrameChannel` and `ResultCache` by their rules: every step of it is a step of each, or leaves it alone.

*YoloChannelProofs*, for any capacity. Each step of the channel is a step of its queue or leaves it alone
(`QueueStep`), so that the invariant of the queue is taken over from `SafeQueueProofs`, whose assumptions
are discharged for the three threads. `Life` says which threads can be in a call at each point of the
controller, `Pipeline` that a callback needs a playing pipeline and that a deleted one does not play,
`Stopped` that a pipeline told to play has its task unless a stop gave up. From these follow
`NothingAfterDelete`, `StopStops` and `WedgeNeedsGivingUp`, and `RestartTerminates`: between requests the
thread object is there exactly if the last request was a start, so that the next start finds it if and only
if it is a second one. None has a hypothesis on what clients send.

The channel as a whole is a behaviour of its queue (`ChannelRunsQueue`), so that what was proved of the
monitor holds in it, with its restarts, with callbacks that nobody consumes for, and to the end:
`ChannelImplementsFrameChannel`, and the stranding lemmas of the queue. `NoOtherDeadlock` rests on them. At
a standstill nobody holds the mutex (`MutexFree`), so that who waits in the queue sleeps. If the callback
sleeps the queue is full; an inference thread that sleeps would need it empty, and one that is awake could
go on, so that there is none, which is `Wedged`. If the inference thread sleeps while it is joined, it had
loaded the flag before `exit` set it and went to sleep after: `Joined` (a task whose flag is down, or whose
thread is at its end, is being joined) and `Overtaken` (with the flag of `exit` up, it is at its wait only
if it was overtaken, and asleep only then or until the broadcast) make this `LostWakeup`. A controller that
waits for the pipeline while its change of state cannot end is `NeverPaused`.

*StreamLoopProofs*, for any width. `Behind`: as long as the sum of ends is in range, the next base is the
end of this segment and nothing has left later than that. `LoopTypeCorrect`, `LoopTimeGoesOn`.

*ChannelRegistryProofs*, for any workers, names, revisions, kinds and requests. `Points` says what each
worker handles where it is; `Pairs` that two disturbing requests in progress on one name have met. `Held`
says that a channel that is released or gone from its entry is about to be erased by a delete; `Found` (the
iterator of a start or a stop is valid and its channel not released, the entry of a delete is there, or a
delete overlaps) and `Missing` then give `UndefinedIsDelete` and `ChannelKept`: what a look-up saw is still
so at the use, or a disturbing pair has met. `ToldAt(n)` and `OrphanedAt(n)` give, for each point of an add
and of a delete, what the three maps hold of `n`; with them `ConfigurationTold` and `OrphansAreFailedAdds`.

*DrawNV12Proofs*, for any picture, boxes, thicknesses, glyphs and labels. Everything `drawRect` gives to
`drawLine` is even. On even arguments a line writes a rectangle of pixels and the chroma pairs of exactly
its 2 x 2 blocks (`LineLuma`, `LineChroma`, `BlocksFill`); `FitFits` keeps the rectangle in the picture;
`Drawn` (inside, and of one shape) is closed under union, which carries it to boxes, labels and steps.
For `BoxOutlined`, `FitIsLargest` shows that the fitted length is the largest even one that has room, and
`LinesOutline` that four lines close to a frame, also where the box is smaller than the line is thick.
Theorems: `StaysInPicture`, `ColourFollows`, `BoxOutlined`. They assume `PictureAssumption`: thicknesses
are natural numbers, sums fit an `int`.

*ChannelBuildProofs*, for any set of members that may err. The inductive invariant `BuildInv` has a part for
each module. `ParserInv`: of the section being read, the members up to here are assigned (`AssignedUpTo`),
and of a section that was parsed with success, all are. `Progress` and `FromDocument` tie the points of an
add to the parser and to the pipeline. `PipelineInv`: what was read are fields of this kind of input
(`ReadKnown`); links join elements that were made, lead away from the source, and no two end in one pad
(`Linked`); unless `Create` gave up, the elements and both ends of the links are exactly those of the steps
done and of a source pad that a callback linked (`Exact`). What the steps of `Create` come to is computed
list by list (`CameraBuilds`, ..., `AppsinkBuilds`), and `ConcatBuilds` puts the lists together for every
configuration at once: `Builds` says of a list what must be there before it, what it makes, what it feeds
and what it takes from, so that two lists compose like two contracts. Theorems: `TypeCorrect`,
`NothingUnassignedIsRead`, `UsedIsMade`, `GraphComplete`, and two that no run checks, since they speak of
all sets of elements: `NoCycle` and `OnePiece`, that everything in a complete graph is reached from the
source, or from the source and the muxer as long as the pad of the source is not linked. They follow from
`Depth`, which each link increases. None has a hypothesis: both last ones speak also of a pad that could not
be linked, and `GraphComplete` of a channel with no output, whose source can never be.

The type invariants of `SafeQueue`, `DoubleBufCache` and `ChannelRegistry` are not listed with a run, since
their theorems say the same without a bound; that of the queue is part of the one of `YoloChannel`.

**Only model-checked.** Liveness (`RequestReturns`, `FramesAreAnalysed`, `ProductReturns`, `QueueDrains`,
`FedIsFetchedUnlessOverlap`, `EveryPictureShown`, `EveryPictureAnalysed`), which is out of
the prover's reach together with ENABLED. What a recursive definition computes for every input would need
induction over data; no theorem here rests on it.

## 5. Findings

Three runs end in a violation of what the repository says of itself (`PROJECT.json` "findings"): the
forgotten last result (`DoubleBufferCache.h:84`), the lost wake-up of `exit` (`SafeQueue.h:60`), and the
picture that is drawn into before it is converted (`DeepStreamPipeline.cpp:118`). Each has a passing
counterpart that says what holds all the same.

Met on the way; a property names most of these as its exception:

- a stop that finds the pipeline between two states gives up and stops the task all the same; the next
  stop or delete then waits for a callback that waits for room in a full queue (`SafeQueue.h:67`,
  `Wedged`);
- a second start of a running channel destroys a joinable thread (`Yolov5Task.cpp:110`);
- two adds of one name at a time both pass, and the second replaces the channel of the first
  (`ChannelController.cpp:116`, `TwoAdds`);
- an add during a delete of the name can be refused and still leave its configuration behind, or lose
  it (`ChannelController.cpp:164`, `AddAndDelete`); a reader during a delete can leave a null node, so
  that the name cannot be added again (`ConfigCenter.cpp:674`, `DeleteAndRead`); a start, a stop or a
  second delete during a delete can go through an iterator of an erased entry, into a channel that is
  being released, or through a null pointer (`ChannelController.cpp:53`, `DeleteAndUse`);
- an add whose type is not registered leaves its configuration behind, so that the name is refused from
  then on and cannot be deleted (`ConfigCenter.cpp:608`, `ChannelController.cpp:95`);
- the results of the section parsers are ignored: a configuration with an error in a section is added,
  with fields that hold whatever memory held (`ConfigCenter.cpp:594`);
- `YoloChannel::Init` ignores failed initialisations (`YoloChannel.cpp:29`): such a channel is listed, and
  its delete asks an indeterminate `m_streammuxer` for pads (`DeepStreamPipeline.cpp:825`);
- with every output off the source is to be linked to a fakesink that is already linked
  (`DeepStreamPipeline.cpp:364`), and a pad that cannot be linked is only logged (367): the channel is
  listed and never has a picture (`GraphIsComplete`);
- a segment of unknown end wraps the base of all that follow, and a buffer without a time is given one
  (`DeepStreamPipeline.cpp:278`, `265`);
- `main` never runs a GLib main loop, on which the seek of a looped file relies (`main.cpp:35`, `37`): a
  file with `file-loop` is played once, and a stop after its end waits without limit for buffers that do
  not come, since the probe has dropped the end of the stream (`DeepStreamPipeline.cpp:774`,
  `NeverPaused`);
- a timeout of a process that did run a main loop could outlive its pipeline
  (`DeepStreamPipeline.cpp:270`);
- a slow or stopped inference holds up the display (`DeepStreamPipeline.cpp:732`);
- replies do not depend on results (`HttpServer.cpp:42`), and the list of no channels is the text
  `null` (`ConfigCenter.cpp:665`); all workers parse with one `Json::Reader` (`ConfigCenter.cpp:574`).

## 6. Not modelled

`DrawRGBA.h` (OpenCV calls), `CharacterBitmaps.h` (data), `Logger.h`, `Common.h`, `main.cpp`, build files
and sample configurations. Of modelled files: `Resume`, `SetCallbacks`, `ChannelController::Start()`,
`Stop()`, `DeInit()` and the `ifstream` overloads, which nothing calls; `front`, `notify_func`; the
handlers' replies and `getChannelList`; batches of more than one picture (the program sets
`batch-size` to 1); a drawing that is cut in two by a conversion; colours. Two workers inside one channel
at a time, and races inside `std::map`, `shared_ptr` and the shared `Json::Reader`, have no outcomes to
enumerate.

## 7. Plan

Done, in this order: queue and cache with their abstract specifications; life of a channel; registries;
parser, graph and their composition; drawing; stream loop; path of the pictures; then the proofs of
section 4. To come:

1. `YoloChannel` with two controlling workers where the outcome is defined (a stop during a delete that
   has not reached the task), with its proofs.
2. A file that is deleted while its timeout is pending; batches of several pictures.
