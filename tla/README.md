# A TLA+ verification of xrecorder

xrecorder records a 1000 fps XIMEA camera.  Frames stay in order in the capture
thread, are spread GOP by GOP over several NVENC encoder sessions on two GPUs,
and come back encoded in any order; a serializer puts them together again into
one MP4 file.  This directory models the concurrent part of that program,
model-checks it with TLC and proves its central properties with TLAPS.

The paths below are relative to the repository, `src/...` being its root.

## 1. Inventory of the system

Threads: the application's main thread; the SIGINT handler; the capture thread
of `XimeaCapture`; for each encoder lane a push thread, a pull thread, a GLib
main-loop thread and GStreamer's own threads; the serializer's emit and
main-loop threads; the previewer's thread and its main-loop thread, which also
runs the key handler.

| Component | State | Operations | What makes it hard | What makes it correct |
|---|---|---|---|---|
| `OrderedBitstreamSerializer` | `pending_`, `next_expected_gop_`, gap counters, `pipeline_failed_` | `SetGopExpectedCount`, `NotifyFramesDropped`, `PushChunk`, `EmitLoop`, `Stop` | three producers, a stall timeout, skipping, a Stop that drains | source order and completeness unless a gap is counted; every loss counted; no chunk stuck; Stop ends |
| `EncoderLane` | slot pool, `submit_queue_`, `queue_depth_`, `pending_frames_`, thread and pipeline flags | `Start`, `Stop`, `ReserveSlot`, `SubmitSlot`, `CancelReservedSlot`, `PushLoop`, `PullLoop` | a condition variable, back pressure, slots released on foreign threads, failing pipelines, restart | one owner per slot; right tags; nothing forgotten; Stop flushes and ends |
| `GopScheduler` | weight and credit per lane | `AssignLane` | depths change while they are read | exact shares, bounded lead, light lanes preferred |
| `MultiNvRecorder` | sequence state, `frame_group_routes_`, counters | `Start`, `Stop`, `PushFrame` | a 32-bit counter that wraps, gaps over several groups, drops at two points | source index = camera position; the drop reports of a group add up; one IDR request per group |
| `XimeaManager` and `main` | `is_running_`, `is_recording_`, the program's `keep_running` | `Start`, `Stop`, `on_key`, `on_error`, frame callback, signal handler | all of these run on different threads | the camera closes first; Stop returns; a fatal error and 'q' end the program, and nothing records then |
| `XimeaCapture` | counters, capture thread | `StartAcquisition`, `Close`, `CaptureLoop` | counter wrap, callbacks into recorder and previewer | its loss counter agrees with the camera |
| `GstPreviewer` | latest snapshot, preview thread, key handler | `Start`, `Stop`, `UpdateFrame`, `PreviewLoop` | one buffer, two threads, two mutexes | the display shows whole pictures, never older ones, and catches up |
| `GstRecorder` | slot pool, `frame_queue_`, thread and pipeline flags | `Start`, `Stop`, `PushFrame`, `RecorderLoop` | as `EncoderLane`; a time limit in Stop; a bus shared by Stop and the bus watch | one owner per slot; frames in order, none from an earlier recording; Stop flushes and ends |
| Copies (`PushFrame` of both recorders, `LaneTransfer`) | staging buffers, CUDA streams and events, the camera's ring | `SetupLaneTransfer`, copy, convert, encode | the device runs behind the threads; the camera reuses its buffers | the encoder reads the frame's own picture |
| `LatencyStats`, CUDA kernel, configuration | - | - | data only | not modelled |

How they interact: the capture thread calls the manager's frame callback, which
calls `MultiNvRecorder::PushFrame`; that asks the scheduler for a lane once per
group, reserves a slot of the lane, copies and submits the frame, and tells the
serializer how many frames to expect and which were dropped.  The lane's pull
thread calls `PushChunk` of the serializer.  Keys pressed in the preview window
start and stop the recorder on the previewer's main-loop thread, while the
camera keeps delivering.  For other codecs than H.264 `GstRecorder` takes the
place of all that.  After the recorder the callback hands the same camera buffer
to the previewer.  `XimeaManager::Stop` joins all of them.

`PROJECT.json` lists under `hazards` where this code can go wrong in ways a
test would hardly reach, with the property that watches each place.

## 2. Modules

| Module | Models | Relation to the others |
|---|---|---|
| `OrderedStream` | what the recorded file promises (abstract) | implemented by `RecordingStream` |
| `OrderedBitstreamSerializer` | the serializer: state and one action per operation, branch of `EmitLoop` and outcome of `EmitChunk` | extended by `RecordingStream` |
| `RecordingStream` | a whole recording: `PushFrame`'s calls into the serializer, the lanes as a black box, `MultiNvRecorder::Stop` | composes capture, lanes and serializer |
| `LaneContract` | what a path from `PushFrame` to the encoded stream promises (abstract) | implemented by `EncoderLane` and `GstRecorder` |
| `EncoderLane` | the inside of one lane, with an external GStreamer pipeline | what `RecordingStream` takes as a black box |
| `GstRecorder` | the recorder of the other codecs and of raw video, with an external pipeline | alternative to all of the recording modules |
| `FrameOwnership` | the copies from the camera's buffer to the encoder, for both recorders: streams, events, slots | what the recorders take as one step |
| `GstPreviewer` | the previewer's snapshot buffer and its two threads | |
| `FrameCallback` | the manager's frame callback with the camera's ring, up to the previewer's Stop | composes `FrameOwnership` and `GstPreviewer` |
| `GopScheduler` | `AssignLane` with concurrent lanes | what `MultiNvRecorder` takes as "any lane" |
| `MultiNvRecorder` | `PushFrame`'s own arithmetic and bookkeeping | the caller's side of `RecordingStream` |
| `XimeaCapture` | the counters of `CaptureLoop` | |
| `CaptureSequence` | the capture thread from `xiGetImage` to `PushFrame` | composes `XimeaCapture` and `MultiNvRecorder` |
| `XimeaManager` | the program's threads, keys, signals, start and shutdown | sees the recorder as a switch |
| `MCRecordingStream`, `MCEncoderLane` | constants for TLC | |
| `FrameSequences` | queues of frames: lemmas | used by three of the next ones |
| `RecordingStream_proofs`, `EncoderLane_proofs`, `GstRecorder_proofs`, `GopScheduler_proofs`, `CaptureSequence_proofs`, `FrameCallback_proofs`, `XimeaManager_proofs` | theorems (section 4) | each extends the module it is named after |

### Correspondence with the code

Names follow the source: the variable `nextExpectedGop` is
`next_expected_gop_`, the action `SetGopExpectedCount` the function of that
name; `map` in `PROJECT.json` gives the lines of every definition.  Variables
called "history" in a module are not in the code; they record what happened so
that a property can speak of it.

* **Steps.**  A critical section of a mutex is one step.  Where the code does
  not hold a mutex the accesses are separate steps: the two calls of
  `RegisterMissingFrames`, the stores of `Stop`, the depth readings of
  `AssignLane`.  `condition_variable::wait` of the lane is three steps
  (evaluate the predicate, enter the wait set and release the mutex, wake up),
  with spurious wakeups; the serializer's `wait_for` polls every 100 ms and
  needs no such detail.
* **Serializer.**  A chunk is its source index.  `pending` is a function on
  the GOPs present, as `operator[]` creates an entry on first use.  The time
  since `first_seen_us` is the field `age`, advanced by `Tick` up to just past
  the timeout.  `WriteChunk`, `SkipChunk` and `RefuseChunk` are the outcomes
  of one `EmitChunk`.
* **Recording.**  `Arrive(k)` is a frame whose counter is `k + 1` after the
  last one.  A lane returns the frames of one GOP in order (that is
  `ChunksInSubmissionOrder` of `EncoderLane`) and may lose frames; GOPs are
  not ordered with respect to each other.  Frames still arrive during and after
  the lanes' Stop.
* **Lane.**  The pipeline is "up", "broken" (takes buffers or refuses them, and
  encodes nothing), "flushing" (it was never started) or "null".  An encoder
  input buffer is given back some time after its picture was encoded, in any
  order.  Test of `started_` and `ReserveSlot` are one step.  A `Start` that
  fails early leaves the lane without threads (`StartFails`).  The 10 s wait
  for a message on the bus is a step of Stop (`PopBus`) that may always end;
  nothing but the join of the pull thread behind it waits for the pipeline.
  End of stream is assumed to pass a broken element; that is GStreamer's
  affair.
* **Single recorder.**  `raw` is chosen in the initial state.  `PushFrame` is a
  step for its test of the flags, one for the slot and one for handing the frame
  over, so that Stop may come in between (`straddled`); after the end of stream
  `appsrc` takes no buffer (`EosSent`).  Stop is a step per call: flags,
  `notify_all`, the join and the end of stream, the wait for a message (which
  may expire at any time), the quit and the join of the main-loop thread,
  teardown, clearing.  `g_main_loop_quit` has no effect on a loop that its
  thread has not yet begun to run, and then the join waits for ever.  The bus watch is
  attached to the default main context, which in this program the previewer's
  loop thread may run; it may take a message before Stop finds it.
* **Copies.**  A picture is the number of its frame, and a copy is one step of
  the device: a picture that is overwritten during a copy is as bad as one
  overwritten before it.  Operations of a stream are done in order; those of
  different streams only respect the events between the copies of one frame.
  Local and peer copies are one path, since they differ only in the call.
  Two assumptions: (1) the callback returns before the camera comes round to
  the buffer it was given, which no code can ensure with `XI_BP_UNSAFE`; what
  happens after the callback is up to the code.  (2) The previewer's
  `cudaMemcpy` between device buffers is synchronous, as its comment says (the
  CUDA documentation does not promise that).  It runs on the default stream
  and therefore waits for `record_stream_`, which is a blocking stream; the
  lanes' streams are not.
* **Previewer.**  The throttle is a free choice except for the first frame.  A
  buffer that is being copied into holds `Torn`, a freed one `Freed`.  The
  time stamp that belongs to a snapshot is read in another critical section
  and may be that of a different one; it is only used in a warning.  `sinkUp`
  says whether a buffer can be had and is taken by the display; it may change
  at any time, and a picture that meets it FALSE is dropped.  The end of Stop is
  one step, `JoinAndFree`: it waits for the preview thread first, and what comes
  between that and the freeing of the buffers touches no state of this module;
  the quit and the join of the main loop are steps of `XimeaManager`.
* **Recorder.**  `Modulus` stands for 2^32.  `skip` frames are lost by the
  camera before each delivery, with no limit but the bound on positions.  The
  three ways of copying a frame to a lane's GPU are one choice between success
  (`SubmitFrame`) and failure (`DropFrame`) here; `FrameOwnership` has them.
* **Scheduler.**  Weights are natural numbers; the code adds and compares
  doubles.  `std::sort` leaves the order of equal credits open, so does
  `ProbedNext`.
* **Manager.**  SIGINT is delivered to the main thread, one of the
  possibilities.  `Destroy` is the destruction of the members after Stop has
  returned, which stops a recorder that a late key has started.  The recorder is
  a switch whose Start and Stop hold `stop_mutex_`.  The capture loop tests
  `keep_running_` before each image (`GetImage`), so that one more frame may
  come after `Close` has cleared it.  Errors of the camera, the preview display,
  `PushFrame` and the recorder's own threads all reach main's callback; a thread
  in it is in `reporting` until it has had `g_cout_mutex`, which main takes to
  print, and only then goes on: `CameraFailed` and `PreviewFailed` are the rest
  of `on_error`, and a Stop that joins the recorder's threads waits for those
  that report.

## 3. What the runs check

| Run | Bounds | Shows |
|---|---|---|
| `StreamOrder` | 5 frames, GOPs of 2 (the last cut short), lanes may lose frames, timeout 0 | `OrderInv` (the inductive invariant of the proofs), `OrderedUnlessGap`, `GaplessIsComplete`, `LossesCounted` |
| `StreamFaults` | 3 frames, 2 GOPs, every fault, fairness | `OnePlace`, `ChunkLeavesBuffer`, `StopTerminates`, refinement of `OrderedStream`, types |
| `LaneSafety` | 2 slots, 3 frames, 2 recordings, 1 access unit in the appsink, failing pipelines, fairness | `SlotHasOneOwner`, `ChunksInSubmissionOrder`, `StopFlushes`, `NoFrameForgotten`, `FrameComesOut`, refinement of `LaneContract`, types |
| `SchedulerFairness` | 3 lanes, every choice of weights 1 and 2, bound 1, pool of 2, 7 calls | `CreditIsDebt`, `CycleIsExact`, `NeverAGroupAhead`, `ChosenLaneIsLight`, types |
| `RecorderSequence` | a counter of 6 values, groups of 2, routes kept for 2 groups, 9 camera frames, 2 recordings | `SourceIsPosition`, `GroupsBalance`, `OneIdrPerGroup`, `CaptureCountsLosses`, types |
| `ManagerShutdown` | 3 keys, fairness | `CameraClosedFirst`, `NothingRecordsAtExit`, `ShutdownCompletes`, `ShutdownRequestsEnd`, types |
| `SingleRecorder` | both kinds of codec, 2 slots, 4 frames, 2 recordings, failing pipelines, fairness | `SlotHasOneOwner`, `StopFlushes`, `StopReturnsIfWoken`, refinement of `LaneContract`, types |
| `FrameCallback` | 3 copy paths, 2 camera buffers, 2 slots, 3 pictures, failing CUDA calls, fairness | `OwnPicture`, `DisplayMovesForward`, `PreviewKeepsUp`, types |

(`RecorderSequence` runs the module `CaptureSequence`.)

Four more runs check what a comment or an example says and the code does not
do; TLC finds a counterexample for each:

| Run | Text | What happens |
|---|---|---|
| `LaneStale` | "position within the whole recording" (`frame_types.h`) | a frame submitted after Stop emptied the queue is encoded in the next recording |
| `LaneStop` | "This stops threads, flushes GStreamer pipelines" (`example_usage.cpp`) | the push thread misses the only notification, and Stop waits for it for ever |
| `ManagerInterrupt` | "'q' or Ctrl+C to quit" (`main.cpp`) | the signal handler waits for a mutex of the thread it interrupts |
| `FrameTorn` | "The capture thread must block until nothing is still reading xi_gpu_ptr" (`multi_nv_recorder.cpp`) | `GstRecorder` for a video codec does not wait: the camera overwrites the buffer before the copy, and the encoder gets a later picture |

Three smaller divergences, seen while modelling and not given a run:

* The serializer "re-emits them strictly in source order"
  (`ordered_bitstream_serializer.h`); a chunk of a skipped GOP that arrives
  late brings the emit thread back, behind frames already written.
  `OrderedUnlessGap` is what holds: only after a counted GOP gap.
* "Only add chunks that disappeared after they were expected to reach the
  encoder/serializer" (`EmitLoop`): at Stop the positions of the last GOP that
  were never captured are counted as well.  `LossesCounted` is what holds:
  the counter is never too low; how far it may be too high no property says.
* 'r' between the recorder's Stop and the previewer's starts a recording that
  `XimeaManager::Stop` leaves on, although it "stops threads, flushes GStreamer
  pipelines" (`example_usage.cpp`).  `NothingRecordsAtExit` is what holds: the
  destructors stop it.

### Why the bounds are enough

*Streams.*  Two GOPs are the least that can be swapped, skipped or found
missing; the third, cut short, is what Stop always meets.  GOPs of two frames
have a first frame and another one, so that a gap can begin, end or lie inside
a GOP, or span two.  The timeout only matters as "may have expired", which 0
ticks already allows for every GOP, and `Tick` need not come.

*Lane.*  Two slots fill up with three frames and can be released in either
order; an appsink of one access unit is full as soon as it has one; the second
recording shows what the first leaves behind.  `CaptureDuringStop` is FALSE in
`LaneSafety`: with Stop during a `PushFrame` the lane's promises fail, as
`LaneStale` shows with the flag TRUE.

*Scheduler.*  The longest cycle (three lanes of weight 2) has six calls; the
seventh starts the next one.  A bound of one and two slots let every lane be
under, at and over the bound.

*Recorder.*  Nine camera frames pass the wraparound of a counter of six values,
a gap of up to four groups fits in, and gaps of more than half the range
happen.

*Capture.*  The same nine frames pass the wraparound inside and outside a gap,
and let the first image of a second recording come after it.

*Single recorder.*  Four frames go twice round two slots, or leave frames for
the second recording after three have gone round; the pipeline gives slots back
in either order.

*Frame callback.*  With two camera buffers the picture after next overwrites a
frame's own, so three pictures are the least that can go wrong; with three,
both slots are used and one is used again, also after a failed submission.

*Manager.*  Three keys allow start, stop and start again, or a quit among them.

### Fairness

* The emit thread re-examines its state every 100 ms, time passes, and the
  caller of Stop runs once the thread it joins has ended: `WF` of `Emit`,
  `Clock` and `FinishStop`.  Frames need not come, lanes need not deliver.
* Each lane thread runs, the pipeline of a lane encodes what it can and gives
  buffers back, and a `PushFrame` or Stop that has begun goes on.  Nothing
  makes anyone start or stop a recording, no pipeline must fail, and a
  spurious wakeup need never come (that is why the lost wakeup counts).
* The single recorder's thread runs, and a `PushFrame` or Stop that has begun
  goes on.  Its pipeline owes nothing: Stop has a time limit.  Nothing is asked
  of the thread that begins to run the main loop, and `StopReturnsIfWoken`
  names the two ways in which Stop may wait for ever: the notification missed
  by the recorder thread, and the quit missed by the main loop.
* The device finishes what it was given, the preview loop runs, and an
  `UpdateFrame` that has begun goes on; the camera, the display and the caller
  of Stop owe nothing.
* Main, the key handler and the capture thread run; keys, frames, errors and
  signals are free.  A thread that waits for `g_cout_mutex` in main's callback
  gets it although main takes the mutex again and again (`SF` of `ReportError`):
  main sleeps 100 ms between two prints.

`CHECK_DEADLOCK FALSE` everywhere: a recording that has stopped, a program that
has returned, and the bounds on frames, keys and calls all stop the model.

### Mutants

Every property of a passing run has a mutant, an operator of the modules whose
comment begins with "Mutant": a plausible mistake in the code (a missing
notification, an unsorted GOP, a slot released too early) under which TLC finds the
property violated.

## 4. What is proved

Every safety property of section 3 - type invariants, invariants, action
properties and refinements - is also a theorem: for any GOP size, timeout,
number of lanes, slots, weights, counter range, camera buffers, and any number
of frames, recordings and keys.  The bounds of the models (`MaxFrames` and the
like) are constants of the theorems, too, so that no bound limits them.

| Module | Theorems (`... => []property` unless the table says more) |
|---|---|
| `RecordingStream_proofs` | `TypeCorrect`, `OrderInvariant`, `SourceOrder`, `NothingOutstanding`, `FrameHasOnePlace`, `LossesAlwaysCounted`; `StreamIsOrdered`: refines `OrderedStream` |
| `EncoderLane_proofs` | `LaneTypeCorrect`; under `~CaptureDuringStop`: `SlotAlwaysHasOneOwner`, `ChunksAlwaysInOrder`, `NoFrameIsForgotten`, `StopAlwaysFlushes`, `NoFrameIsStale`, and `LaneImplementsContract`: refines `LaneContract` |
| `GstRecorder_proofs` | `GstTypeCorrect`, `GstSlotHasOneOwner`, `GstStopFlushes`; `GstImplementsContract`: refines `LaneContract` |
| `GopScheduler_proofs` | `SchedulerTypeCorrect`, `CreditIsAlwaysDebt`, `NeverAheadAlways`, `CycleIsAlwaysExact`; `ChosenLaneIsAlwaysLight`: an action property |
| `CaptureSequence_proofs` | `RecorderTypeCorrect`, `SourceIsAlwaysPosition`, `GroupsAlwaysBalance`, `OneIdrPerGroupAlways`, `CaptureAlwaysCountsLosses`; `SequenceRefinesRecorder`: `CaptureSequence` refines `MultiNvRecorder` |
| `FrameCallback_proofs` | `FrameTypeCorrect`; `DisplayAlwaysMovesForward`: an action property; under `"encoded" \notin Paths`: `OwnPictureAlways` |
| `XimeaManager_proofs` | `ManagerTypeCorrect`, `ExitEndsRecording`, `CameraIsClosedFirst` |
| `FrameSequences` | lemmas about queues of frames, used by the lane, the single recorder and the callback |

Assumptions: the named `ASSUME`s of the modules (`SerializerAssumption`,
`StreamAssumption`, `LaneAssumption`, `GstRecorderAssumption`,
`SchedulerAssumption`, `RecorderAssumption`, `FrameOwnershipAssumption`,
`ManagerAssumption`), which give the constants their types and say that sizes
are positive, and two hypotheses of theorems:

* `~CaptureDuringStop`, of the lane: no Stop begins while the capture thread is
  inside `PushFrame`.  `CaptureDuringStop` is a constant because the lane
  cannot know its caller; `XimeaManager` guarantees it when it stops itself
  (`CameraIsClosedFirst`) and not when 'r' stops a recording.  Without it the
  properties are false (`LaneStale` is such a run).  `NoFrameIsStale` is thus
  the condition under which the comment refuted there is true.
* `"encoded" \notin Paths`, of `OwnPictureAlways`: on that path nothing waits
  for the camera's buffer, and `FrameTorn` is a counterexample.

The single recorder needs no such hypothesis: its properties themselves speak
of the time until a Stop has `straddled` a `PushFrame`.

### The arguments

**Recording.**  `SourceOrder` and `NothingOutstanding` rest on `OrderInv`, since
neither is inductive.  It has five parts:

1. `Placement` - a frame in a buffer is in the buffer of its own GOP, was
   captured, and is neither in a lane nor dropped;
2. `Bookkeeping` - the buffer of a GOP counts exactly the dropped frames of
   that GOP, no GOP behind `next_expected_gop_` is present, and a GOP for which
   frames are still in a lane is present;
3. `PassedIsDone` - the positions of passed GOPs are all captured and done;
4. `EmittedInOrder` - the file is sorted and what is being emitted comes after
   it;
5. `CaptureState` - where the capture thread can be, given its counters.

The heart is `CompleteGop`: chunks present and dropped frames are disjoint sets
of positions of one GOP, a GOP has `GopSize` positions, so when the emit thread
finds `chunks.size() >= nominal - dropped` the two sets together are the whole
GOP and nothing of it can come later.  That needs `Bookkeeping` (the counter is
the number of dropped frames, not more), and is the reason why a GOP that is
complete never comes back.

`OnePlace` follows from `Apart`, which adds that every frame of any place has
been captured: so that the frame the capture thread hands over is in none.  The
number of frames written is then the length of the file, and together with the
order this is `OrderedStream`: `WriteChunk` is its `Record`, the first counted
GOP gap its `Degrade`, any other step a stutter.

`LossesCounted` is not inductive, because `frame_gaps_` is charged when a GOP is
emitted or skipped, before the lane is known to have lost the frame.  `LossInv`
charges in advance: `frame_gaps_` covers the dropped frames and all positions of
routed GOPs that are in a lane, lost or still to come and whose GOP has no entry
waiting (`Owed`).  The heart is `ShortfallCovers`: the chunks, the dropped
frames and the outstanding positions of a GOP are disjoint among its `GopSize`
positions, hence what the emit thread adds for a short GOP is no less than what
becomes owed.  It needs that an entry has the nominal size of its GOP and no more
drops than there were (`EntriesHonest`), and that frames reach a lane only after
their GOP was routed (`RoutedFirst`).

**Lane.**  `LaneInv` is `Threads` (which thread may still run at each step of
Stop), `Line`, `Tags` and `Owners`.  `Line` orders all the places of a lane -
out, the pull thread, the appsink, the pipeline, the push thread, the queue, the
capture thread - from older to newer frames and says that together they hold
what was accepted and not given up; every step moves a frame from one place to
the next.  `Tags` aligns `pending_frames_` with that line, so that the tag popped
for an access unit is its own.  `Owners` says that the items on the line, with
the slots still to be given back, have different slots, and that these are the
slots in use.  Stop's flush is then what `Threads` says at the join: all places
before the end of the line are empty.  The refinement of `LaneContract` maps
acceptance, delivery and giving up to the steps at the two ends of the line.

**Single recorder.**  The same line, shorter: the file, the pipeline, the
recorder thread, `frame_queue_`, `PushFrame`.

**Scheduler.**  `CreditInv`: the credit of a lane is its share of the calls less
the groups it got, times the total weight; `SumInv`: the credits add up to 0
between two calls and to `Total` within one.  Without back pressure the lane
with the largest credit is taken, so that no credit falls to `-Total` or below
(`AheadInv`).  After a whole cycle each credit is a multiple of `Total`, hence
not negative, and numbers that are not negative and add up to 0 are all 0.  The
sum over the lanes is a recursive function; its few laws are proved by
induction, stated for sets of numbers (`SetInduction`).

**Recorder and capture thread.**  The invariant follows a cursor, the source
index below which every position has been reported or submitted.  `Clock` ties
the source index to the camera's position: never ahead of it, and equal unless
half the counter's range was missed in one go.  `Placed` and `Routing` say what
the lanes have of the positions below the cursor and which group still owes its
IDR request.  `Balance` is `GroupsBalance` for the part of a group below the
cursor, at every point of `PushFrame`; a run that is reported is cut at the
group boundary and so belongs to one group.  That every step of the capture
thread is a step of the recorder or a stutter carries all that over to
`CaptureSequence`.

**Frame callback.**  For each frame waited for, queued or in the encoder and
each copy of its path: the copy has been made and no operation on its slot is in
that stream (`Made`), or the last operation on its slot there is this frame's
(`Coming`).  Submissions keep that, since they are for slots that nobody owns
(`Owners`); running a copy turns `Coming` into `Made`, the first one because the
camera cannot come round during the callback (`InCallback`, `CameraRange`), the
next ones because events make them wait for the one before.  The event the
capture thread waits for makes the first copy `Made` when the callback goes on,
and the event of the slot makes all of them `Made` when the encoder gets it.
For the display, the two mutexes of the previewer exclude a torn picture, and
its buffers hold pictures no older than the one shown (`Display`).

**Manager.**  Invariants on the places of its threads: who may still be in
`on_key` or in the callback at each step of Stop and of the destructors.

### Only model-checked

Liveness (`ChunkLeavesBuffer`, `StopTerminates`, `FrameComesOut`,
`ShutdownCompletes`, `ShutdownRequestsEnd`, `StopReturnsIfWoken`,
`PreviewKeepsUp`): the proof system does not handle fairness and ENABLED.

## 5. Not modelled, and why

* `XimeaCapture::Open` and the camera parameters: calls of the vendor's API
  without state of the program; the count of timeouts, which nothing reads but
  the telemetry.
* `LatencyStats`, the CUDA kernel, `Initialize`, command line and
  configuration: data and set-up, without control that a property could miss.
* `GetTelemetry`/`GetStats`: reads only.  Their race with the replacement of
  the serializer is listed as a hazard.
* The data race on `frame_group_routes_` (Stop clears the map while `PushFrame`
  uses it) is undefined behaviour of the standard library's map; `LaneStale`
  shows the consequences of the same overlap on the lane.
* CUDA streams and events: taken as doing what they are told.  Failures of
  CUDA calls are modelled where the code tests for them; `GstRecorder` does not.
* The main-loop threads of the lanes and of the serializer: they run the bus
  handler, and their quit and join in Stop have the same weakness as the single
  recorder's, which is modelled there.  The previewer's may miss its quit in the
  same way, if the camera fails to start at once; `XimeaManager` takes that loop
  as running when `Start` of the previewer has returned.
* Memory that is allocated in constructors and in `GstPreviewer::Start`, and
  what is left of it when one allocation of several fails.

## 6. Plan

Order of work; the first seven are done.

1. Serializer and recording (the product: an ordered, complete file), with
   their proofs.
2. Encoder lane.
3. Scheduler and recorder arithmetic.
4. Manager: threads, keys, shutdown, with its first proofs.
5. `LaneContract` and its two implementations; `GstRecorder` as a module.
6. The capture thread: its counters with the recorder's (`CaptureSequence`),
   its copies with the previewer's (`FrameCallback`).
7. Proofs of the safety properties of every component and of the three
   refinements, component by component.
8. Composition: `MultiNvRecorder` with `GopScheduler` and two lanes in place of
   the free choice of a lane; Start and Stop overlapping `PushFrame` in the
   recorder.
