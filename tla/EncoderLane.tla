----------------------------- MODULE EncoderLane -----------------------------
(***************************************************************************)
(* src/src/encoder_lane.cpp: one encode session.  Five actors share it:    *)
(* the capture thread (ReserveSlot, SubmitSlot, CancelReservedSlot from    *)
(* MultiNvRecorder::PushFrame), the push thread (PushLoop), the GStreamer  *)
(* pipeline, the pull thread (PullLoop), and the thread that calls Start   *)
(* and Stop.                                                               *)
(*                                                                         *)
(* A frame is a number, its tag <<gop, source index, pts>> the same        *)
(* number.  The pipeline is external: it encodes in order, one access unit *)
(* per frame, and gives the slot of a frame back in any order.  Wording,   *)
(* CUDA calls, IDR requests and the error callback (it only sets a flag of *)
(* the manager) are left out; the statistics are the sizes of the history  *)
(* variables.                                                              *)
(***************************************************************************)
EXTENDS Integers, Sequences, FiniteSets

CONSTANTS
  Slots,              \* indexes of nv12_pool_
  DepthModulus,       \* values of the unsigned queue_depth_
  SinkBuffers,        \* max-buffers of the appsink
  PipelineFaults,     \* the pipeline may fail to start or break
  CaptureDuringStop,  \* Stop while the camera delivers ('r' key), or after it is closed
  MaxFrames,          \* bound: frames captured in all recordings
  MaxRecordings       \* bound: calls of Start

ASSUME LaneAssumption ==
  /\ Slots # {} /\ IsFiniteSet(Slots)
  /\ DepthModulus \in Nat \ {0} /\ SinkBuffers \in Nat \ {0}
  /\ PipelineFaults \in BOOLEAN /\ CaptureDuringStop \in BOOLEAN
  /\ MaxFrames \in Nat /\ MaxRecordings \in Nat

None == [slot |-> "none", frame |-> 0]
Item == [slot : Slots, frame : 1 .. MaxFrames]

VARIABLES
  recorder,       \* MultiNvRecorder::started_
  recordings,     \* calls of Start so far
  nextFrame,      \* number of the next captured frame
  reserved,       \* slot and frame PushFrame is filling, or None
  keepRunning,    \* keep_running_
  pipelineFailed, \* pipeline_failed_
  slotInUse,      \* slot_in_use_, as the set of slots in use
  submitQueue,    \* submit_queue_
  queueDepth,     \* queue_depth_
  pendingFrames,  \* pending_frames_: tags of the frames inside the pipeline
  pushPC, pushItem, \* push thread
  pullPC, pullItem, \* pull thread
  stopPC,         \* thread in Stop
  pipeline,       \* "null", "up", "broken" (accepts, encodes nothing), "flushing"
  inPipe,         \* buffers accepted by appsrc and not yet encoded
  retiring,       \* slots of encoded buffers, not yet released
  samples,        \* access units queued in the appsink
  eos,            \* end of stream: "no", "sent", "sink"
  accepted,       \* history: frames submitted since Start
  out,            \* history: chunks handed to the callback since Start
  discarded       \* history: frames dropped by PushLoop since Start

captureVars  == <<recorder, recordings, nextFrame, reserved>>
pushVars     == <<pushPC, pushItem>>
pullVars     == <<pullPC, pullItem>>
pipelineVars == <<pipeline, inPipe, retiring, samples, eos>>
queueVars    == <<submitQueue, queueDepth>>
historyVars  == <<accepted, out, discarded>>
vars == <<captureVars, keepRunning, pipelineFailed, slotInUse, queueVars, pendingFrames,
          pushVars, pullVars, stopPC, pipelineVars, historyVars>>

Init ==
  /\ recorder = FALSE /\ recordings = 0 /\ nextFrame = 1 /\ reserved = None
  /\ keepRunning = FALSE /\ pipelineFailed = FALSE
  /\ slotInUse = {} /\ submitQueue = <<>> /\ queueDepth = 0 /\ pendingFrames = <<>>
  /\ pushPC = "done" /\ pushItem = None /\ pullPC = "done" /\ pullItem = 0
  /\ stopPC = "idle"
  /\ pipeline = "null" /\ inPipe = <<>> /\ retiring = {} /\ samples = <<>> /\ eos = "no"
  /\ accepted = {} /\ out = <<>> /\ discarded = {}

----------------------------------------------------------------------------
(* Start.  The queue and the slots are not touched.                        *)
Begin ==
  /\ ~recorder /\ stopPC = "idle" /\ recordings < MaxRecordings
  /\ CaptureDuringStop \/ reserved = None
  /\ recordings' = recordings + 1
  /\ pipelineFailed' = FALSE /\ queueDepth' = 0
  /\ accepted' = {} /\ out' = <<>> /\ discarded' = {}
  /\ UNCHANGED <<nextFrame, reserved, slotInUse, submitQueue, pendingFrames, pushItem,
                 pullItem, stopPC, inPipe, retiring, samples>>

\* The state change to PLAYING may fail unnoticed.
Start ==
  /\ Begin
  /\ recorder' = TRUE
  /\ keepRunning' = TRUE
  /\ pipeline' \in IF PipelineFaults THEN {"up", "flushing"} ELSE {"up"}
  /\ eos' = "no"
  /\ pushPC' = "eval" /\ pullPC' = "pull"

\* No CUDA context, or the pipeline cannot be built: the recorder does not
\* start, and the lane has no threads.
StartFails ==
  /\ PipelineFaults /\ Begin
  /\ UNCHANGED <<recorder, keepRunning, pipeline, eos, pushPC, pullPC>>

----------------------------------------------------------------------------
(* The capture thread, inside PushFrame.                                   *)
Capturing == recorder /\ (stopPC = "idle" \/ CaptureDuringStop)

\* The pool is probed in a circle from next_slot_: some free slot is found.
ReserveSlot(s) ==
  /\ Capturing /\ reserved = None /\ nextFrame <= MaxFrames
  /\ s \notin slotInUse
  /\ slotInUse' = slotInUse \cup {s}
  /\ reserved' = [slot |-> s, frame |-> nextFrame]
  /\ nextFrame' = nextFrame + 1
  /\ UNCHANGED <<recorder, recordings, keepRunning, pipelineFailed, queueVars, pendingFrames,
                 pushVars, pullVars, stopPC, pipelineVars, historyVars>>

\* Mutant: the caller uses the null slot.
NoFreeSlotUsed ==
  /\ Capturing /\ reserved = None /\ nextFrame <= MaxFrames
  /\ Slots \subseteq slotInUse
  /\ reserved' = [slot |-> "none", frame |-> nextFrame]
  /\ nextFrame' = nextFrame + 1
  /\ UNCHANGED <<recorder, recordings, keepRunning, pipelineFailed, slotInUse,
                 queueVars, pendingFrames, pushVars, pullVars, stopPC, pipelineVars, historyVars>>

\* Saturated: the caller reports the frame dropped.
NoFreeSlot ==
  /\ Capturing /\ reserved = None /\ nextFrame <= MaxFrames
  /\ Slots \subseteq slotInUse
  /\ nextFrame' = nextFrame + 1
  /\ UNCHANGED <<recorder, recordings, reserved, keepRunning, pipelineFailed, slotInUse,
                 queueVars, pendingFrames, pushVars, pullVars, stopPC, pipelineVars, historyVars>>

\* The thread that evaluated wait's predicate holds submit_mutex_ until it
\* is in the wait set.
MutexFree == pushPC # "enroll"

\* notify_one and notify_all reach the push thread only if it is waiting.
Notified == IF pushPC = "waiting" THEN "eval" ELSE pushPC

\* Mutant: no notify_one.
SubmitSlotSilently ==
  /\ reserved # None /\ MutexFree
  /\ submitQueue' = Append(submitQueue, reserved)
  /\ queueDepth' = (queueDepth + 1) % DepthModulus
  /\ accepted' = accepted \cup {reserved.frame}
  /\ reserved' = None
  /\ UNCHANGED <<recorder, recordings, nextFrame, keepRunning, pipelineFailed, slotInUse,
                 pendingFrames, pushVars, pullVars, stopPC, pipelineVars, out, discarded>>

SubmitSlot ==
  /\ reserved # None /\ MutexFree
  /\ submitQueue' = Append(submitQueue, reserved)
  /\ queueDepth' = (queueDepth + 1) % DepthModulus
  /\ pushPC' = Notified
  /\ accepted' = accepted \cup {reserved.frame}
  /\ reserved' = None
  /\ UNCHANGED <<recorder, recordings, nextFrame, keepRunning, pipelineFailed, slotInUse,
                 pendingFrames, pushItem, pullVars, stopPC, pipelineVars, out, discarded>>

\* The ownership copy failed.
CancelReservedSlot ==
  /\ reserved # None
  /\ slotInUse' = slotInUse \ {reserved.slot}
  /\ reserved' = None
  /\ UNCHANGED <<recorder, recordings, nextFrame, keepRunning, pipelineFailed, queueVars,
                 pendingFrames, pushVars, pullVars, stopPC, pipelineVars, historyVars>>

----------------------------------------------------------------------------
(* The push thread.  submit_cv_.wait is three steps: evaluate the          *)
(* predicate, enter the wait set (releasing the mutex), wake up.           *)
PopSubmit ==
  /\ pushPC = "eval" /\ submitQueue # <<>>
  /\ pushItem' = Head(submitQueue)
  /\ submitQueue' = Tail(submitQueue)
  /\ queueDepth' = (queueDepth - 1) % DepthModulus
  /\ pushPC' = "item"
  /\ UNCHANGED <<captureVars, keepRunning, pipelineFailed, slotInUse, pendingFrames,
                 pullVars, stopPC, pipelineVars, historyVars>>

EvalEmpty ==
  /\ pushPC = "eval" /\ submitQueue = <<>>
  /\ pushPC' = IF keepRunning THEN "enroll" ELSE "done"
  /\ UNCHANGED <<captureVars, keepRunning, pipelineFailed, slotInUse, queueVars, pendingFrames,
                 pushItem, pullVars, stopPC, pipelineVars, historyVars>>

EnterWait ==
  /\ pushPC = "enroll"
  /\ pushPC' = "waiting"
  /\ UNCHANGED <<captureVars, keepRunning, pipelineFailed, slotInUse, queueVars, pendingFrames,
                 pushItem, pullVars, stopPC, pipelineVars, historyVars>>

SpuriousWakeup ==
  /\ pushPC = "waiting"
  /\ pushPC' = "eval"
  /\ UNCHANGED <<captureVars, keepRunning, pipelineFailed, slotInUse, queueVars, pendingFrames,
                 pushItem, pullVars, stopPC, pipelineVars, historyVars>>

\* The pipeline has failed: release the slot.  The caller is not told.
DropItem ==
  /\ pushPC = "item" /\ pipelineFailed
  /\ slotInUse' = slotInUse \ {pushItem.slot}
  /\ discarded' = discarded \cup {pushItem.frame}
  /\ pushItem' = None /\ pushPC' = "eval"
  /\ UNCHANGED <<captureVars, keepRunning, pipelineFailed, queueVars, pendingFrames,
                 pullVars, stopPC, pipelineVars, accepted, out>>

TagItem ==
  /\ pushPC = "item" /\ ~pipelineFailed
  /\ pendingFrames' = Append(pendingFrames, pushItem.frame)
  /\ pushPC' = "push"
  /\ UNCHANGED <<captureVars, keepRunning, pipelineFailed, slotInUse, queueVars, pushItem,
                 pullVars, stopPC, pipelineVars, historyVars>>

\* Mutant: the slot is released as soon as appsrc has the buffer.
PushBufferRelease ==
  /\ pushPC = "push" /\ pipeline \in {"up", "broken"}
  /\ inPipe' = Append(inPipe, pushItem)
  /\ slotInUse' = slotInUse \ {pushItem.slot}
  /\ pushItem' = None /\ pushPC' = "eval"
  /\ UNCHANGED <<captureVars, keepRunning, pipelineFailed, queueVars, pendingFrames,
                 pullVars, stopPC, pipeline, retiring, samples, eos, historyVars>>

PushBuffer ==
  /\ pushPC = "push" /\ pipeline \in {"up", "broken"}
  /\ inPipe' = Append(inPipe, pushItem)
  /\ pushItem' = None /\ pushPC' = "eval"
  /\ UNCHANGED <<captureVars, keepRunning, pipelineFailed, slotInUse, queueVars, pendingFrames,
                 pullVars, stopPC, pipeline, retiring, samples, eos, historyVars>>

\* appsrc unrefs a buffer it does not take, and the buffer's destructor frees
\* the slot: GST_FLOW_FLUSHING, or an error that marks the pipeline failed.
\* The tag stays behind.
PushRejected ==
  /\ pushPC = "push" /\ pipeline \in {"flushing", "broken"}
  /\ slotInUse' = slotInUse \ {pushItem.slot}
  /\ discarded' = discarded \cup {pushItem.frame}
  /\ pipelineFailed' = (pipelineFailed \/ pipeline = "broken")
  /\ pushItem' = None /\ pushPC' = "eval"
  /\ UNCHANGED <<captureVars, keepRunning, queueVars, pendingFrames,
                 pullVars, stopPC, pipelineVars, accepted, out>>

PushLoop == \/ PopSubmit \/ EvalEmpty \/ EnterWait
            \/ DropItem \/ TagItem \/ PushBuffer \/ PushRejected

----------------------------------------------------------------------------
\* Mutant: the appsink has drop=true.
EncodeLeaky ==
  /\ pipeline = "up" /\ inPipe # <<>>
  /\ samples' = Append(IF Len(samples) < SinkBuffers THEN samples ELSE Tail(samples),
                       Head(inPipe).frame)
  /\ retiring' = retiring \cup {Head(inPipe).slot}
  /\ inPipe' = Tail(inPipe)
  /\ UNCHANGED <<captureVars, keepRunning, pipelineFailed, slotInUse, queueVars, pendingFrames,
                 pushVars, pullVars, stopPC, pipeline, eos, historyVars>>

(* The pipeline.                                                           *)
Encode ==
  /\ pipeline = "up" /\ inPipe # <<>> /\ Len(samples) < SinkBuffers
  /\ samples' = Append(samples, Head(inPipe).frame)
  /\ retiring' = retiring \cup {Head(inPipe).slot}
  /\ inPipe' = Tail(inPipe)
  /\ UNCHANGED <<captureVars, keepRunning, pipelineFailed, slotInUse, queueVars, pendingFrames,
                 pushVars, pullVars, stopPC, pipeline, eos, historyVars>>

\* The encoder unrefs an input buffer: ReleaseSlot from its destructor.
Retire(s) ==
  /\ s \in retiring
  /\ retiring' = retiring \ {s}
  /\ slotInUse' = slotInUse \ {s}
  /\ UNCHANGED <<captureVars, keepRunning, pipelineFailed, queueVars, pendingFrames, pushVars,
                 pullVars, stopPC, pipeline, inPipe, samples, eos, historyVars>>

EosReachesSink ==
  /\ pipeline \in {"up", "broken"} /\ eos = "sent"
  /\ pipeline = "up" => inPipe = <<>>
  /\ eos' = "sink"
  /\ UNCHANGED <<captureVars, keepRunning, pipelineFailed, slotInUse, queueVars, pendingFrames,
                 pushVars, pullVars, stopPC, pipeline, inPipe, retiring, samples, historyVars>>

Break ==
  /\ PipelineFaults /\ pipeline = "up"
  /\ pipeline' = "broken"
  /\ UNCHANGED <<captureVars, keepRunning, pipelineFailed, slotInUse, queueVars, pendingFrames,
                 pushVars, pullVars, stopPC, inPipe, retiring, samples, eos, historyVars>>

\* on_bus_message: the error a broken or unstarted pipeline posted.
BusError ==
  /\ pipeline \in {"broken", "flushing"} /\ ~pipelineFailed
  /\ pipelineFailed' = TRUE
  /\ UNCHANGED <<captureVars, keepRunning, slotInUse, queueVars, pendingFrames,
                 pushVars, pullVars, stopPC, pipelineVars, historyVars>>

----------------------------------------------------------------------------
(* The pull thread.                                                        *)
PullSample ==
  /\ pullPC = "pull" /\ samples # <<>>
  /\ pullItem' = Head(samples)
  /\ samples' = Tail(samples)
  /\ pullPC' = "deliver"
  /\ UNCHANGED <<captureVars, keepRunning, pipelineFailed, slotInUse, queueVars, pendingFrames,
                 pushVars, stopPC, pipeline, inPipe, retiring, eos, historyVars>>

\* Mutant: the tag is read and not removed.
DeliverChunkPeek ==
  /\ pullPC = "deliver"
  /\ LET tag == IF pendingFrames = <<>> THEN 0 ELSE Head(pendingFrames)
     IN out' = Append(out, [frame |-> pullItem, tag |-> tag])
  /\ pullItem' = 0 /\ pullPC' = "pull"
  /\ UNCHANGED <<captureVars, keepRunning, pipelineFailed, slotInUse, queueVars, pushVars,
                 pendingFrames, stopPC, pipelineVars, accepted, discarded>>

\* The access unit takes the oldest tag; without one it keeps index 0.
DeliverChunk ==
  /\ pullPC = "deliver"
  /\ LET tag == IF pendingFrames = <<>> THEN 0 ELSE Head(pendingFrames)
     IN out' = Append(out, [frame |-> pullItem, tag |-> tag])
  /\ pendingFrames' = IF pendingFrames = <<>> THEN <<>> ELSE Tail(pendingFrames)
  /\ pullItem' = 0 /\ pullPC' = "pull"
  /\ UNCHANGED <<captureVars, keepRunning, pipelineFailed, slotInUse, queueVars, pushVars,
                 stopPC, pipelineVars, accepted, discarded>>

\* pull_sample returned NULL and the sink is at EOS (or was never started).
PullExit ==
  /\ pullPC = "pull" /\ samples = <<>>
  /\ eos = "sink" \/ pipeline = "flushing"
  /\ pullPC' = "done"
  /\ UNCHANGED <<captureVars, keepRunning, pipelineFailed, slotInUse, queueVars, pendingFrames,
                 pushVars, pullItem, stopPC, pipelineVars, historyVars>>

PullLoop == PullSample \/ DeliverChunk \/ PullExit

----------------------------------------------------------------------------
(* Stop, on the thread that called MultiNvRecorder::Stop.                  *)
StopAfter(from, to) == stopPC = from /\ stopPC' = to

\* stopping_ = true; keep_running_ = false, without submit_mutex_.
ClearKeepRunning ==
  /\ recorder /\ StopAfter("idle", "notify")
  /\ CaptureDuringStop \/ reserved = None
  /\ keepRunning' = FALSE
  /\ UNCHANGED <<captureVars, pipelineFailed, slotInUse, queueVars, pendingFrames, pushVars,
                 pullVars, pipelineVars, historyVars>>

NotifyPush ==
  /\ StopAfter("notify", "joinPush")
  /\ pushPC' = Notified
  /\ UNCHANGED <<captureVars, keepRunning, pipelineFailed, slotInUse, queueVars, pendingFrames,
                 pushItem, pullVars, pipelineVars, historyVars>>

\* Mutant: EOS is sent before the push thread has ended.
SendEosFirst ==
  /\ StopAfter("joinPush", "popBus")
  /\ eos' = "sent"
  /\ UNCHANGED <<captureVars, keepRunning, pipelineFailed, slotInUse, queueVars, pendingFrames,
                 pushVars, pullVars, pipeline, inPipe, retiring, samples, historyVars>>

JoinPushSendEos ==
  /\ StopAfter("joinPush", "popBus")
  /\ pushPC = "done"
  /\ eos' = "sent"
  /\ UNCHANGED <<captureVars, keepRunning, pipelineFailed, slotInUse, queueVars, pendingFrames,
                 pushVars, pullVars, pipeline, inPipe, retiring, samples, historyVars>>

\* The timed pop of the bus finds a message, or its 10 s pass.
PopBus ==
  /\ StopAfter("popBus", "joinPull")
  /\ UNCHANGED <<captureVars, keepRunning, pipelineFailed, slotInUse, queueVars, pendingFrames,
                 pushVars, pullVars, pipelineVars, historyVars>>

\* The pull thread has ended; setting the pipeline to NULL frees every buffer
\* it holds.
JoinPullTearDown ==
  /\ StopAfter("joinPull", "clearQueue")
  /\ pullPC = "done"
  /\ slotInUse' = slotInUse \ (retiring \cup {inPipe[i].slot : i \in 1 .. Len(inPipe)})
  /\ pipeline' = "null" /\ inPipe' = <<>> /\ retiring' = {} /\ samples' = <<>> /\ eos' = "no"
  /\ UNCHANGED <<captureVars, keepRunning, pipelineFailed, queueVars, pendingFrames,
                 pushVars, pullVars, historyVars>>

\* Mutant: pending_frames_ is not cleared.
ClearQueueOnly ==
  /\ StopAfter("clearQueue", "clearSlots")
  /\ submitQueue' = <<>>
  /\ UNCHANGED <<captureVars, keepRunning, pipelineFailed, slotInUse, queueDepth, pendingFrames,
                 pushVars, pullVars, pipelineVars, historyVars>>

ClearQueue ==
  /\ StopAfter("clearQueue", "clearSlots")
  /\ submitQueue' = <<>>
  /\ pendingFrames' = <<>>
  /\ UNCHANGED <<captureVars, keepRunning, pipelineFailed, slotInUse, queueDepth,
                 pushVars, pullVars, pipelineVars, historyVars>>

ClearSlots ==
  /\ StopAfter("clearSlots", "zeroDepth")
  /\ slotInUse' = {}
  /\ UNCHANGED <<captureVars, keepRunning, pipelineFailed, queueVars, pendingFrames,
                 pushVars, pullVars, pipelineVars, historyVars>>

ZeroDepth ==
  /\ StopAfter("zeroDepth", "stopped")
  /\ queueDepth' = 0
  /\ UNCHANGED <<captureVars, keepRunning, pipelineFailed, slotInUse, submitQueue, pendingFrames,
                 pushVars, pullVars, pipelineVars, historyVars>>

\* The other lanes and the serializer stop; then MultiNvRecorder::started_
\* becomes false.
RecorderStopped ==
  /\ StopAfter("stopped", "idle")
  /\ recorder' = FALSE
  /\ UNCHANGED <<recordings, nextFrame, reserved, keepRunning, pipelineFailed, slotInUse,
                 queueVars, pendingFrames, pushVars, pullVars, pipelineVars, historyVars>>

StopSteps == \/ NotifyPush \/ JoinPushSendEos \/ PopBus \/ JoinPullTearDown
             \/ ClearQueue \/ ClearSlots \/ ZeroDepth \/ RecorderStopped

----------------------------------------------------------------------------
Capture == (\E s \in Slots : ReserveSlot(s)) \/ NoFreeSlot
FinishFrame == SubmitSlot \/ CancelReservedSlot
Pipeline == Encode \/ (\E s \in Slots : Retire(s)) \/ EosReachesSink

Next == \/ Start \/ StartFails \/ Capture \/ FinishFrame
        \/ PushLoop \/ SpuriousWakeup \/ PullLoop
        \/ Pipeline \/ Break \/ BusError
        \/ ClearKeepRunning \/ StopSteps

Spec == Init /\ [][Next]_vars

(* The threads of the lane and of its pipeline run, a Stop once begun goes *)
(* on, and PushFrame finishes the frame it has.  Nobody has to press keys, *)
(* and no thread is woken without a reason.                                *)
FairSpec ==
  Spec /\ WF_vars(FinishFrame) /\ WF_vars(PushLoop) /\ WF_vars(PullLoop)
       /\ WF_vars(Encode) /\ WF_vars(EosReachesSink) /\ (\A s \in Slots : WF_vars(Retire(s)))
       /\ WF_vars(StopSteps)
----------------------------------------------------------------------------
(* Properties.                                                             *)
Queued    == {submitQueue[i].frame : i \in 1 .. Len(submitQueue)}
InPush    == IF pushItem = None THEN {} ELSE {pushItem.frame}
InEncoder == {inPipe[i].frame : i \in 1 .. Len(inPipe)}
InSink    == {samples[i] : i \in 1 .. Len(samples)} \cup ({pullItem} \ {0})
Delivered == {out[i].frame : i \in 1 .. Len(out)}

\* The buffers in use, as the sequence of slots held by each owner.
HeldSlots ==
  LET single(item) == IF item = None THEN <<>> ELSE <<item>>
      items == single(reserved) \o submitQueue \o single(pushItem) \o inPipe
  IN [i \in 1 .. Len(items) |-> items[i].slot]

\* The values of every variable.
TypeOK ==
  /\ recorder \in BOOLEAN /\ keepRunning \in BOOLEAN /\ pipelineFailed \in BOOLEAN
  /\ recordings \in 0 .. MaxRecordings /\ nextFrame \in 1 .. MaxFrames + 1
  /\ reserved \in Item \cup {None} /\ pushItem \in Item \cup {None}
  /\ slotInUse \subseteq Slots /\ retiring \subseteq Slots
  /\ submitQueue \in Seq(Item) /\ inPipe \in Seq(Item)
  /\ queueDepth \in 0 .. DepthModulus - 1
  /\ pendingFrames \in Seq(1 .. MaxFrames) /\ samples \in Seq(1 .. MaxFrames)
  /\ pullItem \in 0 .. MaxFrames
  /\ pushPC \in {"eval", "enroll", "waiting", "item", "push", "done"}
  /\ pullPC \in {"pull", "deliver", "done"}
  /\ stopPC \in {"idle", "notify", "joinPush", "popBus", "joinPull", "clearQueue",
                 "clearSlots", "zeroDepth", "stopped"}
  /\ pipeline \in {"null", "up", "broken", "flushing"}
  /\ eos \in {"no", "sent", "sink"}
  /\ accepted \subseteq 1 .. MaxFrames /\ discarded \subseteq 1 .. MaxFrames
  /\ out \in Seq([frame : 1 .. MaxFrames, tag : 0 .. MaxFrames])

(* A buffer of the pool has one owner, and a buffer without an owner is    *)
(* free: the capture thread never copies into a buffer that the queue, the *)
(* push thread or the encoder still reads, and no path loses a buffer for  *)
(* the rest of the recording (ReleaseSlot runs in a destructor on the      *)
(* encoder's thread, and in four other places).                            *)
SlotHasOneOwner ==
  /\ \A i, j \in DOMAIN HeldSlots : i # j => HeldSlots[i] # HeldSlots[j]
  /\ \A i \in DOMAIN HeldSlots : HeldSlots[i] \notin retiring
  /\ slotInUse = retiring \cup {HeldSlots[i] : i \in DOMAIN HeldSlots}

(* Encoded chunks come out in submission order, each with the gop and      *)
(* source index of its own frame (header lines 27-29): pending_frames_,    *)
(* filled by one thread and emptied by another, never goes out of step     *)
(* with the encoder, in this recording or after a broken one.              *)
ChunksInSubmissionOrder ==
  /\ \A i \in 1 .. Len(out) : out[i].tag = out[i].frame
  /\ \A i, j \in 1 .. Len(out) : i < j => out[i].tag < out[j].tag

(* When Stop has joined both threads and is about to set a working         *)
(* pipeline to NULL, every frame the lane accepted has been handed to the  *)
(* serializer: nothing is cut off the end of a recording.                  *)
StopFlushes ==
  stopPC = "joinPull" /\ pullPC = "done" /\ pipeline = "up"
    => accepted = Delivered \cup discarded

(* Between Start and the teardown an accepted frame is in one stage of the *)
(* lane, or has come out, or was dropped: no stage forgets one.            *)
NoFrameForgotten ==
  stopPC \in {"idle", "notify", "joinPush", "popBus", "joinPull"} /\ pipeline # "null" =>
    accepted = Queued \cup InPush \cup InEncoder \cup InSink \cup Delivered \cup discarded

(* What the serializer sees of a lane, the tags of its chunks, is what     *)
(* LaneContract promises, over both recordings and with failing pipelines. *)
Contract == INSTANCE LaneContract WITH
  Frame <- 1 .. MaxFrames,
  taken <- accepted,
  delivered <- [i \in 1 .. Len(out) |-> out[i].tag],
  givenUp <- discarded

ImplementsContract == Contract!LaneSpec

(* A frame submitted to a working pipeline comes out of it, although the   *)
(* appsink blocks the encoder when it is full and wakeups may be missed.   *)
FrameComesOut ==
  \A f \in 1 .. MaxFrames :
    f \in accepted ~> f \in Delivered \cup discarded \/ pipeline # "up"

(* Claims of the comments and examples that the code does not keep.        *)

(* source_index is the "position within the whole recording"               *)
(* (frame_types.h): a chunk belongs to a frame of the present recording.   *)
NoStaleFrames == Delivered \subseteq accepted

(* "Graceful Stop: This stops threads, flushes GStreamer pipelines"        *)
(* (example_usage.cpp): Stop returns.                                      *)
StopReturns == (stopPC # "idle") ~> (stopPC = "idle")
=============================================================================
