----------------------------- MODULE GstRecorder -----------------------------
(***************************************************************************)
(* src/src/gst_recorder.cpp, the recorder of the codecs other than H.264:  *)
(* one slot pool, one pipeline that ends in a file.  PushFrame runs on the *)
(* capture thread; for a video codec it queues the frame for the thread of *)
(* RecorderLoop, for "raw" it pushes it to the pipeline itself.  Stop runs *)
(* on the thread of the key handler or of main, the bus watch on a main    *)
(* loop.  The pipeline is external: queue, encoder, muxer and file in one; *)
(* it writes in order and gives the slot of a frame back in any order.     *)
(*                                                                         *)
(* A frame is a number.  GPU copies are in FrameOwnership.                 *)
(***************************************************************************)
EXTENDS Integers, Sequences, FiniteSets

CONSTANTS
  PoolSize,        \* POOL_SIZE
  PipelineFaults,  \* Start may fail, the pipeline may fail to start or break
  MaxFrames,       \* bound: frames captured in all recordings
  MaxRecordings    \* bound: calls of Start

ASSUME GstRecorderAssumption ==
  /\ PoolSize \in Nat \ {0} /\ PipelineFaults \in BOOLEAN
  /\ MaxFrames \in Nat /\ MaxRecordings \in Nat

Slots == 0 .. PoolSize - 1
None  == [slot |-> -1, frame |-> 0]
Item  == [slot : Slots, frame : 1 .. MaxFrames]

VARIABLES
  raw,            \* codec_ == "raw"
  started, stopping, keepRunning, pipelineFailed, \* started_, stopping_, ...
  recordings,     \* calls of Start so far
  nextFrame,      \* number of the next captured frame
  tested,         \* PushFrame has passed its first test and not yet taken a slot
  reserved,       \* slot and frame PushFrame is filling, or None
  slotInUse,      \* slot_in_use_, as the set of slots in use
  poolIndex,      \* pool_index_
  frameQueue,     \* frame_queue_
  loopPC, loopItem, \* recorder thread
  mainLoop,       \* thread of the main loop: "off", "created" or "running"
  stopPC,         \* thread in Stop
  pipeline,       \* "null", "up", "broken" (accepts, writes nothing), "flushing"
  inPipe,         \* buffers accepted by appsrc and not yet written
  retiring,       \* slots of written buffers, not yet released
  eos,            \* end of stream is on its way
  bus,            \* messages on the bus: "eos", "error"
  accepted,       \* history: frames taken over by PushFrame since Start
  out,            \* history: frames written to the file since Start
  discarded,      \* history: frames the pipeline refused since Start
  straddled,      \* history: a Stop began during a PushFrame
  timedOut        \* history: the 10 s of the present Stop expired

captureVars  == <<nextFrame, tested, reserved, poolIndex>>
controlVars  == <<raw, started, stopping, keepRunning, recordings, mainLoop>>
loopVars     == <<frameQueue, loopPC, loopItem>>
pipelineVars == <<pipeline, inPipe, retiring, eos, bus>>
historyVars  == <<accepted, out, discarded, straddled, timedOut>>
vars == <<controlVars, pipelineFailed, captureVars, slotInUse, loopVars, stopPC,
          pipelineVars, historyVars>>

Init ==
  /\ raw \in BOOLEAN
  /\ started = FALSE /\ stopping = FALSE /\ keepRunning = FALSE /\ pipelineFailed = FALSE
  /\ recordings = 0 /\ nextFrame = 1 /\ tested = FALSE /\ reserved = None
  /\ slotInUse = {} /\ poolIndex = 0
  /\ frameQueue = <<>> /\ loopPC = "done" /\ loopItem = None /\ mainLoop = "off"
  /\ stopPC = "idle"
  /\ pipeline = "null" /\ inPipe = <<>> /\ retiring = {} /\ eos = FALSE /\ bus = {}
  /\ accepted = {} /\ out = <<>> /\ discarded = {}
  /\ straddled = FALSE /\ timedOut = FALSE

----------------------------------------------------------------------------
(* Start.  The queue, the slots and the pool index are not touched.        *)
Begin ==
  /\ ~started /\ stopPC = "idle" /\ recordings < MaxRecordings
  /\ recordings' = recordings + 1
  /\ pipelineFailed' = FALSE /\ stopping' = FALSE
  /\ accepted' = {} /\ out' = <<>> /\ discarded' = {}
  /\ UNCHANGED <<raw, captureVars, slotInUse, frameQueue, loopItem, stopPC, inPipe,
                 retiring, eos, straddled, timedOut>>

Start ==
  /\ Begin
  /\ started' = TRUE /\ mainLoop' = "created"
  /\ \/ pipeline' = "up" /\ UNCHANGED bus
     \/ PipelineFaults /\ pipeline' = "flushing" /\ bus' = {"error"}
  /\ keepRunning' = (keepRunning \/ ~raw)
  /\ loopPC' = IF raw THEN "done" ELSE "eval"

\* No CUDA context, or the pipeline cannot be built.
StartFails ==
  /\ PipelineFaults /\ Begin
  /\ UNCHANGED <<started, keepRunning, mainLoop, loopPC, pipeline, bus>>

----------------------------------------------------------------------------
(* PushFrame, on the capture thread, once a recording has been asked for;  *)
(* the key handler clears is_recording_ only after Stop has returned.      *)
Arrives == recordings > 0 /\ ~tested /\ reserved = None /\ nextFrame <= MaxFrames
Refuses == stopping \/ pipelineFailed \/ pipeline = "null"

\* frames_dropped_++.
DropFrame ==
  /\ Arrives /\ Refuses
  /\ nextFrame' = nextFrame + 1
  /\ UNCHANGED <<controlVars, pipelineFailed, tested, reserved, poolIndex, slotInUse, loopVars,
                 stopPC, pipelineVars, historyVars>>

PassTest ==
  /\ Arrives /\ ~Refuses
  /\ tested' = TRUE
  /\ UNCHANGED <<controlVars, pipelineFailed, nextFrame, reserved, poolIndex, slotInUse,
                 loopVars, stopPC, pipelineVars, historyVars>>

\* The slot whose turn it is is in use: frames_dropped_++.
SlotBusy ==
  /\ tested /\ poolIndex \in slotInUse
  /\ tested' = FALSE
  /\ nextFrame' = nextFrame + 1
  /\ UNCHANGED <<controlVars, pipelineFailed, reserved, poolIndex, slotInUse, loopVars,
                 stopPC, pipelineVars, historyVars>>

\* Mutant: the slot is not tested.
TakeAnySlot ==
  /\ tested
  /\ slotInUse' = slotInUse \cup {poolIndex}
  /\ reserved' = [slot |-> poolIndex, frame |-> nextFrame]
  /\ tested' = FALSE
  /\ nextFrame' = nextFrame + 1
  /\ UNCHANGED <<controlVars, pipelineFailed, poolIndex, loopVars, stopPC, pipelineVars,
                 historyVars>>

TakeSlot ==
  /\ tested /\ poolIndex \notin slotInUse
  /\ slotInUse' = slotInUse \cup {poolIndex}
  /\ reserved' = [slot |-> poolIndex, frame |-> nextFrame]
  /\ tested' = FALSE
  /\ nextFrame' = nextFrame + 1
  /\ UNCHANGED <<controlVars, pipelineFailed, poolIndex, loopVars, stopPC, pipelineVars,
                 historyVars>>

\* Mutant: the index does not wrap.
UnwrappedIndex == poolIndex + 1

NextIndex == (poolIndex + 1) % PoolSize

\* The thread that evaluated wait's predicate holds queue_mutex_ until it is
\* in the wait set; notify reaches it only there.
MutexFree == loopPC # "enroll"
Notified  == IF loopPC = "waiting" THEN "eval" ELSE loopPC

Enqueue ==
  /\ reserved # None /\ ~raw /\ MutexFree
  /\ frameQueue' = Append(frameQueue, reserved)
  /\ loopPC' = Notified
  /\ accepted' = accepted \cup {reserved.frame}
  /\ reserved' = None /\ poolIndex' = NextIndex
  /\ UNCHANGED <<controlVars, pipelineFailed, nextFrame, tested, slotInUse, loopItem, stopPC,
                 pipelineVars, out, discarded, straddled, timedOut>>

\* Stop has ended the stream: appsrc takes no buffer (GST_FLOW_EOS).
EosSent == stopPC \in {"pop", "quit", "joinLoop", "teardown"}

RawPushed ==
  /\ reserved # None /\ raw /\ pipeline \in {"up", "broken"} /\ ~EosSent
  /\ inPipe' = Append(inPipe, reserved)
  /\ accepted' = accepted \cup {reserved.frame}
  /\ reserved' = None /\ poolIndex' = NextIndex
  /\ UNCHANGED <<controlVars, pipelineFailed, nextFrame, tested, slotInUse, loopVars, stopPC,
                 pipeline, retiring, eos, bus, out, discarded, straddled, timedOut>>

\* appsrc frees the buffer, and its destructor the slot; without an appsrc
\* (Stop has run meanwhile) the buffer and the slot are left behind.
RawRejected ==
  /\ reserved # None /\ raw /\ (pipeline # "up" \/ EosSent)
  /\ slotInUse' = IF pipeline = "null" THEN slotInUse ELSE slotInUse \ {reserved.slot}
  /\ pipelineFailed' = (pipelineFailed \/ pipeline # "flushing")
  /\ reserved' = None /\ poolIndex' = NextIndex
  /\ UNCHANGED <<controlVars, nextFrame, tested, loopVars, stopPC, pipelineVars, historyVars>>

PushFrame == SlotBusy \/ TakeSlot \/ Enqueue \/ RawPushed \/ RawRejected

----------------------------------------------------------------------------
(* RecorderLoop.  queue_cv_.wait is three steps, as in EncoderLane.        *)
PopFrame ==
  /\ loopPC = "eval" /\ frameQueue # <<>>
  /\ loopItem' = Head(frameQueue) /\ frameQueue' = Tail(frameQueue)
  /\ loopPC' = "item"
  /\ UNCHANGED <<controlVars, pipelineFailed, captureVars, slotInUse, stopPC, pipelineVars,
                 historyVars>>

EvalEmpty ==
  /\ loopPC = "eval" /\ frameQueue = <<>>
  /\ loopPC' = IF keepRunning THEN "enroll" ELSE "done"
  /\ UNCHANGED <<controlVars, pipelineFailed, captureVars, slotInUse, frameQueue, loopItem,
                 stopPC, pipelineVars, historyVars>>

EnterWait ==
  /\ loopPC = "enroll"
  /\ loopPC' = "waiting"
  /\ UNCHANGED <<controlVars, pipelineFailed, captureVars, slotInUse, frameQueue, loopItem,
                 stopPC, pipelineVars, historyVars>>

SpuriousWakeup ==
  /\ loopPC = "waiting"
  /\ loopPC' = "eval"
  /\ UNCHANGED <<controlVars, pipelineFailed, captureVars, slotInUse, frameQueue, loopItem,
                 stopPC, pipelineVars, historyVars>>

PushBuffer ==
  /\ loopPC = "item" /\ pipeline \in {"up", "broken"}
  /\ inPipe' = Append(inPipe, loopItem)
  /\ loopItem' = None /\ loopPC' = "eval"
  /\ UNCHANGED <<controlVars, pipelineFailed, captureVars, slotInUse, frameQueue, stopPC,
                 pipeline, retiring, eos, bus, historyVars>>

\* Mutant: the loop ends at a flow error without the buffer's destructor.
LeaveWithItem ==
  /\ loopPC = "item" /\ pipeline \in {"flushing", "broken"}
  /\ discarded' = discarded \cup {loopItem.frame}
  /\ pipelineFailed' = (pipelineFailed \/ pipeline = "broken")
  /\ loopItem' = None /\ loopPC' = IF pipeline = "broken" THEN "done" ELSE "eval"
  /\ UNCHANGED <<controlVars, captureVars, slotInUse, frameQueue, stopPC, pipelineVars,
                 accepted, out, straddled, timedOut>>

\* GST_FLOW_FLUSHING, or an error that ends the loop with the queue as it is.
PushRejected ==
  /\ loopPC = "item" /\ pipeline \in {"flushing", "broken"}
  /\ slotInUse' = slotInUse \ {loopItem.slot}
  /\ discarded' = discarded \cup {loopItem.frame}
  /\ pipelineFailed' = (pipelineFailed \/ pipeline = "broken")
  /\ loopItem' = None /\ loopPC' = IF pipeline = "broken" THEN "done" ELSE "eval"
  /\ UNCHANGED <<controlVars, captureVars, frameQueue, stopPC, pipelineVars,
                 accepted, out, straddled, timedOut>>

RecorderLoop == PopFrame \/ EvalEmpty \/ EnterWait \/ PushBuffer \/ PushRejected

----------------------------------------------------------------------------
(* The pipeline and its bus.                                               *)
WriteFrame ==
  /\ pipeline = "up" /\ inPipe # <<>>
  /\ out' = Append(out, Head(inPipe).frame)
  /\ retiring' = retiring \cup {Head(inPipe).slot}
  /\ inPipe' = Tail(inPipe)
  /\ UNCHANGED <<controlVars, pipelineFailed, captureVars, slotInUse, loopVars, stopPC,
                 pipeline, eos, bus, accepted, discarded, straddled, timedOut>>

\* ReleaseSlot, from the destructor of a buffer.
ReleaseSlot(s) ==
  /\ s \in retiring
  /\ retiring' = retiring \ {s} /\ slotInUse' = slotInUse \ {s}
  /\ UNCHANGED <<controlVars, pipelineFailed, captureVars, loopVars, stopPC, pipeline,
                 inPipe, eos, bus, historyVars>>

EosReachesSink ==
  /\ eos /\ pipeline = "up" /\ inPipe = <<>>
  /\ eos' = FALSE /\ bus' = bus \cup {"eos"}
  /\ UNCHANGED <<controlVars, pipelineFailed, captureVars, slotInUse, loopVars, stopPC,
                 pipeline, inPipe, retiring, historyVars>>

Break ==
  /\ PipelineFaults /\ pipeline = "up"
  /\ pipeline' = "broken" /\ bus' = bus \cup {"error"}
  /\ UNCHANGED <<controlVars, pipelineFailed, captureVars, slotInUse, loopVars, stopPC,
                 inPipe, retiring, eos, historyVars>>

\* on_bus_message, on whichever thread runs the default main context: it
\* takes a message before Stop can.
BusWatch(message) ==
  /\ message \in bus
  /\ bus' = bus \ {message}
  /\ pipelineFailed' = (pipelineFailed \/ message = "error")
  /\ UNCHANGED <<controlVars, captureVars, slotInUse, loopVars, stopPC, pipeline, inPipe,
                 retiring, eos, historyVars>>

\* The thread made by Start enters g_main_loop_run.
RunMainLoop ==
  /\ mainLoop = "created"
  /\ mainLoop' = "running"
  /\ UNCHANGED <<raw, started, stopping, keepRunning, recordings, pipelineFailed, captureVars,
                 slotInUse, loopVars, stopPC, pipelineVars, historyVars>>

----------------------------------------------------------------------------
(* Stop.                                                                   *)
StopAfter(from, to) == stopPC = from /\ stopPC' = to

\* stopping_ = true; keep_running_ = false, without queue_mutex_.
BeginStop ==
  /\ started /\ StopAfter("idle", "notify")
  /\ stopping' = TRUE /\ keepRunning' = FALSE
  /\ straddled' = (straddled \/ tested \/ reserved # None)
  /\ timedOut' = FALSE
  /\ UNCHANGED <<raw, started, recordings, mainLoop, pipelineFailed, captureVars, slotInUse,
                 loopVars, pipelineVars, accepted, out, discarded>>

NotifyLoop ==
  /\ StopAfter("notify", "join")
  /\ loopPC' = Notified
  /\ UNCHANGED <<controlVars, pipelineFailed, captureVars, slotInUse, frameQueue, loopItem,
                 pipelineVars, historyVars>>

\* Mutant: the recorder thread is joined after the end of stream.
SendEosFirst ==
  /\ StopAfter("join", "pop")
  /\ eos' = TRUE
  /\ UNCHANGED <<controlVars, pipelineFailed, captureVars, slotInUse, loopVars, pipeline,
                 inPipe, retiring, bus, historyVars>>

JoinSendEos ==
  /\ StopAfter("join", "pop")
  /\ loopPC = "done"
  /\ eos' = TRUE
  /\ UNCHANGED <<controlVars, pipelineFailed, captureVars, slotInUse, loopVars, pipeline,
                 inPipe, retiring, bus, historyVars>>

\* gst_bus_timed_pop_filtered finds a message, or 10 s pass.
PopMessage ==
  /\ StopAfter("pop", "quit")
  /\ \E message \in bus : bus' = bus \ {message}
  /\ UNCHANGED <<controlVars, pipelineFailed, captureVars, slotInUse, loopVars, pipeline,
                 inPipe, retiring, eos, historyVars>>

\* Mutant: the wait has no limit.
NeverExpires == FALSE /\ UNCHANGED vars

PopExpires ==
  /\ StopAfter("pop", "quit")
  /\ timedOut' = TRUE
  /\ UNCHANGED <<controlVars, pipelineFailed, captureVars, slotInUse, loopVars, pipelineVars,
                 accepted, out, discarded, straddled>>

\* g_main_loop_quit is lost on a loop whose thread has not yet run it.
QuitLoop ==
  /\ StopAfter("quit", "joinLoop")
  /\ mainLoop' = IF mainLoop = "running" THEN "off" ELSE mainLoop
  /\ UNCHANGED <<raw, started, stopping, keepRunning, recordings, pipelineFailed, captureVars,
                 slotInUse, loopVars, pipelineVars, historyVars>>

JoinLoop ==
  /\ StopAfter("joinLoop", "teardown")
  /\ mainLoop = "off"
  /\ UNCHANGED <<controlVars, pipelineFailed, captureVars, slotInUse, loopVars, pipelineVars,
                 historyVars>>

\* GST_STATE_NULL frees every buffer the pipeline holds.
TearDown ==
  /\ StopAfter("teardown", "clear")
  /\ slotInUse' = slotInUse \ (retiring \cup {inPipe[i].slot : i \in 1 .. Len(inPipe)})
  /\ pipeline' = "null" /\ inPipe' = <<>> /\ retiring' = {} /\ eos' = FALSE /\ bus' = {}
  /\ UNCHANGED <<controlVars, pipelineFailed, captureVars, loopVars, historyVars>>

\* Mutant: the frames that a failed loop has left are not removed.
ClearSlotsOnly ==
  /\ StopAfter("clear", "idle")
  /\ slotInUse' = {} /\ poolIndex' = 0
  /\ started' = FALSE
  /\ UNCHANGED <<raw, stopping, keepRunning, recordings, mainLoop, pipelineFailed, nextFrame,
                 tested, reserved, frameQueue, loopPC, loopItem, pipelineVars, historyVars>>

ClearQueue ==
  /\ StopAfter("clear", "idle")
  /\ frameQueue' = <<>> /\ slotInUse' = {} /\ poolIndex' = 0
  /\ started' = FALSE
  /\ UNCHANGED <<raw, stopping, keepRunning, recordings, mainLoop, pipelineFailed, nextFrame,
                 tested, reserved, loopPC, loopItem, pipelineVars, historyVars>>

StopSteps == \/ NotifyLoop \/ JoinSendEos \/ PopMessage \/ PopExpires
             \/ QuitLoop \/ JoinLoop \/ TearDown \/ ClearQueue

----------------------------------------------------------------------------
Capture == DropFrame \/ PassTest
Bus     == \E message \in bus : BusWatch(message)
Release == \E s \in Slots : ReleaseSlot(s)

Next == \/ Start \/ StartFails \/ Capture \/ PushFrame
        \/ RecorderLoop \/ SpuriousWakeup \/ RunMainLoop
        \/ WriteFrame \/ Release \/ EosReachesSink \/ Break \/ Bus
        \/ BeginStop \/ StopSteps

Spec == Init /\ [][Next]_vars

(* The recorder thread runs, PushFrame finishes its frame and a Stop once  *)
(* begun goes on.  The pipeline and the bus watch owe nothing.             *)
FairSpec == Spec /\ WF_vars(PushFrame) /\ WF_vars(RecorderLoop) /\ WF_vars(StopSteps)

----------------------------------------------------------------------------
(* Properties.                                                             *)
\* The slots held by each owner of a buffer.
HeldSlots ==
  LET single(item) == IF item = None THEN <<>> ELSE <<item>>
      items == single(reserved) \o frameQueue \o single(loopItem) \o inPipe
  IN [i \in 1 .. Len(items) |-> items[i].slot]

Written == {out[i] : i \in 1 .. Len(out)}

\* The values of every variable.
TypeOK ==
  /\ raw \in BOOLEAN /\ started \in BOOLEAN /\ stopping \in BOOLEAN
  /\ keepRunning \in BOOLEAN /\ pipelineFailed \in BOOLEAN
  /\ recordings \in 0 .. MaxRecordings /\ nextFrame \in 1 .. MaxFrames + 1
  /\ reserved \in Item \cup {None} /\ loopItem \in Item \cup {None}
  /\ slotInUse \subseteq Slots /\ retiring \subseteq Slots /\ poolIndex \in Slots
  /\ frameQueue \in Seq(Item) /\ inPipe \in Seq(Item)
  /\ loopPC \in {"eval", "enroll", "waiting", "item", "done"}
  /\ stopPC \in {"idle", "notify", "join", "pop", "quit", "joinLoop", "teardown", "clear"}
  /\ mainLoop \in {"off", "created", "running"} /\ tested \in BOOLEAN
  /\ pipeline \in {"null", "up", "broken", "flushing"}
  /\ eos \in BOOLEAN /\ bus \subseteq {"eos", "error"}
  /\ accepted \subseteq 1 .. MaxFrames /\ discarded \subseteq 1 .. MaxFrames
  /\ out \in Seq(1 .. MaxFrames)
  /\ straddled \in BOOLEAN /\ timedOut \in BOOLEAN

(* A slot has one owner and a slot without an owner is free, over failed   *)
(* pipelines, flow errors that leave the queue full, and restarts: no      *)
(* picture is overwritten while it waits or is encoded, no slot is lost.   *)
(* (Not after a Stop that began during a PushFrame: it frees the slot that *)
(* PushFrame is filling.)                                                  *)
SlotHasOneOwner ==
  ~straddled =>
    /\ \A i, j \in DOMAIN HeldSlots : i # j => HeldSlots[i] # HeldSlots[j]
    /\ \A i \in DOMAIN HeldSlots : HeldSlots[i] \notin retiring
    /\ slotInUse = retiring \cup {HeldSlots[i] : i \in DOMAIN HeldSlots}

(* When Stop sets a working pipeline to NULL without having waited its 10  *)
(* seconds, every frame PushFrame took over is in the file: the message it *)
(* found was the end of stream, and that came behind the last frame.       *)
StopFlushes ==
  stopPC = "teardown" /\ pipeline = "up" /\ ~timedOut /\ ~straddled =>
    accepted = Written \cup discarded

(* The file is what LaneContract promises of a lane, for both kinds of     *)
(* codec, until a Stop begins during a PushFrame.                          *)
Contract == INSTANCE LaneContract WITH
  Frame <- 1 .. MaxFrames,
  taken <- IF straddled THEN {} ELSE accepted,
  delivered <- IF straddled THEN <<>> ELSE out,
  givenUp <- IF straddled THEN {} ELSE discarded

ImplementsContract == Contract!LaneSpec

(* Stop returns, whatever the pipeline does, unless the recorder thread    *)
(* has missed the notification, or the main loop the request to quit: then *)
(* that thread runs on, and Stop waits for it.                             *)
MissedWakeup == stopPC = "join" /\ loopPC = "waiting"
MissedQuit   == stopPC = "joinLoop" /\ mainLoop # "off"
StopReturnsIfWoken == (stopPC # "idle") ~> (stopPC = "idle" \/ MissedWakeup \/ MissedQuit)
=============================================================================
