------------------------- MODULE EncoderLane_proofs -------------------------
(***************************************************************************)
(* Proofs about EncoderLane, for every number of slots, frames, recordings *)
(* and sink buffers, and with or without pipeline faults.                  *)
(*                                                                         *)
(* The invariant has four parts besides the types.  Threads: who runs in   *)
(* which phase of a recording, and what is empty then.  Line: the stages   *)
(* of the lane, from the chunks delivered back to the frame that PushFrame *)
(* is filling, hold frames in order, none twice, none forgotten.  Tags:    *)
(* pending_frames_ is the line's frames inside the pipeline.  Owners: each *)
(* item of the line has a slot of its own.                                 *)
(***************************************************************************)
EXTENDS EncoderLane, FrameSequences

(* What the push and the pull thread hold while they work on it.           *)
Holding ==
  /\ pushPC \in {"item", "push"} => pushItem \in Item
  /\ pullPC = "deliver" => pullItem \in 1 .. MaxFrames

(* None is no item: its frame is 0. *)
LEMMA NoneIsNoItem == None \notin Item
BY DEF None, Item

(* The variables keep their types, and the threads hold what they work on. *)
LEMMA TypeStep ==
  ASSUME TypeOK, Holding, [Next]_vars
  PROVE  TypeOK' /\ Holding'
<1> USE LaneAssumption DEF TypeOK, Holding, captureVars, pushVars, pullVars, pipelineVars,
        queueVars, historyVars
<1>1. CASE Start \/ StartFails
  <2>1. /\ recordings' \in 0 .. MaxRecordings /\ queueDepth' \in 0 .. DepthModulus - 1
        /\ pipelineFailed' = FALSE
        /\ out' = <<>> /\ accepted' = {} /\ discarded' = {}
        /\ UNCHANGED <<nextFrame, reserved, slotInUse, submitQueue, pendingFrames, pushItem,
                       pullItem, stopPC, inPipe, retiring, samples>>
    BY <1>1 DEF Start, StartFails, Begin
  <2>2. out' \in Seq([frame : 1 .. MaxFrames, tag : 0 .. MaxFrames])
    BY <2>1, EmptySeq
  <2>3. CASE Start
    <3>1. /\ recorder' = TRUE /\ keepRunning' = TRUE /\ pipeline' \in {"up", "flushing"}
          /\ eos' = "no" /\ pushPC' = "eval" /\ pullPC' = "pull"
      BY <2>3 DEF Start
    <3>2. TypeOK'
      BY <2>1, <2>2, <3>1
    <3>3. Holding'
      BY <3>1
    <3> QED BY <3>2, <3>3
  <2>4. CASE StartFails
    <3>1. UNCHANGED <<recorder, keepRunning, pipeline, eos, pushPC, pullPC>>
      BY <2>4 DEF StartFails
    <3>2. TypeOK'
      <4>1. recorder' \in BOOLEAN /\ keepRunning' \in BOOLEAN /\ pipelineFailed' \in BOOLEAN
        BY <2>1, <3>1, Zenon
      <4> QED BY <2>1, <2>2, <3>1, <4>1
    <3>3. Holding'
      BY <2>1, <3>1
    <3> QED BY <3>2, <3>3
  <2> QED BY <1>1, <2>3, <2>4
<1>2. ASSUME NEW s \in Slots, ReserveSlot(s)
      PROVE  TypeOK' /\ Holding'
  <2>1. reserved' \in Item /\ nextFrame' \in 1 .. MaxFrames + 1
    BY <1>2 DEF ReserveSlot, Item
  <2> QED BY <1>2, <2>1 DEF ReserveSlot
<1>3. CASE NoFreeSlot
  BY <1>3 DEF NoFreeSlot
<1>4. CASE SubmitSlot
  <2>1. reserved \in Item
    BY <1>4 DEF SubmitSlot
  <2>2. /\ submitQueue' \in Seq(Item) /\ queueDepth' \in 0 .. DepthModulus - 1
        /\ accepted' \subseteq 1 .. MaxFrames
    <3>1. submitQueue' \in Seq(Item)
      BY <1>4, <2>1, Appended DEF SubmitSlot
    <3>2. reserved.frame \in 1 .. MaxFrames
      BY <2>1 DEF Item
    <3>3. (queueDepth + 1) % DepthModulus \in 0 .. DepthModulus - 1
      OBVIOUS
    <3>4. accepted' \subseteq 1 .. MaxFrames
      BY <1>4, <3>2 DEF SubmitSlot
    <3> QED BY <1>4, <3>1, <3>3, <3>4 DEF SubmitSlot
  <2> QED BY <1>4, <2>2 DEF SubmitSlot, Notified
<1>5. CASE CancelReservedSlot
  BY <1>5 DEF CancelReservedSlot
<1>6. CASE PopSubmit
  <2>1. pushItem' \in Item /\ submitQueue' \in Seq(Item) /\ queueDepth' \in 0 .. DepthModulus - 1
    <3>1. Head(submitQueue) \in Item /\ Tail(submitQueue) \in Seq(Item)
      BY <1>6, HeadTaken DEF PopSubmit
    <3>2. (queueDepth - 1) % DepthModulus \in 0 .. DepthModulus - 1
      OBVIOUS
    <3> QED BY <1>6, <3>1, <3>2 DEF PopSubmit
  <2> QED BY <1>6, <2>1 DEF PopSubmit
<1>7. CASE EvalEmpty \/ EnterWait \/ SpuriousWakeup
  <2>1. pushPC' \in {"eval", "enroll", "waiting", "done"}
    BY <1>7 DEF EvalEmpty, EnterWait, SpuriousWakeup
  <2>2. UNCHANGED <<captureVars, keepRunning, pipelineFailed, slotInUse, queueVars,
                    pendingFrames, pushItem, pullVars, stopPC, pipelineVars, historyVars>>
    BY <1>7 DEF EvalEmpty, EnterWait, SpuriousWakeup
  <2> QED BY <2>1, <2>2
<1>8. CASE DropItem \/ PushRejected
  <2>1. pushItem \in Item /\ pushItem.frame \in 1 .. MaxFrames
    BY <1>8 DEF DropItem, PushRejected, Item
  <2>2. /\ slotInUse' \subseteq Slots /\ discarded' \subseteq 1 .. MaxFrames
        /\ pipelineFailed' \in BOOLEAN
        /\ pushItem' = None /\ pushPC' = "eval"
    BY <1>8, <2>1 DEF DropItem, PushRejected
  <2>3. UNCHANGED <<captureVars, keepRunning, queueVars, pendingFrames,
                    pullVars, stopPC, pipelineVars, accepted, out>>
    BY <1>8 DEF DropItem, PushRejected
  <2> QED BY <2>2, <2>3
<1>9. CASE TagItem
  <2>1. pushItem \in Item /\ pushItem.frame \in 1 .. MaxFrames
    BY <1>9 DEF TagItem, Item
  <2>2. pendingFrames' \in Seq(1 .. MaxFrames)
    BY <1>9, <2>1, Appended DEF TagItem
  <2> QED BY <1>9, <2>1, <2>2 DEF TagItem
<1>10. CASE PushBuffer
  <2>1. pushItem \in Item
    BY <1>10 DEF PushBuffer
  <2>2. inPipe' \in Seq(Item)
    BY <1>10, <2>1, Appended DEF PushBuffer
  <2> QED BY <1>10, <2>2 DEF PushBuffer
<1>11. CASE Encode
  <2>1. Head(inPipe) \in Item /\ Tail(inPipe) \in Seq(Item)
    BY <1>11, HeadTaken DEF Encode
  <2>2. Head(inPipe).frame \in 1 .. MaxFrames /\ Head(inPipe).slot \in Slots
    BY <2>1 DEF Item
  <2>3. samples' \in Seq(1 .. MaxFrames)
    BY <1>11, <2>2, Appended DEF Encode
  <2> QED BY <1>11, <2>1, <2>2, <2>3 DEF Encode
<1>12. CASE EosReachesSink \/ Break \/ BusError \/ \E s \in Slots : Retire(s)
  <2>1. CASE EosReachesSink
    BY <2>1 DEF EosReachesSink
  <2>2. CASE Break \/ BusError
    <3>1. pipeline' \in {"null", "up", "broken", "flushing"} /\ pipelineFailed' \in BOOLEAN
      BY <2>2 DEF Break, BusError
    <3>2. UNCHANGED <<captureVars, keepRunning, slotInUse, queueVars, pendingFrames, pushVars,
                      pullVars, stopPC, inPipe, retiring, samples, eos, historyVars>>
      BY <2>2 DEF Break, BusError
    <3> QED BY <3>1, <3>2
  <2>3. CASE \E s \in Slots : Retire(s)
    BY <2>3 DEF Retire
  <2> QED BY <1>12, <2>1, <2>2, <2>3
<1>13. CASE PullSample
  <2>1. Head(samples) \in 1 .. MaxFrames /\ Tail(samples) \in Seq(1 .. MaxFrames)
    BY <1>13, HeadTaken DEF PullSample
  <2> QED BY <1>13, <2>1 DEF PullSample
<1>14. CASE DeliverChunk
  <2> DEFINE tag == IF pendingFrames = <<>> THEN 0 ELSE Head(pendingFrames)
             chunk == [frame |-> pullItem, tag |-> tag]
  <2>1. tag \in 0 .. MaxFrames /\ pendingFrames' \in Seq(1 .. MaxFrames)
    <3>1. CASE pendingFrames = <<>>
      BY <1>14, <3>1 DEF DeliverChunk
    <3>2. CASE pendingFrames # <<>>
      <4>1. Head(pendingFrames) \in 1 .. MaxFrames /\ Tail(pendingFrames) \in Seq(1 .. MaxFrames)
        BY <3>2, HeadTaken
      <4> QED BY <1>14, <3>2, <4>1 DEF DeliverChunk
    <3> QED BY <3>1, <3>2
  <2>2. chunk \in [frame : 1 .. MaxFrames, tag : 0 .. MaxFrames]
    BY <1>14, <2>1 DEF DeliverChunk
  <2>3. out' = Append(out, chunk)
    BY <1>14 DEF DeliverChunk
  <2> HIDE DEF chunk
  <2>4. out' \in Seq([frame : 1 .. MaxFrames, tag : 0 .. MaxFrames])
    BY <2>2, <2>3, Appended
  <2> QED BY <1>14, <2>1, <2>4 DEF DeliverChunk
<1>15. CASE PullExit
  BY <1>15 DEF PullExit
<1>16. CASE ClearKeepRunning \/ NotifyPush \/ JoinPushSendEos \/ PopBus \/ RecorderStopped
  <2>1. CASE ClearKeepRunning
    <3>1. stopPC' = "notify" /\ keepRunning' \in BOOLEAN
      BY <2>1 DEF ClearKeepRunning, StopAfter
    <3>2. UNCHANGED <<captureVars, pipelineFailed, slotInUse, queueVars, pendingFrames,
                      pushVars, pullVars, pipelineVars, historyVars>>
      BY <2>1 DEF ClearKeepRunning
    <3> QED BY <3>1, <3>2
  <2>2. CASE NotifyPush
    <3>1. /\ stopPC' = "joinPush"
          /\ pushPC' \in {"eval", "enroll", "waiting", "item", "push", "done"}
          /\ pushPC' \in {"item", "push"} => pushItem' \in Item
      BY <2>2 DEF NotifyPush, StopAfter, Notified
    <3>2. UNCHANGED <<captureVars, keepRunning, pipelineFailed, slotInUse, queueVars,
                      pendingFrames, pushItem, pullVars, pipelineVars, historyVars>>
      BY <2>2 DEF NotifyPush
    <3> QED BY <3>1, <3>2
  <2>3. CASE JoinPushSendEos \/ PopBus \/ RecorderStopped
    <3>1. /\ stopPC' \in {"popBus", "joinPull", "idle"} /\ recorder' \in BOOLEAN
          /\ eos' \in {"no", "sent", "sink"}
      BY <2>3 DEF JoinPushSendEos, PopBus, RecorderStopped, StopAfter
    <3>2. UNCHANGED <<recordings, nextFrame, reserved, keepRunning, pipelineFailed, slotInUse,
                      queueVars, pendingFrames, pushVars, pullVars, pipeline, inPipe, retiring,
                      samples, historyVars>>
      BY <2>3 DEF JoinPushSendEos, PopBus, RecorderStopped
    <3> QED BY <3>1, <3>2
  <2> QED BY <1>16, <2>1, <2>2, <2>3
<1>17. CASE JoinPullTearDown \/ ClearQueue \/ ClearSlots \/ ZeroDepth
  <2>1. <<>> \in Seq(Item) /\ <<>> \in Seq(1 .. MaxFrames)
    BY EmptySeq
  <2>2. CASE JoinPullTearDown
    <3>1. slotInUse' \subseteq Slots
      BY <2>2 DEF JoinPullTearDown
    <3> QED BY <2>1, <2>2, <3>1 DEF JoinPullTearDown, StopAfter
  <2>3. CASE ClearQueue
    BY <2>1, <2>3 DEF ClearQueue, StopAfter
  <2>4. CASE ClearSlots \/ ZeroDepth
    <3>1. /\ stopPC' \in {"zeroDepth", "stopped"} /\ slotInUse' \subseteq Slots
          /\ queueDepth' \in 0 .. DepthModulus - 1
      BY <2>4 DEF ClearSlots, ZeroDepth, StopAfter
    <3>2. UNCHANGED <<captureVars, keepRunning, pipelineFailed, submitQueue, pendingFrames,
                      pushVars, pullVars, pipelineVars, historyVars>>
      BY <2>4 DEF ClearSlots, ZeroDepth
    <3> QED BY <3>1, <3>2
  <2> QED BY <1>17, <2>2, <2>3, <2>4
<1>18. CASE UNCHANGED vars
  BY <1>18 DEF vars
<1> QED BY <1>1, <1>2, <1>3, <1>4, <1>5, <1>6, <1>7, <1>8, <1>9, <1>10, <1>11, <1>12, <1>13,
           <1>14, <1>15, <1>16, <1>17, <1>18
        DEF Next, Capture, FinishFrame, PushLoop, PullLoop, Pipeline, StopSteps

----------------------------------------------------------------------------
(* The threads.                                                            *)

PushJoined ==
  ~recorder \/ stopPC \in {"popBus", "joinPull", "clearQueue", "clearSlots", "zeroDepth", "stopped"}
TornDown   == ~recorder \/ stopPC \in {"clearQueue", "clearSlots", "zeroDepth", "stopped"}

(* Who runs in which phase of a recording, and what is empty then.  The    *)
(* capture thread is the one that Stop does not wait for, so it has to be  *)
(* out of PushFrame before: ~CaptureDuringStop.                            *)
Threads ==
  /\ keepRunning => recorder /\ stopPC = "idle"
  /\ recorder /\ stopPC = "idle" => keepRunning
  /\ stopPC # "idle" => recorder
  /\ reserved # None => keepRunning
  /\ pushPC = "done" => ~keepRunning /\ submitQueue = <<>>
  /\ pushPC \in {"item", "push"} <=> pushItem # None
  /\ pullPC = "deliver" <=> pullItem # 0
  /\ PushJoined => pushPC = "done"
  /\ pipeline = "null" <=> TornDown
  /\ TornDown => pullPC = "done" /\ inPipe = <<>> /\ retiring = {} /\ samples = <<>> /\ eos = "no"
  /\ eos # "no" => stopPC \in {"popBus", "joinPull"}
  /\ pipeline = "up" /\ eos = "sink" => inPipe = <<>>
  /\ pipeline = "up" /\ pullPC = "done" => samples = <<>> /\ eos = "sink"
  /\ pipeline = "flushing" => inPipe = <<>> /\ samples = <<>> /\ pullItem = 0 /\ retiring = {}
  /\ ~recorder \/ stopPC \in {"clearSlots", "zeroDepth", "stopped"} => pendingFrames = <<>>

(* The threads keep to their phases. *)
LEMMA ThreadsStep ==
  ASSUME ~CaptureDuringStop, TypeOK, Holding, Threads, [Next]_vars
  PROVE  Threads'
<1> USE DEF Threads, PushJoined, TornDown, captureVars, pushVars, pullVars, pipelineVars,
        queueVars, historyVars
<1>1. CASE Start \/ StartFails
  <2>1. CASE Start
    BY <2>1 DEF Start, Begin, TypeOK
  <2>2. CASE StartFails
    BY <2>2 DEF StartFails, Begin, TypeOK
  <2> QED BY <1>1, <2>1, <2>2
<1>2. ASSUME NEW s \in Slots, ReserveSlot(s)
      PROVE  Threads'
  BY <1>2 DEF ReserveSlot, Capturing
<1>3. CASE NoFreeSlot
  BY <1>3 DEF NoFreeSlot
<1>4. CASE SubmitSlot
  BY <1>4 DEF SubmitSlot, Notified
<1>5. CASE CancelReservedSlot
  BY <1>5 DEF CancelReservedSlot
<1>6. CASE PopSubmit
  <2>1. Head(submitQueue) # None
    BY <1>6, NoneIsNoItem, HeadTaken DEF PopSubmit, TypeOK
  <2> QED BY <1>6, <2>1 DEF PopSubmit
<1>7. CASE EvalEmpty
  BY <1>7 DEF EvalEmpty
<1>8. CASE EnterWait
  BY <1>8 DEF EnterWait
<1>9. CASE SpuriousWakeup
  BY <1>9 DEF SpuriousWakeup
<1>10. CASE DropItem
  BY <1>10 DEF DropItem
<1>11. CASE PushRejected
  BY <1>11 DEF PushRejected
<1>12. CASE TagItem
  BY <1>12 DEF TagItem
<1>13. CASE PushBuffer
  BY <1>13 DEF PushBuffer
<1>14. CASE Encode
  BY <1>14 DEF Encode
<1>15. ASSUME NEW s \in Slots, Retire(s)
       PROVE  Threads'
  BY <1>15 DEF Retire
<1>16. CASE EosReachesSink
  BY <1>16 DEF EosReachesSink
<1>17. CASE Break
  BY <1>17 DEF Break
<1>18. CASE BusError
  BY <1>18 DEF BusError
<1>19. CASE PullSample
  <2>1. Head(samples) # 0
    BY <1>19, HeadTaken, LaneAssumption DEF PullSample, TypeOK
  <2> QED BY <1>19, <2>1 DEF PullSample
<1>20. CASE DeliverChunk
  BY <1>20 DEF DeliverChunk
<1>21. CASE PullExit
  BY <1>21 DEF PullExit
<1>22. CASE ClearKeepRunning
  BY <1>22 DEF ClearKeepRunning, StopAfter
<1>23. CASE NotifyPush
  BY <1>23 DEF NotifyPush, StopAfter, Notified
<1>24. CASE JoinPushSendEos
  BY <1>24 DEF JoinPushSendEos, StopAfter
<1>25. CASE PopBus \/ JoinPullTearDown
  <2>1. CASE PopBus
    BY <2>1 DEF PopBus, StopAfter
  <2>2. CASE JoinPullTearDown
    BY <2>2 DEF JoinPullTearDown, StopAfter
  <2> QED BY <1>25, <2>1, <2>2
<1>26. CASE ClearQueue
  BY <1>26 DEF ClearQueue, StopAfter
<1>27. CASE ClearSlots
  BY <1>27 DEF ClearSlots, StopAfter
<1>28. CASE ZeroDepth
  BY <1>28 DEF ZeroDepth, StopAfter
<1>29. CASE RecorderStopped
  BY <1>29 DEF RecorderStopped, StopAfter
<1>30. CASE UNCHANGED vars
  BY <1>30 DEF vars
<1> QED BY <1>1, <1>2, <1>3, <1>4, <1>5, <1>6, <1>7, <1>8, <1>9, <1>10, <1>11, <1>12, <1>13,
           <1>14, <1>15, <1>16, <1>17, <1>18, <1>19, <1>20, <1>21, <1>22, <1>23, <1>24, <1>25,
           <1>26, <1>27, <1>28, <1>29, <1>30
        DEF Next, Capture, FinishFrame, PushLoop, PullLoop, Pipeline, StopSteps

----------------------------------------------------------------------------
(* The line of frames, from the file to the camera.                        *)

Reserved == IF reserved = None THEN {} ELSE {reserved.frame}
Sunk     == Elements(samples)
Pulled   == {pullItem} \ {0}

\* Every stage is ahead of all the stages behind it.
Ordered ==
  /\ Below(Delivered, Pulled \cup Sunk \cup InEncoder \cup InPush \cup Queued \cup Reserved)
  /\ Below(Pulled, Sunk \cup InEncoder \cup InPush \cup Queued \cup Reserved)
  /\ Below(Sunk, InEncoder \cup InPush \cup Queued \cup Reserved)
  /\ Below(InEncoder, InPush \cup Queued \cup Reserved)
  /\ Below(InPush, Queued \cup Reserved)
  /\ Below(accepted, Reserved)
  /\ Below(accepted \cup Reserved, {nextFrame})

\* The frames inside the lane.
Inside == Queued \cup InPush \cup InEncoder \cup Sunk \cup Pulled

\* No stage holds a frame that was not accepted, or that was dropped, and
\* until the teardown no stage has forgotten one.
Accounted ==
  /\ Inside \cup Delivered \cup discarded \subseteq accepted
  /\ Inside \cap discarded = {}
  /\ pipeline # "null" => accepted \subseteq Inside \cup Delivered \cup discarded

InRow == Rising(submitQueue) /\ Rising(inPipe) /\ Rising(out) /\ RisingNumbers(samples)

Line == Ordered /\ Accounted /\ InRow

\* What Line speaks of.
lineVars == <<out, pullItem, samples, inPipe, pushItem, submitQueue, reserved, nextFrame,
              accepted, discarded>>

(* The stages as sets of frames. *)
LEMMA Stages ==
  ASSUME TypeOK
  PROVE  /\ Queued = FramesIn(submitQueue) /\ InEncoder = FramesIn(inPipe)
         /\ Delivered = FramesIn(out) /\ InSink = Sunk \cup Pulled
         /\ accepted \subseteq Nat /\ nextFrame \in Nat
         /\ reserved # None => reserved \in Item /\ reserved.frame \in Nat
         /\ pushItem # None => pushItem \in Item /\ pushItem.frame \in Nat
BY LaneAssumption
   DEF Queued, InEncoder, Delivered, FramesIn, InSink, Sunk, Pulled, Elements, TypeOK, Item

(* The steps that only pass control on leave the line as it is. *)
LEMMA LineKept ==
  ASSUME Line, UNCHANGED lineVars, pipeline = "null" => pipeline' = "null"
  PROVE  Line'
BY DEF Line, lineVars, Ordered, Accounted, InRow, Inside, Queued, InPush, InEncoder, Sunk,
       Pulled, Reserved, Delivered, FramesIn, Elements, Rising, RisingNumbers, Below

(* The capture thread: a frame enters the line behind all others. *)
LEMMA CaptureLine ==
  ASSUME TypeOK, TypeOK', Threads, Line,
         (\E s \in Slots : ReserveSlot(s)) \/ NoFreeSlot \/ SubmitSlot \/ CancelReservedSlot
  PROVE  Line'
<1> USE DEF Line, Ordered, Accounted, InRow, Inside, Below
<1>0. /\ accepted \subseteq Nat /\ nextFrame \in Nat
      /\ Queued = FramesIn(submitQueue) /\ Queued' = FramesIn(submitQueue')
  BY Stages DEF Queued, FramesIn
<1>1. CASE (\E s \in Slots : ReserveSlot(s)) \/ NoFreeSlot
  <2>1. UNCHANGED <<out, pullItem, samples, inPipe, pushItem, submitQueue, accepted, discarded,
                    pipeline>>
    BY <1>1 DEF ReserveSlot, NoFreeSlot, queueVars, pushVars, pullVars, pipelineVars, historyVars
  <2>2. UNCHANGED <<Queued, InPush, InEncoder, Sunk, Pulled, Delivered>>
    BY <2>1 DEF Queued, InPush, InEncoder, Sunk, Pulled, Delivered, Elements
  <2>3. Reserved = {} /\ nextFrame' = nextFrame + 1 /\ (Reserved' = {} \/ Reserved' = {nextFrame})
    BY <1>1 DEF ReserveSlot, NoFreeSlot, Reserved
  <2>4. \A a \in accepted : a < nextFrame /\ a < nextFrame + 1
    <3>1. \A a \in accepted : a < nextFrame /\ a \in Nat
      BY <1>0
    <3>2. \A a, n \in Nat : a < n => a < n + 1
      OBVIOUS
    <3> QED BY <1>0, <3>1, <3>2, Zenon
  <2>5. \A a \in Inside \cup Delivered : a < nextFrame
    BY <2>4
  <2>6. nextFrame < nextFrame + 1
    BY <1>0
  <2>7. Ordered'
    BY <2>1, <2>2, <2>3, <2>4, <2>5, <2>6
  <2> QED BY <2>1, <2>2, <2>7
<1>2. CASE SubmitSlot
  <2> DEFINE f == reserved.frame
  <2>1. /\ reserved \in Item /\ f \in Nat /\ Reserved = {f} /\ Reserved' = {}
    BY <1>2, Stages DEF SubmitSlot, Reserved
  <2>2. /\ submitQueue' = Append(submitQueue, reserved) /\ accepted' = accepted \cup {f}
        /\ UNCHANGED <<out, pullItem, samples, inPipe, pushItem, nextFrame, discarded, pipeline>>
    BY <1>2 DEF SubmitSlot, pullVars, pipelineVars
  <2>3. UNCHANGED <<InPush, InEncoder, Sunk, Pulled, Delivered>>
    BY <2>2 DEF InPush, InEncoder, Sunk, Pulled, Delivered, Elements
  <2>4. Queued' = Queued \cup {f} /\ Below(FramesIn(submitQueue), {f})
    BY <1>0, <2>1, <2>2, Appended DEF TypeOK
  <2>5. Rising(submitQueue')
    BY <2>1, <2>2, <2>4, RisingAppend DEF TypeOK
  <2> HIDE DEF f
  <2>6. f \notin accepted /\ f < nextFrame
    BY <1>0, <2>1
  <2>7. Ordered'
    BY <2>1, <2>2, <2>3, <2>4, <2>6
  <2>8. Accounted'
    BY <2>1, <2>2, <2>3, <2>4, <2>6
  <2> QED BY <2>2, <2>5, <2>7, <2>8
<1>3. CASE CancelReservedSlot
  <2>1. UNCHANGED <<out, pullItem, samples, inPipe, pushItem, submitQueue, accepted, discarded,
                    nextFrame, pipeline>>
    BY <1>3 DEF CancelReservedSlot, queueVars, pushVars, pullVars, pipelineVars, historyVars
  <2>2. UNCHANGED <<Queued, InPush, InEncoder, Sunk, Pulled, Delivered>>
    BY <2>1 DEF Queued, InPush, InEncoder, Sunk, Pulled, Delivered, Elements
  <2>3. Reserved' = {}
    BY <1>3 DEF CancelReservedSlot, Reserved
  <2> QED BY <2>1, <2>2, <2>3
<1> QED BY <1>1, <1>2, <1>3

(* The push thread: the frame at the head of the queue goes to the         *)
(* encoder, or out of the line.                                            *)
LEMMA PushLine ==
  ASSUME TypeOK, TypeOK', Threads, Line,
         PopSubmit \/ DropItem \/ PushRejected \/ PushBuffer
  PROVE  Line'
<1> USE DEF Line, Ordered, Accounted, InRow, Inside, Below
<1>0. /\ Queued = FramesIn(submitQueue) /\ Queued' = FramesIn(submitQueue')
      /\ InEncoder = FramesIn(inPipe) /\ InEncoder' = FramesIn(inPipe')
  BY DEF Queued, InEncoder, FramesIn
<1>1. CASE PopSubmit
  <2> DEFINE x == Head(submitQueue)
             f == x.frame
  <2>1. /\ submitQueue # <<>> /\ submitQueue' = Tail(submitQueue) /\ pushItem' = x
        /\ UNCHANGED <<out, pullItem, samples, inPipe, reserved, nextFrame, accepted, discarded,
                       pipeline>>
    BY <1>1 DEF PopSubmit, captureVars, pullVars, pipelineVars, historyVars
  <2>2. /\ x \in Item /\ Queued = Queued' \cup {f}
        /\ Rising(submitQueue') /\ Below({f}, Queued')
    BY <1>0, <2>1, HeadTaken, RisingTail DEF TypeOK
  <2>3. InPush = {} /\ InPush' = {f}
    BY <1>1, <2>1, <2>2, NoneIsNoItem DEF PopSubmit, InPush, Threads
  <2> HIDE DEF x, f
  <2>4. UNCHANGED <<InEncoder, Sunk, Pulled, Delivered, Reserved>>
    BY <2>1 DEF InEncoder, Sunk, Pulled, Delivered, Elements, Reserved
  <2>5. Ordered'
    BY <2>1, <2>2, <2>3, <2>4
  <2>6. Accounted'
    BY <2>1, <2>2, <2>3, <2>4
  <2> QED BY <2>1, <2>2, <2>5, <2>6
<1>2. CASE DropItem \/ PushRejected
  <2> DEFINE f == pushItem.frame
  <2>1. /\ discarded' = discarded \cup {f} /\ pushItem' = None
        /\ UNCHANGED <<out, pullItem, samples, inPipe, submitQueue, reserved, nextFrame,
                       accepted, pipeline>>
    BY <1>2 DEF DropItem, PushRejected, captureVars, queueVars, pullVars, pipelineVars
  <2>2. pushItem # None /\ f \in Nat /\ InPush = {f} /\ InPush' = {}
    BY <1>2, <2>1, Stages DEF DropItem, PushRejected, Threads, InPush
  <2> HIDE DEF f
  <2>3. UNCHANGED <<Queued, InEncoder, Sunk, Pulled, Delivered, Reserved>>
    BY <2>1 DEF Queued, InEncoder, Sunk, Pulled, Delivered, Elements, Reserved
  <2>4. f \notin Queued \cup InEncoder \cup Sunk \cup Pulled
    BY <2>2
  <2>5. Ordered'
    BY <2>1, <2>2, <2>3
  <2>6. Accounted'
    BY <2>1, <2>2, <2>3, <2>4
  <2> QED BY <2>1, <2>5, <2>6
<1>3. CASE PushBuffer
  <2> DEFINE f == pushItem.frame
  <2>1. /\ inPipe' = Append(inPipe, pushItem) /\ pushItem' = None
        /\ UNCHANGED <<out, pullItem, samples, submitQueue, reserved, nextFrame,
                       accepted, discarded, pipeline>>
    BY <1>3 DEF PushBuffer, captureVars, queueVars, pullVars, historyVars
  <2>2. pushItem \in Item /\ InPush = {f} /\ InPush' = {}
    BY <1>3, <2>1, Stages DEF PushBuffer, Threads, InPush
  <2>3. Below(FramesIn(inPipe), {f})
    BY <1>0, <2>2
  <2>4. InEncoder' = InEncoder \cup {f} /\ Rising(inPipe')
    BY <1>0, <2>1, <2>2, <2>3, Appended, RisingAppend DEF TypeOK
  <2> HIDE DEF f
  <2>5. UNCHANGED <<Queued, Sunk, Pulled, Delivered, Reserved>>
    BY <2>1 DEF Queued, Sunk, Pulled, Delivered, Elements, Reserved
  <2>6. Ordered'
    BY <2>1, <2>2, <2>4, <2>5
  <2>7. Accounted'
    BY <2>1, <2>2, <2>4, <2>5
  <2> QED BY <2>1, <2>4, <2>6, <2>7
<1> QED BY <1>1, <1>2, <1>3

(* The encoder and the pull thread. *)
LEMMA PullLine ==
  ASSUME TypeOK, TypeOK', Threads, Line, Encode \/ PullSample \/ DeliverChunk
  PROVE  Line'
<1> USE DEF Line, Ordered, Accounted, InRow, Inside, Below
<1>0. /\ InEncoder = FramesIn(inPipe) /\ InEncoder' = FramesIn(inPipe')
      /\ Delivered = FramesIn(out) /\ Delivered' = FramesIn(out')
  BY DEF Queued, InEncoder, Delivered, FramesIn
<1>4. samples \in Seq(Nat) /\ Seq(1 .. MaxFrames) \subseteq Seq(Nat)
  <2>1. 1 .. MaxFrames \subseteq Nat
    OBVIOUS
  <2> QED BY <2>1, SeqMonotonic DEF TypeOK
<1>1. CASE Encode
  <2> DEFINE x == Head(inPipe)
             f == x.frame
  <2>1. /\ inPipe # <<>> /\ inPipe' = Tail(inPipe) /\ samples' = Append(samples, f)
        /\ UNCHANGED <<out, pullItem, pushItem, submitQueue, reserved, nextFrame, accepted,
                       discarded, pipeline>>
    BY <1>1 DEF Encode, captureVars, queueVars, pushVars, pullVars, historyVars
  <2>2. /\ x \in Item /\ InEncoder = InEncoder' \cup {f}
        /\ Rising(inPipe') /\ Below({f}, InEncoder')
    BY <1>0, <2>1, HeadTaken, RisingTail DEF TypeOK
  <2>3. f \in Nat
    BY <2>2, LaneAssumption DEF Item
  <2> HIDE DEF x, f
  <2>4. Below(Elements(samples), {f})
    BY <2>2 DEF Sunk
  <2>5. Sunk' = Sunk \cup {f} /\ RisingNumbers(samples')
    BY <1>4, <2>1, <2>3, <2>4, Appended, RisingNumbersAppend DEF Sunk
  <2>6. UNCHANGED <<Queued, InPush, Pulled, Delivered, Reserved>>
    BY <2>1 DEF Queued, InPush, Pulled, Delivered, Reserved
  <2>7. Ordered'
    BY <2>1, <2>2, <2>5, <2>6
  <2>8. Accounted'
    BY <2>1, <2>2, <2>5, <2>6
  <2> QED BY <2>1, <2>2, <2>5, <2>7, <2>8
<1>2. CASE PullSample
  <2> DEFINE f == Head(samples)
  <2>1. /\ samples # <<>> /\ samples' = Tail(samples) /\ pullItem' = f
        /\ UNCHANGED <<out, inPipe, pushItem, submitQueue, reserved, nextFrame, accepted,
                       discarded, pipeline>>
    BY <1>2 DEF PullSample, captureVars, queueVars, pushVars, historyVars
  <2>2. Sunk = Sunk' \cup {f} /\ RisingNumbers(samples') /\ Below({f}, Sunk')
    BY <1>4, <2>1, HeadTaken, RisingNumbersTail DEF Sunk
  <2>3. f # 0
    BY <2>1, HeadTaken, LaneAssumption DEF TypeOK
  <2>4. Pulled = {} /\ Pulled' = {f}
    BY <1>2, <2>1, <2>3 DEF PullSample, Pulled, Threads
  <2> HIDE DEF f
  <2>5. UNCHANGED <<Queued, InPush, InEncoder, Delivered, Reserved>>
    BY <2>1 DEF Queued, InPush, InEncoder, Delivered, Reserved
  <2>6. Ordered'
    BY <2>1, <2>2, <2>4, <2>5
  <2>7. Accounted'
    BY <2>1, <2>2, <2>4, <2>5
  <2> QED BY <2>1, <2>2, <2>6, <2>7
<1>3. CASE DeliverChunk
  <2> DEFINE f == pullItem
  <2>1. /\ pullItem' = 0
        /\ UNCHANGED <<samples, inPipe, pushItem, submitQueue, reserved, nextFrame, accepted,
                       discarded, pipeline>>
    BY <1>3 DEF DeliverChunk, captureVars, queueVars, pushVars, pipelineVars
  <2>2. PICK tag : out' = Append(out, [frame |-> f, tag |-> tag])
    BY <1>3 DEF DeliverChunk
  <2> DEFINE chunk == [frame |-> f, tag |-> tag]
             T == [frame : 1 .. MaxFrames, tag : 0 .. MaxFrames] \cup {chunk}
  <2>3. out \in Seq(T) /\ chunk \in T /\ chunk.frame = f
    <3> DEFINE Chunk == [frame : 1 .. MaxFrames, tag : 0 .. MaxFrames]
    <3>1. Chunk \subseteq T
      OBVIOUS
    <3>2. chunk \in T /\ chunk.frame = f
      OBVIOUS
    <3>3. out \in Seq(Chunk)
      BY DEF TypeOK
    <3> HIDE DEF T, Chunk
    <3>5. out \in Seq(T)
      BY <3>1, <3>3, SeqMonotonic
    <3> USE DEF T
    <3> QED BY <3>2, <3>5
  <2>4. pullItem # 0 /\ Pulled = {f} /\ Pulled' = {}
    BY <1>3, <2>1 DEF DeliverChunk, Threads, Pulled
  <2>5. out' = Append(out, chunk)
    BY <2>2
  <2> HIDE DEF chunk, T
  <2>6. Below(FramesIn(out), {chunk.frame})
    BY <1>0, <2>3, <2>4
  <2>7. Delivered' = Delivered \cup {f} /\ Rising(out')
    BY <1>0, <2>3, <2>5, <2>6, Appended, RisingAppend
  <2> HIDE DEF f
  <2>8. UNCHANGED <<Queued, InPush, InEncoder, Sunk, Reserved>>
    BY <2>1 DEF Queued, InPush, InEncoder, Sunk, Elements, Reserved
  <2>9. Ordered'
    BY <2>1, <2>4, <2>7, <2>8
  <2>10. Accounted'
    BY <2>1, <2>4, <2>7, <2>8
  <2> QED BY <2>1, <2>7, <2>9, <2>10
<1> QED BY <1>1, <1>2, <1>3

(* Start, and the steps of Stop that empty the lane. *)
LEMMA ControlLine ==
  ASSUME TypeOK, TypeOK', Threads, Line,
         Start \/ StartFails \/ JoinPullTearDown \/ ClearQueue
  PROVE  Line'
<1> USE DEF Line, Ordered, Accounted, InRow, Inside, Below
<1>0. /\ Queued = FramesIn(submitQueue) /\ Queued' = FramesIn(submitQueue')
      /\ InEncoder = FramesIn(inPipe) /\ InEncoder' = FramesIn(inPipe')
      /\ Delivered = FramesIn(out) /\ Delivered' = FramesIn(out')
  BY DEF Queued, InEncoder, Delivered, FramesIn
<1>1. CASE Start \/ StartFails
  <2>1. /\ submitQueue = <<>> /\ pushItem = None /\ inPipe = <<>> /\ samples = <<>>
        /\ pullItem = 0 /\ reserved = None
    BY <1>1 DEF Start, StartFails, Begin, Threads, TornDown, PushJoined
  <2>2. /\ out' = <<>> /\ accepted' = {} /\ discarded' = {}
        /\ UNCHANGED <<pullItem, samples, inPipe, pushItem, submitQueue, reserved, nextFrame>>
    BY <1>1 DEF Start, StartFails, Begin
  <2>3. /\ Queued' = {} /\ InPush' = {} /\ InEncoder' = {} /\ Sunk' = {} /\ Pulled' = {}
        /\ Delivered' = {} /\ Reserved' = {}
    BY <1>0, <2>1, <2>2, EmptyQueue DEF InPush, Sunk, Pulled, Reserved
  <2> QED BY <2>1, <2>2, <2>3, EmptyQueue
<1>2. CASE JoinPullTearDown
  <2>1. /\ inPipe' = <<>> /\ samples' = <<>> /\ pipeline' = "null"
        /\ UNCHANGED <<out, pullItem, pushItem, submitQueue, reserved, nextFrame,
                       accepted, discarded>>
    BY <1>2 DEF JoinPullTearDown, captureVars, queueVars, pushVars, pullVars, historyVars
  <2>2. InEncoder' = {} /\ Sunk' = {}
    BY <1>0, <2>1, EmptyQueue DEF Sunk
  <2>3. UNCHANGED <<Queued, InPush, Pulled, Delivered, Reserved>>
    BY <2>1 DEF Queued, InPush, Pulled, Delivered, Reserved
  <2> QED BY <2>1, <2>2, <2>3, EmptyQueue
<1>3. CASE ClearQueue
  <2>1. /\ submitQueue' = <<>> /\ pipeline = "null"
        /\ UNCHANGED <<out, pullItem, samples, inPipe, pushItem, reserved, nextFrame,
                       accepted, discarded, pipeline>>
    BY <1>3 DEF ClearQueue, StopAfter, Threads, TornDown, captureVars, pushVars, pullVars,
                pipelineVars, historyVars
  <2>2. Queued' = {}
    BY <1>0, <2>1, EmptyQueue
  <2>3. UNCHANGED <<InPush, InEncoder, Sunk, Pulled, Delivered, Reserved>>
    BY <2>1 DEF InPush, InEncoder, Sunk, Elements, Pulled, Delivered, Reserved
  <2> QED BY <2>1, <2>2, <2>3, EmptyQueue
<1> QED BY <1>1, <1>2, <1>3

\* The steps that change what Line speaks of.
LineStepKinds ==
  \/ (\E s \in Slots : ReserveSlot(s)) \/ NoFreeSlot \/ SubmitSlot \/ CancelReservedSlot
  \/ PopSubmit \/ DropItem \/ PushRejected \/ PushBuffer
  \/ Encode \/ PullSample \/ DeliverChunk
  \/ Start \/ StartFails \/ JoinPullTearDown \/ ClearQueue

(* All the others leave the line alone. *)
LEMMA OtherSteps ==
  ASSUME [Next]_vars, ~ LineStepKinds
  PROVE  UNCHANGED lineVars /\ (pipeline = "null" => pipeline' = "null")
<1> USE DEF lineVars, captureVars, pushVars, pullVars, pipelineVars, queueVars, historyVars
<1>1. CASE EvalEmpty \/ EnterWait \/ SpuriousWakeup \/ TagItem
  BY <1>1 DEF EvalEmpty, EnterWait, SpuriousWakeup, TagItem
<1>2. CASE (\E s \in Slots : Retire(s)) \/ EosReachesSink \/ Break \/ BusError
  BY <1>2 DEF Retire, EosReachesSink, Break, BusError
<1>3. CASE PullExit
  BY <1>3 DEF PullExit
<1>4. CASE ClearKeepRunning \/ NotifyPush \/ JoinPushSendEos \/ PopBus
  BY <1>4 DEF ClearKeepRunning, NotifyPush, JoinPushSendEos, PopBus
<1>5. CASE ClearSlots \/ ZeroDepth \/ RecorderStopped
  BY <1>5 DEF ClearSlots, ZeroDepth, RecorderStopped
<1>6. CASE UNCHANGED vars
  BY <1>6 DEF vars
<1> QED BY <1>1, <1>2, <1>3, <1>4, <1>5, <1>6
        DEF LineStepKinds, Next, Capture, FinishFrame, PushLoop, PullLoop, Pipeline, StopSteps

(* The line is kept by every step. *)
LEMMA LineStep ==
  ASSUME ~CaptureDuringStop, TypeOK, TypeOK', Threads, Line, [Next]_vars
  PROVE  Line'
BY OtherSteps, LineKept, CaptureLine, PushLine, PullLine, ControlLine DEF LineStepKinds

----------------------------------------------------------------------------
(* The tags of the frames inside the pipeline.                             *)

\* Encoded frames that have not been delivered.
Held    == IF pullItem = 0 THEN 0 ELSE 1
Encoded == Held + Len(samples)

(* pending_frames_ starts with the tags of the encoded frames; as long as  *)
(* the pipeline works it goes on with those of the frames to be encoded    *)
(* and ends there, but for the frame that PushLoop is about to push.       *)
Tags ==
  /\ Encoded <= Len(pendingFrames)
  /\ pullItem # 0 => pendingFrames[1] = pullItem
  /\ \A i \in 1 .. Len(samples) : pendingFrames[Held + i] = samples[i]
  /\ pipeline = "up" =>
       /\ \A i \in 1 .. Len(inPipe) : pendingFrames[Encoded + i] = inPipe[i].frame
       /\ Len(pendingFrames) = Encoded + Len(inPipe) + (IF pushPC = "push" THEN 1 ELSE 0)
       /\ pushPC = "push" => pendingFrames[Len(pendingFrames)] = pushItem.frame
  /\ \A i \in 1 .. Len(out) : out[i].tag = out[i].frame

(* The lengths are numbers. *)
LEMMA Lengths ==
  ASSUME TypeOK
  PROVE  /\ Len(pendingFrames) \in Nat /\ Len(samples) \in Nat /\ Len(inPipe) \in Nat
         /\ Len(out) \in Nat /\ Held \in 0 .. 1 /\ Encoded \in Nat
         /\ (pullItem # 0 => Held = 1) /\ (pullItem = 0 => Held = 0)
<1>1. /\ Len(pendingFrames) \in Nat /\ Len(samples) \in Nat /\ Len(inPipe) \in Nat
      /\ Len(out) \in Nat
  BY LenProperties DEF TypeOK
<1> QED BY <1>1 DEF Held, Encoded

\* The steps that take a frame into or out of what Tags speaks of.
TagSteps ==
  \/ TagItem \/ PushBuffer \/ PushRejected \/ Encode \/ PullSample \/ DeliverChunk
  \/ Start \/ StartFails \/ JoinPullTearDown \/ ClearQueue

(* All the others leave the tags alone. *)
LEMMA TagsKept ==
  ASSUME Tags, [Next]_vars, ~ TagSteps
  PROVE  Tags'
<1> DEFINE kept == /\ UNCHANGED <<pendingFrames, pullItem, samples, inPipe, out>>
                   /\ pipeline' = "up" => pipeline = "up"
                   /\ pushPC' = "push" <=> pushPC = "push"
                   /\ pushPC = "push" => pushItem' = pushItem
<1> SUFFICES kept
  BY DEF Tags, Held, Encoded
<1> USE DEF captureVars, pushVars, pullVars, pipelineVars, queueVars, historyVars
<1>1. CASE (\E s \in Slots : ReserveSlot(s)) \/ NoFreeSlot \/ CancelReservedSlot
  BY <1>1 DEF ReserveSlot, NoFreeSlot, CancelReservedSlot
<1>2. CASE SubmitSlot
  BY <1>2 DEF SubmitSlot, Notified
<1>3. CASE PopSubmit \/ EvalEmpty \/ EnterWait
  BY <1>3 DEF PopSubmit, EvalEmpty, EnterWait
<1>4. CASE SpuriousWakeup \/ DropItem
  BY <1>4 DEF SpuriousWakeup, DropItem
<1>5. CASE (\E s \in Slots : Retire(s)) \/ EosReachesSink \/ Break \/ BusError
  BY <1>5 DEF Retire, EosReachesSink, Break, BusError
<1>6. CASE PullExit
  BY <1>6 DEF PullExit
<1>7. CASE ClearKeepRunning \/ JoinPushSendEos \/ PopBus
  BY <1>7 DEF ClearKeepRunning, JoinPushSendEos, PopBus
<1>8. CASE NotifyPush
  BY <1>8 DEF NotifyPush, Notified
<1>9. CASE ClearSlots \/ ZeroDepth \/ RecorderStopped
  BY <1>9 DEF ClearSlots, ZeroDepth, RecorderStopped
<1>10. CASE UNCHANGED vars
  BY <1>10 DEF vars
<1> QED BY <1>1, <1>2, <1>3, <1>4, <1>5, <1>6, <1>7, <1>8, <1>9, <1>10
        DEF TagSteps, Next, Capture, FinishFrame, PushLoop, PullLoop, Pipeline, StopSteps

(* The tags stay in step with the frames. *)
LEMMA TagsStep ==
  ASSUME TypeOK, TypeOK', Threads, Tags, [Next]_vars
  PROVE  Tags'
<1>0. /\ Len(pendingFrames) \in Nat /\ Len(samples) \in Nat /\ Len(inPipe) \in Nat
      /\ Len(out) \in Nat /\ Held \in 0 .. 1 /\ Encoded \in Nat /\ Encoded = Held + Len(samples)
  BY Lengths DEF Encoded
<1>1. CASE TagItem
  <2> DEFINE f == pushItem.frame
             n == Len(pendingFrames)
  <2>1. /\ pushPC = "item" /\ pushPC' = "push" /\ pushItem # None
        /\ pendingFrames' = Append(pendingFrames, f)
        /\ UNCHANGED <<pushItem, pullItem, samples, inPipe, out, pipeline>>
    BY <1>1 DEF TagItem, Threads, pullVars, pipelineVars, historyVars
  <2>2. f \in 1 .. MaxFrames
    BY <2>1 DEF TypeOK, Item
  <2> HIDE DEF f
  <2>3. /\ Len(pendingFrames') = n + 1
        /\ \A i \in 1 .. n + 1 : pendingFrames'[i] = IF i = n + 1 THEN f ELSE pendingFrames[i]
    BY <2>1, <2>2, Appended DEF TypeOK
  <2>4. Held' = Held /\ Encoded' = Encoded
    BY <2>1 DEF Held, Encoded
  <2>5. Encoded <= n /\ (pipeline = "up" => n = Encoded + Len(inPipe))
    BY <1>0, <2>1 DEF Tags
  <2> HIDE DEF n
  <2>6. \A i \in 1 .. Len(samples) : Held + i \in 1 .. n
    BY <1>0, <2>5 DEF n
  <2>7. pullItem # 0 => 1 \in 1 .. n
    BY <1>0, <2>5 DEF Held, n
  <2>8. \A i \in 1 .. n : pendingFrames'[i] = pendingFrames[i]
    BY <1>0, <2>3 DEF n
  <2>9. n \in Nat
    BY <1>0 DEF n
  <2>10. pipeline = "up" => \A i \in 1 .. Len(inPipe) : Encoded + i \in 1 .. n
    BY <1>0, <2>5, <2>9
  <2>11. pendingFrames'[Len(pendingFrames')] = f
    BY <2>3, <2>9
  <2>12. pipeline = "up" => Len(pendingFrames') = Encoded + Len(inPipe) + 1
    BY <1>0, <2>3, <2>5, <2>9
  <2>13. Encoded <= Len(pendingFrames')
    BY <1>0, <2>3, <2>5, <2>9
  <2> QED BY <2>1, <2>4, <2>6, <2>7, <2>8, <2>10, <2>11, <2>12, <2>13 DEF Tags, f
<1>2. CASE PushBuffer
  <2> DEFINE f == pushItem.frame
             m == Len(inPipe)
  <2>1. /\ pushPC = "push" /\ pushPC' = "eval" /\ pushItem # None
        /\ inPipe' = Append(inPipe, pushItem)
        /\ UNCHANGED <<pendingFrames, pullItem, samples, out, pipeline>>
    BY <1>2 DEF PushBuffer, Threads, pullVars, historyVars
  <2>2. pushItem \in Item
    BY <2>1 DEF TypeOK
  <2>3. /\ Len(inPipe') = m + 1
        /\ \A i \in 1 .. m + 1 : inPipe'[i] = IF i = m + 1 THEN pushItem ELSE inPipe[i]
    BY <2>1, <2>2, Appended DEF TypeOK
  <2>4. Held' = Held /\ Encoded' = Encoded
    BY <2>1 DEF Held, Encoded
  <2>5. pipeline = "up" => /\ Len(pendingFrames) = Encoded + (m + 1)
                           /\ pendingFrames[Encoded + (m + 1)] = f
                           /\ \A i \in 1 .. m : pendingFrames[Encoded + i] = inPipe[i].frame
    <3>1. Encoded + m + 1 = Encoded + (m + 1)
      BY <1>0
    <3> QED BY <2>1, <3>1 DEF Tags
  <2> HIDE DEF m
  <2>6. m \in Nat
    BY <1>0 DEF m
  <2>7. ASSUME pipeline = "up", NEW i \in 1 .. m + 1
        PROVE  pendingFrames[Encoded + i] = inPipe'[i].frame
    <3>1. CASE i = m + 1
      BY <2>3, <2>5, <2>7, <3>1
    <3>2. CASE i # m + 1
      <4>1. i \in 1 .. m
        BY <2>6, <3>2
      <4> QED BY <2>3, <2>5, <2>7, <3>2, <4>1
    <3> QED BY <3>1, <3>2
  <2>8. pipeline = "up" => Len(pendingFrames) = Encoded + Len(inPipe') + 0
    BY <1>0, <2>3, <2>5, <2>6
  <2> QED BY <2>1, <2>3, <2>4, <2>7, <2>8 DEF Tags
<1>3. CASE PushRejected
  <2>1. /\ pipeline # "up" /\ UNCHANGED <<pendingFrames, pullItem, samples, out, pipeline>>
    BY <1>3 DEF PushRejected, pullVars, pipelineVars
  <2> QED BY <2>1 DEF Tags, Held, Encoded
<1>4. CASE Encode
  <2> DEFINE f == Head(inPipe).frame
             k == Len(samples)
             m == Len(inPipe)
  <2>1. /\ pipeline = "up" /\ inPipe # <<>> /\ inPipe' = Tail(inPipe)
        /\ samples' = Append(samples, f)
        /\ UNCHANGED <<pendingFrames, pullItem, pushPC, pushItem, out, pipeline>>
    BY <1>4 DEF Encode, pushVars, pullVars, historyVars
  <2>2. /\ f \in 1 .. MaxFrames /\ f = inPipe[1].frame /\ m >= 1
        /\ Len(inPipe') = m - 1 /\ \A i \in 1 .. m - 1 : inPipe'[i] = inPipe[i + 1]
    <3>1. Head(inPipe) \in Item
      BY <2>1, HeadTaken DEF TypeOK
    <3> QED BY <2>1, <3>1, HeadTaken DEF TypeOK, Item
  <2> HIDE DEF f
  <2>3. /\ Len(samples') = k + 1
        /\ \A i \in 1 .. k + 1 : samples'[i] = IF i = k + 1 THEN f ELSE samples[i]
    <3> DEFINE Frames == 1 .. MaxFrames
    <3>1. samples \in Seq(Frames) /\ f \in Frames
      BY <2>2 DEF TypeOK
    <3> HIDE DEF Frames
    <3> QED BY <2>1, <3>1, Appended
  <2>4. Held' = Held /\ Encoded' = Encoded + 1 /\ Encoded = Held + k
    BY <1>0, <2>1, <2>3 DEF Held, Encoded
  <2>5. /\ \A i \in 1 .. m : pendingFrames[Encoded + i] = inPipe[i].frame
        /\ Len(pendingFrames) = Encoded + m + (IF pushPC = "push" THEN 1 ELSE 0)
        /\ \A i \in 1 .. k : pendingFrames[Held + i] = samples[i]
    BY <2>1 DEF Tags
  <2> DEFINE last == IF pushPC = "push" THEN 1 ELSE 0
  <2>6. last \in 0 .. 1 /\ m \in Nat /\ k \in Nat
    BY <1>0
  <2> HIDE DEF k, m
  <2>7. Encoded' <= Len(pendingFrames) /\ Len(pendingFrames) = Encoded' + Len(inPipe') + last
    <3>1. Len(pendingFrames) = Encoded + m + last
      BY <2>5
    <3>2. last \in Nat /\ Encoded + m + last = (Encoded + 1) + (m - 1) + last
      BY <1>0, <2>6
    <3> HIDE DEF last
    <3>3. Len(pendingFrames) = Encoded' + Len(inPipe') + last
      BY <2>2, <2>4, <3>1, <3>2
    <3>4. Encoded' + Len(inPipe') + last >= Encoded'
      BY <1>0, <2>2, <2>4, <2>6, <3>2
    <3> QED BY <3>3, <3>4
  <2>8. ASSUME NEW i \in 1 .. k + 1
        PROVE  pendingFrames[Held + i] = samples'[i]
    <3>1. CASE i = k + 1
      <4>1. Held + i = Encoded + 1 /\ 1 \in 1 .. m
        BY <1>0, <2>2, <2>4, <2>6, <3>1
      <4> QED BY <2>2, <2>3, <2>5, <3>1, <4>1
    <3>2. CASE i # k + 1
      <4>1. i \in 1 .. k
        BY <2>6, <3>2
      <4> QED BY <2>3, <2>5, <3>2, <4>1
    <3> QED BY <3>1, <3>2
  <2>9. ASSUME NEW i \in 1 .. m - 1
        PROVE  pendingFrames[Encoded' + i] = inPipe'[i].frame
    <3>1. i + 1 \in 1 .. m /\ Encoded' + i = Encoded + (i + 1)
      BY <1>0, <2>4, <2>6
    <3> QED BY <2>2, <2>5, <3>1
  <2> QED BY <2>1, <2>2, <2>3, <2>4, <2>7, <2>8, <2>9 DEF Tags, last
<1>5. CASE PullSample
  <2> DEFINE f == Head(samples)
             k == Len(samples)
  <2>1. /\ samples # <<>> /\ samples' = Tail(samples) /\ pullItem' = f /\ pullItem = 0
        /\ UNCHANGED <<pendingFrames, pushPC, pushItem, inPipe, out, pipeline>>
    BY <1>5 DEF PullSample, Threads, pushVars, historyVars
  <2>2. /\ f \in 1 .. MaxFrames /\ f = samples[1] /\ k >= 1
        /\ Len(samples') = k - 1 /\ \A i \in 1 .. k - 1 : samples'[i] = samples[i + 1]
    BY <2>1, HeadTaken DEF TypeOK
  <2>3. Held = 0 /\ Held' = 1 /\ Encoded = k /\ Encoded' = Encoded
    <3>1. f # 0
      BY <2>2, LaneAssumption
    <3>2. Held = 0 /\ Held' = 1
      BY <2>1, <3>1 DEF Held
    <3>3. k \in Nat /\ 1 + (k - 1) = k /\ 0 + k = k
      BY <1>0
    <3> QED BY <2>2, <3>2, <3>3 DEF Encoded
  <2>4. pendingFrames[1] = f
    <3>1. 1 \in 1 .. k /\ 0 + 1 = 1
      BY <1>0, <2>2
    <3>2. pendingFrames[0 + 1] = samples[1]
      BY <2>3, <3>1 DEF Tags
    <3> QED BY <2>2, <3>1, <3>2
  <2>5. ASSUME NEW i \in 1 .. k - 1
        PROVE  pendingFrames[1 + i] = samples'[i]
    <3>1. i + 1 \in 1 .. k /\ 0 + (i + 1) = 1 + i
      BY <1>0
    <3>2. pendingFrames[0 + (i + 1)] = samples[i + 1]
      BY <2>3, <3>1 DEF Tags
    <3> QED BY <2>2, <3>1, <3>2
  <2> HIDE DEF f, k
  <2> QED BY <2>1, <2>2, <2>3, <2>4, <2>5 DEF Tags
<1>6. CASE DeliverChunk
  <2> DEFINE n == Len(pendingFrames)
             k == Len(samples)
             tag == IF pendingFrames = <<>> THEN 0 ELSE Head(pendingFrames)
             chunk == [frame |-> pullItem, tag |-> tag]
  <2>1. /\ pullItem # 0 /\ pullItem' = 0 /\ out' = Append(out, chunk)
        /\ pendingFrames' = IF pendingFrames = <<>> THEN <<>> ELSE Tail(pendingFrames)
        /\ UNCHANGED <<samples, pushPC, pushItem, inPipe, pipeline>>
    BY <1>6 DEF DeliverChunk, Threads, pushVars, pipelineVars
  <2>2. Held = 1 /\ Held' = 0 /\ Encoded = k + 1 /\ Encoded' = k
    BY <1>0, <2>1 DEF Held, Encoded
  <2>3. n >= 1 /\ pendingFrames # <<>>
    <3>1. n >= 1
      BY <1>0, <2>2 DEF Tags
    <3> QED BY <3>1, EmptyQueue
  <2>4. /\ Head(pendingFrames) = pendingFrames[1] /\ Len(pendingFrames') = n - 1
        /\ \A i \in 1 .. n - 1 : pendingFrames'[i] = pendingFrames[i + 1]
    BY <2>1, <2>3, HeadTaken DEF TypeOK
  <2>5. tag = pullItem /\ tag \in 0 .. MaxFrames
    BY <2>1, <2>3, <2>4 DEF Tags, TypeOK
  <2>6. chunk \in [frame : 1 .. MaxFrames, tag : 0 .. MaxFrames] /\ chunk.tag = chunk.frame
    BY <2>1, <2>5, LaneAssumption DEF TypeOK
  <2> HIDE DEF chunk
  <2>7. /\ Len(out') = Len(out) + 1
        /\ \A i \in 1 .. Len(out) + 1 : out'[i] = IF i = Len(out) + 1 THEN chunk ELSE out[i]
    <3> DEFINE Chunk == [frame : 1 .. MaxFrames, tag : 0 .. MaxFrames]
    <3>1. out \in Seq(Chunk) /\ chunk \in Chunk
      BY <2>6 DEF TypeOK
    <3> HIDE DEF Chunk
    <3> QED BY <2>1, <3>1, Appended
  <2>8. \A i \in 1 .. Len(out') : out'[i].tag = out'[i].frame
    <3> SUFFICES ASSUME NEW i \in 1 .. Len(out) + 1
                 PROVE  out'[i].tag = out'[i].frame
      BY <2>7
    <3>1. i = Len(out) + 1 \/ i \in 1 .. Len(out)
      BY <1>0
    <3> QED BY <2>6, <2>7, <3>1 DEF Tags
  <2> HIDE DEF tag
  <2>9. ASSUME NEW i \in 1 .. k
        PROVE  pendingFrames'[0 + i] = samples[i]
    <3>1. i \in 1 .. n - 1 /\ i + 1 = 1 + i /\ 0 + i = i
      BY <1>0, <2>2 DEF Tags
    <3> QED BY <2>2, <2>4, <3>1 DEF Tags
  <2>10. ASSUME pipeline = "up", NEW i \in 1 .. Len(inPipe)
         PROVE  pendingFrames'[k + i] = inPipe[i].frame
    <3>1. n = (k + 1) + Len(inPipe) + (IF pushPC = "push" THEN 1 ELSE 0)
      BY <2>2, <2>10 DEF Tags
    <3>2. k + i \in 1 .. n - 1 /\ (k + i) + 1 = (k + 1) + i
      BY <1>0, <3>1
    <3> QED BY <2>2, <2>4, <2>10, <3>2 DEF Tags
  <2>11. ASSUME pipeline = "up"
         PROVE  Len(pendingFrames') = k + Len(inPipe) + (IF pushPC = "push" THEN 1 ELSE 0)
    <3>1. n = (k + 1) + Len(inPipe) + (IF pushPC = "push" THEN 1 ELSE 0)
      BY <2>2, <2>11 DEF Tags
    <3> QED BY <1>0, <2>4, <3>1
  <2>12. ASSUME pipeline = "up", pushPC = "push"
         PROVE  pendingFrames'[Len(pendingFrames')] = pushItem.frame
    <3>1. n = (k + 1) + Len(inPipe) + 1 /\ pendingFrames[n] = pushItem.frame
      BY <2>2, <2>12 DEF Tags
    <3>2. n - 1 \in 1 .. n - 1 /\ (n - 1) + 1 = n
      BY <1>0, <3>1
    <3> QED BY <2>4, <3>1, <3>2
  <2>13. k <= Len(pendingFrames')
    BY <1>0, <2>2, <2>4 DEF Tags
  <2> HIDE DEF k, n
  <2> QED BY <2>1, <2>2, <2>8, <2>9, <2>10, <2>11, <2>12, <2>13 DEF Tags, k
<1>7. CASE Start \/ StartFails
  <2>1. /\ pendingFrames = <<>> /\ inPipe = <<>> /\ samples = <<>> /\ pullItem = 0
        /\ pushPC = "done"
    BY <1>7 DEF Start, StartFails, Begin, Threads, TornDown, PushJoined
  <2>2. /\ out' = <<>> /\ pushPC' \in {"eval", "done"}
        /\ UNCHANGED <<pendingFrames, pullItem, samples, inPipe>>
    BY <1>7, <2>1 DEF Start, StartFails, Begin
  <2>3. Held' = 0 /\ Encoded' = 0 /\ Len(<<>>) = 0
    BY <2>1, <2>2, EmptyQueue DEF Held, Encoded
  <2> QED BY <2>1, <2>2, <2>3 DEF Tags
<1>8. CASE JoinPullTearDown
  <2>1. /\ samples' = <<>> /\ pipeline' = "null" /\ pullItem = 0
        /\ UNCHANGED <<pendingFrames, pullItem, out>>
    BY <1>8 DEF JoinPullTearDown, Threads, pullVars, historyVars
  <2>2. Held' = 0 /\ Encoded' = 0 /\ Len(<<>>) = 0
    BY <2>1, EmptyQueue DEF Held, Encoded
  <2> QED BY <1>0, <2>1, <2>2 DEF Tags
<1>9. CASE ClearQueue
  <2>1. /\ samples = <<>> /\ pipeline = "null" /\ pullItem = 0 /\ pendingFrames' = <<>>
        /\ UNCHANGED <<samples, pipeline, pullItem, out>>
    BY <1>9 DEF ClearQueue, StopAfter, Threads, TornDown, pullVars, pipelineVars, historyVars
  <2>2. Held' = 0 /\ Encoded' = 0 /\ Len(<<>>) = 0
    BY <2>1, EmptyQueue DEF Held, Encoded
  <2> QED BY <2>1, <2>2 DEF Tags
<1> QED BY <1>1, <1>2, <1>3, <1>4, <1>5, <1>6, <1>7, <1>8, <1>9, TagsKept DEF TagSteps

----------------------------------------------------------------------------
(* The slots and their owners.                                             *)

HeldItems == ({reserved, pushItem} \ {None}) \cup Elements(submitQueue) \cup Elements(inPipe)

Owners ==
  /\ \A x, y \in HeldItems : x.slot = y.slot => x = y
  /\ \A x \in HeldItems : x.slot \notin retiring
  /\ slotInUse = retiring \cup {x.slot : x \in HeldItems}

(* A slot is handed on, taken out of the line, or was never touched. *)
LEMMA OwnersMoved ==
  ASSUME Owners, HeldItems' = HeldItems, retiring' = retiring, slotInUse' = slotInUse
  PROVE  Owners'
BY DEF Owners

(* An item leaves the line, and its slot is free or in the encoder's hands. *)
LEMMA OwnersLess ==
  ASSUME Owners, NEW x \in HeldItems, HeldItems = HeldItems' \cup {x}, x \notin HeldItems',
         \/ retiring' = retiring /\ slotInUse' = slotInUse \ {x.slot}
         \/ retiring' = retiring \cup {x.slot} /\ slotInUse' = slotInUse
  PROVE  Owners'
<1>1. \A y \in HeldItems' : y.slot # x.slot /\ y \in HeldItems
  BY DEF Owners
<1> QED BY <1>1 DEF Owners

(* A frame is held in one place: what the line says of the items. *)
LEMMA HeldOnce ==
  ASSUME TypeOK, Line
  PROVE  /\ reserved # None => reserved # pushItem
                               /\ reserved \notin Elements(submitQueue) \cup Elements(inPipe)
         /\ pushItem # None => pushItem \notin Elements(submitQueue) \cup Elements(inPipe)
         /\ Elements(submitQueue) \cap Elements(inPipe) = {}
<1>1. /\ \A x \in Elements(submitQueue) : x.frame \in Queued /\ x.frame \in Nat
      /\ \A x \in Elements(inPipe) : x.frame \in InEncoder /\ x.frame \in Nat
  <2>1. \A x \in Elements(submitQueue) \cup Elements(inPipe) : x \in Item
    BY ElementOfSeq, LenProperties DEF Elements, TypeOK
  <2>2. \A x \in Item : x.frame \in Nat
    BY LaneAssumption DEF Item
  <2> QED BY <2>1, <2>2 DEF Elements, Queued, InEncoder
<1>2. /\ reserved # None => reserved.frame \in Nat /\ Reserved = {reserved.frame}
      /\ pushItem # None => pushItem.frame \in Nat /\ InPush = {pushItem.frame}
  BY Stages DEF Reserved, InPush
<1>3. \A a \in Nat : ~ (a < a)
  OBVIOUS
<1> QED BY <1>1, <1>2, <1>3 DEF Line, Ordered, Accounted, Inside, Below

(* The steps that change an owner. *)
LEMMA OwnersStep ==
  ASSUME ~CaptureDuringStop, TypeOK, Threads, Line, Owners, [Next]_vars
  PROVE  Owners'
<1> USE DEF captureVars, pushVars, pullVars, pipelineVars, queueVars, historyVars
<1>0. /\ None \notin Elements(submitQueue) \cup Elements(inPipe)
      /\ reserved # None => reserved \in Item
      /\ pushItem # None => pushItem \in Item
  <2>1. \A x \in Elements(submitQueue) \cup Elements(inPipe) : x \in Item
    BY ElementOfSeq, LenProperties DEF Elements, TypeOK
  <2> QED BY <2>1, NoneIsNoItem DEF TypeOK
<1>1. ASSUME NEW s \in Slots, ReserveSlot(s)
      PROVE  Owners'
  <2> DEFINE x == [slot |-> s, frame |-> nextFrame]
  <2>1. /\ reserved = None /\ reserved' = x /\ s \notin slotInUse /\ slotInUse' = slotInUse \cup {s}
        /\ UNCHANGED <<submitQueue, pushItem, inPipe, retiring>>
    BY <1>1 DEF ReserveSlot
  <2>2. x.slot = s /\ x # None
    BY <1>1, NoneIsNoItem DEF TypeOK, ReserveSlot, Item
  <2> HIDE DEF x
  <2>3. HeldItems' = HeldItems \cup {x}
    BY <2>1, <2>2 DEF HeldItems, Elements
  <2>4. s \notin retiring /\ \A y \in HeldItems : y.slot # s
    BY <2>1 DEF Owners
  <2> QED BY <2>1, <2>2, <2>3, <2>4 DEF Owners
<1>2. CASE SubmitSlot
  <2>1. /\ reserved # None /\ reserved' = None /\ submitQueue' = Append(submitQueue, reserved)
        /\ UNCHANGED <<slotInUse, pushItem, inPipe, retiring>>
    BY <1>2 DEF SubmitSlot
  <2>2. Elements(submitQueue') = Elements(submitQueue) \cup {reserved}
    BY <1>0, <2>1, Appended DEF TypeOK
  <2>3. HeldItems' = HeldItems
    BY <2>1, <2>2 DEF HeldItems, Elements
  <2> QED BY <2>1, <2>3, OwnersMoved
<1>3. CASE CancelReservedSlot
  <2>1. /\ reserved # None /\ reserved' = None /\ slotInUse' = slotInUse \ {reserved.slot}
        /\ UNCHANGED <<submitQueue, pushItem, inPipe, retiring>>
    BY <1>3 DEF CancelReservedSlot
  <2>2. UNCHANGED <<Elements(submitQueue), Elements(inPipe)>>
    BY <2>1
  <2>3. /\ reserved \in HeldItems /\ HeldItems = HeldItems' \cup {reserved}
        /\ reserved \notin HeldItems'
    BY <2>1, <2>2, HeldOnce DEF HeldItems
  <2> QED BY <2>1, <2>3, OwnersLess
<1>4. CASE PopSubmit
  <2> DEFINE x == Head(submitQueue)
  <2>1. /\ pushPC = "eval" /\ submitQueue # <<>> /\ submitQueue' = Tail(submitQueue)
        /\ pushItem' = x
        /\ UNCHANGED <<reserved, slotInUse, inPipe, retiring>>
    BY <1>4 DEF PopSubmit
  <2>2. x \in Item /\ Elements(submitQueue) = Elements(submitQueue') \cup {x} /\ pushItem = None
    BY <2>1, HeadTaken DEF TypeOK, Threads
  <2> HIDE DEF x
  <2>3. x # None
    BY <2>2, NoneIsNoItem
  <2>4. HeldItems' = HeldItems
    BY <2>1, <2>2, <2>3 DEF HeldItems
  <2> QED BY <2>1, <2>4, OwnersMoved
<1>5. CASE DropItem \/ PushRejected
  <2>1. /\ pushItem # None /\ pushItem' = None /\ slotInUse' = slotInUse \ {pushItem.slot}
        /\ UNCHANGED <<reserved, submitQueue, inPipe, retiring>>
    BY <1>5 DEF DropItem, PushRejected, Threads
  <2>2. UNCHANGED <<Elements(submitQueue), Elements(inPipe)>>
    BY <2>1
  <2>3. /\ pushItem \in HeldItems /\ HeldItems = HeldItems' \cup {pushItem}
        /\ pushItem \notin HeldItems'
    BY <2>1, <2>2, HeldOnce DEF HeldItems
  <2> QED BY <2>1, <2>3, OwnersLess
<1>6. CASE PushBuffer
  <2>1. /\ pushItem # None /\ pushItem' = None /\ inPipe' = Append(inPipe, pushItem)
        /\ UNCHANGED <<reserved, submitQueue, slotInUse, retiring>>
    BY <1>6 DEF PushBuffer, Threads
  <2>2. Elements(inPipe') = Elements(inPipe) \cup {pushItem}
    BY <1>0, <2>1, Appended DEF TypeOK
  <2>3. HeldItems' = HeldItems
    BY <2>1, <2>2 DEF HeldItems, Elements
  <2> QED BY <2>1, <2>3, OwnersMoved
<1>7. CASE Encode
  <2> DEFINE x == Head(inPipe)
  <2>1. /\ inPipe # <<>> /\ inPipe' = Tail(inPipe) /\ retiring' = retiring \cup {x.slot}
        /\ UNCHANGED <<reserved, submitQueue, pushItem, slotInUse>>
    BY <1>7 DEF Encode
  <2>2. /\ x \in Item /\ Elements(inPipe) = Elements(inPipe') \cup {x}
        /\ Below({x.frame}, FramesIn(inPipe'))
    BY <2>1, HeadTaken, RisingTail DEF TypeOK, Line, InRow
  <2> HIDE DEF x
  <2>3. x.frame \in Nat
    BY <2>2, LaneAssumption DEF Item
  <2>4. x \notin Elements(inPipe')
    <3>1. x \in Elements(inPipe') => x.frame \in FramesIn(inPipe')
      BY DEF FramesIn, Elements
    <3>2. ~ (x.frame < x.frame)
      BY <2>3
    <3> QED BY <2>2, <3>1, <3>2 DEF Below
  <2>5. /\ x \in HeldItems /\ HeldItems = HeldItems' \cup {x} /\ x \notin HeldItems'
    BY <1>0, <2>1, <2>2, <2>4, HeldOnce DEF HeldItems
  <2> QED BY <2>1, <2>5, OwnersLess
<1>8. ASSUME NEW s \in Slots, Retire(s)
      PROVE  Owners'
  <2>1. /\ s \in retiring /\ retiring' = retiring \ {s} /\ slotInUse' = slotInUse \ {s}
        /\ UNCHANGED <<reserved, submitQueue, pushItem, inPipe>>
    BY <1>8 DEF Retire
  <2>2. HeldItems' = HeldItems
    BY <2>1 DEF HeldItems, Elements
  <2> QED BY <2>1, <2>2 DEF Owners
<1>9. CASE JoinPullTearDown
  <2>1. reserved = None /\ pushItem = None /\ submitQueue = <<>>
    BY <1>9 DEF JoinPullTearDown, StopAfter, Threads, PushJoined
  <2>2. /\ slotInUse' = slotInUse \ (retiring \cup {inPipe[i].slot : i \in 1 .. Len(inPipe)})
        /\ inPipe' = <<>> /\ retiring' = {}
        /\ UNCHANGED <<reserved, submitQueue, pushItem>>
    BY <1>9 DEF JoinPullTearDown
  <2>3. HeldItems = Elements(inPipe) /\ HeldItems' = {}
    BY <2>1, <2>2, EmptyQueue DEF HeldItems
  <2>4. {x.slot : x \in HeldItems} = {inPipe[i].slot : i \in 1 .. Len(inPipe)}
    BY <2>3 DEF Elements
  <2>5. slotInUse' = {}
    BY <2>2, <2>4 DEF Owners
  <2> QED BY <2>2, <2>3, <2>5 DEF Owners
<1>10. CASE ClearQueue \/ ClearSlots
  <2>1. /\ reserved = None /\ pushItem = None /\ submitQueue = <<>> /\ inPipe = <<>>
        /\ retiring = {}
    BY <1>10 DEF ClearQueue, ClearSlots, StopAfter, Threads, PushJoined, TornDown
  <2>2. /\ submitQueue' = <<>> /\ slotInUse' \in {slotInUse, {}}
        /\ UNCHANGED <<reserved, pushItem, inPipe, retiring>>
    BY <1>10, <2>1 DEF ClearQueue, ClearSlots
  <2>3. HeldItems = {} /\ HeldItems' = {}
    BY <2>1, <2>2, EmptyQueue DEF HeldItems
  <2> QED BY <2>1, <2>2, <2>3 DEF Owners
<1>11. CASE UNCHANGED <<reserved, submitQueue, pushItem, inPipe, retiring, slotInUse>>
  <2>1. HeldItems' = HeldItems
    BY <1>11 DEF HeldItems, Elements
  <2> QED BY <1>11, <2>1, OwnersMoved
<1>12. CASE \/ NoFreeSlot \/ EvalEmpty \/ EnterWait \/ SpuriousWakeup \/ TagItem
            \/ PullSample \/ DeliverChunk \/ PullExit
  BY <1>11, <1>12 DEF NoFreeSlot, EvalEmpty, EnterWait, SpuriousWakeup, TagItem, PullSample,
                      DeliverChunk, PullExit
<1>13. CASE EosReachesSink \/ Break \/ BusError \/ Start \/ StartFails
  BY <1>11, <1>13 DEF EosReachesSink, Break, BusError, Start, StartFails, Begin
<1>14. CASE \/ ClearKeepRunning \/ NotifyPush \/ JoinPushSendEos \/ PopBus \/ ZeroDepth
            \/ RecorderStopped
  BY <1>11, <1>14 DEF ClearKeepRunning, NotifyPush, JoinPushSendEos, PopBus, ZeroDepth,
                      RecorderStopped
<1>15. CASE UNCHANGED vars
  BY <1>11, <1>15 DEF vars
<1> QED BY <1>1, <1>2, <1>3, <1>4, <1>5, <1>6, <1>7, <1>8, <1>9, <1>10, <1>12, <1>13, <1>14,
           <1>15
        DEF Next, Capture, FinishFrame, PushLoop, PullLoop, Pipeline, StopSteps

(* The owners' queues, one behind the other, hold no slot twice. *)
LEMMA OwnersAreHeld ==
  ASSUME TypeOK, Line, Owners
  PROVE  SlotHasOneOwner
<1> DEFINE single(item) == IF item = None THEN <<>> ELSE <<item>>
           a == single(reserved)
           b == single(pushItem)
           items == a \o submitQueue \o b \o inPipe
<1>1. /\ a \in Seq(Item) /\ Distinct(a) /\ Elements(a) = {reserved} \ {None}
      /\ FramesIn(a) = Reserved
  <2>1. CASE reserved = None
    BY <2>1, EmptyQueue, EmptySeq DEF Reserved
  <2>2. CASE reserved # None
    BY <2>2, Stages, SingleQueue DEF Reserved
  <2> QED BY <2>1, <2>2
<1>2. /\ b \in Seq(Item) /\ Distinct(b) /\ Elements(b) = {pushItem} \ {None}
      /\ FramesIn(b) = InPush
  <2>1. CASE pushItem = None
    BY <2>1, EmptyQueue, EmptySeq DEF InPush
  <2>2. CASE pushItem # None
    BY <2>2, Stages, SingleQueue DEF InPush
  <2> QED BY <2>1, <2>2
<1> HIDE DEF a, b
<1>3. /\ submitQueue \in Seq(Item) /\ Distinct(submitQueue) /\ FramesIn(submitQueue) = Queued
      /\ inPipe \in Seq(Item) /\ Distinct(inPipe) /\ FramesIn(inPipe) = InEncoder
  <2>1. \A x \in Item : x.frame \in Nat
    BY LaneAssumption DEF Item
  <2> QED BY <2>1, RisingDistinct, Stages DEF TypeOK, Line, InRow
<1>4. /\ Reserved \cap Queued = {} /\ (Reserved \cup Queued) \cap InPush = {}
      /\ (Reserved \cup Queued \cup InPush) \cap InEncoder = {}
  <2>1. \A f \in Reserved \cup Queued \cup InPush \cup InEncoder : f \in Nat /\ ~ (f < f)
    <3>1. Queued \subseteq Nat /\ InPush \subseteq Nat /\ InEncoder \subseteq Nat
      BY Stages DEF Line, Accounted, Inside
    <3>2. Reserved \subseteq Nat
      BY Stages DEF Reserved
    <3> QED BY <3>1, <3>2
  <2> QED BY <2>1 DEF Line, Ordered, Accounted, Inside, Below
<1> DEFINE ab  == a \o submitQueue
           abc == ab \o b
<1>5. /\ ab \in Seq(Item) /\ Distinct(ab) /\ FramesIn(ab) = Reserved \cup Queued
      /\ Elements(ab) = ({reserved} \ {None}) \cup Elements(submitQueue)
  BY <1>1, <1>3, <1>4, Joined
<1> HIDE DEF ab
<1>6. /\ abc \in Seq(Item) /\ Distinct(abc) /\ FramesIn(abc) = (Reserved \cup Queued) \cup InPush
      /\ Elements(abc)
           = (({reserved} \ {None}) \cup Elements(submitQueue)) \cup ({pushItem} \ {None})
  BY <1>2, <1>4, <1>5, Joined
<1> HIDE DEF abc
<1>7. /\ Distinct(abc \o inPipe)
      /\ Elements(abc \o inPipe) = Elements(abc) \cup Elements(inPipe)
  BY <1>3, <1>4, <1>6, Joined
<1>8. items = abc \o inPipe /\ Elements(items) = HeldItems
  BY <1>6, <1>7 DEF HeldItems, abc, ab
<1>9. HeldSlots = [i \in 1 .. Len(items) |-> items[i].slot]
  BY DEF HeldSlots, a, b
<1> HIDE DEF items
<1>10. \A x, y \in Elements(items) : x.slot = y.slot => x.frame = y.frame
  BY <1>8 DEF Owners
<1>11. /\ \A i, j \in DOMAIN HeldSlots : i # j => HeldSlots[i] # HeldSlots[j]
       /\ {HeldSlots[i] : i \in DOMAIN HeldSlots} = {x.slot : x \in HeldItems}
  <2>1. Distinct(items)
    BY <1>7, <1>8
  <2>2. DOMAIN HeldSlots = 1 .. Len(items) /\ \A i \in 1 .. Len(items) : HeldSlots[i] = items[i].slot
    BY <1>9
  <2> DEFINE held == HeldSlots
  <2> HIDE DEF held
  <2>3. DOMAIN held = 1 .. Len(items) /\ \A i \in 1 .. Len(items) : held[i] = items[i].slot
    BY <2>2 DEF held
  <2>4. /\ \A i, j \in DOMAIN held : i # j => held[i] # held[j]
        /\ {held[i] : i \in DOMAIN held} = {x.slot : x \in Elements(items)}
    BY <1>10, <2>1, <2>3, SlotsDistinct
  <2> QED BY <1>8, <2>4 DEF held
<1>12. \A i \in DOMAIN HeldSlots : HeldSlots[i] \in {x.slot : x \in HeldItems}
  BY <1>11
<1>13. \A i \in DOMAIN HeldSlots : HeldSlots[i] \notin retiring
  BY <1>12 DEF Owners
<1> QED BY <1>11, <1>13 DEF SlotHasOneOwner, Owners

----------------------------------------------------------------------------
(* The invariant and what follows from it.                                 *)

Typed == TypeOK /\ Holding
LaneInv == Threads /\ Line /\ Tags /\ Owners

(* The lane has the right types and nothing in it initially. *)
LEMMA InitTyped == Init => Typed
<1> SUFFICES ASSUME Init
             PROVE  Typed
  OBVIOUS
<1>1. \A S : <<>> \in Seq(S)
  BY EmptySeq
<1>2. 0 \in 0 .. DepthModulus - 1 /\ 0 \in 0 .. MaxRecordings /\ 1 \in 1 .. MaxFrames + 1
      /\ 0 \in 0 .. MaxFrames
  BY LaneAssumption
<1>3. TypeOK
  BY <1>1, <1>2 DEF Init, TypeOK
<1> QED BY <1>3 DEF Typed, Holding, Init

(* Nothing is in the lane initially. *)
LEMMA InitLane == Init => LaneInv
<1> SUFFICES ASSUME Init
             PROVE  LaneInv
  OBVIOUS
<1>1. Threads
  BY DEF Init, Threads, PushJoined, TornDown
<1>2. /\ Queued = {} /\ InPush = {} /\ InEncoder = {} /\ Sunk = {} /\ Pulled = {}
      /\ Delivered = {} /\ Reserved = {}
  BY EmptyQueue DEF Init, Queued, InPush, InEncoder, Sunk, Pulled, Delivered, Reserved, FramesIn
<1>3. Line
  BY <1>2, EmptyQueue DEF Init, Line, Ordered, Accounted, Inside, InRow, Below
<1>4. Tags
  <2>1. Held = 0 /\ Encoded = 0
    BY EmptyQueue DEF Init, Held, Encoded
  <2> QED BY <2>1, EmptyQueue DEF Init, Tags
<1>5. Owners
  BY EmptyQueue DEF Init, Owners, HeldItems
<1> QED BY <1>1, <1>3, <1>4, <1>5 DEF LaneInv

(* The types hold whether or not Stop waits for the capture thread. *)
LEMMA TypedAlways == Spec => []Typed
<1>1. Typed /\ [Next]_vars => Typed'
  BY TypeStep DEF Typed
<1> QED BY <1>1, InitTyped, PTL DEF Spec

(* The invariant needs the capture thread out of PushFrame before Stop.    *)
LEMMA LaneAlways == ASSUME ~CaptureDuringStop PROVE Spec => []LaneInv
<1>1. Typed /\ Typed' /\ LaneInv /\ [Next]_vars => LaneInv'
  BY ThreadsStep, LineStep, TagsStep, OwnersStep DEF Typed, LaneInv
<1> QED BY <1>1, InitLane, TypedAlways, PTL DEF Spec

(* The values of every variable: the modular queue depth stays in its      *)
(* range, no null slot is ever queued, pushed or given back.               *)
THEOREM LaneTypeCorrect == Spec => []TypeOK
BY TypedAlways, PTL DEF Typed

(* A buffer of the pool has one owner at a time and is free without one,   *)
(* for every number of slots and frames and whatever the pipeline does.    *)
THEOREM SlotAlwaysHasOneOwner ==
  ASSUME ~CaptureDuringStop PROVE Spec => []SlotHasOneOwner
<1>1. Typed /\ LaneInv => SlotHasOneOwner
  BY OwnersAreHeld DEF Typed, LaneInv
<1> QED BY <1>1, TypedAlways, LaneAlways, PTL

(* The chunks carry the tags of their own frames and come out in the order *)
(* of submission, although the tags travel beside the pipeline.            *)
THEOREM ChunksAlwaysInOrder ==
  ASSUME ~CaptureDuringStop PROVE Spec => []ChunksInSubmissionOrder
<1>1. LaneInv => ChunksInSubmissionOrder
  BY DEF LaneInv, Tags, Line, InRow, Rising, ChunksInSubmissionOrder
<1> QED BY <1>1, LaneAlways, PTL

(* Between Start and the teardown every accepted frame is in a stage, has  *)
(* come out, or was dropped.                                               *)
THEOREM NoFrameIsForgotten ==
  ASSUME ~CaptureDuringStop PROVE Spec => []NoFrameForgotten
<1>1. Typed /\ LaneInv => NoFrameForgotten
  BY Stages DEF Typed, LaneInv, Line, Accounted, Inside, NoFrameForgotten
<1> QED BY <1>1, TypedAlways, LaneAlways, PTL

(* When Stop has joined both threads of a working pipeline, every accepted *)
(* frame has come out or was dropped.                                      *)
THEOREM StopAlwaysFlushes ==
  ASSUME ~CaptureDuringStop PROVE Spec => []StopFlushes
<1>1. ASSUME Typed, LaneInv, stopPC = "joinPull", pullPC = "done", pipeline = "up"
      PROVE  accepted = Delivered \cup discarded
  <2>1. /\ submitQueue = <<>> /\ pushItem = None /\ inPipe = <<>> /\ samples = <<>>
        /\ pullItem = 0
    BY <1>1 DEF LaneInv, Threads, PushJoined
  <2>2. Inside = {}
    BY <2>1, EmptyQueue DEF Inside, Queued, InPush, InEncoder, Sunk, Pulled
  <2> QED BY <1>1, <2>2 DEF LaneInv, Line, Accounted
<1>2. Typed /\ LaneInv => StopFlushes
  BY <1>1 DEF StopFlushes
<1> QED BY <1>2, TypedAlways, LaneAlways, PTL

(* No chunk of an earlier recording comes out of a later one, unless the   *)
(* capture thread is inside PushFrame while Stop runs.                     *)
THEOREM NoFrameIsStale ==
  ASSUME ~CaptureDuringStop PROVE Spec => []NoStaleFrames
<1>1. LaneInv => NoStaleFrames
  BY DEF LaneInv, Line, Accounted, NoStaleFrames
<1> QED BY <1>1, LaneAlways, PTL

----------------------------------------------------------------------------
(* The lane implements LaneContract.                                       *)

(* What came out, as the contract sees it. *)
LEMMA CameOutIsDelivered ==
  ASSUME TypeOK, Tags
  PROVE  Contract!CameOut = Delivered
<1> DEFINE n == Len(out)
           Chunk == [frame : 1 .. MaxFrames, tag : 0 .. MaxFrames]
<1>1. out \in Seq(Chunk) /\ \A x \in Chunk : x.tag \in 0 .. MaxFrames
  BY DEF TypeOK
<1> HIDE DEF Chunk
<1>2. Len(TagsOf(out)) = n
  BY <1>1, TagsAreSequence
<1>3. \A i \in 1 .. n : TagsOf(out)[i] = out[i].frame
  BY DEF TagsOf, Tags
<1>4. Contract!CameOut = {TagsOf(out)[i] : i \in 1 .. Len(TagsOf(out))}
  BY DEF Contract!CameOut, TagsOf
<1>5. {TagsOf(out)[i] : i \in 1 .. n} = {out[i].frame : i \in 1 .. n}
  BY <1>3
<1> QED BY <1>2, <1>4, <1>5 DEF Delivered

(* The steps of the lane are steps of the contract. *)
LEMMA LaneStepIsContractStep ==
  ASSUME TypeOK, TypeOK', LaneInv, Tags', [Next]_vars
  PROVE  [Contract!LaneNext]_(Contract!laneVars)
<1> USE DEF captureVars, pushVars, pullVars, pipelineVars, queueVars, historyVars
<1>1. CASE Start \/ StartFails
  <2>1. out' = <<>> /\ accepted' = {} /\ discarded' = {}
    BY <1>1 DEF Start, StartFails, Begin
  <2>2. [i \in 1 .. Len(out') |-> out'[i].tag] = <<>>
    BY <2>1, EmptyQueue
  <2>3. Contract!Restart
    BY <2>1, <2>2 DEF Contract!Restart
  <2> QED BY <2>3 DEF Contract!LaneNext
<1>2. CASE SubmitSlot
  <2> DEFINE f == reserved.frame
  <2>1. f \in 1 .. MaxFrames /\ Reserved = {f}
    BY <1>2 DEF SubmitSlot, Reserved, TypeOK, Item
  <2>2. accepted' = accepted \cup {f} /\ UNCHANGED <<out, discarded>>
    BY <1>2 DEF SubmitSlot
  <2>3. \A g \in accepted : g < f
    BY <2>1 DEF LaneInv, Line, Ordered, Below
  <2>4. Contract!Accept(f)
    BY <2>2, <2>3 DEF Contract!Accept
  <2> QED BY <2>1, <2>4 DEF Contract!LaneNext
<1>3. CASE DropItem \/ PushRejected
  <2> DEFINE f == pushItem.frame
  <2>1. pushItem # None /\ f \in 1 .. MaxFrames /\ InPush = {f}
    BY <1>3 DEF DropItem, PushRejected, LaneInv, Threads, InPush, TypeOK, Item
  <2>2. discarded' = discarded \cup {f} /\ UNCHANGED <<out, accepted>>
    BY <1>3 DEF DropItem, PushRejected
  <2>3. f \in accepted /\ f \notin Delivered
    <3>1. ~ (f < f)
      BY <2>1
    <3> QED BY <2>1, <3>1 DEF LaneInv, Line, Accounted, Inside, Ordered, Below
  <2>4. f \notin Contract!CameOut
    BY <2>3, CameOutIsDelivered DEF LaneInv
  <2>5. Contract!GiveUp(f)
    BY <2>2, <2>3, <2>4 DEF Contract!GiveUp
  <2> QED BY <2>1, <2>5 DEF Contract!LaneNext
<1>4. CASE DeliverChunk
  <2> DEFINE f == pullItem
             Chunk == [frame : 1 .. MaxFrames, tag : 0 .. MaxFrames]
  <2>1. f \in 1 .. MaxFrames /\ Pulled = {f}
    BY <1>4 DEF DeliverChunk, LaneInv, Threads, Pulled, TypeOK
  <2>2. UNCHANGED <<accepted, discarded>>
    BY <1>4 DEF DeliverChunk
  <2>3. PICK tag : out' = Append(out, [frame |-> f, tag |-> tag])
    BY <1>4 DEF DeliverChunk
  <2> DEFINE chunk == [frame |-> f, tag |-> tag]
             n == Len(out)
             AnyChunk == Chunk \cup {chunk}
  <2>4. out \in Seq(AnyChunk) /\ chunk \in AnyChunk /\ out' = Append(out, chunk)
    <3>1. out \in Seq(Chunk) /\ Chunk \subseteq AnyChunk
      BY DEF TypeOK
    <3> HIDE DEF Chunk, AnyChunk
    <3>2. out \in Seq(AnyChunk)
      BY <3>1, SeqMonotonic
    <3> QED BY <2>3, <3>2 DEF AnyChunk
  <2>5. chunk.tag = tag /\ chunk.frame = f
    OBVIOUS
  <2> HIDE DEF chunk, AnyChunk
  <2>6. n \in Nat /\ Len(out') = n + 1 /\ out'[n + 1] = chunk
    BY <2>4, Appended
  <2>7. tag = f
    <3>1. n + 1 \in 1 .. Len(out')
      BY <2>6
    <3> QED BY <2>5, <2>6, <3>1 DEF Tags
  <2>8. chunk \in Chunk /\ out \in Seq(Chunk) /\ \A x \in Chunk : x.tag \in 0 .. MaxFrames
    BY <2>1, <2>7 DEF chunk, TypeOK
  <2> HIDE DEF Chunk
  <2>9. TagsOf(out') = Append(TagsOf(out), f)
    <3> DEFINE Numbers == 0 .. MaxFrames
    <3>1. \A x \in Chunk : x.tag \in Numbers
      BY <2>8
    <3> HIDE DEF Numbers
    <3>2. TagsOf(Append(out, chunk)) = Append(TagsOf(out), chunk.tag)
      BY <2>8, <3>1, TagAppended
    <3> QED BY <2>4, <2>5, <2>7, <3>2
  <2>10. f \in accepted /\ f \notin discarded /\ \A g \in Contract!CameOut : g < f
    BY <2>1, CameOutIsDelivered DEF LaneInv, Line, Accounted, Inside, Ordered, Below
  <2>11. PICK g \in 1 .. MaxFrames : g = f
    BY <2>1
  <2>12. Contract!Deliver(g)
    BY <2>2, <2>9, <2>10, <2>11 DEF Contract!Deliver, TagsOf
  <2> QED BY <2>12 DEF Contract!LaneNext
<1>5. CASE UNCHANGED <<accepted, out, discarded>>
  BY <1>5 DEF Contract!laneVars
<1>6. CASE (\E s \in Slots : ReserveSlot(s)) \/ NoFreeSlot \/ CancelReservedSlot
  BY <1>5, <1>6 DEF ReserveSlot, NoFreeSlot, CancelReservedSlot
<1>7. CASE PopSubmit \/ EvalEmpty \/ EnterWait \/ SpuriousWakeup \/ TagItem \/ PushBuffer
  BY <1>5, <1>7 DEF PopSubmit, EvalEmpty, EnterWait, SpuriousWakeup, TagItem, PushBuffer
<1>8. CASE Encode \/ (\E s \in Slots : Retire(s)) \/ EosReachesSink \/ Break \/ BusError
  BY <1>5, <1>8 DEF Encode, Retire, EosReachesSink, Break, BusError
<1>9. CASE PullSample \/ PullExit
  BY <1>5, <1>9 DEF PullSample, PullExit
<1>10. CASE ClearKeepRunning \/ NotifyPush \/ JoinPushSendEos \/ PopBus \/ JoinPullTearDown
  BY <1>5, <1>10 DEF ClearKeepRunning, NotifyPush, JoinPushSendEos, PopBus, JoinPullTearDown
<1>11. CASE ClearQueue \/ ClearSlots \/ ZeroDepth \/ RecorderStopped
  BY <1>5, <1>11 DEF ClearQueue, ClearSlots, ZeroDepth, RecorderStopped
<1>12. CASE UNCHANGED vars
  BY <1>5, <1>12 DEF vars
<1> QED BY <1>1, <1>2, <1>3, <1>4, <1>6, <1>7, <1>8, <1>9, <1>10, <1>11, <1>12
        DEF Next, Capture, FinishFrame, PushLoop, PullLoop, Pipeline, StopSteps

(* Every behaviour of the lane is one that LaneContract allows: a frame    *)
(* comes out once, in order, in its own recording, and not after it was    *)
(* given up.                                                               *)
THEOREM LaneImplementsContract ==
  ASSUME ~CaptureDuringStop PROVE Spec => ImplementsContract
<1>1. Init => Contract!LaneInit
  <2> SUFFICES ASSUME Init
               PROVE  Contract!LaneInit
    OBVIOUS
  <2>1. [i \in 1 .. Len(out) |-> out[i].tag] = <<>>
    BY EmptyQueue DEF Init
  <2> QED BY <2>1 DEF Init, Contract!LaneInit
<1>2. Typed /\ Typed' /\ LaneInv /\ LaneInv' /\ [Next]_vars
        => [Contract!LaneNext]_(Contract!laneVars)
  BY LaneStepIsContractStep DEF Typed, LaneInv
<1> QED BY <1>1, <1>2, TypedAlways, LaneAlways, PTL DEF Spec, ImplementsContract, Contract!LaneSpec
=============================================================================
