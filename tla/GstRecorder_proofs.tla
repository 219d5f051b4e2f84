------------------------- MODULE GstRecorder_proofs -------------------------
(***************************************************************************)
(* Proofs about GstRecorder, for every pool size, both kinds of codec and  *)
(* with or without pipeline faults.  The invariant is that of EncoderLane, *)
(* for the shorter line of this recorder (the file, the pipeline, the      *)
(* recorder thread, frame_queue_, PushFrame); it holds until a Stop begins *)
(* during a PushFrame.                                                     *)
(***************************************************************************)
EXTENDS GstRecorder, FrameSequences

(* What the recorder thread holds while it works on it.                    *)
Holding == loopPC = "item" => loopItem \in Item

\* PushFrame has a frame from its first test on.
Arrived == tested => nextFrame <= MaxFrames

Typed == TypeOK /\ Holding /\ Arrived

(* None is no item: its frame is 0. *)
LEMMA NoneIsNoItem == None \notin Item
BY DEF None, Item

(* The pool index is the number of a slot, for every pool size. *)
LEMMA NextIndexIsSlot == poolIndex \in Slots => NextIndex \in Slots
<1>1. \A n \in Nat \ {0} : \A i \in 0 .. n - 1 : (i + 1) % n \in 0 .. n - 1
  OBVIOUS
<1> QED BY <1>1, GstRecorderAssumption DEF NextIndex, Slots

(* The variables keep their types. *)
LEMMA TypeStep ==
  ASSUME Typed, [Next]_vars
  PROVE  Typed'
<1> USE GstRecorderAssumption DEF Typed, TypeOK, Holding, Arrived, captureVars, controlVars,
        loopVars, pipelineVars, historyVars
<1>1. CASE Start \/ StartFails
  <2>1. /\ started' \in BOOLEAN /\ keepRunning' \in BOOLEAN
        /\ loopPC' \in {"eval", "enroll", "waiting", "item", "done"}
        /\ loopPC' = "item" => loopPC = "item"
        /\ pipeline' \in {"null", "up", "broken", "flushing"} /\ bus' \subseteq {"eos", "error"}
        /\ mainLoop' \in {"off", "created", "running"}
    BY <1>1 DEF Start, StartFails
  <2>2. /\ recordings' \in 0 .. MaxRecordings /\ pipelineFailed' = FALSE /\ stopping' = FALSE
        /\ accepted' = {} /\ out' = <<>> /\ discarded' = {}
        /\ UNCHANGED <<raw, captureVars, slotInUse, frameQueue, loopItem, stopPC, inPipe,
                       retiring, eos, straddled, timedOut>>
    BY <1>1 DEF Start, StartFails, Begin
  <2>3. out' \in Seq(1 .. MaxFrames)
    BY <2>2, EmptySeq
  <2>4. TypeOK'
    BY <2>1, <2>2, <2>3
  <2>5. Holding' /\ Arrived'
    BY <2>1, <2>2
  <2> QED BY <2>4, <2>5
<1>2. CASE DropFrame \/ PassTest \/ SlotBusy
  <2>1. /\ nextFrame' \in 1 .. MaxFrames + 1 /\ tested' \in BOOLEAN
        /\ tested' => nextFrame' <= MaxFrames
    <3>1. CASE DropFrame
      <4>1. nextFrame' = nextFrame + 1 /\ nextFrame <= MaxFrames /\ ~tested /\ tested' = tested
        BY <3>1 DEF DropFrame, Arrives
      <4> QED BY <4>1
    <3>2. CASE PassTest
      BY <3>2 DEF PassTest, Arrives
    <3>3. CASE SlotBusy
      <4>1. tested /\ nextFrame' = nextFrame + 1 /\ tested' = FALSE
        BY <3>3 DEF SlotBusy
      <4>2. nextFrame <= MaxFrames
        BY <4>1
      <4>3. nextFrame' \in 1 .. MaxFrames + 1
        BY <4>1, <4>2
      <4> QED BY <4>1, <4>3
    <3> QED BY <1>2, <3>1, <3>2, <3>3
  <2>2. UNCHANGED <<controlVars, pipelineFailed, reserved, poolIndex, slotInUse, loopVars,
                    stopPC, pipelineVars, historyVars>>
    BY <1>2 DEF DropFrame, PassTest, SlotBusy
  <2>3. TypeOK'
    BY <2>1, <2>2
  <2>4. Holding' /\ Arrived'
    BY <2>1, <2>2
  <2> QED BY <2>3, <2>4
<1>3. CASE TakeSlot
  <2>1. reserved' \in Item /\ nextFrame' \in 1 .. MaxFrames + 1
    <3>1. tested /\ nextFrame' = nextFrame + 1
      BY <1>3 DEF TakeSlot
    <3>2. nextFrame <= MaxFrames
      BY <3>1
    <3> QED BY <1>3, <3>1, <3>2 DEF TakeSlot, Item
  <2>2. slotInUse' \subseteq Slots /\ tested' = FALSE
    BY <1>3 DEF TakeSlot
  <2>3. UNCHANGED <<controlVars, pipelineFailed, poolIndex, loopVars, stopPC, pipelineVars,
                    historyVars>>
    BY <1>3 DEF TakeSlot
  <2>4. /\ tested' \in BOOLEAN /\ raw' \in BOOLEAN /\ started' \in BOOLEAN
        /\ stopping' \in BOOLEAN /\ keepRunning' \in BOOLEAN /\ pipelineFailed' \in BOOLEAN
        /\ eos' \in BOOLEAN /\ straddled' \in BOOLEAN /\ timedOut' \in BOOLEAN
    BY <2>2, <2>3, Zenon
  <2>5. TypeOK'
    BY <2>1, <2>2, <2>3, <2>4
  <2>6. Holding' /\ Arrived'
    BY <2>2, <2>3
  <2> QED BY <2>5, <2>6
<1>4. CASE Enqueue
  <2>1. reserved \in Item /\ reserved.frame \in 1 .. MaxFrames
    BY <1>4 DEF Enqueue, Item
  <2>2. frameQueue' \in Seq(Item)
    BY <1>4, <2>1, Appended DEF Enqueue
  <2>3. /\ reserved' = None /\ poolIndex' \in Slots /\ accepted' \subseteq 1 .. MaxFrames
        /\ loopPC' \in {"eval", "enroll", "waiting", "item", "done"}
        /\ loopPC' = "item" => loopPC = "item"
    BY <1>4, <2>1, NextIndexIsSlot DEF Enqueue, Notified
  <2>4. UNCHANGED <<controlVars, pipelineFailed, nextFrame, tested, slotInUse, loopItem, stopPC,
                    pipelineVars, out, discarded, straddled, timedOut>>
    BY <1>4 DEF Enqueue
  <2> QED BY <2>2, <2>3, <2>4
<1>5. CASE RawPushed
  <2>1. reserved \in Item /\ reserved.frame \in 1 .. MaxFrames
    BY <1>5 DEF RawPushed, Item
  <2>2. inPipe' \in Seq(Item)
    BY <1>5, <2>1, Appended DEF RawPushed
  <2>3. reserved' = None /\ poolIndex' \in Slots /\ accepted' \subseteq 1 .. MaxFrames
    BY <1>5, <2>1, NextIndexIsSlot DEF RawPushed
  <2>4. UNCHANGED <<controlVars, pipelineFailed, nextFrame, tested, slotInUse, loopVars, stopPC,
                    pipeline, retiring, eos, bus, out, discarded, straddled, timedOut>>
    BY <1>5 DEF RawPushed
  <2> QED BY <2>2, <2>3, <2>4
<1>6. CASE RawRejected
  <2>1. /\ slotInUse' \subseteq Slots /\ pipelineFailed' \in BOOLEAN
        /\ reserved' = None /\ poolIndex' \in Slots
    BY <1>6, NextIndexIsSlot DEF RawRejected
  <2>2. UNCHANGED <<controlVars, nextFrame, tested, loopVars, stopPC, pipelineVars, historyVars>>
    BY <1>6 DEF RawRejected
  <2> QED BY <2>1, <2>2
<1>7. CASE PopFrame
  <2>1. Head(frameQueue) \in Item /\ Tail(frameQueue) \in Seq(Item)
    BY <1>7, HeadTaken DEF PopFrame
  <2> QED BY <1>7, <2>1 DEF PopFrame
<1>8. CASE EvalEmpty \/ EnterWait \/ SpuriousWakeup
  <2>1. loopPC' \in {"eval", "enroll", "waiting", "done"}
    BY <1>8 DEF EvalEmpty, EnterWait, SpuriousWakeup
  <2>2. UNCHANGED <<controlVars, pipelineFailed, captureVars, slotInUse, frameQueue, loopItem,
                    stopPC, pipelineVars, historyVars>>
    BY <1>8 DEF EvalEmpty, EnterWait, SpuriousWakeup
  <2> QED BY <2>1, <2>2
<1>9. CASE PushBuffer
  <2>1. loopItem \in Item
    BY <1>9 DEF PushBuffer
  <2>2. inPipe' \in Seq(Item)
    BY <1>9, <2>1, Appended DEF PushBuffer
  <2> QED BY <1>9, <2>2 DEF PushBuffer
<1>10. CASE PushRejected
  <2>1. loopItem.frame \in 1 .. MaxFrames
    BY <1>10 DEF PushRejected, Item
  <2>2. /\ slotInUse' \subseteq Slots /\ discarded' \subseteq 1 .. MaxFrames
        /\ pipelineFailed' \in BOOLEAN /\ loopItem' = None /\ loopPC' \in {"done", "eval"}
    BY <1>10, <2>1 DEF PushRejected
  <2>3. UNCHANGED <<controlVars, captureVars, frameQueue, stopPC, pipelineVars,
                    accepted, out, straddled, timedOut>>
    BY <1>10 DEF PushRejected
  <2> QED BY <2>2, <2>3
<1>11. CASE WriteFrame
  <2>1. Head(inPipe) \in Item /\ Tail(inPipe) \in Seq(Item)
    BY <1>11, HeadTaken DEF WriteFrame
  <2>2. Head(inPipe).frame \in 1 .. MaxFrames /\ Head(inPipe).slot \in Slots
    BY <2>1 DEF Item
  <2>3. out' \in Seq(1 .. MaxFrames)
    BY <1>11, <2>2, Appended DEF WriteFrame
  <2> QED BY <1>11, <2>1, <2>2, <2>3 DEF WriteFrame
<1>12. CASE Release
  BY <1>12 DEF Release, ReleaseSlot
<1>13. CASE EosReachesSink \/ Break \/ Bus
  <2>1. /\ eos' \in BOOLEAN /\ bus' \subseteq {"eos", "error"} /\ pipelineFailed' \in BOOLEAN
        /\ pipeline' \in {"null", "up", "broken", "flushing"}
    BY <1>13 DEF EosReachesSink, Break, Bus, BusWatch
  <2>2. UNCHANGED <<controlVars, captureVars, slotInUse, loopVars, stopPC, inPipe, retiring,
                    historyVars>>
    BY <1>13 DEF EosReachesSink, Break, Bus, BusWatch
  <2> QED BY <2>1, <2>2
<1>14. CASE BeginStop
  <2>1. /\ stopPC' = "notify" /\ stopping' \in BOOLEAN /\ keepRunning' \in BOOLEAN
        /\ straddled' \in BOOLEAN /\ timedOut' \in BOOLEAN
    BY <1>14 DEF BeginStop, StopAfter
  <2>2. UNCHANGED <<raw, started, recordings, mainLoop, pipelineFailed, captureVars, slotInUse,
                    loopVars, pipelineVars, accepted, out, discarded>>
    BY <1>14 DEF BeginStop
  <2> QED BY <2>1, <2>2
<1>15. CASE NotifyLoop
  <2>1. /\ stopPC' = "join" /\ loopPC' \in {"eval", "enroll", "waiting", "item", "done"}
        /\ loopPC' = "item" => loopPC = "item"
    BY <1>15 DEF NotifyLoop, StopAfter, Notified
  <2>2. UNCHANGED <<controlVars, pipelineFailed, captureVars, slotInUse, frameQueue, loopItem,
                    pipelineVars, historyVars>>
    BY <1>15 DEF NotifyLoop
  <2> QED BY <2>1, <2>2
<1>16. CASE JoinSendEos \/ PopMessage \/ PopExpires
  <2>1. /\ stopPC' \in {"pop", "quit"} /\ eos' \in BOOLEAN /\ timedOut' \in BOOLEAN
        /\ bus' \subseteq {"eos", "error"}
    BY <1>16 DEF JoinSendEos, PopMessage, PopExpires, StopAfter
  <2>2. UNCHANGED <<controlVars, pipelineFailed, captureVars, slotInUse, loopVars, pipeline,
                    inPipe, retiring, accepted, out, discarded, straddled>>
    BY <1>16 DEF JoinSendEos, PopMessage, PopExpires
  <2> QED BY <2>1, <2>2
<1>17. CASE TearDown \/ ClearQueue
  <2>1. <<>> \in Seq(Item)
    BY EmptySeq
  <2>2. CASE TearDown
    <3>1. /\ slotInUse' \subseteq Slots /\ inPipe' \in Seq(Item) /\ retiring' \subseteq Slots
          /\ pipeline' \in {"null", "up", "broken", "flushing"} /\ stopPC' = "clear"
          /\ eos' \in BOOLEAN /\ bus' \subseteq {"eos", "error"}
      BY <2>1, <2>2 DEF TearDown, StopAfter
    <3>2. UNCHANGED <<controlVars, pipelineFailed, captureVars, loopVars, historyVars>>
      BY <2>2 DEF TearDown
    <3> QED BY <3>1, <3>2
  <2>3. CASE ClearQueue
    <3>1. 0 \in Slots
      BY DEF Slots
    <3>2. /\ slotInUse' \subseteq Slots /\ frameQueue' \in Seq(Item) /\ poolIndex' \in Slots
          /\ stopPC' = "idle" /\ started' \in BOOLEAN
      BY <2>1, <2>3, <3>1 DEF ClearQueue, StopAfter
    <3>3. UNCHANGED <<raw, stopping, keepRunning, recordings, mainLoop, pipelineFailed,
                      nextFrame, tested, reserved, loopPC, loopItem, pipelineVars, historyVars>>
      BY <2>3 DEF ClearQueue
    <3> QED BY <3>2, <3>3
  <2> QED BY <1>17, <2>2, <2>3
<1>18. CASE RunMainLoop \/ QuitLoop \/ JoinLoop
  <2>1. /\ mainLoop' \in {"off", "created", "running"}
        /\ stopPC' \in {stopPC, "joinLoop", "teardown"}
    BY <1>18 DEF RunMainLoop, QuitLoop, JoinLoop, StopAfter
  <2>2. UNCHANGED <<raw, started, stopping, keepRunning, recordings, pipelineFailed, captureVars,
                    slotInUse, loopVars, pipelineVars, historyVars>>
    BY <1>18 DEF RunMainLoop, QuitLoop, JoinLoop
  <2> QED BY <2>1, <2>2
<1>19. CASE UNCHANGED vars
  BY <1>19 DEF vars
<1> QED BY <1>1, <1>2, <1>3, <1>4, <1>5, <1>6, <1>7, <1>8, <1>9, <1>10, <1>11, <1>12, <1>13,
           <1>14, <1>15, <1>16, <1>17, <1>18, <1>19
        DEF Next, Capture, PushFrame, RecorderLoop, StopSteps

(* A recording once straddled stays so. *)
LEMMA StraddledStays ==
  ASSUME [Next]_vars, straddled
  PROVE  straddled'
<1> USE DEF captureVars, controlVars, loopVars, pipelineVars, historyVars
<1>1. CASE Start \/ StartFails
  BY <1>1 DEF Start, StartFails, Begin
<1>2. CASE DropFrame \/ PassTest \/ SlotBusy \/ TakeSlot \/ Enqueue \/ RawPushed \/ RawRejected
  BY <1>2 DEF DropFrame, PassTest, SlotBusy, TakeSlot, Enqueue, RawPushed, RawRejected
<1>3. CASE PopFrame \/ EvalEmpty \/ EnterWait \/ SpuriousWakeup \/ PushBuffer \/ PushRejected
  BY <1>3 DEF PopFrame, EvalEmpty, EnterWait, SpuriousWakeup, PushBuffer, PushRejected
<1>4. CASE WriteFrame \/ Release \/ EosReachesSink \/ Break \/ Bus
  BY <1>4 DEF WriteFrame, Release, ReleaseSlot, EosReachesSink, Break, Bus, BusWatch
<1>5. CASE BeginStop \/ NotifyLoop \/ JoinSendEos
  BY <1>5 DEF BeginStop, NotifyLoop, JoinSendEos
<1>6. CASE PopMessage \/ PopExpires \/ RunMainLoop \/ QuitLoop \/ JoinLoop \/ TearDown \/ ClearQueue
  BY <1>6 DEF PopMessage, PopExpires, RunMainLoop, QuitLoop, JoinLoop, TearDown, ClearQueue
<1>7. CASE UNCHANGED vars
  BY <1>7 DEF vars
<1> QED BY <1>1, <1>2, <1>3, <1>4, <1>5, <1>6, <1>7
        DEF Next, Capture, PushFrame, RecorderLoop, StopSteps

----------------------------------------------------------------------------
(* The threads.                                                            *)

(* Who runs in which phase of a recording, and what is empty then.         *)
Threads ==
  /\ stopPC # "idle" => started /\ stopping
  /\ started /\ stopPC = "idle" => ~stopping
  /\ reserved # None \/ tested => started /\ ~stopping
  /\ tested => reserved = None
  /\ started /\ ~stopping /\ ~raw => keepRunning
  /\ loopPC = "item" <=> loopItem # None
  /\ raw \/ ~started => loopPC = "done" /\ frameQueue = <<>>
  /\ stopPC \in {"pop", "quit", "joinLoop", "teardown", "clear"} => loopPC = "done"
  /\ pipeline = "null" <=> ~started \/ stopPC = "clear"
  /\ pipeline = "null" => inPipe = <<>> /\ retiring = {} /\ ~eos /\ bus = {}
  /\ pipeline = "up" /\ loopPC = "done" => frameQueue = <<>> /\ (raw \/ stopping)
  /\ pipeline = "up" => "error" \notin bus
  /\ eos \/ "eos" \in bus => EosSent
  /\ pipeline = "up" /\ "eos" \in bus => inPipe = <<>>
  /\ pipeline = "up" /\ stopPC \in {"quit", "joinLoop", "teardown"} /\ ~timedOut => inPipe = <<>>

(* The threads keep to their phases until a Stop begins during a PushFrame. *)
LEMMA ThreadsStep ==
  ASSUME Typed, ~straddled, ~straddled', Threads, [Next]_vars
  PROVE  Threads'
<1> USE DEF Threads, EosSent, captureVars, controlVars, loopVars, pipelineVars, historyVars
<1>1. CASE Start
  BY <1>1 DEF Start, Begin, Typed, TypeOK
<1>2. CASE StartFails
  BY <1>2 DEF StartFails, Begin
<1>3. CASE DropFrame \/ PassTest \/ SlotBusy
  <2>1. CASE DropFrame
    BY <2>1 DEF DropFrame
  <2>2. CASE PassTest
    BY <2>2 DEF PassTest, Arrives, Refuses
  <2>3. CASE SlotBusy
    BY <2>3 DEF SlotBusy
  <2> QED BY <1>3, <2>1, <2>2, <2>3
<1>4. CASE TakeSlot
  BY <1>4 DEF TakeSlot
<1>5. CASE Enqueue
  BY <1>5 DEF Enqueue, Notified
<1>6. CASE RawPushed
  BY <1>6 DEF RawPushed
<1>7. CASE RawRejected
  BY <1>7 DEF RawRejected
<1>8. CASE PopFrame
  <2>1. Head(frameQueue) # None
    BY <1>8, NoneIsNoItem, HeadTaken DEF PopFrame, Typed, TypeOK
  <2> QED BY <1>8, <2>1 DEF PopFrame
<1>9. CASE EvalEmpty
  BY <1>9 DEF EvalEmpty
<1>10. CASE EnterWait
  BY <1>10 DEF EnterWait
<1>11. CASE SpuriousWakeup
  BY <1>11 DEF SpuriousWakeup
<1>12. CASE PushBuffer
  BY <1>12 DEF PushBuffer
<1>13. CASE PushRejected
  BY <1>13 DEF PushRejected
<1>14. CASE WriteFrame
  BY <1>14 DEF WriteFrame
<1>15. CASE Release
  BY <1>15 DEF Release, ReleaseSlot
<1>16. CASE EosReachesSink
  BY <1>16 DEF EosReachesSink
<1>17. CASE Break
  BY <1>17 DEF Break
<1>18. CASE Bus
  BY <1>18 DEF Bus, BusWatch
<1>19. CASE BeginStop
  BY <1>19 DEF BeginStop, StopAfter
<1>20. CASE NotifyLoop
  BY <1>20 DEF NotifyLoop, StopAfter, Notified
<1>21. CASE JoinSendEos
  BY <1>21 DEF JoinSendEos, StopAfter
<1>22. CASE PopMessage
  BY <1>22 DEF PopMessage, StopAfter, Typed, TypeOK
<1>23. CASE PopExpires
  BY <1>23 DEF PopExpires, StopAfter
<1>24. CASE TearDown
  BY <1>24 DEF TearDown, StopAfter
<1>25. CASE ClearQueue
  BY <1>25 DEF ClearQueue, StopAfter
<1>26. CASE RunMainLoop \/ QuitLoop \/ JoinLoop
  <2>1. CASE RunMainLoop
    BY <2>1 DEF RunMainLoop
  <2>2. CASE QuitLoop
    BY <2>2 DEF QuitLoop, StopAfter
  <2>3. CASE JoinLoop
    BY <2>3 DEF JoinLoop, StopAfter
  <2> QED BY <1>26, <2>1, <2>2, <2>3
<1>27. CASE UNCHANGED vars
  BY <1>27 DEF vars
<1> QED BY <1>1, <1>2, <1>3, <1>4, <1>5, <1>6, <1>7, <1>8, <1>9, <1>10, <1>11, <1>12, <1>13,
           <1>14, <1>15, <1>16, <1>17, <1>18, <1>19, <1>20, <1>21, <1>22, <1>23, <1>24, <1>25,
           <1>26, <1>27
        DEF Next, Capture, PushFrame, RecorderLoop, StopSteps

----------------------------------------------------------------------------
(* The line of frames, from the file to the camera.                        *)

Reserved  == IF reserved = None THEN {} ELSE {reserved.frame}
Queued    == FramesIn(frameQueue)
InLoop    == IF loopItem = None THEN {} ELSE {loopItem.frame}
InEncoder == FramesIn(inPipe)

\* Every stage is ahead of all the stages behind it.
Ordered ==
  /\ Below(Written, InEncoder \cup InLoop \cup Queued \cup Reserved)
  /\ Below(InEncoder, InLoop \cup Queued \cup Reserved)
  /\ Below(InLoop, Queued \cup Reserved)
  /\ Below(accepted, Reserved)
  /\ Below(accepted \cup Reserved, {nextFrame})

\* The frames inside the recorder.
Inside == Queued \cup InLoop \cup InEncoder

\* No stage holds a frame that was not taken over, or that was refused, and
\* until the teardown no stage has forgotten one.
Accounted ==
  /\ Inside \cup Written \cup discarded \subseteq accepted
  /\ Inside \cap discarded = {}
  /\ pipeline # "null" => accepted \subseteq Inside \cup Written \cup discarded

InRow == Rising(frameQueue) /\ Rising(inPipe) /\ RisingNumbers(out)

Line == Ordered /\ Accounted /\ InRow

\* What Line speaks of.
lineVars == <<out, inPipe, loopItem, frameQueue, reserved, nextFrame, accepted, discarded>>

(* The stages hold numbers of frames. *)
LEMMA Stages ==
  ASSUME TypeOK
  PROVE  /\ Written = Elements(out) /\ accepted \subseteq Nat /\ nextFrame \in Nat
         /\ reserved # None => reserved \in Item /\ reserved.frame \in Nat
         /\ loopItem # None => loopItem \in Item /\ loopItem.frame \in Nat
BY GstRecorderAssumption DEF Written, Elements, TypeOK, Item

(* The steps that only pass control on leave the line as it is. *)
LEMMA LineKept ==
  ASSUME Line, UNCHANGED lineVars, pipeline = "null" => pipeline' = "null"
  PROVE  Line'
BY DEF Line, lineVars, Ordered, Accounted, InRow, Inside, Queued, InLoop, InEncoder, Written,
       Reserved, FramesIn, Rising, RisingNumbers, Below

(* The capture thread: a frame enters the line behind all others, for raw  *)
(* video straight into the pipeline.                                       *)
LEMMA CaptureLine ==
  ASSUME TypeOK, TypeOK', Threads, Line,
         DropFrame \/ SlotBusy \/ TakeSlot \/ Enqueue \/ RawPushed \/ RawRejected
  PROVE  Line'
<1> USE DEF Line, Ordered, Accounted, InRow, Inside, Below
<1>0. accepted \subseteq Nat /\ nextFrame \in Nat
  BY Stages
<1>1. CASE DropFrame \/ SlotBusy \/ TakeSlot
  <2>1. UNCHANGED <<out, inPipe, loopItem, frameQueue, accepted, discarded, pipeline>>
    BY <1>1 DEF DropFrame, SlotBusy, TakeSlot, loopVars, pipelineVars, historyVars
  <2>2. UNCHANGED <<Queued, InLoop, InEncoder, Written>>
    BY <2>1 DEF Queued, InLoop, InEncoder, Written
  <2>3. Reserved = {} /\ nextFrame' = nextFrame + 1 /\ (Reserved' = {} \/ Reserved' = {nextFrame})
    BY <1>1 DEF DropFrame, SlotBusy, TakeSlot, Arrives, Threads, Reserved
  <2>4. \A a \in accepted : a < nextFrame /\ a < nextFrame + 1
    <3>1. \A a \in accepted : a < nextFrame /\ a \in Nat
      BY <1>0
    <3>2. \A a, n \in Nat : a < n => a < n + 1
      OBVIOUS
    <3> QED BY <1>0, <3>1, <3>2, Zenon
  <2>5. \A a \in Inside \cup Written : a < nextFrame
    BY <2>4
  <2>6. nextFrame < nextFrame + 1
    BY <1>0
  <2>7. Ordered'
    BY <2>1, <2>2, <2>3, <2>4, <2>5, <2>6
  <2> QED BY <2>1, <2>2, <2>7
<1>2. CASE Enqueue
  <2> DEFINE f == reserved.frame
  <2>1. reserved \in Item /\ f \in Nat /\ Reserved = {f} /\ Reserved' = {}
    BY <1>2, Stages DEF Enqueue, Reserved
  <2>2. /\ frameQueue' = Append(frameQueue, reserved) /\ accepted' = accepted \cup {f}
        /\ UNCHANGED <<out, inPipe, loopItem, nextFrame, discarded, pipeline>>
    BY <1>2 DEF Enqueue, pipelineVars
  <2>3. UNCHANGED <<InLoop, InEncoder, Written>>
    BY <2>2 DEF InLoop, InEncoder, Written
  <2>4. Queued' = Queued \cup {f} /\ Below(FramesIn(frameQueue), {f})
    BY <2>1, <2>2, Appended DEF TypeOK, Queued
  <2>5. Rising(frameQueue')
    BY <2>1, <2>2, <2>4, RisingAppend DEF TypeOK
  <2> HIDE DEF f
  <2>6. f \notin accepted /\ f < nextFrame
    BY <1>0, <2>1
  <2>7. Ordered'
    BY <2>1, <2>2, <2>3, <2>4, <2>6
  <2>8. Accounted'
    BY <2>1, <2>2, <2>3, <2>4, <2>6
  <2> QED BY <2>2, <2>5, <2>7, <2>8
<1>3. CASE RawPushed
  <2> DEFINE f == reserved.frame
  <2>1. reserved \in Item /\ f \in Nat /\ Reserved = {f} /\ Reserved' = {}
    BY <1>3, Stages DEF RawPushed, Reserved
  <2>2. /\ inPipe' = Append(inPipe, reserved) /\ accepted' = accepted \cup {f}
        /\ UNCHANGED <<out, loopItem, frameQueue, nextFrame, discarded, pipeline>>
    BY <1>3 DEF RawPushed, loopVars
  <2>3. UNCHANGED <<InLoop, Queued, Written>>
    BY <2>2 DEF InLoop, Queued, Written
  <2>4. Queued = {} /\ InLoop = {}
    BY <1>3, EmptyQueue DEF RawPushed, Threads, Queued, InLoop
  <2>5. InEncoder' = InEncoder \cup {f} /\ Below(FramesIn(inPipe), {f})
    BY <2>1, <2>2, Appended DEF TypeOK, InEncoder
  <2>6. Rising(inPipe')
    BY <2>1, <2>2, <2>5, RisingAppend DEF TypeOK
  <2> HIDE DEF f
  <2>7. f \notin accepted /\ f < nextFrame
    BY <1>0, <2>1
  <2>8. Ordered'
    BY <2>1, <2>2, <2>3, <2>4, <2>5, <2>7
  <2>9. Accounted'
    BY <2>1, <2>2, <2>3, <2>5, <2>7
  <2> QED BY <2>2, <2>6, <2>8, <2>9
<1>4. CASE RawRejected
  <2>1. UNCHANGED <<out, inPipe, loopItem, frameQueue, accepted, discarded, nextFrame, pipeline>>
    BY <1>4 DEF RawRejected, loopVars, pipelineVars, historyVars
  <2>2. UNCHANGED <<Queued, InLoop, InEncoder, Written>>
    BY <2>1 DEF Queued, InLoop, InEncoder, Written
  <2>3. Reserved' = {}
    BY <1>4 DEF RawRejected, Reserved
  <2> QED BY <2>1, <2>2, <2>3
<1> QED BY <1>1, <1>2, <1>3, <1>4

(* The recorder thread and the pipeline. *)
LEMMA LoopLine ==
  ASSUME TypeOK, TypeOK', Threads, Line,
         PopFrame \/ PushRejected \/ PushBuffer \/ WriteFrame
  PROVE  Line'
<1> USE DEF Line, Ordered, Accounted, InRow, Inside, Below
<1>1. CASE PopFrame
  <2> DEFINE x == Head(frameQueue)
             f == x.frame
  <2>1. /\ frameQueue # <<>> /\ frameQueue' = Tail(frameQueue) /\ loopItem' = x
        /\ UNCHANGED <<out, inPipe, reserved, nextFrame, accepted, discarded, pipeline>>
    BY <1>1 DEF PopFrame, captureVars, pipelineVars, historyVars
  <2>2. /\ x \in Item /\ Queued = Queued' \cup {f}
        /\ Rising(frameQueue') /\ Below({f}, Queued')
    BY <2>1, HeadTaken, RisingTail DEF TypeOK, Queued
  <2>3. InLoop = {} /\ InLoop' = {f}
    BY <1>1, <2>1, <2>2, NoneIsNoItem DEF PopFrame, InLoop, Threads
  <2> HIDE DEF x, f
  <2>4. UNCHANGED <<InEncoder, Written, Reserved>>
    BY <2>1 DEF InEncoder, Written, Reserved
  <2>5. Ordered'
    BY <2>1, <2>2, <2>3, <2>4
  <2>6. Accounted'
    BY <2>1, <2>2, <2>3, <2>4
  <2> QED BY <2>1, <2>2, <2>5, <2>6
<1>2. CASE PushRejected
  <2> DEFINE f == loopItem.frame
  <2>1. /\ discarded' = discarded \cup {f} /\ loopItem' = None
        /\ UNCHANGED <<out, inPipe, frameQueue, reserved, nextFrame, accepted, pipeline>>
    BY <1>2 DEF PushRejected, captureVars, pipelineVars
  <2>2. loopItem # None /\ f \in Nat /\ InLoop = {f} /\ InLoop' = {}
    BY <1>2, <2>1, Stages DEF PushRejected, Threads, InLoop
  <2> HIDE DEF f
  <2>3. UNCHANGED <<Queued, InEncoder, Written, Reserved>>
    BY <2>1 DEF Queued, InEncoder, Written, Reserved
  <2>4. f \notin Queued \cup InEncoder
    BY <2>2
  <2>5. Ordered'
    BY <2>1, <2>2, <2>3
  <2>6. Accounted'
    BY <2>1, <2>2, <2>3, <2>4
  <2> QED BY <2>1, <2>5, <2>6
<1>3. CASE PushBuffer
  <2> DEFINE f == loopItem.frame
  <2>1. /\ inPipe' = Append(inPipe, loopItem) /\ loopItem' = None
        /\ UNCHANGED <<out, frameQueue, reserved, nextFrame, accepted, discarded, pipeline>>
    BY <1>3 DEF PushBuffer, captureVars, historyVars
  <2>2. loopItem \in Item /\ InLoop = {f} /\ InLoop' = {}
    BY <1>3, <2>1, Stages DEF PushBuffer, Threads, InLoop
  <2>3. Below(FramesIn(inPipe), {f})
    BY <2>2 DEF InEncoder
  <2>4. InEncoder' = InEncoder \cup {f} /\ Rising(inPipe')
    BY <2>1, <2>2, <2>3, Appended, RisingAppend DEF TypeOK, InEncoder
  <2> HIDE DEF f
  <2>5. UNCHANGED <<Queued, Written, Reserved>>
    BY <2>1 DEF Queued, Written, Reserved
  <2>6. Ordered'
    BY <2>1, <2>2, <2>4, <2>5
  <2>7. Accounted'
    BY <2>1, <2>2, <2>4, <2>5
  <2> QED BY <2>1, <2>4, <2>6, <2>7
<1>4. CASE WriteFrame
  <2> DEFINE x == Head(inPipe)
             f == x.frame
             Frames == 1 .. MaxFrames
  <2>1. /\ inPipe # <<>> /\ inPipe' = Tail(inPipe) /\ out' = Append(out, f)
        /\ UNCHANGED <<loopItem, frameQueue, reserved, nextFrame, accepted, discarded, pipeline>>
    BY <1>4 DEF WriteFrame, captureVars, loopVars
  <2>2. /\ x \in Item /\ InEncoder = InEncoder' \cup {f}
        /\ Rising(inPipe') /\ Below({f}, InEncoder')
    BY <2>1, HeadTaken, RisingTail DEF TypeOK, InEncoder
  <2>3. f \in Frames /\ f \in Nat
    BY <2>2, GstRecorderAssumption DEF Item
  <2>4. out \in Seq(Frames) /\ Frames \subseteq Nat
    BY DEF TypeOK
  <2> HIDE DEF x, f, Frames
  <2>5. out \in Seq(Nat)
    BY <2>4, SeqMonotonic
  <2>6. Written = Elements(out) /\ Written' = Elements(out')
    BY DEF Written, Elements
  <2>7. Below(Elements(out), {f})
    BY <2>2, <2>6
  <2>8. Written' = Written \cup {f} /\ RisingNumbers(out')
    BY <2>1, <2>3, <2>5, <2>6, <2>7, Appended, RisingNumbersAppend
  <2>9. UNCHANGED <<Queued, InLoop, Reserved>>
    BY <2>1 DEF Queued, InLoop, Reserved
  <2>10. Ordered'
    BY <2>1, <2>2, <2>8, <2>9
  <2>11. Accounted'
    BY <2>1, <2>2, <2>8, <2>9
  <2> QED BY <2>1, <2>2, <2>8, <2>10, <2>11
<1> QED BY <1>1, <1>2, <1>3, <1>4

(* Start, and the steps of Stop that empty the recorder. *)
LEMMA ControlLine ==
  ASSUME TypeOK, TypeOK', Threads, Line, Start \/ StartFails \/ TearDown \/ ClearQueue
  PROVE  Line'
<1> USE DEF Line, Ordered, Accounted, InRow, Inside, Below
<1>1. CASE Start \/ StartFails
  <2>1. frameQueue = <<>> /\ loopItem = None /\ inPipe = <<>> /\ reserved = None
    BY <1>1 DEF Start, StartFails, Begin, Threads
  <2>2. /\ out' = <<>> /\ accepted' = {} /\ discarded' = {}
        /\ UNCHANGED <<inPipe, loopItem, frameQueue, reserved, nextFrame>>
    BY <1>1 DEF Start, StartFails, Begin, captureVars
  <2>3. /\ Queued' = {} /\ InLoop' = {} /\ InEncoder' = {} /\ Written' = {} /\ Reserved' = {}
    BY <2>1, <2>2, EmptyQueue DEF Queued, InLoop, InEncoder, Written, Reserved
  <2> QED BY <2>1, <2>2, <2>3, EmptyQueue
<1>2. CASE TearDown
  <2>1. /\ inPipe' = <<>> /\ pipeline' = "null"
        /\ UNCHANGED <<out, loopItem, frameQueue, reserved, nextFrame, accepted, discarded>>
    BY <1>2 DEF TearDown, captureVars, loopVars, historyVars
  <2>2. InEncoder' = {}
    BY <2>1, EmptyQueue DEF InEncoder
  <2>3. UNCHANGED <<Queued, InLoop, Written, Reserved>>
    BY <2>1 DEF Queued, InLoop, Written, Reserved
  <2> QED BY <2>1, <2>2, <2>3, EmptyQueue
<1>3. CASE ClearQueue
  <2>1. /\ frameQueue' = <<>> /\ pipeline = "null"
        /\ UNCHANGED <<out, inPipe, loopItem, reserved, nextFrame, accepted, discarded, pipeline>>
    BY <1>3 DEF ClearQueue, StopAfter, Threads, pipelineVars, historyVars
  <2>2. Queued' = {}
    BY <2>1, EmptyQueue DEF Queued
  <2>3. UNCHANGED <<InLoop, InEncoder, Written, Reserved>>
    BY <2>1 DEF InLoop, InEncoder, Written, Reserved
  <2> QED BY <2>1, <2>2, <2>3, EmptyQueue
<1> QED BY <1>1, <1>2, <1>3

\* The steps that change what Line speaks of.
LineStepKinds ==
  \/ DropFrame \/ SlotBusy \/ TakeSlot \/ Enqueue \/ RawPushed \/ RawRejected
  \/ PopFrame \/ PushRejected \/ PushBuffer \/ WriteFrame
  \/ Start \/ StartFails \/ TearDown \/ ClearQueue

(* All the others leave the line alone. *)
LEMMA OtherSteps ==
  ASSUME [Next]_vars, ~ LineStepKinds
  PROVE  UNCHANGED lineVars /\ (pipeline = "null" => pipeline' = "null")
<1> USE DEF lineVars, captureVars, controlVars, loopVars, pipelineVars, historyVars
<1>1. CASE PassTest \/ EvalEmpty \/ EnterWait \/ SpuriousWakeup
  BY <1>1 DEF PassTest, EvalEmpty, EnterWait, SpuriousWakeup
<1>2. CASE Release \/ EosReachesSink \/ Break \/ Bus
  BY <1>2 DEF Release, ReleaseSlot, EosReachesSink, Break, Bus, BusWatch
<1>3. CASE BeginStop \/ NotifyLoop \/ JoinSendEos
  BY <1>3 DEF BeginStop, NotifyLoop, JoinSendEos
<1>4. CASE PopMessage \/ PopExpires \/ RunMainLoop \/ QuitLoop \/ JoinLoop
  BY <1>4 DEF PopMessage, PopExpires, RunMainLoop, QuitLoop, JoinLoop
<1>5. CASE UNCHANGED vars
  BY <1>5 DEF vars
<1> QED BY <1>1, <1>2, <1>3, <1>4, <1>5
        DEF LineStepKinds, Next, Capture, PushFrame, RecorderLoop, StopSteps

(* The line is kept by every step. *)
LEMMA LineStep ==
  ASSUME TypeOK, TypeOK', Threads, Line, [Next]_vars
  PROVE  Line'
BY OtherSteps, LineKept, CaptureLine, LoopLine, ControlLine DEF LineStepKinds

----------------------------------------------------------------------------
(* The slots and their owners.                                             *)

HeldItems == ({reserved, loopItem} \ {None}) \cup Elements(frameQueue) \cup Elements(inPipe)

Owners ==
  /\ \A x, y \in HeldItems : x.slot = y.slot => x = y
  /\ \A x \in HeldItems : x.slot \notin retiring
  /\ slotInUse = retiring \cup {x.slot : x \in HeldItems}

(* A slot is handed on, taken out of the line, or was never touched. *)
LEMMA OwnersMoved ==
  ASSUME Owners, HeldItems' = HeldItems, retiring' = retiring, slotInUse' = slotInUse
  PROVE  Owners'
BY DEF Owners

(* An item leaves the line, and its slot is free or in the encoder's hands. *)
LEMMA OwnersLess ==
  ASSUME Owners, NEW x \in HeldItems, HeldItems = HeldItems' \cup {x}, x \notin HeldItems',
         \/ retiring' = retiring /\ slotInUse' = slotInUse \ {x.slot}
         \/ retiring' = retiring \cup {x.slot} /\ slotInUse' = slotInUse
  PROVE  Owners'
<1>1. \A y \in HeldItems' : y.slot # x.slot /\ y \in HeldItems
  BY DEF Owners
<1> QED BY <1>1 DEF Owners

(* A frame is held in one place: what the line says of the items. *)
LEMMA HeldOnce ==
  ASSUME TypeOK, Line
  PROVE  /\ reserved # None => reserved # loopItem
                               /\ reserved \notin Elements(frameQueue) \cup Elements(inPipe)
         /\ loopItem # None => loopItem \notin Elements(frameQueue) \cup Elements(inPipe)
         /\ Elements(frameQueue) \cap Elements(inPipe) = {}
<1>1. /\ \A x \in Elements(frameQueue) : x.frame \in Queued /\ x.frame \in Nat
      /\ \A x \in Elements(inPipe) : x.frame \in InEncoder /\ x.frame \in Nat
  <2>1. \A x \in Elements(frameQueue) \cup Elements(inPipe) : x \in Item
    BY ElementOfSeq, LenProperties DEF Elements, TypeOK
  <2>2. \A x \in Item : x.frame \in Nat
    BY GstRecorderAssumption DEF Item
  <2> QED BY <2>1, <2>2 DEF Elements, FramesIn, Queued, InEncoder
<1>2. /\ reserved # None => reserved.frame \in Nat /\ Reserved = {reserved.frame}
      /\ loopItem # None => loopItem.frame \in Nat /\ InLoop = {loopItem.frame}
  BY Stages DEF Reserved, InLoop
<1>3. \A a \in Nat : ~ (a < a)
  OBVIOUS
<1> QED BY <1>1, <1>2, <1>3 DEF Line, Ordered, Accounted, Inside, Below

(* The steps that change an owner. *)
LEMMA OwnersStep ==
  ASSUME TypeOK, Arrived, Threads, Line, Owners, [Next]_vars
  PROVE  Owners'
<1> USE DEF captureVars, controlVars, loopVars, pipelineVars, historyVars
<1>0. /\ \A x \in Elements(frameQueue) \cup Elements(inPipe) : x \in Item /\ x # None
      /\ reserved # None => reserved \in Item
      /\ loopItem # None => loopItem \in Item
  <2>1. \A x \in Elements(frameQueue) \cup Elements(inPipe) : x \in Item
    BY ElementOfSeq, LenProperties DEF Elements, TypeOK
  <2> QED BY <2>1, NoneIsNoItem DEF TypeOK
<1>1. CASE TakeSlot
  <2> DEFINE s == poolIndex
             x == [slot |-> s, frame |-> nextFrame]
  <2>1. /\ reserved = None /\ reserved' = x /\ s \notin slotInUse /\ slotInUse' = slotInUse \cup {s}
        /\ UNCHANGED <<frameQueue, loopItem, inPipe, retiring>>
    BY <1>1 DEF TakeSlot, Threads
  <2>2. x.slot = s /\ x # None
    BY <1>1, NoneIsNoItem DEF TypeOK, Arrived, TakeSlot, Item
  <2> HIDE DEF x, s
  <2>3. HeldItems' = HeldItems \cup {x}
    BY <2>1, <2>2 DEF HeldItems, Elements
  <2>4. s \notin retiring /\ \A y \in HeldItems : y.slot # s
    BY <2>1 DEF Owners
  <2> QED BY <2>1, <2>2, <2>3, <2>4 DEF Owners
<1>2. CASE Enqueue
  <2>1. /\ reserved # None /\ reserved' = None /\ frameQueue' = Append(frameQueue, reserved)
        /\ UNCHANGED <<slotInUse, loopItem, inPipe, retiring>>
    BY <1>2 DEF Enqueue
  <2>2. Elements(frameQueue') = Elements(frameQueue) \cup {reserved}
    BY <1>0, <2>1, Appended DEF TypeOK
  <2>3. HeldItems' = HeldItems
    BY <2>1, <2>2 DEF HeldItems, Elements
  <2> QED BY <2>1, <2>3, OwnersMoved
<1>3. CASE RawPushed
  <2>1. /\ reserved # None /\ reserved' = None /\ inPipe' = Append(inPipe, reserved)
        /\ UNCHANGED <<slotInUse, loopItem, frameQueue, retiring>>
    BY <1>3 DEF RawPushed
  <2>2. Elements(inPipe') = Elements(inPipe) \cup {reserved}
    BY <1>0, <2>1, Appended DEF TypeOK
  <2>3. HeldItems' = HeldItems
    BY <2>1, <2>2 DEF HeldItems, Elements
  <2> QED BY <2>1, <2>3, OwnersMoved
<1>4. CASE RawRejected
  <2>1. reserved # None /\ pipeline # "null"
    BY <1>4 DEF RawRejected, Threads
  <2>2. /\ reserved' = None /\ slotInUse' = slotInUse \ {reserved.slot}
        /\ UNCHANGED <<frameQueue, loopItem, inPipe, retiring>>
    BY <1>4, <2>1 DEF RawRejected
  <2>3. UNCHANGED <<Elements(frameQueue), Elements(inPipe)>>
    BY <2>2
  <2>4. /\ reserved \in HeldItems /\ HeldItems = HeldItems' \cup {reserved}
        /\ reserved \notin HeldItems'
    BY <2>1, <2>2, <2>3, HeldOnce DEF HeldItems
  <2> QED BY <2>2, <2>4, OwnersLess
<1>5. CASE PopFrame
  <2> DEFINE x == Head(frameQueue)
  <2>1. /\ loopPC = "eval" /\ frameQueue # <<>> /\ frameQueue' = Tail(frameQueue)
        /\ loopItem' = x
        /\ UNCHANGED <<reserved, slotInUse, inPipe, retiring>>
    BY <1>5 DEF PopFrame
  <2>2. x \in Item /\ Elements(frameQueue) = Elements(frameQueue') \cup {x} /\ loopItem = None
    BY <2>1, HeadTaken DEF TypeOK, Threads
  <2> HIDE DEF x
  <2>3. x # None
    BY <2>2, NoneIsNoItem
  <2>4. HeldItems' = HeldItems
    BY <2>1, <2>2, <2>3 DEF HeldItems
  <2> QED BY <2>1, <2>4, OwnersMoved
<1>6. CASE PushRejected
  <2>1. /\ loopItem # None /\ loopItem' = None /\ slotInUse' = slotInUse \ {loopItem.slot}
        /\ UNCHANGED <<reserved, frameQueue, inPipe, retiring>>
    BY <1>6 DEF PushRejected, Threads
  <2>2. UNCHANGED <<Elements(frameQueue), Elements(inPipe)>>
    BY <2>1
  <2>3. /\ loopItem \in HeldItems /\ HeldItems = HeldItems' \cup {loopItem}
        /\ loopItem \notin HeldItems'
    BY <2>1, <2>2, HeldOnce DEF HeldItems
  <2> QED BY <2>1, <2>3, OwnersLess
<1>7. CASE PushBuffer
  <2>1. /\ loopItem # None /\ loopItem' = None /\ inPipe' = Append(inPipe, loopItem)
        /\ UNCHANGED <<reserved, frameQueue, slotInUse, retiring>>
    BY <1>7 DEF PushBuffer, Threads
  <2>2. Elements(inPipe') = Elements(inPipe) \cup {loopItem}
    BY <1>0, <2>1, Appended DEF TypeOK
  <2>3. HeldItems' = HeldItems
    BY <2>1, <2>2 DEF HeldItems, Elements
  <2> QED BY <2>1, <2>3, OwnersMoved
<1>8. CASE WriteFrame
  <2> DEFINE x == Head(inPipe)
  <2>1. /\ inPipe # <<>> /\ inPipe' = Tail(inPipe) /\ retiring' = retiring \cup {x.slot}
        /\ UNCHANGED <<reserved, frameQueue, loopItem, slotInUse>>
    BY <1>8 DEF WriteFrame
  <2>2. /\ x \in Item /\ Elements(inPipe) = Elements(inPipe') \cup {x}
        /\ Below({x.frame}, FramesIn(inPipe'))
    BY <2>1, HeadTaken, RisingTail DEF TypeOK, Line, InRow
  <2> HIDE DEF x
  <2>3. x.frame \in Nat
    BY <2>2, GstRecorderAssumption DEF Item
  <2>4. x \notin Elements(inPipe')
    <3>1. x \in Elements(inPipe') => x.frame \in FramesIn(inPipe')
      BY DEF FramesIn, Elements
    <3>2. ~ (x.frame < x.frame)
      BY <2>3
    <3> QED BY <2>2, <3>1, <3>2 DEF Below
  <2>5. /\ x \in HeldItems /\ HeldItems = HeldItems' \cup {x} /\ x \notin HeldItems'
    BY <1>0, <2>1, <2>2, <2>4, HeldOnce DEF HeldItems
  <2> QED BY <2>1, <2>5, OwnersLess
<1>9. ASSUME NEW s \in Slots, ReleaseSlot(s)
      PROVE  Owners'
  <2>1. /\ s \in retiring /\ retiring' = retiring \ {s} /\ slotInUse' = slotInUse \ {s}
        /\ UNCHANGED <<reserved, frameQueue, loopItem, inPipe>>
    BY <1>9 DEF ReleaseSlot
  <2>2. HeldItems' = HeldItems
    BY <2>1 DEF HeldItems, Elements
  <2> QED BY <2>1, <2>2 DEF Owners
<1>10. CASE TearDown
  <2>1. reserved = None /\ loopItem = None
    BY <1>10 DEF TearDown, StopAfter, Threads
  <2>2. /\ slotInUse' = slotInUse \ (retiring \cup {inPipe[i].slot : i \in 1 .. Len(inPipe)})
        /\ inPipe' = <<>> /\ retiring' = {}
        /\ UNCHANGED <<reserved, frameQueue, loopItem>>
    BY <1>10 DEF TearDown
  <2>3. /\ HeldItems = Elements(frameQueue) \cup Elements(inPipe)
        /\ HeldItems' = Elements(frameQueue)
    BY <1>0, <2>1, <2>2, EmptyQueue DEF HeldItems
  <2>4. {x.slot : x \in Elements(inPipe)} = {inPipe[i].slot : i \in 1 .. Len(inPipe)}
    BY DEF Elements
  <2>5. ASSUME NEW x \in Elements(frameQueue), NEW y \in Elements(inPipe)
        PROVE  x.slot # y.slot
    <3>1. x # y
      BY HeldOnce, <2>5
    <3> QED BY <2>3, <3>1 DEF Owners
  <2>6. slotInUse' = {x.slot : x \in Elements(frameQueue)}
    <3> DEFINE A == {x.slot : x \in Elements(frameQueue)}
               B == {x.slot : x \in Elements(inPipe)}
    <3>1. {x.slot : x \in HeldItems} = A \cup B
      BY <2>3
    <3>2. A \cap B = {}
      BY <2>5
    <3>3. A \cap retiring = {}
      BY <2>3 DEF Owners
    <3>4. slotInUse = retiring \cup A \cup B
      BY <3>1 DEF Owners
    <3>5. slotInUse' = slotInUse \ (retiring \cup B)
      BY <2>2, <2>4
    <3> HIDE DEF A, B
    <3>6. slotInUse' = A
      BY <3>2, <3>3, <3>4, <3>5
    <3> QED BY <3>6 DEF A
  <2> QED BY <2>2, <2>3, <2>6 DEF Owners
<1>11. CASE ClearQueue
  <2>1. /\ reserved = None /\ loopItem = None /\ inPipe = <<>> /\ retiring = {}
    BY <1>11 DEF ClearQueue, StopAfter, Threads
  <2>2. /\ frameQueue' = <<>> /\ slotInUse' = {}
        /\ UNCHANGED <<reserved, loopItem, inPipe, retiring>>
    BY <1>11 DEF ClearQueue
  <2>3. HeldItems' = {}
    BY <2>1, <2>2, EmptyQueue DEF HeldItems
  <2> QED BY <2>1, <2>2, <2>3 DEF Owners
<1>12. CASE UNCHANGED <<reserved, frameQueue, loopItem, inPipe, retiring, slotInUse>>
  <2>1. HeldItems' = HeldItems
    BY <1>12 DEF HeldItems, Elements
  <2> QED BY <1>12, <2>1, OwnersMoved
<1>13. CASE \/ Start \/ StartFails \/ DropFrame \/ PassTest \/ SlotBusy
            \/ EvalEmpty \/ EnterWait \/ SpuriousWakeup
  BY <1>12, <1>13 DEF Start, StartFails, Begin, DropFrame, PassTest, SlotBusy, EvalEmpty,
                      EnterWait, SpuriousWakeup
<1>14. CASE EosReachesSink \/ Break \/ Bus
  BY <1>12, <1>14 DEF EosReachesSink, Break, Bus, BusWatch
<1>15. CASE \/ BeginStop \/ NotifyLoop \/ JoinSendEos \/ PopMessage \/ PopExpires
            \/ RunMainLoop \/ QuitLoop \/ JoinLoop
  BY <1>12, <1>15 DEF BeginStop, NotifyLoop, JoinSendEos, PopMessage, PopExpires,
                      RunMainLoop, QuitLoop, JoinLoop
<1>16. CASE UNCHANGED vars
  BY <1>12, <1>16 DEF vars
<1> QED BY <1>1, <1>2, <1>3, <1>4, <1>5, <1>6, <1>7, <1>8, <1>9, <1>10, <1>11, <1>13, <1>14,
           <1>15, <1>16
        DEF Next, Capture, PushFrame, RecorderLoop, Release, StopSteps

(* The owners' queues, one behind the other, hold no slot twice. *)
LEMMA OwnersAreHeld ==
  ASSUME TypeOK, Line, Owners
  PROVE  SlotHasOneOwner
<1> DEFINE single(item) == IF item = None THEN <<>> ELSE <<item>>
           a == single(reserved)
           b == single(loopItem)
           ab == a \o frameQueue
           abc == ab \o b
           items == a \o frameQueue \o b \o inPipe
<1>1. /\ a \in Seq(Item) /\ Distinct(a) /\ Elements(a) = {reserved} \ {None}
      /\ FramesIn(a) = Reserved
  <2>1. CASE reserved = None
    BY <2>1, EmptyQueue, EmptySeq DEF Reserved
  <2>2. CASE reserved # None
    BY <2>2, Stages, SingleQueue DEF Reserved
  <2> QED BY <2>1, <2>2
<1>2. /\ b \in Seq(Item) /\ Distinct(b) /\ Elements(b) = {loopItem} \ {None}
      /\ FramesIn(b) = InLoop
  <2>1. CASE loopItem = None
    BY <2>1, EmptyQueue, EmptySeq DEF InLoop
  <2>2. CASE loopItem # None
    BY <2>2, Stages, SingleQueue DEF InLoop
  <2> QED BY <2>1, <2>2
<1> HIDE DEF a, b
<1>3. /\ frameQueue \in Seq(Item) /\ Distinct(frameQueue) /\ FramesIn(frameQueue) = Queued
      /\ inPipe \in Seq(Item) /\ Distinct(inPipe) /\ FramesIn(inPipe) = InEncoder
  <2>1. \A x \in Item : x.frame \in Nat
    BY GstRecorderAssumption DEF Item
  <2> QED BY <2>1, RisingDistinct DEF TypeOK, Line, InRow, Queued, InEncoder
<1>4. /\ Reserved \cap Queued = {} /\ (Reserved \cup Queued) \cap InLoop = {}
      /\ (Reserved \cup Queued \cup InLoop) \cap InEncoder = {}
  <2>1. \A f \in Reserved \cup Queued \cup InLoop \cup InEncoder : f \in Nat /\ ~ (f < f)
    <3>1. Queued \subseteq Nat /\ InLoop \subseteq Nat /\ InEncoder \subseteq Nat
      BY Stages DEF Line, Accounted, Inside
    <3>2. Reserved \subseteq Nat
      BY Stages DEF Reserved
    <3> QED BY <3>1, <3>2
  <2> QED BY <2>1 DEF Line, Ordered, Accounted, Inside, Below
<1>5. /\ ab \in Seq(Item) /\ Distinct(ab) /\ FramesIn(ab) = Reserved \cup Queued
      /\ Elements(ab) = ({reserved} \ {None}) \cup Elements(frameQueue)
  BY <1>1, <1>3, <1>4, Joined
<1> HIDE DEF ab
<1>6. /\ abc \in Seq(Item) /\ Distinct(abc) /\ FramesIn(abc) = (Reserved \cup Queued) \cup InLoop
      /\ Elements(abc)
           = (({reserved} \ {None}) \cup Elements(frameQueue)) \cup ({loopItem} \ {None})
  BY <1>2, <1>4, <1>5, Joined
<1> HIDE DEF abc
<1>7. /\ Distinct(abc \o inPipe)
      /\ Elements(abc \o inPipe) = Elements(abc) \cup Elements(inPipe)
  BY <1>3, <1>4, <1>6, Joined
<1>8. items = abc \o inPipe /\ Elements(items) = HeldItems
  BY <1>6, <1>7 DEF HeldItems, abc, ab
<1>9. HeldSlots = [i \in 1 .. Len(items) |-> items[i].slot]
  BY DEF HeldSlots, a, b
<1> HIDE DEF items
<1>10. \A x, y \in Elements(items) : x.slot = y.slot => x.frame = y.frame
  BY <1>8 DEF Owners
<1>11. /\ \A i, j \in DOMAIN HeldSlots : i # j => HeldSlots[i] # HeldSlots[j]
       /\ {HeldSlots[i] : i \in DOMAIN HeldSlots} = {x.slot : x \in HeldItems}
  <2>1. Distinct(items)
    BY <1>7, <1>8
  <2>2. DOMAIN HeldSlots = 1 .. Len(items) /\ \A i \in 1 .. Len(items) : HeldSlots[i] = items[i].slot
    BY <1>9
  <2> DEFINE held == HeldSlots
  <2> HIDE DEF held
  <2>3. DOMAIN held = 1 .. Len(items) /\ \A i \in 1 .. Len(items) : held[i] = items[i].slot
    BY <2>2 DEF held
  <2>4. /\ \A i, j \in DOMAIN held : i # j => held[i] # held[j]
        /\ {held[i] : i \in DOMAIN held} = {x.slot : x \in Elements(items)}
    BY <1>10, <2>1, <2>3, SlotsDistinct
  <2> QED BY <1>8, <2>4 DEF held
<1>12. \A i \in DOMAIN HeldSlots : HeldSlots[i] \in {x.slot : x \in HeldItems}
  BY <1>11
<1>13. \A i \in DOMAIN HeldSlots : HeldSlots[i] \notin retiring
  BY <1>12 DEF Owners
<1> QED BY <1>11, <1>13 DEF SlotHasOneOwner, Owners

----------------------------------------------------------------------------
(* The invariant and what follows from it.                                 *)

RecorderInv == ~straddled => Threads /\ Line /\ Owners

(* The variables have their types initially. *)
LEMMA InitTyped == Init => Typed
<1> SUFFICES ASSUME Init
             PROVE  Typed
  OBVIOUS
<1>1. \A S : <<>> \in Seq(S)
  BY EmptySeq
<1>2. 0 \in Slots /\ 0 \in 0 .. MaxRecordings /\ 1 \in 1 .. MaxFrames + 1
  BY GstRecorderAssumption DEF Slots
<1>3. TypeOK
  BY <1>1, <1>2 DEF Init, TypeOK
<1> QED BY <1>3 DEF Typed, Holding, Arrived, Init

(* Nothing is in the recorder initially. *)
LEMMA InitRecorder == Init => RecorderInv
<1> SUFFICES ASSUME Init
             PROVE  Threads /\ Line /\ Owners
  BY DEF RecorderInv
<1>1. Threads
  BY DEF Init, Threads
<1>2. /\ Queued = {} /\ InLoop = {} /\ InEncoder = {} /\ Written = {} /\ Reserved = {}
  BY EmptyQueue DEF Init, Queued, InLoop, InEncoder, Written, Reserved
<1>3. Line
  BY <1>2, EmptyQueue DEF Init, Line, Ordered, Accounted, Inside, InRow, Below
<1>4. Owners
  BY EmptyQueue DEF Init, Owners, HeldItems
<1> QED BY <1>1, <1>3, <1>4

(* Both hold always. *)
LEMMA RecorderAlways == Spec => []Typed /\ []RecorderInv
<1>1. Typed /\ [Next]_vars => Typed'
  BY TypeStep
<1>2. Typed /\ Typed' /\ RecorderInv /\ [Next]_vars => RecorderInv'
  BY StraddledStays, ThreadsStep, LineStep, OwnersStep DEF RecorderInv, Typed
<1> QED BY <1>1, <1>2, InitTyped, InitRecorder, PTL DEF Spec

(* The values of every variable: the pool index stays that of a slot, and  *)
(* nothing but a slot's frame is queued, pushed or given back.             *)
THEOREM GstTypeCorrect == Spec => []TypeOK
BY RecorderAlways, PTL DEF Typed

(* A slot has one owner and a slot without an owner is free, over failed   *)
(* pipelines, flow errors that leave the queue full, and restarts, until a *)
(* Stop begins during a PushFrame.                                         *)
THEOREM GstSlotHasOneOwner == Spec => []SlotHasOneOwner
<1>1. Typed /\ RecorderInv => SlotHasOneOwner
  <2>1. CASE straddled
    BY <2>1 DEF SlotHasOneOwner
  <2>2. CASE ~straddled
    BY <2>2, OwnersAreHeld DEF Typed, RecorderInv
  <2> QED BY <2>1, <2>2
<1> QED BY <1>1, RecorderAlways, PTL

(* A Stop that did not run out of its 10 seconds tears a working pipeline  *)
(* down when every frame is in the file.                                   *)
THEOREM GstStopFlushes == Spec => []StopFlushes
<1>1. ASSUME Typed, RecorderInv, stopPC = "teardown", pipeline = "up", ~timedOut, ~straddled
      PROVE  accepted = Written \cup discarded
  <2>1. frameQueue = <<>> /\ loopItem = None /\ inPipe = <<>>
    BY <1>1 DEF RecorderInv, Threads
  <2>2. Inside = {}
    BY <2>1, EmptyQueue DEF Inside, Queued, InLoop, InEncoder
  <2> QED BY <1>1, <2>2 DEF RecorderInv, Line, Accounted
<1>2. Typed /\ RecorderInv => StopFlushes
  BY <1>1 DEF StopFlushes
<1> QED BY <1>2, RecorderAlways, PTL

----------------------------------------------------------------------------
(* The recorder implements LaneContract.                                   *)

(* The steps of the recorder are steps of the contract; the Stop that      *)
(* begins during a PushFrame is its Restart, the last step it takes.       *)
LEMMA RecorderStepIsContractStep ==
  ASSUME Typed, RecorderInv, [Next]_vars
  PROVE  [Contract!LaneNext]_(Contract!laneVars)
<1> USE DEF captureVars, controlVars, loopVars, pipelineVars, historyVars
<1>1. CASE straddled
  <2>1. straddled'
    BY <1>1, StraddledStays
  <2> QED BY <1>1, <2>1 DEF Contract!laneVars
<1>2. CASE ~straddled /\ straddled'
  <2>1. Contract!Restart
    BY <1>2 DEF Contract!Restart
  <2> QED BY <2>1 DEF Contract!LaneNext
<1>3. ASSUME ~straddled, ~straddled', UNCHANGED <<accepted, out, discarded>>
      PROVE  [Contract!LaneNext]_(Contract!laneVars)
  BY <1>3 DEF Contract!laneVars
<1>4. ASSUME ~straddled, ~straddled', Start \/ StartFails
      PROVE  [Contract!LaneNext]_(Contract!laneVars)
  <2>1. out' = <<>> /\ accepted' = {} /\ discarded' = {}
    BY <1>4 DEF Start, StartFails, Begin
  <2>2. Contract!Restart
    BY <1>4, <2>1 DEF Contract!Restart
  <2> QED BY <2>2 DEF Contract!LaneNext
<1>5. ASSUME ~straddled, ~straddled', Enqueue \/ RawPushed
      PROVE  [Contract!LaneNext]_(Contract!laneVars)
  <2>1. reserved \in Item /\ reserved.frame \in 1 .. MaxFrames /\ Reserved = {reserved.frame}
    BY <1>5 DEF Enqueue, RawPushed, Reserved, Typed, TypeOK, Item
  <2>2. PICK f \in 1 .. MaxFrames : f = reserved.frame
    BY <2>1
  <2>3. accepted' = accepted \cup {f} /\ UNCHANGED <<out, discarded>>
    BY <1>5, <2>2 DEF Enqueue, RawPushed
  <2>4. \A g \in accepted : g < f
    BY <1>5, <2>1, <2>2 DEF RecorderInv, Line, Ordered, Below
  <2>5. Contract!Accept(f)
    BY <1>5, <2>3, <2>4 DEF Contract!Accept
  <2> QED BY <2>5 DEF Contract!LaneNext
<1>6. ASSUME ~straddled, ~straddled', PushRejected
      PROVE  [Contract!LaneNext]_(Contract!laneVars)
  <2>1. loopItem # None /\ loopItem.frame \in 1 .. MaxFrames /\ InLoop = {loopItem.frame}
    BY <1>6 DEF PushRejected, RecorderInv, Threads, InLoop, Typed, TypeOK, Item
  <2>2. PICK f \in 1 .. MaxFrames : f = loopItem.frame
    BY <2>1
  <2>3. discarded' = discarded \cup {f} /\ UNCHANGED <<out, accepted>>
    BY <1>6, <2>2 DEF PushRejected
  <2>4. f \in accepted /\ f \notin Written
    <3>1. ~ (f < f)
      OBVIOUS
    <3> QED BY <1>6, <2>1, <2>2, <3>1 DEF RecorderInv, Line, Accounted, Inside, Ordered, Below
  <2>5. Contract!CameOut = Written
    BY <1>6 DEF Contract!CameOut, Written
  <2>6. Contract!GiveUp(f)
    BY <1>6, <2>3, <2>4, <2>5 DEF Contract!GiveUp
  <2> QED BY <2>6 DEF Contract!LaneNext
<1>7. ASSUME ~straddled, ~straddled', WriteFrame
      PROVE  [Contract!LaneNext]_(Contract!laneVars)
  <2>1. Head(inPipe) \in Item /\ Head(inPipe).frame \in InEncoder
    BY <1>7, HeadTaken DEF WriteFrame, Typed, TypeOK, InEncoder
  <2>2. PICK f \in 1 .. MaxFrames : f = Head(inPipe).frame
    BY <2>1 DEF Item
  <2>3. out' = Append(out, f) /\ UNCHANGED <<accepted, discarded>>
    BY <1>7, <2>2 DEF WriteFrame
  <2>4. f \in accepted /\ f \notin discarded /\ \A g \in Written : g < f
    BY <1>7, <2>1, <2>2 DEF RecorderInv, Line, Accounted, Inside, Ordered, Below
  <2>5. Contract!CameOut = Written
    BY <1>7 DEF Contract!CameOut, Written
  <2>6. Contract!Deliver(f)
    BY <1>7, <2>3, <2>4, <2>5 DEF Contract!Deliver
  <2> QED BY <2>6 DEF Contract!LaneNext
<1>8. CASE DropFrame \/ PassTest \/ SlotBusy \/ TakeSlot \/ RawRejected
  BY <1>1, <1>2, <1>3, <1>8 DEF DropFrame, PassTest, SlotBusy, TakeSlot, RawRejected
<1>9. CASE PopFrame \/ EvalEmpty \/ EnterWait \/ SpuriousWakeup \/ PushBuffer
  BY <1>1, <1>2, <1>3, <1>9 DEF PopFrame, EvalEmpty, EnterWait, SpuriousWakeup, PushBuffer
<1>10. CASE Release \/ EosReachesSink \/ Break \/ Bus
  BY <1>1, <1>2, <1>3, <1>10 DEF Release, ReleaseSlot, EosReachesSink, Break, Bus, BusWatch
<1>11. CASE BeginStop \/ NotifyLoop \/ JoinSendEos
  BY <1>1, <1>2, <1>3, <1>11 DEF BeginStop, NotifyLoop, JoinSendEos
<1>12. CASE PopMessage \/ PopExpires \/ RunMainLoop \/ QuitLoop \/ JoinLoop \/ TearDown
            \/ ClearQueue
  BY <1>1, <1>2, <1>3, <1>12 DEF PopMessage, PopExpires, RunMainLoop, QuitLoop, JoinLoop,
                                 TearDown, ClearQueue
<1>13. CASE UNCHANGED vars
  BY <1>1, <1>2, <1>3, <1>13 DEF vars
<1> QED BY <1>1, <1>2, <1>4, <1>5, <1>6, <1>7, <1>8, <1>9, <1>10, <1>11, <1>12, <1>13
        DEF Next, Capture, PushFrame, RecorderLoop, StopSteps

(* Every behaviour of the recorder is one that LaneContract allows: the    *)
(* file holds frames of its own recording, each once and in order.         *)
THEOREM GstImplementsContract == Spec => ImplementsContract
<1>1. Init => Contract!LaneInit
  BY DEF Init, Contract!LaneInit
<1>2. Typed /\ RecorderInv /\ [Next]_vars => [Contract!LaneNext]_(Contract!laneVars)
  BY RecorderStepIsContractStep
<1> QED BY <1>1, <1>2, RecorderAlways, PTL DEF Spec, ImplementsContract, Contract!LaneSpec
=============================================================================
