---------------------------- MODULE FrameCallback ----------------------------
(***************************************************************************)
(* The frame callback of src/src/ximea_manager.cpp: the capture thread     *)
(* hands the camera's buffer to the recorder (FrameOwnership) and then to  *)
(* the previewer (GstPreviewer), and the buffer is the camera's again when *)
(* the callback returns.  XimeaManager::Stop joins the capture thread      *)
(* before it stops the previewer.                                          *)
(*                                                                         *)
(* UpdateFrame's cudaMemcpy is taken to be synchronous, as its comment     *)
(* says; being on the default stream it also waits for record_stream_.     *)
(***************************************************************************)
EXTENDS FrameOwnership, GstPreviewer

VARIABLE closed  \* XimeaCapture::Close has returned

vars == <<ownershipVars, previewVars, closed>>

Init == OwnershipInit /\ PreviewInit /\ closed = FALSE

----------------------------------------------------------------------------
CallbackReturns ==
  /\ callback = "preview" /\ callback' = "idle"
  /\ UNCHANGED <<path, exposed, current, nextSlot, slot, stream, buffer, slotInUse, ready,
                 encoding, closed>>

UpdateSkipped  == NotDue /\ CallbackReturns
UpdateReturns  == Publish /\ CallbackReturns
UpdateDecides  == callback = "preview" /\ CopyDue
UpdateFinishes == BlockingStreamsIdle /\ EndCopyIn(CameraBuffer(current))

UpdateFrame ==
  \/ UpdateSkipped \/ UpdateReturns
  \/ UpdateDecides /\ UNCHANGED <<ownershipVars, closed>>
  \/ BeginCopyIn /\ UNCHANGED <<ownershipVars, closed>>
  \/ UpdateFinishes /\ UNCHANGED <<ownershipVars, closed>>

\* PreviewLoop's copy is on the default stream, too.
PreviewLoop ==
  /\ \/ CheckFrame \/ BeginCopyOut
     \/ BlockingStreamsIdle /\ EndCopyOut
     \/ PushBuffer \/ PreviewExit
  /\ UNCHANGED <<ownershipVars, closed>>

\* XimeaManager::Stop joins the capture thread, flushes the recorder, and
\* then stops the previewer.
CloseCamera ==
  /\ ~closed /\ callback = "idle" /\ closed' = TRUE
  /\ UNCHANGED <<ownershipVars, previewVars>>

StopPreviewer ==
  /\ closed /\ ready = <<>> /\ encoding = {}
  /\ ClearKeepRunning \/ JoinAndFree
  /\ UNCHANGED <<ownershipVars, closed>>

Callback ==
  /\ GetImage /\ ~closed
  /\ UNCHANGED <<previewVars, closed>>

CameraAndRecorder ==
  /\ Expose \/ Recorder
  /\ UNCHANGED <<previewVars, closed>>

Device ==
  /\ \E s \in Streams : RunCopy(s)
  /\ UNCHANGED <<previewVars, closed>>

DisplayChanges ==
  /\ SinkFails \/ SinkRecovers
  /\ UNCHANGED <<ownershipVars, closed>>

Next ==
  \/ Callback \/ UpdateFrame \/ PreviewLoop \/ CameraAndRecorder \/ Device
  \/ DisplayChanges
  \/ CloseCamera \/ StopPreviewer

Spec == Init /\ [][Next]_vars

(* The device finishes what it was given, a thread that can run runs, and  *)
(* a callback that has begun goes on; camera, display and Stop owe nothing.*)
FairSpec ==
  /\ Spec
  /\ WF_vars(PreviewLoop) /\ WF_vars(UpdateFrame)
  /\ WF_vars(Device)

----------------------------------------------------------------------------
TypeOK ==
  /\ path \in Paths /\ exposed \in 0 .. MaxFrames /\ current \in 0 .. exposed
  /\ callback \in {"idle", "record", "wait", "preview"} 
  /\ {slot, nextSlot} \subseteq Slots
  /\ slotInUse \subseteq Slots /\ closed \in BOOLEAN
  /\ buffer \in [1 .. Last -> [Slots -> 0 .. MaxFrames]]
  /\ \A s \in Streams : \A j \in DOMAIN stream[s] :
       stream[s][j] \in [frame : Frames, slot : Slots, copy : 1 .. Last]
  /\ \A item \in encoding \cup {ready[j] : j \in DOMAIN ready} :
       item \in [frame : Frames, slot : Slots] /\ item.slot \in slotInUse
  /\ PreviewTypeOK(Frames)

(* The display catches up with the last picture copied for the preview,    *)
(* however often: none waits for the next one to push it out.  Unless the  *)
(* display fails or the previewer is stopped.                              *)
PreviewKeepsUp ==
  []<>(\/ previewGray8 # Torn /\ shown >= previewGray8
       \/ ~sinkUp \/ ~previewing)
=============================================================================
