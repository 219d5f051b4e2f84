---------------------------- MODULE GstPreviewer ----------------------------
(***************************************************************************)
(* src/src/gst_previewer.cpp without its key handler (XimeaManager): the   *)
(* capture thread copies a frame now and then into one GPU buffer, and the *)
(* thread of PreviewLoop copies that buffer to the display at the display  *)
(* rate, new or not.  Two mutexes: data_mutex_ around the throttle and     *)
(* around the publication (one step each), gpu_copy_mutex_ around each of  *)
(* the two copies, which take time.                                        *)
(*                                                                         *)
(* A picture is the number of its frame.  A buffer read while it is being  *)
(* written gives Torn, and one that has been freed gives Freed.            *)
(***************************************************************************)
EXTENDS Integers

Empty == 0
Torn  == -1
Freed == -2

VARIABLES
  previewing,     \* keep_running_
  frameAvailable, \* frame_available_
  gpuCopyMutex,   \* gpu_copy_mutex_: "free", "update", "loop"
  previewGray8,   \* preview_gray8_gpu_
  pinnedBuffer,   \* pinned_buffer_
  updatePC,       \* UpdateFrame: "idle", "copy", "copying", "publish"
  previewPC,      \* PreviewLoop: "check", "copy", "copying", "push", "done"
  sinkUp,         \* a display buffer can be had, and the display takes it
  shown           \* history: the last picture pushed to the display

previewVars == <<previewing, frameAvailable, gpuCopyMutex, previewGray8, pinnedBuffer,
                 updatePC, previewPC, sinkUp, shown>>

\* Start has succeeded.
PreviewInit ==
  /\ previewing = TRUE /\ frameAvailable = FALSE /\ gpuCopyMutex = "free"
  /\ previewGray8 = Empty /\ pinnedBuffer = Empty
  /\ updatePC = "idle" /\ previewPC = "check" /\ sinkUp = TRUE /\ shown = Empty

----------------------------------------------------------------------------
(* UpdateFrame, on the capture thread.  Whether the copy is due is a       *)
(* matter of time, except for the first one.                               *)
NotDue ==
  /\ updatePC = "idle" /\ (frameAvailable \/ previewGray8 = Freed)
  /\ UNCHANGED previewVars

CopyDue ==
  /\ updatePC = "idle" /\ previewGray8 # Freed
  /\ updatePC' = "copy"
  /\ UNCHANGED <<previewing, frameAvailable, gpuCopyMutex, previewGray8, pinnedBuffer,
                 previewPC, sinkUp, shown>>

\* Mutant: the copy starts without gpu_copy_mutex_.
BeginCopyInUnlocked ==
  /\ updatePC = "copy"
  /\ previewGray8' = Torn /\ updatePC' = "copying"
  /\ UNCHANGED <<previewing, frameAvailable, gpuCopyMutex, pinnedBuffer, previewPC,
                 sinkUp, shown>>

BeginCopyIn ==
  /\ updatePC = "copy" /\ gpuCopyMutex = "free"
  /\ gpuCopyMutex' = "update"
  /\ previewGray8' = Torn /\ updatePC' = "copying"
  /\ UNCHANGED <<previewing, frameAvailable, pinnedBuffer, previewPC, sinkUp, shown>>

EndCopyIn(picture) ==
  /\ updatePC = "copying"
  /\ gpuCopyMutex' = "free"
  /\ previewGray8' = picture /\ updatePC' = "publish"
  /\ UNCHANGED <<previewing, frameAvailable, pinnedBuffer, previewPC, sinkUp, shown>>

Publish ==
  /\ updatePC = "publish"
  /\ frameAvailable' = TRUE /\ updatePC' = "idle"
  /\ UNCHANGED <<previewing, gpuCopyMutex, previewGray8, pinnedBuffer, previewPC, sinkUp,
                 shown>>

----------------------------------------------------------------------------
(* PreviewLoop.  Waiting for a frame and sleeping change nothing.          *)
CheckFrame ==
  /\ previewPC = "check" /\ previewing /\ frameAvailable
  /\ previewPC' = "copy"
  /\ UNCHANGED <<previewing, frameAvailable, gpuCopyMutex, previewGray8, pinnedBuffer,
                 updatePC, sinkUp, shown>>

BeginCopyOut ==
  /\ previewPC = "copy" /\ gpuCopyMutex = "free"
  /\ gpuCopyMutex' = "loop"
  /\ pinnedBuffer' = previewGray8 /\ previewPC' = "copying"
  /\ UNCHANGED <<previewing, frameAvailable, previewGray8, updatePC, sinkUp, shown>>

EndCopyOut ==
  /\ previewPC = "copying"
  /\ gpuCopyMutex' = "free"
  /\ pinnedBuffer' = IF previewGray8 = pinnedBuffer THEN pinnedBuffer ELSE Torn
  /\ previewPC' = "push"
  /\ UNCHANGED <<previewing, frameAvailable, previewGray8, updatePC, sinkUp, shown>>

\* Mutant: the frame counts as consumed once it has been shown.
PushAndConsume ==
  /\ previewPC = "push"
  /\ shown' = IF sinkUp THEN pinnedBuffer ELSE shown
  /\ frameAvailable' = FALSE /\ previewPC' = "check"
  /\ UNCHANGED <<previewing, gpuCopyMutex, previewGray8, pinnedBuffer, updatePC, sinkUp>>

\* A picture for which no buffer can be had or mapped (continue), or whose
\* buffer the display does not take, is dropped with a warning.
PushBuffer ==
  /\ previewPC = "push"
  /\ shown' = IF sinkUp THEN pinnedBuffer ELSE shown
  /\ previewPC' = "check"
  /\ UNCHANGED <<previewing, frameAvailable, gpuCopyMutex, previewGray8, pinnedBuffer,
                 updatePC, sinkUp>>

PreviewExit ==
  /\ previewPC = "check" /\ ~previewing
  /\ previewPC' = "done"
  /\ UNCHANGED <<previewing, frameAvailable, gpuCopyMutex, previewGray8, pinnedBuffer,
                 updatePC, sinkUp, shown>>

SinkFails ==
  /\ sinkUp /\ sinkUp' = FALSE
  /\ UNCHANGED <<previewing, frameAvailable, gpuCopyMutex, previewGray8, pinnedBuffer,
                 updatePC, previewPC, shown>>

SinkRecovers ==
  /\ ~sinkUp /\ sinkUp' = TRUE
  /\ UNCHANGED <<previewing, frameAvailable, gpuCopyMutex, previewGray8, pinnedBuffer,
                 updatePC, previewPC, shown>>

----------------------------------------------------------------------------
(* Stop, from the thread that stops the manager.                           *)
ClearKeepRunning ==
  /\ previewing /\ previewing' = FALSE
  /\ UNCHANGED <<frameAvailable, gpuCopyMutex, previewGray8, pinnedBuffer, updatePC,
                 previewPC, sinkUp, shown>>

\* Once the preview thread is joined nobody pushes or copies any more: the
\* end of stream, the end of the main loop (XimeaManager: QuitPreviewLoop,
\* StopPreviewer) and of the pipeline change nothing here, the two buffers are
\* freed.
JoinAndFree ==
  /\ ~previewing /\ previewPC = "done" /\ previewGray8 # Freed
  /\ previewGray8' = Freed /\ pinnedBuffer' = Freed
  /\ UNCHANGED <<previewing, frameAvailable, gpuCopyMutex, updatePC, previewPC, sinkUp,
                 shown>>

----------------------------------------------------------------------------
PreviewTypeOK(Frame) ==
  /\ previewing \in BOOLEAN /\ frameAvailable \in BOOLEAN /\ sinkUp \in BOOLEAN
  /\ gpuCopyMutex \in {"free", "update", "loop"}
  /\ {previewGray8, pinnedBuffer} \subseteq Frame \cup {Empty, Torn, Freed}
  /\ updatePC \in {"idle", "copy", "copying", "publish"}
  /\ previewPC \in {"check", "copy", "copying", "push", "done"}
  /\ shown \in Frame \cup {Empty}

(* The display never shows a picture that was being overwritten or had     *)
(* been freed, and never an older one than before.                         *)
DisplayMovesForward == [][shown' >= shown]_shown
=============================================================================
