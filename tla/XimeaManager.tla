---------------------------- MODULE XimeaManager ----------------------------
(***************************************************************************)
(* src/src/ximea_manager.cpp with the threads that call into it: main      *)
(* (src/src/main.cpp: Start, the telemetry loop, Stop), the previewer's    *)
(* main-loop thread (on_key), the capture thread (XimeaCapture) and the    *)
(* SIGINT handler.  The recorder is a switch whose Start and Stop exclude  *)
(* each other (stop_mutex_) and take time; EncoderLane and RecordingStream *)
(* say what happens inside.  SIGINT is delivered to the main thread.       *)
(***************************************************************************)
EXTENDS Integers

CONSTANT MaxKeys  \* bound: 'r' and 'q' key presses

ASSUME ManagerAssumption == MaxKeys \in Nat

VARIABLES
  main,           \* where the main thread is
  mainKeepRunning, \* keep_running of main.cpp
  isRunning, isRecording, \* is_running_, is_recording_
  recordingIndex, \* recording_index_
  loop,           \* preview main-loop thread: "off", "idle", in on_key or in on_error
  keys,           \* key presses so far
  recorder,       \* MultiNvRecorder::started_
  keepCapturing,  \* XimeaCapture::keep_running_
  capture,        \* capture thread: "off", "loop" (at the test of keep_running_), "image"
                  \* (in xiGetImage), "push" (in PushFrame), "refused" (in PushFrame,
                  \* with an error), "failing" (in on_error), "done"
  reporting,      \* threads in main's error callback, waiting for g_cout_mutex
  interrupted,    \* history: Ctrl+C was pressed
  failed,         \* history: the camera, the preview or a recorder reported an error
  quit            \* history: 'q' was pressed while is_running_ was set

vars == <<main, mainKeepRunning, isRunning, isRecording, recordingIndex, loop, keys,
          recorder, keepCapturing, capture, reporting, interrupted, failed, quit>>

Init ==
  /\ main = "new" /\ mainKeepRunning = TRUE
  /\ isRunning = FALSE /\ isRecording = FALSE /\ recordingIndex = 0
  /\ loop = "off" /\ keys = 0
  /\ recorder = FALSE
  /\ keepCapturing = FALSE /\ capture = "off"
  /\ reporting = {} /\ interrupted = FALSE /\ failed = FALSE /\ quit = FALSE

MainAt(from, to) == main = from /\ main' = to

\* MultiNvRecorder::stop_mutex_ is not held.
RecorderFree == loop \notin {"starting", "stopping"} /\ main # "stoppingRecorder"

\* Stop, and a Start that fails, join the recorder's threads.
RecorderJoined == "recorder" \notin reporting

----------------------------------------------------------------------------
(* XimeaManager::Start, on the main thread.                                *)
StartPreviewer ==
  /\ MainAt("new", "previewing")
  /\ loop' = "idle"
  /\ isRecording' = FALSE /\ recordingIndex' = 0
  /\ UNCHANGED <<mainKeepRunning, isRunning, keys, recorder, keepCapturing, capture,
                 reporting, interrupted, failed, quit>>

StartCamera ==
  /\ MainAt("previewing", "acquiring")
  /\ keepCapturing' = TRUE /\ capture' = "loop"
  /\ UNCHANGED <<mainKeepRunning, isRunning, isRecording, recordingIndex, loop, keys,
                 recorder, reporting, interrupted, failed, quit>>

\* The previewer or the camera fails to start: main returns, and the
\* manager's destructor calls Stop.
StartFails ==
  /\ MainAt("new", "stop") \/ MainAt("previewing", "stop")
  /\ UNCHANGED <<mainKeepRunning, isRunning, isRecording, recordingIndex, loop, keys,
                 recorder, keepCapturing, capture, reporting, interrupted, failed, quit>>

SetRunning ==
  /\ MainAt("acquiring", "polling")
  /\ isRunning' = TRUE
  /\ UNCHANGED <<mainKeepRunning, isRecording, recordingIndex, loop, keys, recorder,
                 keepCapturing, capture, reporting, interrupted, failed, quit>>

(* main's loop; print_telemetry holds g_cout_mutex.                        *)
Poll ==
  /\ \/ mainKeepRunning /\ isRunning /\ MainAt("polling", "printing")
     \/ ~(mainKeepRunning /\ isRunning) /\ MainAt("polling", "stop")
     \/ MainAt("printing", "polling")
  /\ UNCHANGED <<mainKeepRunning, isRunning, isRecording, recordingIndex, loop, keys,
                 recorder, keepCapturing, capture, reporting, interrupted, failed, quit>>

(* XimeaManager::Stop.                                                     *)
BeginStop ==
  /\ MainAt("stop", "closeCamera")
  /\ isRunning' = FALSE /\ isRecording' = FALSE
  /\ UNCHANGED <<mainKeepRunning, recordingIndex, loop, keys, recorder, keepCapturing,
                 capture, reporting, interrupted, failed, quit>>

\* Mutant: the capture loop is not told to end.
CloseCameraSilently ==
  /\ MainAt("closeCamera", "joinCapture")
  /\ UNCHANGED <<mainKeepRunning, isRunning, isRecording, recordingIndex, loop, keys,
                 recorder, keepCapturing, capture, reporting, interrupted, failed, quit>>

CloseCamera ==
  /\ MainAt("closeCamera", "joinCapture")
  /\ keepCapturing' = FALSE
  /\ UNCHANGED <<mainKeepRunning, isRunning, isRecording, recordingIndex, loop, keys,
                 recorder, capture, reporting, interrupted, failed, quit>>

\* Mutant: the camera is closed without waiting for its thread.
DoNotJoinCapture ==
  /\ MainAt("joinCapture", "stopRecorder")
  /\ UNCHANGED <<mainKeepRunning, isRunning, isRecording, recordingIndex, loop, keys,
                 recorder, keepCapturing, capture, reporting, interrupted, failed, quit>>

JoinCapture ==
  /\ MainAt("joinCapture", "stopRecorder")
  /\ capture \in {"off", "done"}
  /\ UNCHANGED <<mainKeepRunning, isRunning, isRecording, recordingIndex, loop, keys,
                 recorder, keepCapturing, capture, reporting, interrupted, failed, quit>>

LockRecorder ==
  /\ RecorderFree
  /\ MainAt("stopRecorder", "stoppingRecorder")
  /\ UNCHANGED <<mainKeepRunning, isRunning, isRecording, recordingIndex, loop, keys,
                 recorder, keepCapturing, capture, reporting, interrupted, failed, quit>>

StopRecorder ==
  /\ MainAt("stoppingRecorder", "stopPreviewer") /\ RecorderJoined
  /\ recorder' = FALSE
  /\ UNCHANGED <<mainKeepRunning, isRunning, isRecording, recordingIndex, loop, keys,
                 keepCapturing, capture, reporting, interrupted, failed, quit>>

\* g_main_loop_quit: no message is handled after the present one.
QuitPreviewLoop ==
  /\ MainAt("stopPreviewer", "joinPreview")
  /\ UNCHANGED <<mainKeepRunning, isRunning, isRecording, recordingIndex, loop, keys,
                 recorder, keepCapturing, capture, reporting, interrupted, failed, quit>>

StopPreviewer ==
  /\ MainAt("joinPreview", "returned")
  /\ loop \in {"off", "idle"}
  /\ loop' = "off"
  /\ UNCHANGED <<mainKeepRunning, isRunning, isRecording, recordingIndex, keys, recorder,
                 keepCapturing, capture, reporting, interrupted, failed, quit>>

\* Mutant: the recorder's destructor does not call Stop.
DestroyRunning ==
  /\ MainAt("returned", "exited")
  /\ UNCHANGED <<mainKeepRunning, isRunning, isRecording, recordingIndex, loop, keys,
                 recorder, keepCapturing, capture, reporting, interrupted, failed, quit>>

\* ~XimeaManager and its members, the previewer before the recorders, whose
\* destructors stop a recording that is still on.
Destroy ==
  /\ MainAt("returned", "exited") /\ RecorderJoined
  /\ recorder' = FALSE
  /\ UNCHANGED <<mainKeepRunning, isRunning, isRecording, recordingIndex, loop, keys,
                 keepCapturing, capture, reporting, interrupted, failed, quit>>

Main == \/ StartPreviewer \/ StartCamera \/ StartFails \/ SetRunning \/ Poll
        \/ BeginStop \/ CloseCamera \/ JoinCapture \/ LockRecorder \/ StopRecorder
        \/ QuitPreviewLoop \/ StopPreviewer \/ Destroy

----------------------------------------------------------------------------
(* on_key, on the previewer's main-loop thread.                            *)
Listening == loop = "idle" /\ main # "joinPreview"

PressR ==
  /\ Listening /\ keys < MaxKeys
  /\ keys' = keys + 1
  /\ loop' = IF isRecording THEN "wantStop" ELSE "wantStart"
  /\ recordingIndex' = IF isRecording THEN recordingIndex ELSE recordingIndex + 1
  /\ UNCHANGED <<main, mainKeepRunning, isRunning, isRecording, recorder, keepCapturing,
                 capture, reporting, interrupted, failed, quit>>

PressQ ==
  /\ Listening /\ keys < MaxKeys
  /\ keys' = keys + 1
  /\ isRunning' = FALSE
  /\ quit' = (quit \/ isRunning)
  /\ UNCHANGED <<main, mainKeepRunning, isRecording, recordingIndex, loop, recorder,
                 keepCapturing, capture, reporting, interrupted, failed>>

KeyLock ==
  /\ RecorderFree
  /\ \/ loop = "wantStart" /\ loop' = "starting"
     \/ loop = "wantStop" /\ loop' = "stopping"
  /\ UNCHANGED <<main, mainKeepRunning, isRunning, isRecording, recordingIndex, keys,
                 recorder, keepCapturing, capture, reporting, interrupted, failed, quit>>

\* Start returns true when the recorder runs already; it may fail otherwise.
KeyStart ==
  /\ loop = "starting"
  /\ \/ recorder' = TRUE /\ loop' = "started"
     \/ ~recorder /\ RecorderJoined /\ recorder' = FALSE /\ loop' = "idle"
  /\ UNCHANGED <<main, mainKeepRunning, isRunning, isRecording, recordingIndex, keys,
                 keepCapturing, capture, reporting, interrupted, failed, quit>>

\* Mutant: the index is incremented again when the recording has started.
KeyStartedTwice ==
  /\ loop = "started"
  /\ isRecording' = TRUE /\ loop' = "idle" /\ recordingIndex' = recordingIndex + 1
  /\ UNCHANGED <<main, mainKeepRunning, isRunning, keys, recorder,
                 keepCapturing, capture, reporting, interrupted, failed, quit>>

KeyStarted ==
  /\ loop = "started"
  /\ isRecording' = TRUE /\ loop' = "idle"
  /\ UNCHANGED <<main, mainKeepRunning, isRunning, recordingIndex, keys, recorder,
                 keepCapturing, capture, reporting, interrupted, failed, quit>>

KeyStop ==
  /\ loop = "stopping" /\ RecorderJoined
  /\ recorder' = FALSE /\ loop' = "stopped"
  /\ UNCHANGED <<main, mainKeepRunning, isRunning, isRecording, recordingIndex, keys,
                 keepCapturing, capture, reporting, interrupted, failed, quit>>

KeyStopped ==
  /\ loop = "stopped"
  /\ isRecording' = FALSE /\ loop' = "idle"
  /\ UNCHANGED <<main, mainKeepRunning, isRunning, recordingIndex, keys, recorder,
                 keepCapturing, capture, reporting, interrupted, failed, quit>>

OnKey == KeyLock \/ KeyStart \/ KeyStarted \/ KeyStop \/ KeyStopped

----------------------------------------------------------------------------
(* The capture thread.  keep_running_ is tested before each image; the     *)
(* image takes up to 100 ms.                                               *)
GetImage ==
  /\ capture = "loop" /\ keepCapturing
  /\ capture' = "image"
  /\ UNCHANGED <<main, mainKeepRunning, isRunning, isRecording, recordingIndex, loop, keys,
                 recorder, keepCapturing, reporting, interrupted, failed, quit>>

\* A timeout, or a frame for the preview only.
NoRecording ==
  /\ capture = "image"
  /\ capture' = "loop"
  /\ UNCHANGED <<main, mainKeepRunning, isRunning, isRecording, recordingIndex, loop, keys,
                 recorder, keepCapturing, reporting, interrupted, failed, quit>>

FrameToRecorder ==
  /\ capture = "image" /\ isRecording
  /\ capture' = "push"
  /\ UNCHANGED <<main, mainKeepRunning, isRunning, isRecording, recordingIndex, loop, keys,
                 recorder, keepCapturing, reporting, interrupted, failed, quit>>

PushReturns ==
  /\ capture \in {"push", "refused"} /\ "capture" \notin reporting
  /\ capture' = "loop"
  /\ UNCHANGED <<main, mainKeepRunning, isRunning, isRecording, recordingIndex, loop, keys,
                 recorder, keepCapturing, reporting, interrupted, failed, quit>>

CaptureExits ==
  /\ capture = "loop" /\ ~keepCapturing
  /\ capture' = "done"
  /\ UNCHANGED <<main, mainKeepRunning, isRunning, isRecording, recordingIndex, loop, keys,
                 recorder, keepCapturing, reporting, interrupted, failed, quit>>

----------------------------------------------------------------------------
(* Errors.  Whoever meets one calls main's callback, which clears          *)
(* keep_running under g_cout_mutex; camera and preview do so in on_error,  *)
(* which clears is_running_ as well.                                       *)
Reporters == {"capture", "preview", "recorder"}

CallErrorCallback(thread) ==
  /\ thread \notin reporting
  /\ reporting' = reporting \cup {thread}
  /\ failed' = TRUE

\* Mutant: on_error does not call the application's callback.
CameraFailsQuietly ==
  /\ capture = "image"
  /\ capture' = "failing" /\ failed' = TRUE
  /\ UNCHANGED <<main, mainKeepRunning, isRunning, isRecording, recordingIndex, loop, keys,
                 recorder, keepCapturing, reporting, interrupted, quit>>

\* xiGetImage fails.
CameraFails ==
  /\ capture = "image"
  /\ CallErrorCallback("capture")
  /\ capture' = "failing"
  /\ UNCHANGED <<main, mainKeepRunning, isRunning, isRecording, recordingIndex, loop, keys,
                 recorder, keepCapturing, interrupted, quit>>

\* An error message on the bus of the display pipeline.
PreviewFails ==
  /\ Listening
  /\ CallErrorCallback("preview")
  /\ loop' = "failing"
  /\ UNCHANGED <<main, mainKeepRunning, isRunning, isRecording, recordingIndex, keys,
                 recorder, keepCapturing, capture, interrupted, quit>>

\* A recorder calls main directly, from PushFrame or from one of its own
\* threads (lanes, serializer), which exist when Start is under way; when Stop
\* is (stopping_), they report nothing any more.
PushFails ==
  /\ capture = "push"
  /\ CallErrorCallback("capture")
  /\ capture' = "refused"
  /\ UNCHANGED <<main, mainKeepRunning, isRunning, isRecording, recordingIndex, loop, keys,
                 recorder, keepCapturing, interrupted, quit>>

RecorderFails ==
  /\ recorder \/ loop = "starting"
  /\ loop # "stopping" /\ main # "stoppingRecorder"
  /\ CallErrorCallback("recorder")
  /\ UNCHANGED <<main, mainKeepRunning, isRunning, isRecording, recordingIndex, loop, keys,
                 recorder, keepCapturing, capture, interrupted, quit>>

\* The callback, once it has g_cout_mutex.
ReportError(thread) ==
  /\ thread \in reporting /\ main \notin {"printing", "stuck"}
  /\ reporting' = reporting \ {thread}
  /\ mainKeepRunning' = FALSE
  /\ UNCHANGED <<main, isRunning, isRecording, recordingIndex, loop, keys, recorder,
                 keepCapturing, capture, interrupted, failed, quit>>

\* The rest of on_error; CaptureLoop then ends.
CameraFailed ==
  /\ capture = "failing" /\ "capture" \notin reporting
  /\ capture' = "done" /\ isRunning' = FALSE
  /\ UNCHANGED <<main, mainKeepRunning, isRecording, recordingIndex, loop, keys, recorder,
                 keepCapturing, reporting, interrupted, failed, quit>>

PreviewFailed ==
  /\ loop = "failing" /\ "preview" \notin reporting
  /\ loop' = "idle" /\ isRunning' = FALSE
  /\ UNCHANGED <<main, mainKeepRunning, isRecording, recordingIndex, keys, recorder,
                 keepCapturing, capture, reporting, interrupted, failed, quit>>

Fail == CameraFails \/ PreviewFails \/ PushFails \/ RecorderFails

----------------------------------------------------------------------------
\* SIGINT.  The handler locks g_cout_mutex, which the thread it interrupts
\* may hold.
Interrupt ==
  /\ ~interrupted
  /\ main \notin {"new", "returned", "exited"}
  /\ interrupted' = TRUE
  /\ IF main = "printing" THEN main' = "stuck" /\ UNCHANGED mainKeepRunning
                          ELSE mainKeepRunning' = FALSE /\ UNCHANGED main
  /\ UNCHANGED <<isRunning, isRecording, recordingIndex, loop, keys, recorder,
                 keepCapturing, capture, reporting, failed, quit>>

PreviewLoop == OnKey \/ PreviewFailed
Capture == GetImage \/ NoRecording \/ FrameToRecorder \/ PushReturns \/ CaptureExits
           \/ CameraFailed

Next == Main \/ PressR \/ PressQ \/ PreviewLoop \/ Capture \/ Fail
        \/ (\E thread \in Reporters : ReportError(thread)) \/ Interrupt

Spec == Init /\ [][Next]_vars

(* Every thread runs, and one that waits for g_cout_mutex gets it: main,   *)
(* which takes it again and again, sleeps 100 ms in between.  Keys,        *)
(* errors and signals need not come.                                       *)
FairSpec ==
  /\ Spec
  /\ WF_vars(Main) /\ WF_vars(PreviewLoop) /\ WF_vars(Capture)
  /\ \A thread \in Reporters : SF_vars(ReportError(thread))

----------------------------------------------------------------------------
(* Properties.                                                             *)

\* Where the threads are.
Places ==
  /\ main \in {"new", "previewing", "acquiring", "polling", "printing", "stuck", "stop",
               "closeCamera", "joinCapture", "stopRecorder", "stoppingRecorder",
               "stopPreviewer", "joinPreview", "returned", "exited"}
  /\ loop \in {"off", "idle", "wantStart", "starting", "started", "wantStop", "stopping",
               "stopped", "failing"}
  /\ capture \in {"off", "loop", "image", "push", "refused", "failing", "done"}
  /\ reporting \subseteq Reporters

\* The flags that start and end threads and recordings.
ControlFlags ==
  /\ mainKeepRunning \in BOOLEAN /\ isRunning \in BOOLEAN /\ keepCapturing \in BOOLEAN
  /\ interrupted \in BOOLEAN /\ failed \in BOOLEAN /\ quit \in BOOLEAN

RecordingFlags == isRecording \in BOOLEAN /\ recorder \in BOOLEAN

Counters == keys \in 0 .. MaxKeys /\ recordingIndex \in 0 .. keys

\* The values of every variable; a key press starts at most one recording.
TypeOK == Places /\ ControlFlags /\ RecordingFlags /\ Counters

(* The camera is closed before the recorders (comment in Stop): from the   *)
(* time Stop takes the recorder to the exit, no frame is in PushFrame,     *)
(* whatever the key handler does to is_recording_ meanwhile.               *)
CameraClosedFirst ==
  main \in {"stoppingRecorder", "stopPreviewer", "joinPreview", "returned", "exited"}
    => capture \in {"off", "done"}

(* Stop returns: the join of the capture thread, the recorder's mutex and  *)
(* the join of the preview thread, which may hold that mutex in on_key, do *)
(* not wait for each other.                                                *)
ShutdownCompletes == (main = "stop") ~> (main = "returned")

(* An error of the camera, of the preview or of a recorder ends the        *)
(* program, even when it comes while Start is still about to set           *)
(* is_running_, and so does 'q' once is_running_ is set (unless the signal *)
(* handler has blocked the main thread: InterruptEnds below).              *)
ShutdownRequestsEnd ==
  /\ failed ~> main \in {"returned", "exited", "stuck"}
  /\ quit ~> main \in {"returned", "exited", "stuck"}

(* A recording that a key press starts behind the back of Stop, between    *)
(* the recorder's Stop and the previewer's, does not outlive the program.  *)
NothingRecordsAtExit == main = "exited" => ~recorder /\ loop = "off"

(* A claim of the texts that the code does not keep.                       *)

(* "Press ... Ctrl+C to quit" (main.cpp).                                  *)
InterruptEnds == interrupted ~> main \in {"returned", "exited"}
=============================================================================
