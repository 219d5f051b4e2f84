------------------------- MODULE XimeaManager_proofs -------------------------
(* Proofs about XimeaManager, for any number of key presses. *)
EXTENDS XimeaManager, TLAPS

(* No thread leaves the points its code has.                               *)
LEMMA PlacesStep ==
  ASSUME Places, [Next]_vars
  PROVE  Places'
<1> USE DEF Places, MainAt
<1>1. CASE Main
  BY <1>1 DEF Main, StartPreviewer, StartCamera, StartFails, SetRunning, Poll, BeginStop,
              CloseCamera, JoinCapture, LockRecorder, StopRecorder, QuitPreviewLoop,
              StopPreviewer, Destroy
<1>2. CASE PressR \/ PressQ \/ PreviewLoop
  BY <1>2 DEF PressR, PressQ, PreviewLoop, OnKey, KeyLock, KeyStart, KeyStarted, KeyStop,
              KeyStopped, PreviewFailed, Listening
<1>3. CASE Capture
  BY <1>3 DEF Capture, GetImage, NoRecording, FrameToRecorder, PushReturns, CaptureExits,
              CameraFailed
<1>4. CASE Fail
  BY <1>4 DEF Fail, CameraFails, PreviewFails, PushFails, RecorderFails, CallErrorCallback,
              Reporters
<1>5. CASE \E thread \in Reporters : ReportError(thread)
  BY <1>5 DEF ReportError
<1>6. CASE Interrupt
  BY <1>6 DEF Interrupt
<1>7. CASE UNCHANGED vars
  BY <1>7 DEF vars
<1> QED BY <1>1, <1>2, <1>3, <1>4, <1>5, <1>6, <1>7 DEF Next

(* The flags that start and end the threads stay Boolean.                  *)
LEMMA ControlFlagsStep ==
  ASSUME ControlFlags, [Next]_vars
  PROVE  ControlFlags'
<1> USE DEF ControlFlags
<1>1. CASE Main
  BY <1>1, Zenon
     DEF Main, StartPreviewer, StartCamera, StartFails, SetRunning, Poll, BeginStop,
         CloseCamera, JoinCapture, LockRecorder, StopRecorder, QuitPreviewLoop,
              StopPreviewer, Destroy
<1>2. CASE PressR \/ PressQ \/ PreviewLoop
  BY <1>2, Zenon
     DEF PressR, PressQ, PreviewLoop, OnKey, KeyLock, KeyStart, KeyStarted, KeyStop,
              KeyStopped, PreviewFailed, Listening
<1>3. CASE Capture \/ Fail \/ (\E thread \in Reporters : ReportError(thread))
  BY <1>3, Zenon DEF Capture, GetImage, NoRecording, FrameToRecorder, PushReturns, CaptureExits,
              CameraFailed, Fail, CameraFails, PreviewFails, PushFails, RecorderFails,
              CallErrorCallback, ReportError, Listening
<1>4. CASE Interrupt
  <2>1. CASE main = "printing"
    BY <1>4, <2>1, Zenon DEF Interrupt
  <2>2. CASE main # "printing"
    BY <1>4, <2>2, Zenon DEF Interrupt
  <2> QED BY <2>1, <2>2
<1>5. CASE UNCHANGED vars
  BY <1>5 DEF vars
<1> QED BY <1>1, <1>2, <1>3, <1>4, <1>5 DEF Next

(* The recording flags stay Boolean.                                       *)
LEMMA RecordingFlagsStep ==
  ASSUME RecordingFlags, [Next]_vars
  PROVE  RecordingFlags'
<1> USE DEF RecordingFlags
<1>1. CASE Main
  BY <1>1, Zenon
     DEF Main, StartPreviewer, StartCamera, StartFails, SetRunning, Poll, BeginStop,
         CloseCamera, JoinCapture, LockRecorder, StopRecorder, QuitPreviewLoop,
              StopPreviewer, Destroy
<1>2. CASE PressR \/ PressQ \/ PreviewLoop
  BY <1>2, Zenon
     DEF PressR, PressQ, PreviewLoop, OnKey, KeyLock, KeyStart, KeyStarted, KeyStop,
              KeyStopped, PreviewFailed, Listening
<1>3. CASE Capture \/ Fail \/ (\E thread \in Reporters : ReportError(thread)) \/ Interrupt
  BY <1>3, Zenon
     DEF Capture, GetImage, NoRecording, FrameToRecorder, PushReturns, CaptureExits,
              CameraFailed, Fail, CameraFails, PreviewFails, PushFails, RecorderFails,
              CallErrorCallback, ReportError, Listening,
              Interrupt
<1>4. CASE UNCHANGED vars
  BY <1>4 DEF vars
<1> QED BY <1>1, <1>2, <1>3, <1>4 DEF Next

(* recordingIndex never runs ahead of the key presses: a press increments  *)
(* it and nothing else does.                                               *)
LEMMA CountersStep ==
  ASSUME Counters, [Next]_vars
  PROVE  Counters'
<1> USE ManagerAssumption DEF Counters
<1>1. CASE StartPreviewer
  BY <1>1 DEF StartPreviewer
<1>2. CASE PressR \/ PressQ
  <2>1. keys' = keys + 1 /\ keys' \in 0 .. MaxKeys
    BY <1>2 DEF PressR, PressQ
  <2>2. recordingIndex' \in 0 .. keys'
    BY <1>2, <2>1 DEF PressR, PressQ
  <2> QED BY <2>1, <2>2
<1>3. CASE UNCHANGED <<keys, recordingIndex>>
  BY <1>3
<1>4. StartPreviewer \/ PressR \/ PressQ \/ UNCHANGED <<keys, recordingIndex>>
  BY DEF vars, Next, Main, StartCamera, StartFails, SetRunning, Poll, BeginStop, CloseCamera,
         JoinCapture, LockRecorder, StopRecorder, QuitPreviewLoop,
              StopPreviewer, Destroy, PreviewLoop, OnKey,
         KeyLock, KeyStart, KeyStarted, KeyStop, KeyStopped, PreviewFailed, Capture, GetImage, NoRecording, FrameToRecorder, PushReturns, CaptureExits,
         CameraFailed, Fail, CameraFails, PreviewFails, PushFails, RecorderFails,
         CallErrorCallback, ReportError, Listening,
         Interrupt
<1> QED BY <1>1, <1>2, <1>3, <1>4

(* Every variable keeps to its set of values, and the recording index to   *)
(* the number of key presses.                                              *)
THEOREM ManagerTypeCorrect == Spec => []TypeOK
<1>1. Init => TypeOK
  <2> SUFFICES ASSUME Init PROVE TypeOK
    OBVIOUS
  <2>1. Counters
    BY ManagerAssumption DEF Init, Counters
  <2>2. Places /\ ControlFlags /\ RecordingFlags
    BY DEF Init, Places, ControlFlags, RecordingFlags
  <2> QED BY <2>1, <2>2 DEF TypeOK
<1>2. TypeOK /\ [Next]_vars => TypeOK'
  <2> SUFFICES ASSUME TypeOK, [Next]_vars PROVE TypeOK'
    OBVIOUS
  <2>1. Places /\ ControlFlags /\ RecordingFlags /\ Counters
    BY DEF TypeOK
  <2>2. Places' /\ ControlFlags' /\ RecordingFlags' /\ Counters'
    BY <2>1, PlacesStep, ControlFlagsStep, RecordingFlagsStep, CountersStep
  <2> QED BY <2>2 DEF TypeOK
<1> QED BY <1>1, <1>2, PTL DEF Spec

(* The strengthening: the capture thread has ended as soon as it is        *)
(* joined, before the recorder is asked for, and is never started again.   *)
CaptureJoined ==
  main \in {"stopRecorder", "stoppingRecorder", "stopPreviewer", "joinPreview", "returned",
           "exited"} => capture \in {"off", "done"}

(* Every step keeps the strengthening. *)
LEMMA JoinedStep ==
  ASSUME CaptureJoined, [Next]_vars
  PROVE  CaptureJoined'
<1> USE DEF CaptureJoined, MainAt
<1>1. CASE Main
  BY <1>1 DEF Main, StartPreviewer, StartCamera, StartFails, SetRunning, Poll, BeginStop,
              CloseCamera, JoinCapture, LockRecorder, StopRecorder, QuitPreviewLoop,
              StopPreviewer, Destroy
<1>2. CASE PressR \/ PressQ \/ PreviewLoop
  BY <1>2 DEF PressR, PressQ, PreviewLoop, OnKey, KeyLock, KeyStart, KeyStarted, KeyStop,
              KeyStopped, PreviewFailed, Listening
<1>3. CASE Capture \/ Fail \/ (\E thread \in Reporters : ReportError(thread))
  BY <1>3 DEF Capture, GetImage, NoRecording, FrameToRecorder, PushReturns, CaptureExits,
              CameraFailed, Fail, CameraFails, PreviewFails, PushFails, RecorderFails,
              CallErrorCallback, ReportError, Listening
<1>4. CASE Interrupt
  BY <1>4 DEF Interrupt
<1>5. CASE UNCHANGED vars
  BY <1>5 DEF vars
<1> QED BY <1>1, <1>2, <1>3, <1>4, <1>5 DEF Next

(* XimeaManager::Stop closes the camera before it stops a recorder: no     *)
(* frame is in PushFrame from then on, whatever keys are pressed.          *)
THEOREM CameraIsClosedFirst == Spec => []CameraClosedFirst
<1>1. Init => CaptureJoined
  BY DEF Init, CaptureJoined
<1>2. CaptureJoined /\ [Next]_vars => CaptureJoined'
  BY JoinedStep
<1>3. CaptureJoined => CameraClosedFirst
  BY DEF CaptureJoined, CameraClosedFirst
<1> QED BY <1>1, <1>2, <1>3, PTL DEF Spec

(* The strengthening: from the return of Stop on there is no thread left   *)
(* that could start a recording.                                           *)
KeysAreOver == main \in {"returned", "exited"} => loop = "off"

ExitIsQuiet == KeysAreOver /\ NothingRecordsAtExit

(* Every step keeps it: the key handler's thread ends before Stop returns. *)
LEMMA QuietStep ==
  ASSUME ExitIsQuiet, [Next]_vars
  PROVE  ExitIsQuiet'
<1> USE DEF ExitIsQuiet, KeysAreOver, NothingRecordsAtExit, MainAt
<1>1. CASE Main
  BY <1>1 DEF Main, StartPreviewer, StartCamera, StartFails, SetRunning, Poll, BeginStop,
              CloseCamera, JoinCapture, LockRecorder, StopRecorder, QuitPreviewLoop,
              StopPreviewer, Destroy
<1>2. CASE PressR \/ PressQ \/ PreviewLoop
  BY <1>2 DEF PressR, PressQ, PreviewLoop, OnKey, KeyLock, KeyStart, KeyStarted, KeyStop,
              KeyStopped, PreviewFailed, Listening
<1>3. CASE Capture \/ Fail \/ (\E thread \in Reporters : ReportError(thread))
  BY <1>3 DEF Capture, GetImage, NoRecording, FrameToRecorder, PushReturns, CaptureExits,
              CameraFailed, Fail, CameraFails, PreviewFails, PushFails, RecorderFails,
              CallErrorCallback, ReportError, Listening
<1>4. CASE Interrupt
  BY <1>4 DEF Interrupt
<1>5. CASE UNCHANGED vars
  BY <1>5 DEF vars
<1> QED BY <1>1, <1>2, <1>3, <1>4, <1>5 DEF Next

(* A recording started during Stop, after the recorder was stopped, has    *)
(* ended when the program exits, whatever keys are pressed.                *)
THEOREM ExitEndsRecording == Spec => []NothingRecordsAtExit
<1>1. Init => ExitIsQuiet
  BY DEF Init, ExitIsQuiet, KeysAreOver, NothingRecordsAtExit
<1>2. ExitIsQuiet /\ [Next]_vars => ExitIsQuiet'
  BY QuietStep
<1>3. ExitIsQuiet => NothingRecordsAtExit
  BY DEF ExitIsQuiet
<1> QED BY <1>1, <1>2, <1>3, PTL DEF Spec
=============================================================================
