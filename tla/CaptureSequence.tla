--------------------------- MODULE CaptureSequence ---------------------------
(***************************************************************************)
(* The capture thread from xiGetImage to the recorder: CaptureLoop counts  *)
(* an image and its frame callback hands it on, so that the numbers of the *)
(* same camera are followed twice, by XimeaCapture and by MultiNvRecorder. *)
(***************************************************************************)
EXTENDS MultiNvRecorder

VARIABLES haveLast, lastImage, captured, dropped, \* XimeaCapture's
          start,      \* history: camera position of the first image
          wrapInGap   \* history: the frame number wrapped round inside a gap

Capture == INSTANCE XimeaCapture WITH lastAcq <- lastImage

captureVars  == <<haveLast, lastImage, captured, dropped, start, wrapInGap>>
sequenceSpecVars == <<vars, captureVars>>

SequenceInit ==
  /\ Init /\ Capture!StartAcquisition
  /\ start = 0 /\ wrapInGap = FALSE

\* One pass of CaptureLoop, up to what PushFrame does first.
CaptureLoop(skip) ==
  /\ Arrival(skip)
  /\ Capture!CountFrame(Acq(skip))
  /\ start' = IF haveLast THEN start ELSE Delivered(skip)
  /\ wrapInGap' = \/ wrapInGap
                  \/ haveLast /\ camera \div Modulus < Delivered(skip) \div Modulus

RecorderStep ==
  /\ Start \/ Stop \/ RegisterMissing \/ Route \/ DropFrame \/ SubmitFrame
  /\ UNCHANGED captureVars

SequenceNext == RecorderStep \/ \E skip \in 0 .. MaxPosition : CaptureLoop(skip)

SequenceSpec == SequenceInit /\ [][SequenceNext]_sequenceSpecVars

(* The camera statistics never count a frame twice: images and frames      *)
(* counted as dropped are at most the frames the camera took since the     *)
(* first image, and they are exactly those as long as the 32-bit number    *)
(* did not wrap round inside a gap (then the gap is not seen).             *)
CaptureCountsLosses ==
  haveLast =>
    /\ captured + dropped <= camera - start
    /\ ~wrapInGap => captured + dropped = camera - start
=============================================================================
