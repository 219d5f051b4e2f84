---------------------------- MODULE XimeaCapture ----------------------------
(***************************************************************************)
(* src/src/ximea_capture.cpp: what CaptureLoop makes of the frame numbers  *)
(* of the images it gets.  The life of its thread is in XimeaManager; a    *)
(* timeout of xiGetImage only counts itself and is left out.               *)
(***************************************************************************)
EXTENDS Integers

CONSTANT Modulus   \* values of acq_nframe, 2^32 in the code

VARIABLES haveLast, lastAcq,        \* have_last_acq_nframe_, last_acq_nframe_
          captured, dropped         \* frames_captured_, frames_dropped_

captureVars == <<haveLast, lastAcq, captured, dropped>>

StartAcquisition == haveLast = FALSE /\ lastAcq = 0 /\ captured = 0 /\ dropped = 0

\* image.acq_nframe > last_acq_nframe_ + 1, in 32 bits
IsAhead(acq) == acq > (lastAcq + 1) % Modulus

\* Mutant: the first image is compared with number 0.
CountFrameFromZero(acq) ==
  /\ dropped' = IF IsAhead(acq) THEN dropped + ((acq - lastAcq - 1) % Modulus) ELSE dropped
  /\ lastAcq' = acq /\ haveLast' = TRUE
  /\ captured' = captured + 1

CountFrame(acq) ==
  /\ dropped' = IF haveLast /\ IsAhead(acq)
                  THEN dropped + ((acq - lastAcq - 1) % Modulus)
                  ELSE dropped
  /\ lastAcq' = acq /\ haveLast' = TRUE
  /\ captured' = captured + 1
=============================================================================
