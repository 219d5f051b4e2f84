---------------------------- MODULE MCEncoderLane ----------------------------
(* Constants of the model-checking runs of EncoderLane. *)
EXTENDS EncoderLane

CONSTANTS s1, s2
TwoSlots == {s1, s2}
=============================================================================
