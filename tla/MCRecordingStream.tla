-------------------------- MODULE MCRecordingStream --------------------------
(* Constants of the model-checking runs of RecordingStream. *)
EXTENDS RecordingStream

AllFaults == {"lane_loss", "pipeline", "empty_chunk"}
LossOnly  == {"lane_loss"}
NoFaults  == {}
=============================================================================
