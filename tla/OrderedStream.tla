---------------------------- MODULE OrderedStream ----------------------------
(***************************************************************************)
(* What OrderedBitstreamSerializer promises of the recorded file: every    *)
(* source frame is in it at most once, and as long as no GOP gap has been  *)
(* reported the file grows in source order only.                           *)
(***************************************************************************)
EXTENDS Integers, Sequences

CONSTANT Frame          \* the source indexes of a recording, natural numbers

VARIABLES file,         \* source indexes, in the order they were muxed
          degraded      \* a GOP gap has been reported

streamVars == <<file, degraded>>

Recorded == {file[i] : i \in 1 .. Len(file)}

StreamInit == file = <<>> /\ degraded = FALSE

Record(f) ==
  /\ f \notin Recorded
  /\ degraded \/ \A h \in Recorded : h < f
  /\ file' = Append(file, f)
  /\ UNCHANGED degraded

Degrade == degraded' = TRUE /\ UNCHANGED file

StreamNext == Degrade \/ \E f \in Frame : Record(f)

StreamSpec == StreamInit /\ [][StreamNext]_streamVars
=============================================================================
