---------------------------- MODULE LaneContract ----------------------------
(***************************************************************************)
(* What a path from PushFrame to the encoded stream promises, and all that *)
(* the serializer (or the file) depends on: a frame that comes out was     *)
(* accepted in the present recording, comes out once, after the frames     *)
(* accepted before it, and not after it was given up.  EncoderLane and     *)
(* GstRecorder implement it; RecordingStream uses it as a black box.       *)
(***************************************************************************)
EXTENDS Integers, Sequences

CONSTANT Frame          \* the numbers of the captured frames, in capture order

VARIABLES taken,        \* frames accepted since Start
          delivered,    \* frames that came out since Start, in that order
          givenUp      \* frames accepted and then dropped since Start

laneVars == <<taken, delivered, givenUp>>

CameOut == {delivered[i] : i \in 1 .. Len(delivered)}

LaneInit == taken = {} /\ delivered = <<>> /\ givenUp = {}

\* Start: a recording has nothing of the one before.
Restart == taken' = {} /\ delivered' = <<>> /\ givenUp' = {}

Accept(f) ==
  /\ \A g \in taken : g < f
  /\ taken' = taken \cup {f}
  /\ UNCHANGED <<delivered, givenUp>>

Deliver(f) ==
  /\ f \in taken \ givenUp
  /\ \A g \in CameOut : g < f
  /\ delivered' = Append(delivered, f)
  /\ UNCHANGED <<taken, givenUp>>

GiveUp(f) ==
  /\ f \in taken \ CameOut
  /\ givenUp' = givenUp \cup {f}
  /\ UNCHANGED <<taken, delivered>>

LaneNext == Restart \/ \E f \in Frame : Accept(f) \/ Deliver(f) \/ GiveUp(f)

LaneSpec == LaneInit /\ [][LaneNext]_laneVars
=============================================================================
