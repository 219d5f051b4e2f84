--------------------------- MODULE RecordingStream ---------------------------
(***************************************************************************)
(* A recording: the capture thread in MultiNvRecorder::PushFrame, the      *)
(* encoder lanes as a black box, the serializer, and MultiNvRecorder::Stop *)
(* (lanes first, then the serializer).  The capture thread is not stopped  *)
(* first: the 'r' key stops the recorder while the camera keeps running.   *)
(*                                                                         *)
(* A lane accepts frames and later hands each one back encoded, or loses   *)
(* it.  One lane has all frames of a GOP and returns them in order;        *)
(* nothing is assumed between GOPs, which may be on different lanes.       *)
(***************************************************************************)
EXTENDS OrderedBitstreamSerializer

CONSTANT NumFrames      \* bound: source positions of the recording

ASSUME StreamAssumption == NumFrames \in Nat

Frames == 0 .. NumFrames - 1

VARIABLES
  capture,      \* where PushFrame is: "idle", "expect", "drop", "route", "push"
  cursor,       \* the next source position to account for
  missing,      \* camera-side missing positions still to register
  routed,       \* groups with an entry in frame_group_routes_
  inLane,       \* frames submitted to a lane and not yet encoded
  lanesStopped, \* every EncoderLane::Stop has returned
  dropped,      \* history: frames NotifyFramesDropped was called for
  lost          \* history: frames submitted to a lane that never come out

clientVars == <<capture, cursor, missing, routed, inLane, lanesStopped, dropped, lost>>
vars == <<serializerVars, clientVars>>

Init ==
  /\ SerializerInit
  /\ capture = "idle" /\ cursor = 0 /\ missing = 0
  /\ routed = {} /\ inLane = {} /\ lanesStopped = FALSE
  /\ dropped = {} /\ lost = {}

----------------------------------------------------------------------------
(* A frame arrives whose acq_nframe is k + 1 after the previous one: k     *)
(* positions are missing.  The first frame of a recording has index 0.     *)
Arrive(k) ==
  /\ capture = "idle" /\ stop # "stopped"
  /\ cursor + k < NumFrames
  /\ cursor = 0 => k = 0
  /\ missing' = k
  /\ capture' = IF k > 0 THEN "expect" ELSE "route"
  /\ UNCHANGED <<serializerVars, cursor, routed, inLane, lanesStopped, dropped, lost>>

(* RegisterMissingFrames, one group at a time.                             *)
RegisterExpected ==
  /\ capture = "expect"
  /\ SetGopExpectedCount(Gop(cursor), GopSize)
  /\ capture' = "drop"
  /\ UNCHANGED <<cursor, missing, routed, inLane, lanesStopped, dropped, lost>>

\* min(remaining, group_size - offset)
InThisGroup ==
  LET room == GopSize - (cursor % GopSize)
  IN IF missing < room THEN missing ELSE room

RegisterDropped ==
  /\ capture = "drop"
  /\ NotifyFramesDropped(Gop(cursor), InThisGroup)
  /\ dropped' = dropped \cup cursor .. cursor + InThisGroup - 1
  /\ cursor' = cursor + InThisGroup
  /\ missing' = missing - InThisGroup
  /\ capture' = IF missing' = 0 THEN "route" ELSE "expect"
  /\ UNCHANGED <<routed, inLane, lanesStopped, lost>>

(* The first frame of a group chooses its lane and announces the group.    *)
RouteNewGroup ==
  /\ capture = "route" /\ Gop(cursor) \notin routed
  /\ SetGopExpectedCount(Gop(cursor), GopSize)
  /\ routed' = routed \cup {Gop(cursor)}
  /\ capture' = "push"
  /\ UNCHANGED <<cursor, missing, inLane, lanesStopped, dropped, lost>>

RouteKnownGroup ==
  /\ capture = "route" /\ Gop(cursor) \in routed
  /\ capture' = "push"
  /\ UNCHANGED <<serializerVars, cursor, missing, routed, inLane, lanesStopped, dropped, lost>>

(* A frame submitted to a stopped lane stays in its queue for good.        *)
SubmitFrame ==
  /\ capture = "push"
  /\ inLane' = IF lanesStopped THEN inLane ELSE inLane \cup {cursor}
  /\ lost' = IF lanesStopped THEN lost \cup {cursor} ELSE lost
  /\ cursor' = cursor + 1
  /\ capture' = "idle"
  /\ UNCHANGED <<serializerVars, missing, routed, lanesStopped, dropped>>

\* Mutant: the failed reservation does not return; the frame is submitted too.
DropFrameAndSubmit ==
  /\ capture = "push"
  /\ NotifyFramesDropped(Gop(cursor), 1)
  /\ dropped' = dropped \cup {cursor}
  /\ inLane' = inLane \cup {cursor}
  /\ cursor' = cursor + 1
  /\ capture' = "idle"
  /\ UNCHANGED <<missing, routed, lanesStopped, lost>>

(* No free slot, or the ownership copy failed.                             *)
DropFrame ==
  /\ capture = "push"
  /\ NotifyFramesDropped(Gop(cursor), 1)
  /\ dropped' = dropped \cup {cursor}
  /\ cursor' = cursor + 1
  /\ capture' = "idle"
  /\ UNCHANGED <<missing, routed, inLane, lanesStopped, lost>>

----------------------------------------------------------------------------
(* The lanes.                                                              *)
Encoded(f) ==
  /\ f \in inLane /\ ~lanesStopped
  /\ \A h \in inLane : Gop(h) = Gop(f) => f <= h
  /\ PushChunk(f)
  /\ inLane' = inLane \ {f}
  /\ UNCHANGED <<capture, cursor, missing, routed, lanesStopped, dropped, lost>>

LaneLoses(f) ==
  /\ "lane_loss" \in Faults
  /\ f \in inLane
  /\ inLane' = inLane \ {f}
  /\ lost' = lost \cup {f}
  /\ UNCHANGED <<serializerVars, capture, cursor, missing, routed, lanesStopped, dropped>>

\* A stopped lane has pushed what it had and emptied its encoder.
StopLanes ==
  /\ ~lanesStopped /\ inLane = {}
  /\ lanesStopped' = TRUE
  /\ UNCHANGED <<serializerVars, capture, cursor, missing, routed, inLane, dropped, lost>>

StopSerializer == lanesStopped /\ StopBegin /\ UNCHANGED clientVars

----------------------------------------------------------------------------
Capture ==
  \/ \E k \in 0 .. NumFrames - 1 : Arrive(k)
  \/ RegisterExpected \/ RegisterDropped
  \/ RouteNewGroup \/ RouteKnownGroup
  \/ SubmitFrame \/ DropFrame

Lanes == \E f \in inLane : Encoded(f) \/ LaneLoses(f)

Emit       == EmitLoop /\ UNCHANGED clientVars
Clock      == Tick /\ UNCHANGED clientVars
BusThread  == BusError /\ UNCHANGED clientVars
FinishStop == StopFinish /\ UNCHANGED clientVars

Next == Capture \/ Lanes \/ StopLanes \/ StopSerializer
        \/ Emit \/ Clock \/ BusThread \/ FinishStop

Spec == Init /\ [][Next]_vars

(* The emit thread polls every 100 ms and time passes; whoever called Stop *)
(* gets to run once the thread it joins has ended.  Frames need not arrive *)
(* and lanes need not deliver.                                             *)
FairSpec == Spec /\ WF_vars(Emit) /\ WF_vars(Clock) /\ WF_vars(FinishStop)

----------------------------------------------------------------------------
(* Properties.                                                             *)
WrittenFrames == {written[i] : i \in 1 .. Len(written)}
Buffered == UNION {pending[g].chunks : g \in DOMAIN pending}
Captured == 0 .. cursor - 1

\* The values of every variable, client and serializer.
TypeOK ==
  /\ SerializerTypeOK
  /\ capture \in {"idle", "expect", "drop", "route", "push"}
  /\ cursor \in Nat /\ missing \in Nat
  /\ routed \subseteq Nat
  /\ inLane \subseteq Nat /\ dropped \subseteq Nat /\ lost \subseteq Nat
  /\ lanesStopped \in BOOLEAN

(* A captured frame is in one place only: never in the encoder and the     *)
(* buffer, never written and still to be written, never dropped and        *)
(* encoded (ownership of a frame moves between three threads).             *)
OnePlace ==
  /\ LET place == <<inLane, Buffered, toEmit, WrittenFrames, discarded, dropped, lost>>
     IN \A i, j \in 1 .. 7 : i # j => place[i] \cap place[j] = {}
  /\ Cardinality(WrittenFrames) = Len(written)

(* While no GOP gap has been counted, the file is in strict source order,  *)
(* whatever the order in which the lanes deliver (header lines 18-20).     *)
OrderedUnlessGap ==
  gopGaps = 0 => \A i, j \in 1 .. Len(written) : i < j => written[i] < written[j]

(* While no GOP gap has been counted, every frame of the GOPs the emit     *)
(* thread has passed is accounted for: nothing is left in a lane, in the   *)
(* buffer or uncaptured.  This is what makes gop_gaps = 0 a success        *)
(* criterion of RECORD.md.                                                 *)
GaplessIsComplete ==
  gopGaps = 0 =>
    \A f \in Frames : Gop(f) < nextExpectedGop =>
      f \in WrittenFrames \cup toEmit \cup discarded \cup dropped

(* Every loss is visible in frame_gaps: dropped frames at once, a frame    *)
(* lost inside a lane as soon as the emit thread has passed its GOP        *)
(* (frames submitted after the lanes stopped are outside the recording).   *)
LossesCounted ==
  ~lanesStopped =>
    Cardinality(dropped)
      + Cardinality({f \in lost : Gop(f) \notin DOMAIN pending}) <= frameGaps

(* The inductive strengthening of OrderedUnlessGap and GaplessIsComplete.  *)

\* Only captured positions are anywhere, and a frame not yet emitted is in
\* the lanes, in the buffer of its own GOP, or dropped.
Placement ==
  /\ inLane \cup dropped \subseteq Captured
  /\ inLane \cap dropped = {}
  /\ \A g \in DOMAIN pending : \A f \in pending[g].chunks :
       Gop(f) = g /\ f \in Captured /\ f \notin inLane \cup dropped

\* The buffer of a GOP counts exactly its dropped frames, and the GOPs that
\* still wait for frames are present.
DroppedIn(g) == {f \in dropped : Gop(f) = g}

Bookkeeping ==
  gopGaps = 0 /\ emitting =>
    /\ \A g \in DOMAIN pending :
         /\ g >= nextExpectedGop
         /\ pending[g].expectedSet /\ pending[g].nominal = GopSize
         /\ pending[g].dropped = Cardinality(DroppedIn(g))
    /\ \A f \in inLane : Gop(f) \in DOMAIN pending
    /\ \A f \in dropped : Gop(f) >= nextExpectedGop => Gop(f) \in DOMAIN pending
    /\ capture \in {"drop", "push"} \/ Gop(cursor) \in routed
         => Gop(cursor) \in DOMAIN pending

\* Nothing of the GOPs passed so far is outstanding.
PassedIsDone ==
  gopGaps = 0 =>
    \A f \in 0 .. NumFrames : Gop(f) < nextExpectedGop =>
      f \in Captured /\ f \in WrittenFrames \cup toEmit \cup discarded \cup dropped

\* The file is sorted, and what is being emitted belongs after it.
EmittedInOrder ==
  gopGaps = 0 =>
    /\ \A f \in WrittenFrames \cup toEmit : Gop(f) < nextExpectedGop
    /\ \A f \in WrittenFrames, h \in toEmit : f < h
    /\ \A i, j \in 1 .. Len(written) : i < j => written[i] < written[j]

\* Routed groups are not in the future, so a group is routed by its first
\* frame; a run being registered is not empty and ends in a captured frame.
CaptureState ==
  /\ \A g \in routed : g <= Gop(cursor)
  /\ capture \in {"expect", "drop"} <=> missing > 0
  /\ cursor <= NumFrames
  /\ capture # "idle" => cursor + missing < NumFrames
  /\ ~emitting => toEmit = {}

OrderInv == Placement /\ Bookkeeping /\ PassedIsDone /\ EmittedInOrder /\ CaptureState

(* A chunk that has reached the buffer does not stay there: a stalled or   *)
(* missing GOP in front of it is passed after the stall timeout.           *)
ChunkLeavesBuffer == \A f \in Frames : f \in Buffered ~> f \notin Buffered

\* Stop returns, with every GOP flushed, even while frames keep arriving.
StopTerminates == (stop = "stopping") ~> (stop = "stopped")

(* The detailed serializer implements the promise of OrderedStream.        *)
Promise == INSTANCE OrderedStream
             WITH Frame <- Frames, file <- written, degraded <- (gopGaps > 0)
ImplementsOrderedStream == Promise!StreamSpec
=============================================================================
