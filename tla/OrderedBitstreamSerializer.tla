--------------------- MODULE OrderedBitstreamSerializer ---------------------
(***************************************************************************)
(* src/src/ordered_bitstream_serializer.cpp: the buffer that collects the  *)
(* encoded frames of every lane, GOP by GOP, and the emit thread that      *)
(* writes them to the muxer.                                               *)
(*                                                                         *)
(* This module holds the object's state and one action per operation; the  *)
(* callers (capture thread, lane pull threads, Stop) are in                *)
(* RecordingStream.  Every critical section of mutex_ is one step.  An     *)
(* encoded chunk is identified with the source index of its frame; its     *)
(* bytes and time stamps are left out.                                     *)
(***************************************************************************)
EXTENDS Integers, FiniteSets, Sequences

CONSTANTS GopSize,       \* frames per GOP (cfg gop_size)
          StallTimeout,  \* clock ticks in stall_timeout_ms
          Faults         \* which failures of the environment may happen

ASSUME SerializerAssumption ==
  /\ GopSize \in Nat \ {0}
  /\ StallTimeout \in Nat
  /\ Faults \subseteq {"lane_loss", "pipeline", "empty_chunk"}

VARIABLES
  pending,          \* pending_: GOP index -> GopBuffer, only for GOPs present
  nextExpectedGop,  \* next_expected_gop_
  toEmit,           \* EmitLoop's local to_emit, still to be handed to appsrc
  written,          \* frames accepted by the muxer, in that order
  discarded,        \* frames EmitChunk returned from without writing
  frameGaps,        \* frame_gaps_
  gopGaps,          \* gop_gaps_
  pipelineFailed,   \* pipeline_failed_
  errorRaised,      \* error_callback_ has been called
  emitting,         \* the emit thread has not left EmitLoop
  stop              \* "running", "stopping" (~keep_running_), "stopped"

emitVars   == <<nextExpectedGop, toEmit, written, discarded, pipelineFailed,
                errorRaised, emitting>>
serializerVars == <<pending, frameGaps, gopGaps, stop, emitVars>>

Gop(f) == f \div GopSize

(* Every field but age is a field of GopBuffer; age is the time since      *)
(* first_seen_us in ticks, and stops growing once the GOP counts as        *)
(* stalled.                                                                *)
GopBuffer == [chunks      : SUBSET Nat,
              nominal     : {0, GopSize},
              dropped     : Nat,
              expectedSet : BOOLEAN,
              age         : 0 .. StallTimeout + 1]

NewBuffer == [chunks |-> {}, nominal |-> 0, dropped |-> 0,
              expectedSet |-> FALSE, age |-> 0]

\* pending_[g]: the entry, created on first use.
Buffer(g) == IF g \in DOMAIN pending THEN pending[g] ELSE NewBuffer
Stored(g, b) == [h \in DOMAIN pending \cup {g} |-> IF h = g THEN b ELSE pending[h]]
\* Mutant: a popped GOP stays in pending_.
NotErased(g) == pending

Erased(g) == [h \in DOMAIN pending \ {g} |-> pending[h]]

----------------------------------------------------------------------------
(* The state Start leaves behind.  MultiNvRecorder builds a new serializer *)
(* for every recording, so an object is started once.                      *)
SerializerInit ==
  /\ pending = [g \in {} |-> NewBuffer]
  /\ nextExpectedGop = 0
  /\ toEmit = {} /\ written = <<>> /\ discarded = {}
  /\ frameGaps = 0 /\ gopGaps = 0
  /\ pipelineFailed = FALSE /\ errorRaised = FALSE
  /\ emitting = TRUE
  /\ stop = "running"

\* Mutant: repeated calls add up.
SetGopExpectedCountTwice(g, count) ==
  /\ pending' = Stored(g, [Buffer(g) EXCEPT !.nominal = @ + count, !.expectedSet = TRUE])
  /\ UNCHANGED <<frameGaps, gopGaps, stop, emitVars>>

SetGopExpectedCount(g, count) ==
  /\ pending' = Stored(g, [Buffer(g) EXCEPT !.nominal = count, !.expectedSet = TRUE])
  /\ UNCHANGED <<frameGaps, gopGaps, stop, emitVars>>

\* Mutant: the last report replaces the earlier ones.
NotifyFramesDroppedLast(g, count) ==
  /\ pending' = Stored(g, [Buffer(g) EXCEPT !.dropped = count])
  /\ frameGaps' = frameGaps + count
  /\ UNCHANGED <<gopGaps, stop, emitVars>>

NotifyFramesDropped(g, count) ==
  /\ pending' = Stored(g, [Buffer(g) EXCEPT !.dropped = @ + count])
  /\ frameGaps' = frameGaps + count
  /\ UNCHANGED <<gopGaps, stop, emitVars>>

PushChunk(f) ==
  /\ pending' = Stored(Gop(f), [Buffer(Gop(f)) EXCEPT !.chunks = @ \cup {f}])
  /\ UNCHANGED <<frameGaps, gopGaps, stop, emitVars>>

----------------------------------------------------------------------------
(* EmitLoop.  wait_for re-examines the state at least every 100 ms, so a   *)
(* branch is taken some time after its condition holds, notified or not.   *)
ExpectedChunks(b) ==
  IF b.expectedSet /\ b.nominal > b.dropped THEN b.nominal - b.dropped ELSE 0

\* Mutant: at Stop every GOP counts as complete.
CompleteAtStop(b) ==
  stop # "running" \/ (b.expectedSet /\ Cardinality(b.chunks) >= ExpectedChunks(b))

Complete(b) == b.expectedSet /\ Cardinality(b.chunks) >= ExpectedChunks(b)
Stalled(b)  == b.age > StallTimeout

\* Mutant: one gap per incomplete GOP.
ShortfallOfOne(b) ==
  IF b.expectedSet /\ ExpectedChunks(b) > Cardinality(b.chunks) THEN 1 ELSE 0

\* frame_gaps_ grows by the chunks a popped GOP still lacks.
Shortfall(b) ==
  IF b.expectedSet /\ ExpectedChunks(b) > Cardinality(b.chunks)
  THEN ExpectedChunks(b) - Cardinality(b.chunks) ELSE 0

\* Mutant: no stall timeout.
MayPopComplete(b) == Complete(b) \/ stop # "running"

MayPop(b) == Complete(b) \/ Stalled(b) \/ stop # "running"

PopGop ==
  /\ emitting /\ toEmit = {}
  /\ nextExpectedGop \in DOMAIN pending
  /\ LET b == pending[nextExpectedGop] IN
       /\ MayPop(b)
       /\ toEmit' = b.chunks
       /\ frameGaps' = frameGaps + Shortfall(b)
       /\ gopGaps' = gopGaps + (IF Complete(b) THEN 0 ELSE 1)
  /\ pending' = Erased(nextExpectedGop)
  /\ nextExpectedGop' = nextExpectedGop + 1
  /\ UNCHANGED <<written, discarded, pipelineFailed, errorRaised, emitting, stop>>

\* pending_.begin()->first
Least(S) == CHOOSE x \in S : \A y \in S : x <= y

SkipTarget == Least(DOMAIN pending)

\* Mutant: a missing GOP is not passed during Stop.
SkipGopRunning ==
  /\ emitting /\ toEmit = {}
  /\ nextExpectedGop \notin DOMAIN pending
  /\ DOMAIN pending # {}
  /\ Stalled(pending[SkipTarget]) /\ stop = "running"
  /\ gopGaps' = gopGaps + 1
  /\ nextExpectedGop' = SkipTarget
  /\ UNCHANGED <<pending, toEmit, written, discarded, frameGaps,
                 pipelineFailed, errorRaised, emitting, stop>>

SkipGop ==
  /\ emitting /\ toEmit = {}
  /\ nextExpectedGop \notin DOMAIN pending
  /\ DOMAIN pending # {}
  /\ Stalled(pending[SkipTarget]) \/ stop # "running"
  /\ gopGaps' = gopGaps + 1
  /\ nextExpectedGop' = SkipTarget
  /\ UNCHANGED <<pending, toEmit, written, discarded, frameGaps,
                 pipelineFailed, errorRaised, emitting, stop>>

EmitExit ==
  /\ emitting /\ toEmit = {}
  /\ stop # "running" /\ DOMAIN pending = {}
  /\ emitting' = FALSE
  /\ UNCHANGED <<pending, nextExpectedGop, toEmit, written, discarded,
                 frameGaps, gopGaps, pipelineFailed, errorRaised, stop>>

\* Mutant: to_emit is emitted unsorted.
NextChunkUnsorted == CHOOSE f \in toEmit : \A h \in toEmit : h <= f

(* The chunks of to_emit in source order, one EmitChunk call each: written, *)
(* silently skipped (failed pipeline, or empty data), or refused by appsrc. *)
NextChunk == Least(toEmit)

WriteChunk ==
  /\ toEmit # {} /\ ~pipelineFailed
  /\ written' = Append(written, NextChunk)
  /\ toEmit' = toEmit \ {NextChunk}
  /\ UNCHANGED <<pending, nextExpectedGop, discarded, frameGaps, gopGaps,
                 pipelineFailed, errorRaised, emitting, stop>>

SkipChunk ==
  /\ toEmit # {}
  /\ pipelineFailed \/ "empty_chunk" \in Faults
  /\ discarded' = discarded \cup {NextChunk}
  /\ toEmit' = toEmit \ {NextChunk}
  /\ UNCHANGED <<pending, nextExpectedGop, written, frameGaps, gopGaps,
                 pipelineFailed, errorRaised, emitting, stop>>

RefuseChunk ==
  /\ toEmit # {} /\ ~pipelineFailed
  /\ "pipeline" \in Faults
  /\ discarded' = discarded \cup {NextChunk}
  /\ toEmit' = toEmit \ {NextChunk}
  /\ pipelineFailed' = TRUE
  /\ errorRaised' = (errorRaised \/ stop = "running")
  /\ UNCHANGED <<pending, nextExpectedGop, written, frameGaps, gopGaps, emitting, stop>>

\* on_bus_message, on the pipeline's main-loop thread.
BusError ==
  /\ "pipeline" \in Faults /\ ~pipelineFailed /\ stop # "stopped"
  /\ pipelineFailed' = TRUE
  /\ errorRaised' = (errorRaised \/ stop = "running")
  /\ UNCHANGED <<pending, frameGaps, gopGaps, stop, nextExpectedGop, toEmit,
                 written, discarded, emitting>>

\* The clock.
Tick ==
  /\ \E g \in DOMAIN pending : pending[g].age <= StallTimeout
  /\ pending' = [g \in DOMAIN pending |->
                   [pending[g] EXCEPT !.age = IF @ <= StallTimeout THEN @ + 1 ELSE @]]
  /\ UNCHANGED <<frameGaps, gopGaps, stop, emitVars>>

----------------------------------------------------------------------------
(* Stop up to the join of the emit thread, and the rest of it.             *)
StopBegin ==
  /\ stop = "running"
  /\ stop' = "stopping"
  /\ UNCHANGED <<pending, frameGaps, gopGaps, emitVars>>

StopFinish ==
  /\ stop = "stopping" /\ ~emitting
  /\ stop' = "stopped"
  /\ pending' = [g \in {} |-> NewBuffer]
  /\ UNCHANGED <<frameGaps, gopGaps, emitVars>>

EmitLoop == PopGop \/ SkipGop \/ EmitExit \/ WriteChunk \/ SkipChunk \/ RefuseChunk

SerializerTypeOK ==
  /\ DOMAIN pending \subseteq Nat
  /\ \A g \in DOMAIN pending : pending[g] \in GopBuffer /\ IsFiniteSet(pending[g].chunks)
  /\ nextExpectedGop \in Nat
  /\ toEmit \subseteq Nat /\ discarded \subseteq Nat
  /\ written \in Seq(Nat)
  /\ frameGaps \in Nat /\ gopGaps \in Nat
  /\ pipelineFailed \in BOOLEAN /\ errorRaised \in BOOLEAN /\ emitting \in BOOLEAN
  /\ stop \in {"running", "stopping", "stopped"}
=============================================================================
