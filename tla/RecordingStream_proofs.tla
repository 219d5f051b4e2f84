----------------------- MODULE RecordingStream_proofs -----------------------
(***************************************************************************)
(* Theorems of RecordingStream for every number of frames, GOP size, stall *)
(* timeout and set of faults.                                              *)
(***************************************************************************)
EXTENDS RecordingStream, FiniteSetTheorems, WellFoundedInduction, TLAPS

----------------------------------------------------------------------------
(* The operators of OrderedBitstreamSerializer: the smallest element of a  *)
(* set, GOP numbers, the pending_ map, and why a complete GOP has nothing  *)
(* outstanding.                                                            *)

(* A non-empty set of source or GOP indexes has a smallest element, so     *)
(* pending_.begin() and the head of the sorted to_emit are well defined.   *)
LEMMA LeastIsMember ==
  ASSUME NEW S \in SUBSET Nat, S # {}
  PROVE  Least(S) \in S /\ \A y \in S : Least(S) <= y
<1>1. \E x \in S : \A y \in S : ~ (<<y, x>> \in OpToRel(<,Nat))
  BY NatLessThanWellFounded, WFMin, Zenon
<1>2. ASSUME NEW x \in Nat, NEW y \in Nat, ~ (<<y, x>> \in OpToRel(<,Nat))
      PROVE  x <= y
  <2>1. OpToRel(<,Nat) = {ss \in Nat \X Nat : ss[1] < ss[2]}
    BY Zenon DEF OpToRel
  <2>2. ~ (<<y, x>> \in {ss \in Nat \X Nat : ss[1] < ss[2]}) => x <= y
    OBVIOUS
  <2> QED BY <1>2, <2>1, <2>2, Zenon
<1>3. \E x \in S : \A y \in S : x <= y
  BY <1>1, <1>2
<1> QED BY <1>3 DEF Least

----------------------------------------------------------------------------
(* GOP numbers are natural numbers.                                        *)
LEMMA GopNat == \A f \in Nat : Gop(f) \in Nat
BY SerializerAssumption DEF Gop

(* GOP g holds the positions from g * GopSize on, GopSize of them.         *)
LEMMA GopBounds == \A f \in Nat : GopSize * Gop(f) <= f /\ f < GopSize * Gop(f) + GopSize
BY SerializerAssumption DEF Gop

(* The starts of two different GOPs are at least GopSize apart.            *)
LEMMA GopStarts == \A a, b \in Nat : a < b => GopSize * a + GopSize <= GopSize * b
<1> SUFFICES ASSUME NEW a \in Nat, NEW b \in Nat, a < b
             PROVE  GopSize * a + GopSize <= GopSize * b
  OBVIOUS
<1>1. \A d \in Nat : GopSize * d >= 0
  BY SerializerAssumption
<1>2. GopSize * b = GopSize * a + GopSize + GopSize * (b - a - 1)
  BY SerializerAssumption
<1> QED BY <1>1, <1>2, SerializerAssumption

(* A frame of an earlier GOP is an earlier frame.                          *)
LEMMA GopMonotonic == \A f, h \in Nat : Gop(f) < Gop(h) => f < h
<1> SUFFICES ASSUME NEW f \in Nat, NEW h \in Nat, Gop(f) < Gop(h)
             PROVE  f < h
  OBVIOUS
<1> DEFINE p == GopSize * Gop(f)
           q == GopSize * Gop(h)
<1>1. p \in Nat /\ q \in Nat
  BY SerializerAssumption, GopNat
<1>2. p + GopSize <= q
  BY GopNat, GopStarts
<1>3. f < p + GopSize /\ q <= h
  BY GopBounds
<1> HIDE DEF p, q
<1> QED BY <1>1, <1>2, <1>3, SerializerAssumption

(* The position of a frame decides its GOP.                                *)
LEMMA GopUnique ==
  \A f, g \in Nat : GopSize * g <= f /\ f < GopSize * g + GopSize => Gop(f) = g
<1> SUFFICES ASSUME NEW f \in Nat, NEW g \in Nat,
                    GopSize * g <= f, f < GopSize * g + GopSize
             PROVE  Gop(f) = g
  OBVIOUS
<1> DEFINE p == GopSize * Gop(f)
           q == GopSize * g
<1>1. /\ p \in Nat /\ q \in Nat
      /\ p <= f /\ f < p + GopSize
      /\ q <= f /\ f < q + GopSize
  BY SerializerAssumption, GopNat, GopBounds
<1>2. Gop(f) < g => p + GopSize <= q
  BY GopNat, GopStarts
<1>3. g < Gop(f) => q + GopSize <= p
  BY GopNat, GopStarts
<1> HIDE DEF p, q
<1>4. ~ (Gop(f) < g) /\ ~ (g < Gop(f))
  BY <1>1, <1>2, <1>3, SerializerAssumption
<1> QED BY <1>4, GopNat

(* A position is its GOP's start plus its offset in the GOP.               *)
LEMMA GopOffset ==
  \A f \in Nat : f % GopSize \in 0 .. GopSize - 1 /\ f = GopSize * Gop(f) + (f % GopSize)
BY SerializerAssumption DEF Gop

(* A run of missing positions cut at the group boundary (as                *)
(* RegisterMissingFrames does) lies in one GOP.                            *)
LEMMA RunInOneGop ==
  ASSUME NEW c \in Nat, NEW n \in Nat, n <= GopSize - (c % GopSize),
         NEW f \in c .. c + n - 1
  PROVE  Gop(f) = Gop(c)
<1> DEFINE q == GopSize * Gop(c)
           r == c % GopSize
<1>1. /\ q \in Nat
      /\ r \in 0 .. GopSize - 1 /\ c = q + r
      /\ n <= GopSize - r
  <2>1. q \in Nat
    BY GopNat, SerializerAssumption
  <2>2. r \in 0 .. GopSize - 1 /\ c = q + r
    BY GopOffset
  <2> QED BY <2>1, <2>2
<1> HIDE DEF q, r
<1>2. f \in Nat /\ q <= f /\ f < q + GopSize
  BY <1>1, SerializerAssumption
<1>3. q = GopSize * Gop(c)
  BY DEF q
<1> QED BY <1>2, <1>3, GopUnique, GopNat

(* GOP g as a set: GopSize positions.                                      *)
PositionsOf(g) == GopSize * g .. GopSize * g + GopSize - 1

(* The positions of GOP g are the natural numbers whose GOP is g. *)
LEMMA PositionsOfGop ==
  ASSUME NEW g \in Nat
  PROVE  /\ IsFiniteSet(PositionsOf(g))
         /\ Cardinality(PositionsOf(g)) = GopSize
         /\ PositionsOf(g) \subseteq Nat
         /\ \A f \in Nat : f \in PositionsOf(g) <=> Gop(f) = g
<1> DEFINE q == GopSize * g
<1>1. q \in Nat /\ GopSize \in Nat /\ GopSize > 0
  BY SerializerAssumption
<1>2. \A f \in Nat : q <= f /\ f < q + GopSize => Gop(f) = g
  BY GopUnique
<1>3. \A f \in Nat : Gop(f) = g => q <= f /\ f < q + GopSize
  BY GopBounds
<1>4. PositionsOf(g) = q .. q + GopSize - 1
  BY DEF PositionsOf
<1> HIDE DEF q
<1>5. IsFiniteSet(q .. q + GopSize - 1) /\ Cardinality(q .. q + GopSize - 1) = GopSize
  BY <1>1, FS_Interval
<1> QED BY <1>1, <1>2, <1>3, <1>4, <1>5

(* Why a complete GOP is really complete.  If the chunks present and the   *)
(* dropped frames are different frames of GOP g, and the emit thread's     *)
(* test chunks.size() >= nominal - dropped succeeds, then every frame of   *)
(* GOP g is one or the other.                                              *)
LEMMA CompleteGop ==
  ASSUME NEW g \in Nat, NEW C \in SUBSET Nat, NEW D \in SUBSET Nat,
         C \cap D = {}, \A f \in C \cup D : Gop(f) = g,
         IsFiniteSet(C), IsFiniteSet(D),
         Cardinality(C) + Cardinality(D) >= GopSize,
         NEW f \in Nat, Gop(f) = g
  PROVE  f \in C \cup D
<1>1. C \cup D \subseteq PositionsOf(g)
  BY PositionsOfGop
<1>2. IsFiniteSet(C \cup D)
      /\ Cardinality(C \cup D) = Cardinality(C) + Cardinality(D) - Cardinality(C \cap D)
  BY FS_Union
<1>3. Cardinality(C \cap D) = 0
  BY FS_EmptySet
<1>4. Cardinality(C) \in Nat /\ Cardinality(D) \in Nat /\ Cardinality(C \cup D) \in Nat
  BY <1>2, FS_CardinalityType
<1>5. Cardinality(C \cup D) >= Cardinality(PositionsOf(g))
  BY <1>2, <1>3, <1>4, PositionsOfGop, SerializerAssumption
<1>6. Cardinality(C \cup D) <= Cardinality(PositionsOf(g))
  BY <1>1, PositionsOfGop, FS_Subset
<1>7. C \cup D = PositionsOf(g)
  <2>1. Cardinality(C \cup D) = Cardinality(PositionsOf(g))
    BY <1>4, <1>5, <1>6, PositionsOfGop, SerializerAssumption
  <2> QED BY <1>1, <2>1, PositionsOfGop, FS_Subset
<1> QED BY <1>7, PositionsOfGop

----------------------------------------------------------------------------
(* What a store into pending_ changes and what it keeps.                   *)
LEMMA StoredFacts ==
  ASSUME NEW g, NEW b
  PROVE  /\ DOMAIN Stored(g, b) = DOMAIN pending \cup {g}
         /\ Stored(g, b)[g] = b
         /\ \A h \in DOMAIN pending : h # g => Stored(g, b)[h] = pending[h]
BY DEF Stored

(* What an erase from pending_ changes and what it keeps.                  *)
LEMMA ErasedFacts ==
  ASSUME NEW g
  PROVE  /\ DOMAIN Erased(g) = DOMAIN pending \ {g}
         /\ \A h \in DOMAIN pending : h # g => Erased(g)[h] = pending[h]
BY DEF Erased

(* An entry of a well-typed pending_, existing or created on first use, is *)
(* a GopBuffer with finitely many chunks.                                  *)
LEMMA BufferType ==
  ASSUME SerializerTypeOK, NEW g
  PROVE  Buffer(g) \in GopBuffer /\ IsFiniteSet(Buffer(g).chunks)
<1>1. NewBuffer \in GopBuffer /\ IsFiniteSet(NewBuffer.chunks)
  BY FS_EmptySet, SerializerAssumption DEF NewBuffer, GopBuffer
<1> QED BY <1>1 DEF Buffer, SerializerTypeOK

----------------------------------------------------------------------------
(* Type correctness of the object, one lemma per operation.                *)

PendingType(p) ==
  /\ DOMAIN p \subseteq Nat
  /\ \A g \in DOMAIN p : p[g] \in GopBuffer /\ IsFiniteSet(p[g].chunks)

(* Storing a well-typed buffer keeps pending_ well typed. *)
LEMMA StoredType ==
  ASSUME SerializerTypeOK, NEW g \in Nat,
         NEW b \in GopBuffer, IsFiniteSet(b.chunks)
  PROVE  PendingType(Stored(g, b))
<1>1. /\ DOMAIN Stored(g, b) = DOMAIN pending \cup {g}
      /\ Stored(g, b)[g] = b
      /\ \A h \in DOMAIN pending : h # g => Stored(g, b)[h] = pending[h]
  BY DEF Stored
<1>2. ASSUME NEW h \in DOMAIN Stored(g, b)
      PROVE  Stored(g, b)[h] \in GopBuffer /\ IsFiniteSet(Stored(g, b)[h].chunks)
  <2>1. CASE h = g
    BY <1>1, <2>1
  <2>2. CASE h # g
    BY <1>1, <2>2 DEF SerializerTypeOK
  <2> QED BY <2>1, <2>2
<1> QED BY <1>1, <1>2 DEF PendingType, SerializerTypeOK

(* Erasing an entry keeps pending_ well typed. *)
LEMMA ErasedType ==
  ASSUME SerializerTypeOK, NEW g
  PROVE  PendingType(Erased(g))
BY ErasedFacts DEF PendingType, SerializerTypeOK

(* SetGopExpectedCount keeps the serializer well typed. *)
LEMMA SetGopExpectedCountType ==
  ASSUME SerializerTypeOK, NEW g \in Nat, SetGopExpectedCount(g, GopSize)
  PROVE  SerializerTypeOK'
<1> DEFINE b == [Buffer(g) EXCEPT !.nominal = GopSize, !.expectedSet = TRUE]
<1>1. b \in GopBuffer /\ IsFiniteSet(b.chunks)
  BY BufferType DEF GopBuffer
<1>2. PendingType(Stored(g, b))
  BY <1>1, StoredType
<1> QED BY <1>2 DEF SetGopExpectedCount, emitVars, PendingType, SerializerTypeOK

(* NotifyFramesDropped keeps the serializer well typed. *)
LEMMA NotifyFramesDroppedType ==
  ASSUME SerializerTypeOK, NEW g \in Nat, NEW n \in Nat, NotifyFramesDropped(g, n)
  PROVE  SerializerTypeOK'
<1> DEFINE b == [Buffer(g) EXCEPT !.dropped = @ + n]
<1>1. b \in GopBuffer /\ IsFiniteSet(b.chunks)
  BY BufferType DEF GopBuffer
<1>2. PendingType(Stored(g, b))
  BY <1>1, StoredType
<1> QED BY <1>2 DEF NotifyFramesDropped, emitVars, PendingType, SerializerTypeOK

(* PushChunk keeps the serializer well typed. *)
LEMMA PushChunkType ==
  ASSUME SerializerTypeOK, NEW f \in Nat, PushChunk(f)
  PROVE  SerializerTypeOK'
<1> DEFINE b == [Buffer(Gop(f)) EXCEPT !.chunks = @ \cup {f}]
<1>1. b \in GopBuffer /\ IsFiniteSet(b.chunks)
  BY BufferType, FS_AddElement DEF GopBuffer
<1>2. PendingType(Stored(Gop(f), b))
  BY <1>1, StoredType, GopNat
<1> QED BY <1>2 DEF PushChunk, emitVars, PendingType, SerializerTypeOK

(* What EmitLoop adds to frame_gaps_ is a natural number. *)
LEMMA ShortfallNat ==
  ASSUME NEW b \in GopBuffer, IsFiniteSet(b.chunks)
  PROVE  Shortfall(b) \in Nat /\ ExpectedChunks(b) \in Nat
BY FS_CardinalityType, SerializerAssumption DEF Shortfall, ExpectedChunks, GopBuffer

(* Every branch of EmitLoop keeps the serializer well typed. *)
LEMMA EmitLoopType ==
  ASSUME SerializerTypeOK, EmitLoop
  PROVE  SerializerTypeOK'
<1>1. CASE PopGop
  <2>1. pending[nextExpectedGop].chunks \in SUBSET Nat
        /\ Shortfall(pending[nextExpectedGop]) \in Nat
    BY <1>1, ShortfallNat DEF PopGop, SerializerTypeOK, GopBuffer
  <2>2. PendingType(pending')
    BY <1>1, ErasedType DEF PopGop
  <2> QED BY <1>1, <2>1, <2>2 DEF PopGop, PendingType, SerializerTypeOK
<1>2. CASE SkipGop
  BY <1>2, LeastIsMember DEF SkipGop, SkipTarget, SerializerTypeOK
<1>3. CASE EmitExit
  BY <1>3 DEF EmitExit, SerializerTypeOK
<1>4. toEmit # {} => NextChunk \in Nat
  BY LeastIsMember DEF NextChunk, SerializerTypeOK
<1>5. CASE WriteChunk
  <2>1. written' \in Seq(Nat)
    BY <1>4, <1>5 DEF WriteChunk, SerializerTypeOK
  <2>2. toEmit' \subseteq Nat
    BY <1>5 DEF WriteChunk, SerializerTypeOK
  <2> QED BY <1>5, <2>1, <2>2 DEF WriteChunk, SerializerTypeOK
<1>6. CASE SkipChunk
  BY <1>4, <1>6 DEF SkipChunk, SerializerTypeOK
<1>7. CASE RefuseChunk
  <2>1. errorRaised' \in BOOLEAN
    BY <1>7 DEF RefuseChunk, SerializerTypeOK
  <2> QED BY <1>4, <1>7, <2>1 DEF RefuseChunk, SerializerTypeOK
<1> QED BY <1>1, <1>2, <1>3, <1>5, <1>6, <1>7 DEF EmitLoop

(* The clock keeps the serializer well typed: an age stops at its bound. *)
LEMMA TickType ==
  ASSUME SerializerTypeOK, Tick
  PROVE  SerializerTypeOK'
<1>1. ASSUME NEW g \in DOMAIN pending
      PROVE  LET a == pending[g].age
             IN (IF a <= StallTimeout THEN a + 1 ELSE a) \in 0 .. StallTimeout + 1
  BY <1>1, SerializerAssumption DEF SerializerTypeOK, GopBuffer
<1>2. DOMAIN pending' = DOMAIN pending
  BY DEF Tick
<1>3. ASSUME NEW g \in DOMAIN pending
      PROVE  pending'[g] \in GopBuffer /\ IsFiniteSet(pending'[g].chunks)
  <2>1. pending[g] \in GopBuffer /\ IsFiniteSet(pending[g].chunks)
    BY <1>3 DEF SerializerTypeOK
  <2>2. pending'[g] = [pending[g] EXCEPT !.age = IF @ <= StallTimeout THEN @ + 1 ELSE @]
    BY <1>3 DEF Tick
  <2> QED BY <1>1, <1>3, <2>1, <2>2 DEF GopBuffer
<1>4. PendingType(pending')
  BY <1>2, <1>3 DEF PendingType, SerializerTypeOK
<1> QED BY <1>4 DEF Tick, emitVars, PendingType, SerializerTypeOK

(* The bus thread and Stop keep the serializer well typed. *)
LEMMA OtherSerializerStepsType ==
  ASSUME SerializerTypeOK, BusError \/ StopBegin \/ StopFinish
  PROVE  SerializerTypeOK'
<1>1. CASE BusError
  <2>1. errorRaised' \in BOOLEAN
    BY <1>1 DEF BusError, SerializerTypeOK
  <2> QED BY <1>1, <2>1 DEF BusError, SerializerTypeOK
<1>2. CASE StopBegin
  BY <1>2 DEF StopBegin, emitVars, SerializerTypeOK
<1>3. CASE StopFinish
  BY <1>3 DEF StopFinish, emitVars, SerializerTypeOK
<1> QED BY <1>1, <1>2, <1>3

(* The serializer Start leaves behind is well typed. *)
LEMMA SerializerInitType ==
  ASSUME SerializerInit
  PROVE  SerializerTypeOK
<1>1. DOMAIN pending = {}
  BY DEF SerializerInit
<1>2. written \in Seq(Nat)
  BY DEF SerializerInit
<1>3. /\ nextExpectedGop \in Nat
      /\ toEmit \subseteq Nat /\ discarded \subseteq Nat
      /\ frameGaps \in Nat /\ gopGaps \in Nat
      /\ pipelineFailed \in BOOLEAN /\ errorRaised \in BOOLEAN /\ emitting \in BOOLEAN
      /\ stop \in {"running", "stopping", "stopped"}
  BY DEF SerializerInit
<1> QED BY <1>1, <1>2, <1>3 DEF SerializerTypeOK

----------------------------------------------------------------------------
(* The capture thread, the lanes and the serializer together.              *)

ClientTypeOK ==
  /\ capture \in {"idle", "expect", "drop", "route", "push"}
  /\ cursor \in Nat /\ missing \in Nat
  /\ routed \subseteq Nat
  /\ inLane \subseteq Nat /\ dropped \subseteq Nat /\ lost \subseteq Nat
  /\ lanesStopped \in BOOLEAN

(* The type invariant is that of the serializer and that of its clients. *)
LEMMA TypeParts == TypeOK <=> SerializerTypeOK /\ ClientTypeOK
BY DEF TypeOK, ClientTypeOK

(* A run cut at the group boundary is no longer than what is missing. *)
LEMMA InThisGroupNat ==
  ASSUME ClientTypeOK
  PROVE  /\ InThisGroup \in Nat
         /\ InThisGroup <= missing
         /\ InThisGroup <= GopSize - (cursor % GopSize)
         /\ missing > 0 => InThisGroup > 0
<1> DEFINE r == cursor % GopSize
<1>1. r \in 0 .. GopSize - 1
  BY GopOffset DEF ClientTypeOK
<1>2. InThisGroup = IF missing < GopSize - r THEN missing ELSE GopSize - r
  BY DEF InThisGroup
<1> HIDE DEF r
<1>3. /\ InThisGroup \in Nat
      /\ InThisGroup <= missing
      /\ InThisGroup <= GopSize - r
      /\ missing > 0 => InThisGroup > 0
  BY <1>1, <1>2, SerializerAssumption DEF ClientTypeOK
<1> QED BY <1>3 DEF r

(* Every step of the capture thread keeps the types. *)
LEMMA CaptureType ==
  ASSUME SerializerTypeOK, ClientTypeOK, Capture
  PROVE  SerializerTypeOK' /\ ClientTypeOK'
<1>1. ASSUME NEW k \in 0 .. NumFrames - 1, Arrive(k)
      PROVE  SerializerTypeOK' /\ ClientTypeOK'
  <2>1. k \in Nat
    BY StreamAssumption
  <2> QED BY <1>1, <2>1 DEF Arrive, serializerVars, emitVars, SerializerTypeOK, ClientTypeOK
<1>2. CASE RegisterExpected
  BY <1>2, SetGopExpectedCountType, GopNat DEF RegisterExpected, ClientTypeOK
<1>3. CASE RegisterDropped
  <2>1. SerializerTypeOK'
    BY <1>3, NotifyFramesDroppedType, InThisGroupNat, GopNat DEF RegisterDropped, ClientTypeOK
  <2>2. cursor' \in Nat /\ missing' \in Nat /\ dropped' \subseteq Nat
    <3>1. PICK n \in Nat : n = InThisGroup /\ n <= missing
      BY InThisGroupNat
    <3>2. /\ cursor' = cursor + n /\ missing' = missing - n
          /\ dropped' = dropped \cup cursor .. cursor + n - 1
      BY <1>3, <3>1 DEF RegisterDropped
    <3> QED BY <3>1, <3>2 DEF ClientTypeOK
  <2>3. ClientTypeOK'
    BY <1>3, <2>2 DEF RegisterDropped, ClientTypeOK
  <2> QED BY <2>1, <2>3
<1>4. CASE RouteNewGroup
  BY <1>4, SetGopExpectedCountType, GopNat DEF RouteNewGroup, ClientTypeOK
<1>5. CASE RouteKnownGroup
  BY <1>5 DEF RouteKnownGroup, serializerVars, emitVars, SerializerTypeOK, ClientTypeOK
<1>6. CASE SubmitFrame
  BY <1>6 DEF SubmitFrame, serializerVars, emitVars, SerializerTypeOK, ClientTypeOK
<1>7. CASE DropFrame
  BY <1>7, NotifyFramesDroppedType, GopNat DEF DropFrame, ClientTypeOK
<1> QED BY <1>1, <1>2, <1>3, <1>4, <1>5, <1>6, <1>7 DEF Capture

(* Every step of a lane keeps the types. *)
LEMMA LanesType ==
  ASSUME SerializerTypeOK, ClientTypeOK, Lanes
  PROVE  SerializerTypeOK' /\ ClientTypeOK'
<1>1. ASSUME NEW f \in inLane, Encoded(f)
      PROVE  SerializerTypeOK' /\ ClientTypeOK'
  BY <1>1, PushChunkType DEF Encoded, ClientTypeOK
<1>2. ASSUME NEW f \in inLane, LaneLoses(f)
      PROVE  SerializerTypeOK' /\ ClientTypeOK'
  BY <1>2 DEF LaneLoses, serializerVars, emitVars, SerializerTypeOK, ClientTypeOK
<1> QED BY <1>1, <1>2 DEF Lanes

(* Every step keeps the types. *)
LEMMA NextType == TypeOK /\ [Next]_vars => TypeOK'
<1> SUFFICES ASSUME SerializerTypeOK, ClientTypeOK, [Next]_vars
             PROVE  SerializerTypeOK' /\ ClientTypeOK'
  BY TypeParts DEF TypeOK, ClientTypeOK
<1>1. CASE Capture
  BY <1>1, CaptureType
<1>2. CASE Lanes
  BY <1>2, LanesType
<1>3. CASE StopLanes
  BY <1>3 DEF StopLanes, serializerVars, emitVars, SerializerTypeOK, ClientTypeOK
<1>4. CASE StopSerializer
  BY <1>4, OtherSerializerStepsType DEF StopSerializer, clientVars, ClientTypeOK
<1>5. CASE Emit
  BY <1>5, EmitLoopType DEF Emit, clientVars, ClientTypeOK
<1>6. CASE Clock
  BY <1>6, TickType DEF Clock, clientVars, ClientTypeOK
<1>7. CASE BusThread
  BY <1>7, OtherSerializerStepsType DEF BusThread, clientVars, ClientTypeOK
<1>8. CASE FinishStop
  BY <1>8, OtherSerializerStepsType DEF FinishStop, clientVars, ClientTypeOK
<1>9. CASE UNCHANGED vars
  BY <1>9 DEF vars, serializerVars, emitVars, clientVars, SerializerTypeOK, ClientTypeOK
<1> QED BY <1>1, <1>2, <1>3, <1>4, <1>5, <1>6, <1>7, <1>8, <1>9 DEF Next

(* Every variable of the serializer and of its callers keeps its type.     *)
THEOREM TypeCorrect == Spec => []TypeOK
<1>1. Init => TypeOK
  <2> SUFFICES ASSUME Init PROVE TypeOK
    OBVIOUS
  <2>1. SerializerTypeOK
    BY SerializerInitType DEF Init
  <2>2. ClientTypeOK
    BY DEF Init, ClientTypeOK
  <2> QED BY <2>1, <2>2, TypeParts
<1> QED BY <1>1, NextType, PTL DEF Spec

----------------------------------------------------------------------------
(* Order.  OrderInv is preserved by every step; one lemma per action that  *)
(* disturbs it.                                                            *)
Typed == SerializerTypeOK /\ ClientTypeOK

\* The chunks of every GOP are the same after the step.
SameChunks ==
  \A g \in DOMAIN pending' : \A f \in pending'[g].chunks :
    g \in DOMAIN pending /\ f \in pending[g].chunks

(* SetGopExpectedCount changes the chunks of no GOP. *)
LEMMA SetGopExpectedCountChunks ==
  ASSUME Typed, NEW g \in Nat, SetGopExpectedCount(g, GopSize)
  PROVE  SameChunks
<1> DEFINE b == [Buffer(g) EXCEPT !.nominal = GopSize, !.expectedSet = TRUE]
<1>1. pending' = Stored(g, b)
  BY DEF SetGopExpectedCount
<1>2. b.chunks = IF g \in DOMAIN pending THEN pending[g].chunks ELSE {}
  BY DEF Buffer, NewBuffer, Typed, SerializerTypeOK, GopBuffer
<1> HIDE DEF b
<1> QED BY <1>1, <1>2 DEF SameChunks, Stored

(* NotifyFramesDropped changes the chunks of no GOP. *)
LEMMA NotifyFramesDroppedChunks ==
  ASSUME Typed, NEW g \in Nat, NEW n \in Nat, NotifyFramesDropped(g, n)
  PROVE  SameChunks
<1> DEFINE b == [Buffer(g) EXCEPT !.dropped = @ + n]
<1>1. pending' = Stored(g, b)
  BY DEF NotifyFramesDropped
<1>2. b.chunks = IF g \in DOMAIN pending THEN pending[g].chunks ELSE {}
  BY DEF Buffer, NewBuffer, Typed, SerializerTypeOK, GopBuffer
<1> HIDE DEF b
<1> QED BY <1>1, <1>2 DEF SameChunks, Stored

(* The next position to capture is beyond every GOP passed without a gap.  *)
LEMMA CursorAhead ==
  ASSUME Typed, OrderInv, gopGaps = 0
  PROVE  ~ (Gop(cursor) < nextExpectedGop) /\ Gop(cursor) >= nextExpectedGop
<1>1. cursor \in 0 .. NumFrames /\ cursor \notin Captured
  BY StreamAssumption DEF OrderInv, CaptureState, Captured, Typed, ClientTypeOK
<1>2. ~ (Gop(cursor) < nextExpectedGop)
  BY <1>1 DEF OrderInv, PassedIsDone
<1> QED BY <1>2, GopNat DEF Typed, ClientTypeOK, SerializerTypeOK

(* The position moves on, so routed groups stay behind it.                 *)
LEMMA RoutedBehind ==
  ASSUME Typed, OrderInv, NEW c \in Nat, cursor <= c
  PROVE  /\ Gop(cursor) <= Gop(c)
         /\ \A r \in routed : r <= Gop(c)
         /\ Gop(c) \in routed => Gop(c) = Gop(cursor)
<1>1. cursor \in Nat /\ Gop(cursor) \in Nat /\ Gop(c) \in Nat /\ routed \subseteq Nat
  BY GopNat DEF Typed, ClientTypeOK
<1>2. ~ (Gop(c) < Gop(cursor))
  BY <1>1, GopMonotonic
<1>3. \A r \in routed : r <= Gop(cursor)
  BY DEF OrderInv, CaptureState
<1> QED BY <1>1, <1>2, <1>3

(* SetGopExpectedCount for the group of the next position.                 *)
LEMMA AnnounceBookkeeping ==
  ASSUME Typed, OrderInv, gopGaps = 0, emitting,
         SetGopExpectedCount(Gop(cursor), GopSize)
  PROVE  /\ DOMAIN pending' = DOMAIN pending \cup {Gop(cursor)}
         /\ \A g \in DOMAIN pending' :
              /\ g >= nextExpectedGop
              /\ pending'[g].expectedSet /\ pending'[g].nominal = GopSize
              /\ pending'[g].dropped = Cardinality(DroppedIn(g))
<1> DEFINE c == Gop(cursor)
           b == [Buffer(c) EXCEPT !.nominal = GopSize, !.expectedSet = TRUE]
<1>1. pending' = Stored(c, b)
  BY DEF SetGopExpectedCount
<1>2. b.expectedSet /\ b.nominal = GopSize /\ b.dropped = Buffer(c).dropped
  <2>1. Buffer(c) \in GopBuffer
    BY BufferType DEF Typed
  <2> QED BY <2>1 DEF GopBuffer
<1>3. Buffer(c).dropped = Cardinality(DroppedIn(c))
  <2>1. CASE c \in DOMAIN pending
    BY <2>1 DEF Buffer, OrderInv, Bookkeeping
  <2>2. CASE c \notin DOMAIN pending
    <3>1. DroppedIn(c) = {}
      BY <2>2, CursorAhead DEF OrderInv, Bookkeeping, DroppedIn
    <3> QED BY <2>2, <3>1, FS_EmptySet DEF Buffer, NewBuffer
  <2> QED BY <2>1, <2>2
<1>4. c >= nextExpectedGop
  BY CursorAhead
<1>5. DOMAIN pending' = DOMAIN pending \cup {c}
  BY <1>1 DEF Stored
<1>6. ASSUME NEW g \in DOMAIN pending'
      PROVE  /\ g >= nextExpectedGop
             /\ pending'[g].expectedSet /\ pending'[g].nominal = GopSize
             /\ pending'[g].dropped = Cardinality(DroppedIn(g))
  <2>1. CASE g = c
    <3>1. pending'[g] = b
      BY <1>1, <1>6, <2>1 DEF Stored
    <3> HIDE DEF b
    <3> QED BY <2>1, <3>1, <1>2, <1>3, <1>4
  <2>2. CASE g # c
    <3>1. g \in DOMAIN pending /\ pending'[g] = pending[g]
      BY <1>1, <1>5, <1>6, <2>2 DEF Stored
    <3> QED BY <3>1 DEF OrderInv, Bookkeeping
  <2> QED BY <2>1, <2>2
<1> QED BY <1>5, <1>6

(* NotifyFramesDropped for the next n positions, all in one group.         *)
LEMMA DropBookkeeping ==
  ASSUME Typed, OrderInv, gopGaps = 0, emitting,
         NEW n \in Nat, n <= GopSize - (cursor % GopSize),
         Gop(cursor) \in DOMAIN pending,
         NotifyFramesDropped(Gop(cursor), n),
         dropped' = dropped \cup cursor .. cursor + n - 1
  PROVE  /\ DOMAIN pending' = DOMAIN pending
         /\ \A g \in DOMAIN pending' :
              /\ g >= nextExpectedGop
              /\ pending'[g].expectedSet /\ pending'[g].nominal = GopSize
              /\ pending'[g].dropped = Cardinality({f \in dropped' : Gop(f) = g})
         /\ \A f \in dropped' : Gop(f) >= nextExpectedGop => Gop(f) \in DOMAIN pending'
<1> DEFINE c == Gop(cursor)
           b == [Buffer(c) EXCEPT !.dropped = @ + n]
           run == cursor .. cursor + n - 1
           D(g) == {f \in dropped' : Gop(f) = g}
<1>1. pending' = Stored(c, b)
  BY DEF NotifyFramesDropped
<1>2. /\ pending[c] \in GopBuffer /\ Buffer(c) = pending[c]
      /\ b.expectedSet = pending[c].expectedSet
      /\ b.nominal = pending[c].nominal
      /\ b.dropped = pending[c].dropped + n
  <2>1. pending[c] \in GopBuffer /\ Buffer(c) = pending[c]
    BY DEF Typed, SerializerTypeOK, Buffer
  <2> QED BY <2>1 DEF GopBuffer
<1>3. cursor \in Nat /\ c \in Nat
  BY GopNat DEF Typed, ClientTypeOK
<1>4. \A f \in run : f \in Nat /\ Gop(f) = c
  <2>1. \A f \in run : f \in Nat
    BY <1>3
  <2>2. ASSUME NEW f \in run PROVE Gop(f) = c
    BY <1>3, RunInOneGop
  <2> QED BY <2>1, <2>2
<1>5. /\ \A g : g # c => D(g) = DroppedIn(g)
      /\ D(c) = DroppedIn(c) \cup run
  BY <1>4 DEF DroppedIn
<1>6. Cardinality(D(c)) = Cardinality(DroppedIn(c)) + n
  <2>1. IsFiniteSet(run) /\ Cardinality(run) = n
    <3>1. cursor + n - 1 \in Int /\ cursor \in Int
      BY <1>3
    <3>2. /\ IsFiniteSet(run)
          /\ Cardinality(run) =
               IF cursor > cursor + n - 1 THEN 0 ELSE cursor + n - 1 - cursor + 1
      BY <3>1, FS_Interval
    <3> HIDE DEF run
    <3> QED BY <1>3, <3>2
  <2>2. DroppedIn(c) \cap run = {}
    BY <1>3 DEF DroppedIn, OrderInv, Placement, Captured
  <2>3. IsFiniteSet(DroppedIn(c))
    <3>1. IsFiniteSet(Captured)
      BY <1>3, FS_Interval DEF Captured
    <3> QED BY <3>1, FS_Subset DEF DroppedIn, OrderInv, Placement
  <2>4. Cardinality(DroppedIn(c) \cup run)
          = Cardinality(DroppedIn(c)) + Cardinality(run) - Cardinality(DroppedIn(c) \cap run)
    BY <2>1, <2>3, FS_Union
  <2>5. Cardinality(DroppedIn(c)) \in Nat /\ Cardinality(DroppedIn(c) \cap run) = 0
    BY <2>2, <2>3, FS_CardinalityType, FS_EmptySet
  <2>6. D(c) = DroppedIn(c) \cup run
    BY <1>5
  <2> HIDE DEF D, run
  <2> QED BY <2>1, <2>4, <2>5, <2>6
<1>7. DOMAIN pending' = DOMAIN pending
  BY <1>1 DEF Stored
<1>8. ASSUME NEW g \in DOMAIN pending'
      PROVE  /\ g >= nextExpectedGop
             /\ pending'[g].expectedSet /\ pending'[g].nominal = GopSize
             /\ pending'[g].dropped = Cardinality(D(g))
  <2>0. /\ g \in DOMAIN pending /\ g >= nextExpectedGop
        /\ pending[g].expectedSet /\ pending[g].nominal = GopSize
        /\ pending[g].dropped = Cardinality(DroppedIn(g))
    BY <1>7, <1>8 DEF OrderInv, Bookkeeping
  <2>1. CASE g = c
    <3>1. pending'[g] = b
      BY <1>1, <1>8, <2>1 DEF Stored
    <3> HIDE DEF b, D
    <3> QED BY <2>0, <2>1, <3>1, <1>2, <1>6
  <2>2. CASE g # c
    <3>1. pending'[g] = pending[g]
      BY <1>1, <2>0, <2>2 DEF Stored
    <3> HIDE DEF D
    <3> QED BY <2>0, <2>2, <3>1, <1>5
  <2> QED BY <2>1, <2>2
<1>9. \A f \in dropped' : Gop(f) >= nextExpectedGop => Gop(f) \in DOMAIN pending'
  BY <1>4, <1>7 DEF OrderInv, Bookkeeping
<1> QED BY <1>7, <1>8, <1>9

(* While a position of its group is outstanding, the group is in pending_. *)
LEMMA CaptureOrder ==
  ASSUME Typed, OrderInv, Capture
  PROVE  OrderInv'
<1>0. cursor \in Nat /\ missing \in Nat /\ Gop(cursor) \in Nat
  BY GopNat DEF Typed, ClientTypeOK
<1>1. ASSUME NEW k \in 0 .. NumFrames - 1, Arrive(k)
      PROVE  OrderInv'
  <2>1. k \in Nat /\ missing' = k /\ cursor' = cursor /\ cursor + k < NumFrames
        /\ capture' = IF k > 0 THEN "expect" ELSE "route"
    BY <1>1, StreamAssumption DEF Arrive
  <2>2. CaptureState'
    BY <1>0, <1>1, <2>1, StreamAssumption
    DEF Arrive, serializerVars, emitVars, OrderInv, CaptureState
  <2>3. Bookkeeping'
    BY <1>1, <2>1 DEF Arrive, serializerVars, emitVars, OrderInv, Bookkeeping, DroppedIn
  <2>4. Placement' /\ PassedIsDone' /\ EmittedInOrder'
    BY <1>1 DEF Arrive, serializerVars, emitVars, OrderInv, Placement, PassedIsDone,
                EmittedInOrder, Captured, WrittenFrames
  <2> QED BY <2>2, <2>3, <2>4 DEF OrderInv
<1>2. CASE RegisterExpected
  <2>1. SetGopExpectedCount(Gop(cursor), GopSize) /\ SameChunks
    BY <1>0, <1>2, SetGopExpectedCountChunks DEF RegisterExpected
  <2>2. Placement'
    BY <1>2, <2>1 DEF RegisterExpected, SameChunks, OrderInv, Placement, Captured
  <2>3. ASSUME gopGaps' = 0, emitting'
        PROVE  Bookkeeping'
    <3>1. gopGaps = 0 /\ emitting /\ nextExpectedGop' = nextExpectedGop
      BY <2>1, <2>3 DEF SetGopExpectedCount, emitVars
    <3>2. Gop(cursor') \in DOMAIN pending'
      BY <1>2, <2>1, <3>1, AnnounceBookkeeping DEF RegisterExpected
    <3> QED BY <1>2, <2>1, <3>1, <3>2, AnnounceBookkeeping
            DEF RegisterExpected, OrderInv, Bookkeeping, DroppedIn
  <2>4. PassedIsDone' /\ EmittedInOrder'
    BY <1>2 DEF RegisterExpected, SetGopExpectedCount, emitVars, OrderInv, PassedIsDone,
                EmittedInOrder, Captured, WrittenFrames
  <2>5. CaptureState'
    BY <1>2 DEF RegisterExpected, SetGopExpectedCount, emitVars, OrderInv, CaptureState
  <2> QED BY <2>2, <2>3, <2>4, <2>5 DEF OrderInv, Bookkeeping
<1>3. CASE RouteNewGroup
  <2>1. SetGopExpectedCount(Gop(cursor), GopSize) /\ SameChunks
    BY <1>0, <1>3, SetGopExpectedCountChunks DEF RouteNewGroup
  <2>2. Placement'
    BY <1>3, <2>1 DEF RouteNewGroup, SameChunks, OrderInv, Placement, Captured
  <2>3. ASSUME gopGaps' = 0, emitting'
        PROVE  Bookkeeping'
    <3>1. gopGaps = 0 /\ emitting /\ nextExpectedGop' = nextExpectedGop
      BY <2>1, <2>3 DEF SetGopExpectedCount, emitVars
    <3>2. Gop(cursor') \in DOMAIN pending'
      BY <1>3, <2>1, <3>1, AnnounceBookkeeping DEF RouteNewGroup
    <3> QED BY <1>3, <2>1, <3>1, <3>2, AnnounceBookkeeping
            DEF RouteNewGroup, OrderInv, Bookkeeping, DroppedIn
  <2>4. PassedIsDone' /\ EmittedInOrder'
    BY <1>3 DEF RouteNewGroup, SetGopExpectedCount, emitVars, OrderInv, PassedIsDone,
                EmittedInOrder, Captured, WrittenFrames
  <2>5. CaptureState'
    BY <1>0, <1>3 DEF RouteNewGroup, SetGopExpectedCount, emitVars, OrderInv, CaptureState
  <2> QED BY <2>2, <2>3, <2>4, <2>5 DEF OrderInv, Bookkeeping
<1>4. CASE RouteKnownGroup
  <2>1. Placement'
    BY <1>4 DEF RouteKnownGroup, serializerVars, emitVars, OrderInv, Placement, Captured
  <2>4. PassedIsDone' /\ EmittedInOrder'
    BY <1>4 DEF RouteKnownGroup, serializerVars, emitVars, OrderInv,
                PassedIsDone, EmittedInOrder, Captured, WrittenFrames
  <2>2. Bookkeeping'
    BY <1>4 DEF RouteKnownGroup, serializerVars, emitVars, OrderInv, Bookkeeping, DroppedIn
  <2>3. CaptureState'
    BY <1>4 DEF RouteKnownGroup, serializerVars, emitVars, OrderInv, CaptureState
  <2> QED BY <2>1, <2>2, <2>3, <2>4 DEF OrderInv
<1>5. CASE RegisterDropped
  <2>1. PICK n \in Nat : n = InThisGroup /\ n <= missing
                         /\ n <= GopSize - (cursor % GopSize)
    BY InThisGroupNat DEF Typed
  <2>2. /\ capture = "drop" /\ NotifyFramesDropped(Gop(cursor), n)
        /\ dropped' = dropped \cup cursor .. cursor + n - 1
        /\ cursor' = cursor + n /\ missing' = missing - n
        /\ capture' = IF missing' = 0 THEN "route" ELSE "expect"
        /\ UNCHANGED <<routed, inLane>>
    BY <1>5, <2>1 DEF RegisterDropped
  <2>3. SameChunks /\ UNCHANGED <<gopGaps, emitting, nextExpectedGop, toEmit, written, discarded>>
    BY <1>0, <2>1, <2>2, NotifyFramesDroppedChunks DEF NotifyFramesDropped, emitVars
  <2>4. Placement'
    BY <1>0, <2>1, <2>2, <2>3 DEF SameChunks, OrderInv, Placement, Captured
  <2>5. ASSUME gopGaps' = 0, emitting'
        PROVE  Bookkeeping'
    <3>1. gopGaps = 0 /\ emitting
      BY <2>3, <2>5
    <3>2. Gop(cursor) \in DOMAIN pending
      BY <2>2, <3>1 DEF OrderInv, Bookkeeping
    <3>3. capture' \notin {"drop", "push"}
      BY <2>2
    <3>4. Gop(cursor') \in routed => Gop(cursor') = Gop(cursor)
      BY <1>0, <2>1, <2>2, RoutedBehind
    <3> QED BY <2>1, <2>2, <2>3, <3>1, <3>2, <3>3, <3>4, DropBookkeeping
            DEF OrderInv, Bookkeeping, DroppedIn
  <2>6. PassedIsDone' /\ EmittedInOrder'
    BY <1>0, <2>1, <2>2, <2>3 DEF OrderInv, PassedIsDone, EmittedInOrder, Captured, WrittenFrames
  <2>7. CaptureState'
    <3>1. \A r \in routed' : r <= Gop(cursor')
      BY <1>0, <2>1, <2>2, RoutedBehind
    <3>2. cursor + missing < NumFrames /\ (~emitting => toEmit = {})
      BY <2>2 DEF OrderInv, CaptureState
    <3> QED BY <1>0, <2>1, <2>2, <2>3, <3>1, <3>2, StreamAssumption DEF CaptureState
  <2> QED BY <2>4, <2>5, <2>6, <2>7 DEF OrderInv, Bookkeeping
<1>6. CASE DropFrame
  <2>1. 1 <= GopSize - (cursor % GopSize)
    <3>1. cursor % GopSize \in 0 .. GopSize - 1
      BY <1>0, GopOffset
    <3> QED BY <3>1, SerializerAssumption
  <2>2. /\ capture = "push" /\ NotifyFramesDropped(Gop(cursor), 1)
        /\ dropped' = dropped \cup cursor .. cursor + 1 - 1
        /\ cursor' = cursor + 1 /\ missing' = missing /\ capture' = "idle"
        /\ UNCHANGED <<routed, inLane>>
    BY <1>0, <1>6 DEF DropFrame
  <2>3. SameChunks /\ UNCHANGED <<gopGaps, emitting, nextExpectedGop, toEmit, written, discarded>>
    BY <1>0, <2>2, NotifyFramesDroppedChunks DEF NotifyFramesDropped, emitVars
  <2>4. Placement'
    BY <1>0, <2>2, <2>3 DEF SameChunks, OrderInv, Placement, Captured
  <2>5. ASSUME gopGaps' = 0, emitting'
        PROVE  Bookkeeping'
    <3>1. gopGaps = 0 /\ emitting
      BY <2>3, <2>5
    <3>2. Gop(cursor) \in DOMAIN pending
      BY <2>2, <3>1 DEF OrderInv, Bookkeeping
    <3>3. capture' \notin {"drop", "push"}
      BY <2>2
    <3>4. Gop(cursor') \in routed => Gop(cursor') = Gop(cursor)
      BY <1>0, <2>2, RoutedBehind
    <3> QED BY <2>1, <2>2, <2>3, <3>1, <3>2, <3>3, <3>4, DropBookkeeping
            DEF OrderInv, Bookkeeping, DroppedIn
  <2>6. PassedIsDone' /\ EmittedInOrder'
    BY <1>0, <2>2, <2>3 DEF OrderInv, PassedIsDone, EmittedInOrder, Captured, WrittenFrames
  <2>7. CaptureState'
    <3>1. \A r \in routed' : r <= Gop(cursor')
      BY <1>0, <2>2, RoutedBehind
    <3>2. cursor + missing < NumFrames /\ (~emitting => toEmit = {}) /\ ~ (missing > 0)
      BY <2>2 DEF OrderInv, CaptureState
    <3> QED BY <1>0, <2>2, <2>3, <3>1, <3>2, StreamAssumption DEF CaptureState
  <2> QED BY <2>4, <2>5, <2>6, <2>7 DEF OrderInv, Bookkeeping
<1>7. CASE SubmitFrame
  <2>1. /\ capture = "push" /\ inLane' \subseteq inLane \cup {cursor}
        /\ cursor' = cursor + 1 /\ missing' = missing /\ capture' = "idle"
        /\ UNCHANGED <<routed, dropped, pending, gopGaps, emitting, nextExpectedGop, toEmit,
                       written, discarded>>
    BY <1>7 DEF SubmitFrame, serializerVars, emitVars
  <2>2. Placement'
    BY <1>0, <2>1 DEF OrderInv, Placement, Captured
  <2>3. ASSUME gopGaps' = 0, emitting'
        PROVE  Bookkeeping'
    <3>1. Gop(cursor) \in DOMAIN pending
      BY <2>1, <2>3 DEF OrderInv, Bookkeeping
    <3>2. Gop(cursor') \in routed => Gop(cursor') = Gop(cursor)
      BY <1>0, <2>1, RoutedBehind
    <3> QED BY <2>1, <2>3, <3>1, <3>2 DEF OrderInv, Bookkeeping, DroppedIn
  <2>4. PassedIsDone' /\ EmittedInOrder'
    BY <1>0, <2>1 DEF OrderInv, PassedIsDone, EmittedInOrder, Captured, WrittenFrames
  <2>5. CaptureState'
    <3>1. \A r \in routed' : r <= Gop(cursor')
      BY <1>0, <2>1, RoutedBehind
    <3>2. cursor + missing < NumFrames /\ (~emitting => toEmit = {}) /\ ~ (missing > 0)
      BY <2>1 DEF OrderInv, CaptureState
    <3> QED BY <1>0, <2>1, <3>1, <3>2, StreamAssumption DEF CaptureState
  <2> QED BY <2>2, <2>3, <2>4, <2>5 DEF OrderInv, Bookkeeping
<1> QED BY <1>1, <1>2, <1>3, <1>4, <1>5, <1>6, <1>7 DEF Capture

(* A chunk goes to the buffer of its own GOP, which is still there.        *)
LEMMA LanesOrder ==
  ASSUME Typed, OrderInv, Lanes
  PROVE  OrderInv'
<1>1. ASSUME NEW f \in inLane, Encoded(f)
      PROVE  OrderInv'
  <2> DEFINE c == Gop(f)
             b == [Buffer(c) EXCEPT !.chunks = @ \cup {f}]
  <2>1. /\ pending' = Stored(c, b)
        /\ inLane' = inLane \ {f}
        /\ UNCHANGED <<capture, cursor, missing, routed, dropped, gopGaps, emitting,
                       nextExpectedGop, toEmit, written, discarded>>
    BY <1>1 DEF Encoded, PushChunk, emitVars
  <2>2. f \in Nat /\ c \in Nat /\ f \in Captured /\ f \notin dropped
    BY <1>1, GopNat DEF Typed, ClientTypeOK, OrderInv, Placement
  <2>3. /\ b.chunks = Buffer(c).chunks \cup {f}
        /\ b.expectedSet = Buffer(c).expectedSet /\ b.nominal = Buffer(c).nominal
        /\ b.dropped = Buffer(c).dropped
    <3>1. Buffer(c) \in GopBuffer
      BY BufferType DEF Typed
    <3> QED BY <3>1 DEF GopBuffer
  <2>4. Buffer(c).chunks = IF c \in DOMAIN pending THEN pending[c].chunks ELSE {}
    BY DEF Buffer, NewBuffer
  <2>5. ASSUME NEW g \in DOMAIN pending', NEW h \in pending'[g].chunks
        PROVE  \/ g \in DOMAIN pending /\ h \in pending[g].chunks
               \/ g = c /\ h = f
    <3> HIDE DEF b, c
    <3> QED BY <2>1, <2>3, <2>4, <2>5 DEF Stored
  <2>6. Placement'
    <3>1. inLane' \cup dropped' \subseteq Captured' /\ inLane' \cap dropped' = {}
      BY <2>1 DEF OrderInv, Placement, Captured
    <3>2. ASSUME NEW g \in DOMAIN pending', NEW h \in pending'[g].chunks
          PROVE  Gop(h) = g /\ h \in Captured' /\ h \notin inLane' \cup dropped'
      BY <2>1, <2>2, <2>5, <3>2 DEF OrderInv, Placement, Captured
    <3> QED BY <3>1, <3>2 DEF Placement
  <2>7. ASSUME gopGaps' = 0, emitting'
        PROVE  Bookkeeping'
    <3>1. c \in DOMAIN pending /\ Buffer(c) = pending[c]
      BY <1>1, <2>1, <2>7 DEF OrderInv, Bookkeeping, Buffer
    <3>2. DOMAIN pending' = DOMAIN pending
      BY <2>1, <3>1 DEF Stored
    <3>3. ASSUME NEW g \in DOMAIN pending'
          PROVE  /\ pending'[g].expectedSet = pending[g].expectedSet
                 /\ pending'[g].nominal = pending[g].nominal
                 /\ pending'[g].dropped = pending[g].dropped
      <4> HIDE DEF b, c
      <4> QED BY <2>1, <2>3, <3>1, <3>2 DEF Stored
    <3> QED BY <2>1, <2>7, <3>2, <3>3 DEF OrderInv, Bookkeeping, DroppedIn
  <2>8. PassedIsDone' /\ EmittedInOrder' /\ CaptureState'
    BY <2>1 DEF OrderInv, PassedIsDone, EmittedInOrder, CaptureState, Captured, WrittenFrames
  <2> QED BY <2>6, <2>7, <2>8 DEF OrderInv, Bookkeeping
<1>2. ASSUME NEW f \in inLane, LaneLoses(f)
      PROVE  OrderInv'
  <2>1. /\ inLane' \subseteq inLane
        /\ UNCHANGED <<capture, cursor, missing, routed, dropped, pending, gopGaps, emitting,
                       nextExpectedGop, toEmit, written, discarded>>
    BY <1>2 DEF LaneLoses, serializerVars, emitVars
  <2>2. Placement' /\ Bookkeeping'
    BY <2>1 DEF OrderInv, Placement, Bookkeeping, DroppedIn, Captured
  <2>3. PassedIsDone' /\ EmittedInOrder' /\ CaptureState'
    BY <2>1 DEF OrderInv, PassedIsDone, EmittedInOrder, CaptureState, Captured, WrittenFrames
  <2> QED BY <2>2, <2>3 DEF OrderInv
<1> QED BY <1>1, <1>2 DEF Lanes

(* A GOP popped as complete has all its frames in to_emit or dropped.      *)
LEMMA PopIsComplete ==
  ASSUME Typed, OrderInv, PopGop, gopGaps' = 0
  PROVE  /\ gopGaps = 0
         /\ \A f \in Nat : Gop(f) = nextExpectedGop =>
              f \in pending[nextExpectedGop].chunks \cup dropped
<1> DEFINE g == nextExpectedGop
           b == pending[g]
<1>1. gopGaps = 0 /\ Complete(b) /\ emitting /\ g \in DOMAIN pending
  BY DEF PopGop, Typed, SerializerTypeOK
<1>2. /\ b \in GopBuffer /\ IsFiniteSet(b.chunks) /\ g \in Nat
      /\ b.chunks \in SUBSET Nat /\ b.dropped \in Nat
  BY <1>1 DEF Typed, SerializerTypeOK, GopBuffer
<1>3. b.expectedSet /\ b.nominal = GopSize /\ b.dropped = Cardinality(DroppedIn(g))
  BY <1>1 DEF OrderInv, Bookkeeping
<1>4. Cardinality(b.chunks) \in Nat /\ Cardinality(b.chunks) + b.dropped >= GopSize
  BY <1>1, <1>2, <1>3, FS_CardinalityType, SerializerAssumption DEF Complete, ExpectedChunks
<1>5. /\ DroppedIn(g) \in SUBSET Nat /\ IsFiniteSet(DroppedIn(g))
      /\ b.chunks \cap DroppedIn(g) = {}
      /\ \A f \in b.chunks \cup DroppedIn(g) : Gop(f) = g
  <2>1. IsFiniteSet(Captured)
    <3>1. cursor - 1 \in Int
      BY DEF Typed, ClientTypeOK
    <3> QED BY <3>1, FS_Interval DEF Captured
  <2>2. IsFiniteSet(DroppedIn(g))
    BY <2>1, FS_Subset DEF DroppedIn, OrderInv, Placement
  <2>3. DroppedIn(g) \in SUBSET Nat
    BY DEF DroppedIn, Typed, ClientTypeOK
  <2>4. /\ b.chunks \cap DroppedIn(g) = {}
        /\ \A f \in b.chunks \cup DroppedIn(g) : Gop(f) = g
    BY <1>1 DEF DroppedIn, OrderInv, Placement
  <2> QED BY <2>2, <2>3, <2>4
<1>6. ASSUME NEW f \in Nat, Gop(f) = g
      PROVE  f \in b.chunks \cup DroppedIn(g)
  <2> HIDE DEF b, g
  <2> QED BY <1>2, <1>3, <1>4, <1>5, <1>6, CompleteGop
<1> QED BY <1>1, <1>6 DEF DroppedIn

(* Popping a GOP keeps the invariant. *)
LEMMA PopOrder ==
  ASSUME Typed, OrderInv, PopGop, UNCHANGED clientVars
  PROVE  OrderInv'
<1> DEFINE g == nextExpectedGop
<1>0. /\ g \in DOMAIN pending /\ g \in Nat /\ cursor \in Nat
      /\ toEmit = {} /\ emitting
      /\ toEmit' = pending[g].chunks
      /\ pending' = Erased(g) /\ nextExpectedGop' = g + 1
      /\ UNCHANGED <<written, discarded, emitting>>
      /\ UNCHANGED <<capture, cursor, missing, routed, inLane, dropped>>
  BY DEF PopGop, clientVars, Typed, SerializerTypeOK, ClientTypeOK
<1>1. /\ DOMAIN pending' = DOMAIN pending \ {g}
      /\ \A h \in DOMAIN pending' : pending'[h] = pending[h]
  BY <1>0, ErasedFacts
<1>2. /\ pending[g].chunks \subseteq Captured
      /\ \A f \in pending[g].chunks : Gop(f) = g /\ f \notin inLane \cup dropped
      /\ pending[g].chunks \subseteq Nat
  BY <1>0 DEF OrderInv, Placement, Typed, SerializerTypeOK, GopBuffer
<1>3. Placement' /\ CaptureState'
  BY <1>0, <1>1 DEF OrderInv, Placement, CaptureState, Captured
<1>4. ASSUME gopGaps' = 0, emitting'
      PROVE  Bookkeeping'
  <2>1. gopGaps = 0 /\ \A f \in Nat : Gop(f) = g => f \in pending[g].chunks \cup dropped
    BY <1>4, PopIsComplete
  <2>2. Gop(cursor) # g
    <3>1. cursor \notin Captured
      BY <1>0 DEF Captured
    <3> QED BY <1>0, <1>2, <2>1, <3>1 DEF OrderInv, Placement
  <2>3. \A f \in inLane : Gop(f) # g
    BY <1>2, <2>1 DEF OrderInv, Placement, Typed, ClientTypeOK
  <2>4. \A f \in dropped : Gop(f) \in Nat
    BY GopNat DEF Typed, ClientTypeOK
  <2>5. \A h \in DOMAIN pending' : h >= g + 1 /\ h \in DOMAIN pending /\ pending'[h] = pending[h]
    BY <1>0, <1>1, <2>1 DEF OrderInv, Bookkeeping, Typed, SerializerTypeOK
  <2>6. \A f \in dropped' : Gop(f) >= nextExpectedGop' => Gop(f) \in DOMAIN pending'
    BY <1>0, <1>1, <2>1, <2>4 DEF OrderInv, Bookkeeping
  <2> QED BY <1>0, <1>1, <2>1, <2>2, <2>3, <2>5, <2>6 DEF OrderInv, Bookkeeping, DroppedIn
<1>5. ASSUME gopGaps' = 0
      PROVE  PassedIsDone' /\ EmittedInOrder'
  <2>1. gopGaps = 0 /\ \A f \in Nat : Gop(f) = g => f \in pending[g].chunks \cup dropped
    BY <1>5, PopIsComplete
  <2>2. ASSUME NEW f \in 0 .. NumFrames, Gop(f) < g + 1
        PROVE  f \in Captured /\ f \in WrittenFrames \cup toEmit' \cup discarded \cup dropped
    <3>1. CASE Gop(f) = g
      BY <1>0, <1>2, <2>1, <3>1, StreamAssumption DEF OrderInv, Placement
    <3>2. CASE Gop(f) < g
      BY <1>0, <2>1, <3>2 DEF OrderInv, PassedIsDone
    <3> QED BY <1>0, <2>2, <3>1, <3>2, GopNat, StreamAssumption
  <2>3. PassedIsDone'
    BY <1>0, <2>2 DEF PassedIsDone, Captured, WrittenFrames
  <2>4. \A f \in WrittenFrames : f \in Nat /\ Gop(f) \in Nat /\ Gop(f) < g
    <3>1. \A f \in WrittenFrames : f \in Nat
      BY DEF WrittenFrames, Typed, SerializerTypeOK
    <3> QED BY <2>1, <3>1, GopNat DEF OrderInv, EmittedInOrder
  <2>5. \A f \in WrittenFrames, h \in toEmit' : f < h
    BY <1>0, <1>2, <2>4, GopMonotonic
  <2>6. \A f \in WrittenFrames \cup toEmit' : Gop(f) < g + 1
    BY <1>0, <1>2, <2>4
  <2>7. EmittedInOrder'
    BY <1>0, <2>1, <2>5, <2>6 DEF OrderInv, EmittedInOrder, WrittenFrames
  <2> QED BY <2>3, <2>7
<1> QED BY <1>3, <1>4, <1>5 DEF OrderInv, Bookkeeping, PassedIsDone, EmittedInOrder

(* Emitting the smallest remaining chunk keeps the file sorted.            *)
LEMMA WriteOrder ==
  ASSUME Typed, OrderInv, WriteChunk, UNCHANGED clientVars
  PROVE  OrderInv'
<1> DEFINE c == NextChunk
           n == Len(written)
<1>0. /\ toEmit # {} /\ written' = Append(written, c) /\ toEmit' = toEmit \ {c}
      /\ UNCHANGED <<pending, nextExpectedGop, discarded, gopGaps, emitting>>
      /\ UNCHANGED <<capture, cursor, missing, routed, inLane, dropped>>
  BY DEF WriteChunk, clientVars
<1>1. c \in toEmit /\ c \in Nat /\ \A h \in toEmit : c <= h
  BY <1>0, LeastIsMember DEF NextChunk, Typed, SerializerTypeOK
<1>2. /\ written \in Seq(Nat) /\ n \in Nat /\ Len(written') = n + 1
      /\ written'[n + 1] = c
      /\ \A i \in 1 .. n : written'[i] = written[i]
  BY <1>0, <1>1 DEF Typed, SerializerTypeOK
<1> HIDE DEF c, n
<1>3. WrittenFrames' = WrittenFrames \cup {c}
  BY <1>2 DEF WrittenFrames, n
<1>4. Placement' /\ Bookkeeping' /\ CaptureState'
  BY <1>0 DEF OrderInv, Placement, Bookkeeping, DroppedIn, CaptureState, Captured
<1>5. PassedIsDone'
  BY <1>0, <1>3 DEF OrderInv, PassedIsDone, Captured
<1>6. ASSUME gopGaps' = 0
      PROVE  EmittedInOrder'
  <2>1. /\ \A f \in WrittenFrames \cup toEmit : Gop(f) < nextExpectedGop
        /\ \A f \in WrittenFrames, h \in toEmit : f < h
        /\ \A i, j \in 1 .. n : i < j => written[i] < written[j]
    BY <1>0, <1>6 DEF OrderInv, EmittedInOrder, n
  <2>2. \A f \in WrittenFrames' \cup toEmit' : Gop(f) < nextExpectedGop'
    BY <1>0, <1>1, <1>3, <2>1
  <2>3. \A h \in toEmit' : c < h
    BY <1>0, <1>1 DEF Typed, SerializerTypeOK
  <2>4. \A f \in WrittenFrames', h \in toEmit' : f < h
    BY <1>0, <1>3, <2>1, <2>3
  <2>5. \A i \in 1 .. n : written[i] < c
    BY <1>1, <2>1 DEF WrittenFrames, n
  <2>6. \A i, j \in 1 .. n + 1 : i < j => written'[i] < written'[j]
    BY <1>2, <2>1, <2>5
  <2> QED BY <1>2, <2>2, <2>4, <2>6 DEF EmittedInOrder
<1> QED BY <1>4, <1>5, <1>6 DEF OrderInv, EmittedInOrder

(* A chunk that is not written leaves a hole, never a wrong order.         *)
LEMMA DiscardOrder ==
  ASSUME Typed, OrderInv, SkipChunk \/ RefuseChunk, UNCHANGED clientVars
  PROVE  OrderInv'
<1>1. /\ toEmit # {} /\ toEmit' = toEmit \ {NextChunk}
      /\ discarded' = discarded \cup {NextChunk}
      /\ UNCHANGED <<pending, nextExpectedGop, written, gopGaps, emitting>>
      /\ UNCHANGED <<capture, cursor, missing, routed, inLane, dropped>>
  BY DEF SkipChunk, RefuseChunk, clientVars
<1>2. Placement' /\ Bookkeeping' /\ CaptureState'
  BY <1>1 DEF OrderInv, Placement, Bookkeeping, DroppedIn, CaptureState, Captured
<1>3. PassedIsDone' /\ EmittedInOrder'
  BY <1>1 DEF OrderInv, PassedIsDone, EmittedInOrder, Captured, WrittenFrames
<1> QED BY <1>2, <1>3 DEF OrderInv

(* Every branch of EmitLoop keeps the invariant. *)
LEMMA EmitOrder ==
  ASSUME Typed, OrderInv, Emit
  PROVE  OrderInv'
<1>0. UNCHANGED clientVars
  BY DEF Emit
<1>1. CASE PopGop
  BY <1>0, <1>1, PopOrder
<1>2. CASE SkipGop
  <2>1. /\ gopGaps' # 0
        /\ UNCHANGED <<pending, toEmit, emitting>>
        /\ UNCHANGED <<capture, cursor, missing, routed, inLane, dropped>>
    BY <1>0, <1>2 DEF SkipGop, clientVars, Typed, SerializerTypeOK
  <2> QED BY <2>1 DEF OrderInv, Placement, Bookkeeping, PassedIsDone, EmittedInOrder,
                      CaptureState, Captured
<1>3. CASE EmitExit
  <2>1. /\ emitting' = FALSE /\ toEmit = {}
        /\ UNCHANGED <<pending, nextExpectedGop, toEmit, written, discarded, gopGaps>>
        /\ UNCHANGED <<capture, cursor, missing, routed, inLane, dropped>>
    BY <1>0, <1>3 DEF EmitExit, clientVars
  <2> QED BY <2>1 DEF OrderInv, Placement, Bookkeeping, PassedIsDone, EmittedInOrder,
                      CaptureState, Captured, WrittenFrames
<1>4. CASE WriteChunk
  BY <1>0, <1>4, WriteOrder
<1>5. CASE SkipChunk \/ RefuseChunk
  BY <1>0, <1>5, DiscardOrder
<1> QED BY <1>1, <1>2, <1>3, <1>4, <1>5 DEF Emit, EmitLoop

(* The clock keeps the invariant. *)
LEMMA ClockOrder ==
  ASSUME Typed, OrderInv, Clock
  PROVE  OrderInv'
<1>1. /\ UNCHANGED <<nextExpectedGop, toEmit, written, discarded, gopGaps, emitting>>
      /\ UNCHANGED <<capture, cursor, missing, routed, inLane, dropped>>
  BY DEF Clock, Tick, emitVars, clientVars
<1>2. /\ DOMAIN pending' = DOMAIN pending
      /\ \A g \in DOMAIN pending :
           /\ pending'[g].chunks = pending[g].chunks
           /\ pending'[g].dropped = pending[g].dropped
           /\ pending'[g].nominal = pending[g].nominal
           /\ pending'[g].expectedSet = pending[g].expectedSet
  BY DEF Clock, Tick, Typed, SerializerTypeOK, GopBuffer
<1>3. Placement' /\ Bookkeeping'
  BY <1>1, <1>2 DEF OrderInv, Placement, Bookkeeping, DroppedIn, Captured
<1>4. PassedIsDone' /\ EmittedInOrder' /\ CaptureState'
  BY <1>1 DEF OrderInv, PassedIsDone, EmittedInOrder, CaptureState, Captured, WrittenFrames
<1> QED BY <1>3, <1>4 DEF OrderInv

(* Steps that touch nothing OrderInv speaks of.                            *)
orderVars == <<pending, nextExpectedGop, toEmit, written, discarded, gopGaps, emitting,
               capture, cursor, missing, routed, inLane, dropped>>

(* A step that changes nothing keeps the invariant. *)
LEMMA StutterOrder ==
  ASSUME OrderInv, UNCHANGED orderVars
  PROVE  OrderInv'
<1>1. Placement' /\ Bookkeeping'
  BY DEF orderVars, OrderInv, Placement, Bookkeeping, DroppedIn, Captured
<1>2. PassedIsDone' /\ EmittedInOrder' /\ CaptureState'
  BY DEF orderVars, OrderInv, PassedIsDone, EmittedInOrder, CaptureState, Captured, WrittenFrames
<1> QED BY <1>1, <1>2 DEF OrderInv

(* Stop clears pending_ only after the emit thread has ended.              *)
LEMMA FinishStopOrder ==
  ASSUME Typed, OrderInv, FinishStop
  PROVE  OrderInv'
<1>1. /\ ~emitting /\ DOMAIN pending' = {}
      /\ UNCHANGED <<nextExpectedGop, toEmit, written, discarded, gopGaps, emitting>>
      /\ UNCHANGED <<capture, cursor, missing, routed, inLane, dropped>>
  BY DEF FinishStop, StopFinish, emitVars, clientVars
<1>2. Placement' /\ Bookkeeping'
  BY <1>1 DEF OrderInv, Placement, Bookkeeping, Captured
<1>3. PassedIsDone' /\ EmittedInOrder' /\ CaptureState'
  BY <1>1 DEF OrderInv, PassedIsDone, EmittedInOrder, CaptureState, Captured, WrittenFrames
<1> QED BY <1>2, <1>3 DEF OrderInv

(* The invariant holds initially. *)
LEMMA InitOrder == Init => OrderInv
<1> SUFFICES ASSUME Init PROVE OrderInv
  OBVIOUS
<1>1. /\ DOMAIN pending = {} /\ written = <<>> /\ toEmit = {} /\ discarded = {}
      /\ nextExpectedGop = 0 /\ gopGaps = 0 /\ emitting = TRUE
  BY DEF Init, SerializerInit
<1>2. /\ capture = "idle" /\ cursor = 0 /\ missing = 0
      /\ routed = {} /\ inLane = {} /\ dropped = {}
  BY DEF Init
<1>3. Placement /\ Bookkeeping /\ CaptureState
  BY <1>1, <1>2, StreamAssumption DEF Placement, Bookkeeping, CaptureState
<1>4. \A f \in 0 .. NumFrames : ~ (Gop(f) < 0)
  BY GopNat, StreamAssumption
<1>5. WrittenFrames = {} /\ Len(written) = 0
  BY <1>1 DEF WrittenFrames
<1>6. PassedIsDone /\ EmittedInOrder
  BY <1>1, <1>4, <1>5 DEF PassedIsDone, EmittedInOrder
<1> QED BY <1>3, <1>6 DEF OrderInv

(* Every step keeps the invariant. *)
LEMMA NextOrder == TypeOK /\ OrderInv /\ [Next]_vars => OrderInv'
<1> SUFFICES ASSUME Typed, OrderInv, [Next]_vars
             PROVE  OrderInv'
  BY TypeParts DEF Typed
<1>1. CASE Capture
  BY <1>1, CaptureOrder
<1>2. CASE Lanes
  BY <1>2, LanesOrder
<1>3. CASE StopLanes
  <2>1. UNCHANGED orderVars
    BY <1>3 DEF StopLanes, serializerVars, emitVars, orderVars
  <2> QED BY <2>1, StutterOrder
<1>4. CASE StopSerializer
  <2>1. UNCHANGED orderVars
    BY <1>4 DEF StopSerializer, StopBegin, emitVars, clientVars, orderVars
  <2> QED BY <2>1, StutterOrder
<1>5. CASE Emit
  BY <1>5, EmitOrder
<1>6. CASE Clock
  BY <1>6, ClockOrder
<1>7. CASE BusThread
  <2>1. UNCHANGED orderVars
    BY <1>7 DEF BusThread, BusError, clientVars, orderVars
  <2> QED BY <2>1, StutterOrder
<1>8. CASE FinishStop
  BY <1>8, FinishStopOrder
<1>9. CASE UNCHANGED vars
  <2>1. UNCHANGED orderVars
    BY <1>9 DEF vars, serializerVars, emitVars, clientVars, orderVars
  <2> QED BY <2>1, StutterOrder
<1> QED BY <1>1, <1>2, <1>3, <1>4, <1>5, <1>6, <1>7, <1>8, <1>9 DEF Next

(* The inductive invariant.                                                *)
THEOREM OrderInvariant == Spec => []OrderInv
<1> QED BY InitOrder, NextOrder, TypeCorrect, PTL DEF Spec

(* Until a GOP gap is counted, the file is in strict source order, for any *)
(* number of frames, GOP size and stall timeout, whatever the lanes, the   *)
(* muxer and Stop do.                                                      *)
THEOREM SourceOrder == Spec => []OrderedUnlessGap
<1>1. OrderInv => OrderedUnlessGap
  BY DEF OrderInv, EmittedInOrder, OrderedUnlessGap
<1> QED BY <1>1, OrderInvariant, PTL

(* Until a GOP gap is counted, every frame of the GOPs already passed has  *)
(* been handed to the muxer or was reported dropped.                       *)
THEOREM NothingOutstanding == Spec => []GaplessIsComplete
<1>1. OrderInv => GaplessIsComplete
  <2>1. Frames \subseteq 0 .. NumFrames
    BY StreamAssumption DEF Frames
  <2> QED BY <2>1 DEF OrderInv, PassedIsDone, GaplessIsComplete
<1> QED BY <1>1, OrderInvariant, PTL

----------------------------------------------------------------------------
(* One place.  A frame is created by the capture thread at its cursor and  *)
(* moves between the sets below; every move takes it out of the set it was *)
(* in.                                                                     *)
AtOnePlace(f) ==
  /\ f \in inLane => f \notin Buffered \cup toEmit \cup WrittenFrames \cup discarded
                               \cup dropped \cup lost
  /\ f \in Buffered => f \notin toEmit \cup WrittenFrames \cup discarded \cup dropped \cup lost
  /\ f \in toEmit => f \notin WrittenFrames \cup discarded \cup dropped \cup lost
  /\ f \in WrittenFrames => f \notin discarded \cup dropped \cup lost
  /\ f \in discarded => f \notin dropped \cup lost
  /\ f \in dropped => f \notin lost

Places == inLane \cup Buffered \cup toEmit \cup WrittenFrames \cup discarded
          \cup dropped \cup lost

WrittenOnce == IsFiniteSet(WrittenFrames) /\ Cardinality(WrittenFrames) = Len(written)

Apart ==
  /\ \A f \in Places : f \in Captured /\ AtOnePlace(f)
  /\ WrittenOnce

\* The variables WrittenOnce and the sets of Places, but for pending, depend on.
placeVars == <<inLane, toEmit, written, discarded, dropped, lost, cursor>>

(* A step that adds no chunk to the buffer and touches no other set.       *)
LEMMA SamePlaces ==
  ASSUME Apart, Buffered' \subseteq Buffered, UNCHANGED placeVars
  PROVE  Apart'
<1>1. /\ UNCHANGED <<inLane, toEmit, discarded, dropped, lost, cursor>>
      /\ WrittenFrames' = WrittenFrames /\ WrittenOnce' = WrittenOnce /\ Captured' = Captured
  BY DEF placeVars, WrittenFrames, WrittenOnce, Captured
<1>2. \A f \in Places' : f \in Places
  BY <1>1 DEF Places
<1>3. \A f \in Places' : f \in Captured /\ AtOnePlace(f)
  BY <1>2 DEF Apart
<1>4. ASSUME NEW f \in Places' PROVE AtOnePlace(f)'
  BY <1>1, <1>3, <1>4 DEF AtOnePlace
<1> QED BY <1>1, <1>3, <1>4 DEF Apart

(* A buffer with the chunks it had holds no frame it did not hold.         *)
LEMMA SameBuffered ==
  ASSUME SameChunks
  PROVE  Buffered' \subseteq Buffered
BY DEF SameChunks, Buffered

(* The frames at the cursor are not anywhere yet.                          *)
LEMMA NewFrames ==
  ASSUME Typed, NEW n \in Nat, cursor' = cursor + n
  PROVE  /\ Captured' = Captured \cup cursor .. cursor + n - 1
         /\ Captured \cap (cursor .. cursor + n - 1) = {}
<1>1. cursor \in Nat
  BY DEF Typed, ClientTypeOK
<1> QED BY <1>1 DEF Captured

(* The next n frames are reported dropped.                                 *)
LEMMA DroppedPlaces ==
  ASSUME Typed, Apart, NEW n \in Nat, cursor' = cursor + n,
         dropped' = dropped \cup cursor .. cursor + n - 1,
         SameChunks,
         UNCHANGED <<inLane, toEmit, written, discarded, lost>>
  PROVE  Apart'
<1> DEFINE run == cursor .. cursor + n - 1
<1>1. Captured' = Captured \cup run /\ Captured \cap run = {}
  BY NewFrames
<1>2. /\ UNCHANGED <<inLane, toEmit, discarded, lost>> /\ Buffered' \subseteq Buffered
      /\ dropped' = dropped \cup run
      /\ WrittenFrames' = WrittenFrames /\ WrittenOnce' = WrittenOnce
  BY SameBuffered DEF WrittenFrames, WrittenOnce
<1> HIDE DEF run
<1>3. \A f \in Places' : f \in Places \cup run
  BY <1>2 DEF Places
<1>4. ASSUME NEW f \in Places' PROVE f \in Captured' /\ AtOnePlace(f)'
  <2>1. CASE f \in run
    <3>1. f \notin Places
      BY <1>1, <2>1 DEF Apart
    <3> QED BY <1>1, <1>2, <2>1, <3>1 DEF Places, AtOnePlace
  <2>2. CASE f \notin run
    <3>1. f \in Captured /\ AtOnePlace(f)
      BY <1>3, <1>4, <2>2 DEF Apart
    <3> QED BY <1>1, <1>2, <2>2, <3>1 DEF AtOnePlace
  <2> QED BY <2>1, <2>2
<1> QED BY <1>2, <1>4 DEF Apart

(* Every step of the capture thread keeps the frames apart. *)
LEMMA CaptureApart ==
  ASSUME Typed, Apart, Capture
  PROVE  Apart'
<1>0. cursor \in Nat /\ Gop(cursor) \in Nat
  BY GopNat DEF Typed, ClientTypeOK
<1>1. ASSUME NEW k \in 0 .. NumFrames - 1, Arrive(k)
      PROVE  Apart'
  <2>1. UNCHANGED placeVars /\ Buffered' \subseteq Buffered
    BY <1>1 DEF Arrive, serializerVars, emitVars, placeVars, Buffered
  <2> QED BY <2>1, SamePlaces
<1>2. CASE RegisterExpected \/ RouteNewGroup
  <2>1. SetGopExpectedCount(Gop(cursor), GopSize) /\ UNCHANGED placeVars
    BY <1>2 DEF RegisterExpected, RouteNewGroup, SetGopExpectedCount, emitVars, placeVars
  <2> QED BY <1>0, <2>1, SetGopExpectedCountChunks, SameBuffered, SamePlaces
<1>3. CASE RegisterDropped
  <2>1. PICK n \in Nat : n = InThisGroup
    BY InThisGroupNat DEF Typed
  <2>2. /\ NotifyFramesDropped(Gop(cursor), n) /\ cursor' = cursor + n
        /\ dropped' = dropped \cup cursor .. cursor + n - 1
        /\ UNCHANGED <<inLane, toEmit, written, discarded, lost>>
    BY <1>3, <2>1 DEF RegisterDropped, NotifyFramesDropped, emitVars
  <2> QED BY <1>0, <2>2, NotifyFramesDroppedChunks, DroppedPlaces
<1>4. CASE RouteKnownGroup
  <2>1. UNCHANGED placeVars /\ Buffered' \subseteq Buffered
    BY <1>4 DEF RouteKnownGroup, serializerVars, emitVars, placeVars, Buffered
  <2> QED BY <2>1, SamePlaces
<1>5. CASE SubmitFrame
  <2>1. /\ cursor' = cursor + 1
        /\ \/ inLane' = inLane \cup {cursor} /\ lost' = lost
           \/ inLane' = inLane /\ lost' = lost \cup {cursor}
        /\ UNCHANGED <<toEmit, discarded, dropped>>
        /\ WrittenFrames' = WrittenFrames /\ WrittenOnce' = WrittenOnce /\ Buffered' = Buffered
    BY <1>5 DEF SubmitFrame, serializerVars, emitVars, WrittenFrames, WrittenOnce, Buffered
  <2>2. Captured' = Captured \cup {cursor} /\ cursor \notin Captured
    BY <1>0, <2>1, NewFrames DEF Captured
  <2>3. cursor \notin Places
    BY <2>2 DEF Apart
  <2>4. ASSUME NEW f \in Places' PROVE f \in Captured' /\ AtOnePlace(f)'
    <3>1. CASE f = cursor
      BY <2>1, <2>2, <2>3, <3>1 DEF Places, AtOnePlace
    <3>2. CASE f # cursor
      <4>1. f \in Captured /\ AtOnePlace(f)
        BY <2>1, <2>4, <3>2 DEF Places, Apart
      <4> QED BY <2>1, <2>2, <3>2, <4>1 DEF AtOnePlace
    <3> QED BY <3>1, <3>2
  <2> QED BY <2>1, <2>4 DEF Apart
<1>6. CASE DropFrame
  <2>1. /\ NotifyFramesDropped(Gop(cursor), 1) /\ cursor' = cursor + 1
        /\ dropped' = dropped \cup {cursor}
        /\ UNCHANGED <<inLane, toEmit, written, discarded, lost>>
    BY <1>6 DEF DropFrame, NotifyFramesDropped, emitVars
  <2>2. dropped' = dropped \cup cursor .. cursor + 1 - 1
    BY <1>0, <2>1
  <2> QED BY <1>0, <2>1, <2>2, NotifyFramesDroppedChunks, DroppedPlaces
<1> QED BY <1>1, <1>2, <1>3, <1>4, <1>5, <1>6 DEF Capture

(* A lane hands its frame to the buffer, or loses it.                      *)
LEMMA LanesApart ==
  ASSUME Typed, Apart, Lanes
  PROVE  Apart'
<1>1. ASSUME NEW f \in inLane, Encoded(f)
      PROVE  Apart'
  <2>1. /\ inLane' = inLane \ {f} /\ pending' = Stored(Gop(f), [Buffer(Gop(f)) EXCEPT !.chunks = @ \cup {f}])
        /\ UNCHANGED <<toEmit, discarded, dropped, lost>>
        /\ WrittenFrames' = WrittenFrames /\ WrittenOnce' = WrittenOnce /\ Captured' = Captured
    BY <1>1 DEF Encoded, PushChunk, emitVars, WrittenFrames, WrittenOnce, Captured
  <2>2. Buffered' \subseteq Buffered \cup {f}
    <3> DEFINE g == Gop(f)
               b == [Buffer(g) EXCEPT !.chunks = @ \cup {f}]
    <3>1. b.chunks = (IF g \in DOMAIN pending THEN pending[g].chunks ELSE {}) \cup {f}
      BY DEF Buffer, NewBuffer, Typed, SerializerTypeOK, GopBuffer
    <3> HIDE DEF b, g
    <3>2. pending' = Stored(g, b)
      BY <2>1 DEF b, g
    <3>3. /\ DOMAIN pending' = DOMAIN pending \cup {g}
          /\ \A h \in DOMAIN pending' : pending'[h] = IF h = g THEN b ELSE pending[h]
      BY <3>2 DEF Stored
    <3> QED BY <3>1, <3>3 DEF Buffered
  <2>3. ASSUME NEW h \in Places' PROVE h \in Captured' /\ AtOnePlace(h)'
    <3>1. h \in Places
      BY <1>1, <2>1, <2>2, <2>3 DEF Places
    <3>2. h \in Captured /\ AtOnePlace(h)
      BY <3>1 DEF Apart
    <3> QED BY <1>1, <2>1, <2>2, <3>2 DEF AtOnePlace
  <2> QED BY <2>1, <2>3 DEF Apart
<1>2. ASSUME NEW f \in inLane, LaneLoses(f)
      PROVE  Apart'
  <2>1. /\ inLane' = inLane \ {f} /\ lost' = lost \cup {f}
        /\ UNCHANGED <<toEmit, discarded, dropped>>
        /\ WrittenFrames' = WrittenFrames /\ WrittenOnce' = WrittenOnce /\ Captured' = Captured
        /\ Buffered' = Buffered
    BY <1>2 DEF LaneLoses, serializerVars, emitVars, WrittenFrames, WrittenOnce, Captured, Buffered
  <2>2. ASSUME NEW h \in Places' PROVE h \in Captured' /\ AtOnePlace(h)'
    <3>1. h \in Places
      BY <1>2, <2>1, <2>2 DEF Places
    <3>2. h \in Captured /\ AtOnePlace(h)
      BY <3>1 DEF Apart
    <3> QED BY <1>2, <2>1, <3>2 DEF AtOnePlace
  <2> QED BY <2>1, <2>2 DEF Apart
<1> QED BY <1>1, <1>2 DEF Lanes

(* The emit thread takes a GOP out of the buffer before it writes it.      *)
LEMMA EmitApart ==
  ASSUME Typed, Placement, Apart, Emit
  PROVE  Apart'
<1>0. UNCHANGED <<inLane, dropped, lost, cursor>> /\ Captured' = Captured
  BY DEF Emit, clientVars, Captured
<1>1. CASE PopGop
  <2> DEFINE g == nextExpectedGop
  <2>1. /\ g \in DOMAIN pending /\ toEmit = {} /\ toEmit' = pending[g].chunks
        /\ pending' = Erased(g) /\ UNCHANGED <<written, discarded>>
    BY <1>1 DEF PopGop
  <2>2. WrittenFrames' = WrittenFrames /\ WrittenOnce' = WrittenOnce
    BY <2>1 DEF WrittenFrames, WrittenOnce
  <2>3. /\ DOMAIN pending' = DOMAIN pending \ {g}
        /\ \A h \in DOMAIN pending' : pending'[h] = pending[h]
    BY <2>1, ErasedFacts
  <2> HIDE DEF g
  <2>4. toEmit' \subseteq Buffered /\ Buffered' \subseteq Buffered
    BY <2>1, <2>3 DEF Buffered
  <2>5. toEmit' \cap Buffered' = {}
    <3>1. \A h \in DOMAIN pending' : h # g /\ \A f \in pending'[h].chunks : Gop(f) = h
      BY <2>3 DEF Placement
    <3>2. \A f \in toEmit' : Gop(f) = g
      BY <2>1 DEF Placement
    <3> QED BY <3>1, <3>2 DEF Buffered
  <2>6. ASSUME NEW h \in Places' PROVE h \in Captured' /\ AtOnePlace(h)'
    <3>1. h \in Places
      BY <1>0, <2>1, <2>2, <2>4, <2>6 DEF Places
    <3>2. h \in Captured /\ AtOnePlace(h)
      BY <3>1 DEF Apart
    <3> QED BY <1>0, <2>1, <2>2, <2>4, <2>5, <3>2 DEF AtOnePlace
  <2> QED BY <2>2, <2>6 DEF Apart
<1>2. CASE SkipGop \/ EmitExit
  <2>1. UNCHANGED placeVars /\ Buffered' \subseteq Buffered
    BY <1>0, <1>2 DEF SkipGop, EmitExit, placeVars, Buffered
  <2> QED BY <2>1, SamePlaces
<1>3. CASE WriteChunk
  <2> DEFINE c == NextChunk
  <2>1. /\ toEmit # {} /\ written' = Append(written, c) /\ toEmit' = toEmit \ {c}
        /\ UNCHANGED <<pending, discarded>> /\ Buffered' = Buffered
    BY <1>3 DEF WriteChunk, Buffered
  <2>2. c \in toEmit /\ c \in Nat
    BY <2>1, LeastIsMember DEF NextChunk, Typed, SerializerTypeOK
  <2>3. /\ written \in Seq(Nat) /\ Len(written) \in Nat /\ Len(written') = Len(written) + 1
        /\ written'[Len(written) + 1] = c
        /\ \A i \in 1 .. Len(written) : written'[i] = written[i]
    BY <2>1, <2>2 DEF Typed, SerializerTypeOK
  <2> HIDE DEF c
  <2>4. WrittenFrames' = WrittenFrames \cup {c}
    BY <2>3 DEF WrittenFrames
  <2>5. c \notin WrittenFrames /\ c \in Captured
    BY <2>2 DEF Apart, Places, AtOnePlace
  <2>6. WrittenOnce'
    BY <2>3, <2>4, <2>5, FS_AddElement DEF Apart, WrittenOnce
  <2>7. ASSUME NEW h \in Places' PROVE h \in Captured' /\ AtOnePlace(h)'
    <3>1. h \in Places
      BY <1>0, <2>1, <2>2, <2>4, <2>7 DEF Places
    <3>2. h \in Captured /\ AtOnePlace(h)
      BY <3>1 DEF Apart
    <3> QED BY <1>0, <2>1, <2>2, <2>4, <3>2 DEF AtOnePlace
  <2> QED BY <2>6, <2>7 DEF Apart
<1>4. CASE SkipChunk \/ RefuseChunk
  <2> DEFINE c == NextChunk
  <2>1. /\ toEmit # {} /\ toEmit' = toEmit \ {c} /\ discarded' = discarded \cup {c}
        /\ Buffered' = Buffered /\ WrittenFrames' = WrittenFrames /\ WrittenOnce' = WrittenOnce
    BY <1>4 DEF SkipChunk, RefuseChunk, Buffered, WrittenFrames, WrittenOnce
  <2>2. c \in toEmit
    BY <2>1, LeastIsMember DEF NextChunk, Typed, SerializerTypeOK
  <2> HIDE DEF c
  <2>3. ASSUME NEW h \in Places' PROVE h \in Captured' /\ AtOnePlace(h)'
    <3>1. h \in Places
      BY <1>0, <2>1, <2>2, <2>3 DEF Places
    <3>2. h \in Captured /\ AtOnePlace(h)
      BY <3>1 DEF Apart
    <3> QED BY <1>0, <2>1, <2>2, <3>2 DEF AtOnePlace
  <2> QED BY <2>1, <2>3 DEF Apart
<1> QED BY <1>1, <1>2, <1>3, <1>4 DEF Emit, EmitLoop

(* The frames are apart initially. *)
LEMMA InitApart == Init => Apart
<1> SUFFICES ASSUME Init PROVE Apart
  OBVIOUS
<1>1. /\ DOMAIN pending = {} /\ written = <<>> /\ toEmit = {} /\ discarded = {}
      /\ inLane = {} /\ dropped = {} /\ lost = {}
  BY DEF Init, SerializerInit
<1>2. WrittenFrames = {} /\ Len(written) = 0
  BY <1>1 DEF WrittenFrames
<1>3. Places = {}
  BY <1>1, <1>2 DEF Places, Buffered
<1>4. WrittenOnce
  BY <1>2, FS_EmptySet DEF WrittenOnce
<1> QED BY <1>3, <1>4 DEF Apart

(* Every step keeps the frames apart. *)
LEMMA NextApart == TypeOK /\ OrderInv /\ Apart /\ [Next]_vars => Apart'
<1> SUFFICES ASSUME Typed, Placement, Apart, [Next]_vars
             PROVE  Apart'
  BY TypeParts DEF Typed, OrderInv
<1>1. CASE Capture
  BY <1>1, CaptureApart
<1>2. CASE Lanes
  BY <1>2, LanesApart
<1>3. CASE Emit
  BY <1>3, EmitApart
<1>4. CASE Clock
  <2>1. UNCHANGED placeVars
    BY <1>4 DEF Clock, Tick, emitVars, clientVars, placeVars
  <2>2. SameChunks
    BY <1>4 DEF Clock, Tick, Typed, SerializerTypeOK, GopBuffer, SameChunks
  <2> QED BY <2>1, <2>2, SameBuffered, SamePlaces
<1>5. CASE FinishStop
  <2>1. UNCHANGED placeVars /\ DOMAIN pending' = {}
    BY <1>5 DEF FinishStop, StopFinish, emitVars, clientVars, placeVars
  <2> QED BY <2>1, SamePlaces DEF Buffered
<1>6. CASE StopLanes \/ StopSerializer \/ BusThread \/ UNCHANGED vars
  <2>1. UNCHANGED placeVars /\ Buffered' \subseteq Buffered
    BY <1>6 DEF StopLanes, StopSerializer, StopBegin, BusThread, BusError, vars, serializerVars,
                emitVars, clientVars, placeVars, Buffered
  <2> QED BY <2>1, SamePlaces
<1> QED BY <1>1, <1>2, <1>3, <1>4, <1>5, <1>6 DEF Next

(* The inductive invariant of OnePlace.                                    *)
THEOREM ApartInvariant == Spec => []Apart
<1> QED BY InitApart, NextApart, TypeCorrect, OrderInvariant, PTL DEF Spec

(* A captured frame is never in two places, and never twice in the file,   *)
(* whatever the lanes, the muxer and Stop do.                              *)
THEOREM FrameHasOnePlace == Spec => []OnePlace
<1>1. ASSUME Apart PROVE OnePlace
  <2> DEFINE place == <<inLane, Buffered, toEmit, WrittenFrames, discarded, dropped, lost>>
  <2>1. /\ place[1] = inLane /\ place[2] = Buffered /\ place[3] = toEmit
        /\ place[4] = WrittenFrames /\ place[5] = discarded /\ place[6] = dropped
        /\ place[7] = lost
    OBVIOUS
  <2> HIDE DEF place
  <2>2. \A i \in 1 .. 7 : i \in {1, 2, 3, 4, 5, 6, 7}
    OBVIOUS
  <2>3. ASSUME NEW i \in 1 .. 7, NEW j \in 1 .. 7, i # j, NEW f \in place[i] \cap place[j]
        PROVE  FALSE
    <3>1. f \in Places
      BY <2>1, <2>2, <2>3 DEF Places
    <3>2. AtOnePlace(f)
      BY <1>1, <3>1 DEF Apart
    <3> QED BY <2>1, <2>2, <2>3, <3>2 DEF AtOnePlace
  <2>4. \A i, j \in 1 .. 7 : i # j => place[i] \cap place[j] = {}
    BY <2>3
  <2> QED BY <1>1, <2>4 DEF place, OnePlace, Apart, WrittenOnce
<1> QED BY <1>1, ApartInvariant, PTL

----------------------------------------------------------------------------
(* The promise of OrderedStream: writing a chunk is Record, counting a GOP *)
(* gap is Degrade, and no other step is visible.                           *)

(* The sets of the two modules are the same. *)
LEMMA RecordedIsWritten == Promise!Recorded = WrittenFrames
BY DEF Promise!Recorded, WrittenFrames

(* The chunk that is written may be recorded. *)
LEMMA WriteIsRecord ==
  ASSUME Typed, OrderInv, Apart, WriteChunk
  PROVE  Promise!StreamNext
<1>1. PICK c : c = NextChunk
  OBVIOUS
<1>2. /\ toEmit # {} /\ written' = Append(written, c) /\ UNCHANGED gopGaps
  BY <1>1 DEF WriteChunk
<1>3. c \in toEmit
  BY <1>1, <1>2, LeastIsMember DEF NextChunk, Typed, SerializerTypeOK
<1>4. c \notin WrittenFrames /\ c \in Captured
  BY <1>3 DEF Apart, Places, AtOnePlace
<1>5. c \in Frames
  BY <1>4, StreamAssumption DEF Captured, Frames, OrderInv, CaptureState, Typed, ClientTypeOK
<1>6. (gopGaps > 0) \/ \A h \in WrittenFrames : h < c
  <2>1. gopGaps = 0 \/ gopGaps > 0
    BY DEF Typed, SerializerTypeOK
  <2> QED BY <1>3, <2>1 DEF OrderInv, EmittedInOrder
<1>7. Promise!Record(c)
  BY <1>2, <1>4, <1>6, RecordedIsWritten DEF Promise!Record
<1> QED BY <1>5, <1>7 DEF Promise!StreamNext

(* A GOP gap degrades the stream, or the step is not visible. *)
LEMMA GapIsDegrade ==
  ASSUME Typed, UNCHANGED written, gopGaps' = gopGaps \/ gopGaps' = gopGaps + 1
  PROVE  Promise!StreamNext \/ UNCHANGED Promise!streamVars
<1>1. CASE gopGaps' = gopGaps
  BY <1>1 DEF Promise!streamVars
<1>2. CASE gopGaps' = gopGaps + 1
  <2>1. (gopGaps' > 0) = TRUE
    BY <1>2 DEF Typed, SerializerTypeOK
  <2>2. Promise!Degrade
    BY <2>1 DEF Promise!Degrade
  <2> QED BY <2>2 DEF Promise!StreamNext
<1> QED BY <1>1, <1>2

(* Every step of a recording is a step of the promise, or none. *)
LEMMA StepIsPromised ==
  TypeOK /\ OrderInv /\ Apart /\ [Next]_vars => [Promise!StreamNext]_(Promise!streamVars)
<1> SUFFICES ASSUME Typed, OrderInv, Apart, [Next]_vars
             PROVE  Promise!StreamNext \/ UNCHANGED Promise!streamVars
  BY TypeParts DEF Typed
<1>1. CASE Capture
  <2>1. UNCHANGED <<written, gopGaps>>
    BY <1>1 DEF Capture, Arrive, RegisterExpected, RegisterDropped, RouteNewGroup,
       RouteKnownGroup, SubmitFrame, DropFrame, SetGopExpectedCount, NotifyFramesDropped,
       serializerVars, emitVars
  <2> QED BY <2>1, GapIsDegrade
<1>2. CASE Lanes
  <2>1. UNCHANGED <<written, gopGaps>>
    BY <1>2 DEF Lanes, Encoded, LaneLoses, PushChunk, serializerVars, emitVars
  <2> QED BY <2>1, GapIsDegrade
<1>3. CASE Emit
  <2>1. CASE WriteChunk
    BY <2>1, WriteIsRecord
  <2>2. CASE PopGop
    <3>1. UNCHANGED written /\ gopGaps' \in {gopGaps + 0, gopGaps + 1}
      BY <2>2 DEF PopGop
    <3>2. gopGaps + 0 = gopGaps
      BY DEF Typed, SerializerTypeOK
    <3> QED BY <3>1, <3>2, GapIsDegrade
  <2>3. CASE SkipGop
    BY <2>3, GapIsDegrade DEF SkipGop
  <2>4. CASE EmitExit \/ SkipChunk \/ RefuseChunk
    BY <2>4, GapIsDegrade DEF EmitExit, SkipChunk, RefuseChunk
  <2> QED BY <1>3, <2>1, <2>2, <2>3, <2>4 DEF Emit, EmitLoop
<1>4. CASE StopLanes \/ StopSerializer \/ Clock \/ BusThread \/ FinishStop \/ UNCHANGED vars
  <2>1. UNCHANGED <<written, gopGaps>>
    BY <1>4 DEF StopLanes, StopSerializer, StopBegin, Clock, Tick, BusThread, BusError,
       FinishStop, StopFinish, vars, serializerVars, emitVars
  <2> QED BY <2>1, GapIsDegrade
<1> QED BY <1>1, <1>2, <1>3, <1>4 DEF Next

(* A recording implements OrderedStream: every source frame is in the file *)
(* at most once, and the file grows in source order until a GOP gap has    *)
(* been counted.                                                           *)
THEOREM StreamIsOrdered == Spec => ImplementsOrderedStream
<1>1. Init => Promise!StreamInit
  <2> SUFFICES ASSUME Init PROVE Promise!StreamInit
    OBVIOUS
  <2>1. written = <<>> /\ (gopGaps > 0) = FALSE
    BY DEF Init, SerializerInit
  <2> QED BY <2>1 DEF Promise!StreamInit
<1> QED BY <1>1, StepIsPromised, TypeCorrect, OrderInvariant, ApartInvariant, PTL
        DEF Spec, ImplementsOrderedStream, Promise!StreamSpec

----------------------------------------------------------------------------
(* Losses.  A position of a routed group that is in a lane, lost or still  *)
(* to come is owed: by the entry of its group while that is in pending_    *)
(* with its expected count, and by frame_gaps_ from the moment the group   *)
(* is popped, whether or not the frame turns up later.                     *)
Open(g) == g \in DOMAIN pending /\ pending[g].expectedSet

Outstanding(f) == Gop(f) \in routed /\ (f \in inLane \cup lost \/ f >= cursor)

Owed == {f \in Frames : Outstanding(f) /\ ~Open(Gop(f))}

\* Frames reach a lane only after their group was routed.
RoutedFirst ==
  /\ \A f \in inLane \cup lost : Gop(f) \in routed
  /\ capture = "push" => Gop(cursor) \in routed

\* An entry reports no more dropped frames than there are.
EntriesHonest ==
  \A g \in DOMAIN pending :
    /\ pending[g].expectedSet => pending[g].nominal = GopSize
    /\ pending[g].dropped <= Cardinality(DroppedIn(g))

OwedCounted == Cardinality(dropped) + Cardinality(Owed) <= frameGaps

LossInv ==
  ~lanesStopped => stop = "running" /\ RoutedFirst /\ EntriesHonest /\ OwedCounted

(* The owed positions are finitely many, and so are the dropped ones.      *)
LEMMA OwedFinite ==
  ASSUME Typed, Apart
  PROVE  /\ IsFiniteSet(Owed) /\ Cardinality(Owed) \in Nat
         /\ IsFiniteSet(dropped) /\ Cardinality(dropped) \in Nat
         /\ \A g : IsFiniteSet(DroppedIn(g)) /\ Cardinality(DroppedIn(g)) \in Nat
<1>1. IsFiniteSet(Captured)
  <2>1. cursor - 1 \in Int
    BY DEF Typed, ClientTypeOK
  <2> QED BY <2>1, FS_Interval DEF Captured
<1>2. IsFiniteSet(Frames)
  <2>1. NumFrames - 1 \in Int
    BY StreamAssumption
  <2> QED BY <2>1, FS_Interval DEF Frames
<1>3. dropped \subseteq Captured /\ Owed \subseteq Frames
  BY DEF Apart, Places, Owed
<1>4. \A g : DroppedIn(g) \subseteq Captured
  BY <1>3 DEF DroppedIn
<1> QED BY <1>1, <1>2, <1>3, <1>4, FS_Subset, FS_CardinalityType

(* Nothing new is owed by a step that counts no more drops than it makes.  *)
LEMMA OwedStaysCounted ==
  ASSUME Typed, Apart, OwedCounted, NEW n \in Nat,
         Owed' \subseteq Owed, Cardinality(dropped') = Cardinality(dropped) + n,
         frameGaps' = frameGaps + n
  PROVE  OwedCounted'
<1>1. Cardinality(Owed') \in Nat /\ Cardinality(Owed') <= Cardinality(Owed)
  BY OwedFinite, FS_Subset, FS_CardinalityType
<1> QED BY <1>1, OwedFinite DEF OwedCounted, Typed, SerializerTypeOK

(* The next n positions are n new dropped frames.                          *)
LEMMA MoreDropped ==
  ASSUME Typed, NEW n \in Nat, NEW S \in SUBSET Captured
  PROVE  Cardinality(S \cup cursor .. cursor + n - 1) = Cardinality(S) + n
<1> DEFINE run == cursor .. cursor + n - 1
<1>0. cursor \in Nat
  BY DEF Typed, ClientTypeOK
<1>1. IsFiniteSet(run) /\ Cardinality(run) = n
  <2>1. cursor + n - 1 \in Int /\ cursor \in Int
    BY <1>0
  <2>2. /\ IsFiniteSet(run)
        /\ Cardinality(run) =
             IF cursor > cursor + n - 1 THEN 0 ELSE cursor + n - 1 - cursor + 1
    BY <2>1, FS_Interval
  <2> HIDE DEF run
  <2> QED BY <1>0, <2>2
<1>2. S \cap run = {}
  BY <1>0 DEF Captured
<1>3. IsFiniteSet(S)
  <2>1. IsFiniteSet(Captured)
    BY <1>0, FS_Interval DEF Captured
  <2> QED BY <2>1, FS_Subset
<1>4. Cardinality(S \cup run) = Cardinality(S) + Cardinality(run) - Cardinality(S \cap run)
  BY <1>1, <1>3, FS_Union
<1>5. Cardinality(S) \in Nat /\ Cardinality(S \cap run) = 0
  BY <1>2, <1>3, FS_CardinalityType, FS_EmptySet
<1> HIDE DEF run
<1>6. Cardinality(S \cup run) = Cardinality(S) + n
  BY <1>1, <1>4, <1>5
<1> QED BY <1>6 DEF run

(* SetGopExpectedCount opens the group and leaves the other entries alone. *)
LEMMA AnnounceEntries ==
  ASSUME Typed, Apart, EntriesHonest, NEW c \in Nat,
         SetGopExpectedCount(c, GopSize), UNCHANGED dropped
  PROVE  /\ EntriesHonest' /\ Open(c)' /\ \A g : Open(g) => Open(g)'
         /\ frameGaps' = frameGaps /\ stop' = stop
<1> DEFINE b == [Buffer(c) EXCEPT !.nominal = GopSize, !.expectedSet = TRUE]
<1>1. /\ pending' = Stored(c, b) /\ frameGaps' = frameGaps /\ stop' = stop
      /\ \A g : DroppedIn(g)' = DroppedIn(g)
  BY DEF SetGopExpectedCount, DroppedIn
<1>2. b.expectedSet /\ b.nominal = GopSize /\ b.dropped = Buffer(c).dropped
  <2>1. Buffer(c) \in GopBuffer
    BY BufferType DEF Typed
  <2> QED BY <2>1 DEF GopBuffer
<1>3. Buffer(c).dropped <= Cardinality(DroppedIn(c))
  <2>1. Cardinality(DroppedIn(c)) \in Nat
    BY OwedFinite
  <2> QED BY <2>1 DEF Buffer, NewBuffer, EntriesHonest
<1> HIDE DEF b
<1>4. /\ DOMAIN pending' = DOMAIN pending \cup {c}
      /\ \A g \in DOMAIN pending' : pending'[g] = IF g = c THEN b ELSE pending[g]
  BY <1>1 DEF Stored
<1>5. EntriesHonest'
  BY <1>1, <1>2, <1>3, <1>4 DEF EntriesHonest
<1> QED BY <1>1, <1>2, <1>4, <1>5 DEF Open

(* NotifyFramesDropped for the next n positions, all in one group.         *)
LEMMA DropEntries ==
  ASSUME Typed, Apart, EntriesHonest, NEW n \in Nat, n <= GopSize - (cursor % GopSize),
         NEW c \in Nat, c = Gop(cursor), NotifyFramesDropped(c, n),
         dropped' = dropped \cup cursor .. cursor + n - 1
  PROVE  /\ EntriesHonest' /\ \A g : Open(g) => Open(g)'
         /\ Cardinality(dropped') = Cardinality(dropped) + n
         /\ frameGaps' = frameGaps + n /\ stop' = stop
<1> DEFINE b == [Buffer(c) EXCEPT !.dropped = @ + n]
           run == cursor .. cursor + n - 1
<1>0. cursor \in Nat
  BY DEF Typed, ClientTypeOK
<1>1. pending' = Stored(c, b) /\ frameGaps' = frameGaps + n /\ stop' = stop
  BY DEF NotifyFramesDropped
<1>2. /\ b.expectedSet = Buffer(c).expectedSet /\ b.nominal = Buffer(c).nominal
      /\ b.dropped = Buffer(c).dropped + n /\ Buffer(c).dropped \in Nat
  <2>1. Buffer(c) \in GopBuffer
    BY BufferType DEF Typed
  <2> QED BY <2>1 DEF GopBuffer
<1>3. /\ Buffer(c).dropped <= Cardinality(DroppedIn(c))
      /\ Cardinality(DroppedIn(c)) \in Nat
      /\ Buffer(c).expectedSet => Buffer(c).nominal = GopSize
  <2>1. Cardinality(DroppedIn(c)) \in Nat
    BY OwedFinite
  <2> QED BY <2>1 DEF Buffer, NewBuffer, EntriesHonest
<1>4. dropped \subseteq Captured
  BY DEF Apart, Places
<1>5. \A f \in run : Gop(f) = c
  BY <1>0, RunInOneGop
<1>6. /\ \A g : g # c => DroppedIn(g)' = DroppedIn(g)
      /\ DroppedIn(c)' = DroppedIn(c) \cup run
  <2>1. dropped' = dropped \cup run
    OBVIOUS
  <2>2. \A g : DroppedIn(g)' = {f \in dropped' : Gop(f) = g}
    BY DEF DroppedIn
  <2> HIDE DEF run
  <2> QED BY <1>5, <2>1, <2>2 DEF DroppedIn
<1>7. DroppedIn(c) \subseteq Captured
  BY <1>4 DEF DroppedIn
<1>8. /\ Cardinality(DroppedIn(c)') = Cardinality(DroppedIn(c)) + n
      /\ Cardinality(dropped') = Cardinality(dropped) + n
  BY <1>4, <1>6, <1>7, MoreDropped
<1> HIDE DEF b
<1>9. /\ DOMAIN pending' = DOMAIN pending \cup {c}
      /\ \A g \in DOMAIN pending' : pending'[g] = IF g = c THEN b ELSE pending[g]
  BY <1>1 DEF Stored
<1>10. ASSUME NEW g \in DOMAIN pending'
       PROVE  /\ pending'[g].expectedSet => pending'[g].nominal = GopSize
              /\ pending'[g].dropped <= Cardinality(DroppedIn(g)')
  <2>1. CASE g = c
    BY <1>2, <1>3, <1>8, <1>9, <2>1
  <2>2. CASE g # c
    <3>1. g \in DOMAIN pending /\ pending'[g] = pending[g] /\ DroppedIn(g)' = DroppedIn(g)
      BY <1>6, <1>9, <1>10, <2>2
    <3> QED BY <3>1 DEF EntriesHonest
  <2> QED BY <2>1, <2>2
<1>11. \A g : Open(g) => Open(g)'
  BY <1>2, <1>9 DEF Open, Buffer
<1> QED BY <1>1, <1>8, <1>10, <1>11 DEF EntriesHonest

(* Every step of the capture thread keeps the losses counted.              *)
LEMMA CaptureLoss ==
  ASSUME Typed, Apart, LossInv, Capture
  PROVE  LossInv'
<1>0. /\ cursor \in Nat /\ missing \in Nat /\ Gop(cursor) \in Nat
      /\ \A f \in Frames : f \in Nat /\ Gop(f) \in Nat
  BY GopNat, StreamAssumption DEF Typed, ClientTypeOK, Frames
<1>1. lanesStopped' = lanesStopped
  BY DEF Capture, Arrive, RegisterExpected, RegisterDropped, RouteNewGroup,
     RouteKnownGroup, SubmitFrame, DropFrame
<1> SUFFICES ASSUME ~lanesStopped
             PROVE  stop' = "running" /\ RoutedFirst' /\ EntriesHonest' /\ OwedCounted'
  BY <1>1 DEF LossInv
<1>2. stop = "running" /\ RoutedFirst /\ EntriesHonest /\ OwedCounted
  BY DEF LossInv
<1>3. ASSUME NEW k \in 0 .. NumFrames - 1, Arrive(k)
      PROVE  stop' = "running" /\ RoutedFirst' /\ EntriesHonest' /\ OwedCounted'
  <2>1. /\ UNCHANGED <<pending, frameGaps, stop, cursor, routed, inLane, dropped, lost>>
        /\ capture' # "push"
    BY <1>3 DEF Arrive, serializerVars
  <2> QED BY <1>2, <2>1 DEF RoutedFirst, EntriesHonest, DroppedIn, OwedCounted, Owed,
                            Outstanding, Open
<1>4. CASE RegisterExpected
  <2>1. /\ SetGopExpectedCount(Gop(cursor), GopSize) /\ capture' = "drop"
        /\ UNCHANGED <<cursor, routed, inLane, dropped, lost>>
    BY <1>4 DEF RegisterExpected
  <2>2. /\ EntriesHonest' /\ \A g : Open(g) => Open(g)'
        /\ frameGaps' = frameGaps + 0 /\ stop' = stop
    BY <1>0, <1>2, <2>1, AnnounceEntries DEF Typed, SerializerTypeOK
  <2>3. Owed' \subseteq Owed
    BY <2>1, <2>2 DEF Owed, Outstanding
  <2>4. Cardinality(dropped') = Cardinality(dropped) + 0
    BY <2>1, OwedFinite
  <2>5. OwedCounted'
    BY <1>2, <2>2, <2>3, <2>4, OwedStaysCounted
  <2> QED BY <1>2, <2>1, <2>2, <2>5 DEF RoutedFirst
<1>5. CASE RegisterDropped
  <2>1. PICK n \in Nat : n = InThisGroup /\ n <= GopSize - (cursor % GopSize)
    BY InThisGroupNat DEF Typed
  <2>2. /\ NotifyFramesDropped(Gop(cursor), n) /\ cursor' = cursor + n
        /\ dropped' = dropped \cup cursor .. cursor + n - 1
        /\ capture' # "push"
        /\ UNCHANGED <<routed, inLane, lost>>
    BY <1>5, <2>1 DEF RegisterDropped
  <2>3. /\ EntriesHonest' /\ \A g : Open(g) => Open(g)'
        /\ Cardinality(dropped') = Cardinality(dropped) + n
        /\ frameGaps' = frameGaps + n /\ stop' = stop
    <3>1. PICK c \in Nat : c = Gop(cursor)
      BY <1>0
    <3>2. NotifyFramesDropped(c, n)
      BY <2>2, <3>1
    <3> QED BY <1>2, <2>1, <2>2, <3>1, <3>2, DropEntries
  <2>4. Owed' \subseteq Owed
    BY <1>0, <2>2, <2>3 DEF Owed, Outstanding
  <2>5. OwedCounted'
    BY <1>2, <2>3, <2>4, OwedStaysCounted
  <2> QED BY <1>2, <2>2, <2>3, <2>5 DEF RoutedFirst
<1>6. CASE RouteNewGroup
  <2>1. /\ SetGopExpectedCount(Gop(cursor), GopSize) /\ capture' = "push"
        /\ routed' = routed \cup {Gop(cursor)}
        /\ UNCHANGED <<cursor, inLane, dropped, lost>>
    BY <1>6 DEF RouteNewGroup
  <2>2. /\ EntriesHonest' /\ Open(Gop(cursor))' /\ \A g : Open(g) => Open(g)'
        /\ frameGaps' = frameGaps + 0 /\ stop' = stop
    <3>1. PICK c \in Nat : c = Gop(cursor)
      BY <1>0
    <3>2. /\ EntriesHonest' /\ Open(c)' /\ \A g : Open(g) => Open(g)'
          /\ frameGaps' = frameGaps /\ stop' = stop
      BY <1>2, <2>1, <3>1, AnnounceEntries
    <3>3. Gop(cursor)' = c
      BY <2>1, <3>1 DEF Gop
    <3> QED BY <3>2, <3>3 DEF Typed, SerializerTypeOK, Open
  <2>3. Owed' \subseteq Owed
    <3>1. Gop(cursor)' = Gop(cursor)
      BY <2>1 DEF Gop
    <3>2. ASSUME NEW f \in Owed' PROVE f \in Owed
      <4>1. Gop(f) # Gop(cursor)
        BY <2>2, <3>1, <3>2 DEF Owed, Open
      <4> QED BY <2>1, <2>2, <3>2, <4>1 DEF Owed, Outstanding
    <3> QED BY <3>2
  <2>4. Cardinality(dropped') = Cardinality(dropped) + 0
    BY <2>1, OwedFinite
  <2>5. OwedCounted'
    BY <1>2, <2>2, <2>3, <2>4, OwedStaysCounted
  <2>6. RoutedFirst'
    BY <1>2, <2>1 DEF RoutedFirst
  <2> QED BY <1>2, <2>2, <2>5, <2>6
<1>7. CASE RouteKnownGroup
  <2>1. /\ UNCHANGED <<pending, frameGaps, stop, cursor, routed, inLane, dropped, lost>>
        /\ Gop(cursor) \in routed
    BY <1>7 DEF RouteKnownGroup, serializerVars
  <2> QED BY <1>2, <2>1 DEF RoutedFirst, EntriesHonest, DroppedIn, OwedCounted, Owed,
                            Outstanding, Open
<1>8. CASE SubmitFrame
  <2>1. /\ UNCHANGED <<pending, frameGaps, stop, routed, dropped, lost>>
        /\ capture = "push" /\ capture' = "idle"
        /\ inLane' = inLane \cup {cursor} /\ cursor' = cursor + 1
    BY <1>8 DEF SubmitFrame, serializerVars
  <2>2. Owed' \subseteq Owed
    BY <1>0, <2>1 DEF Owed, Outstanding, Open
  <2>3. Cardinality(dropped') = Cardinality(dropped) + 0 /\ frameGaps' = frameGaps + 0
    BY <2>1, OwedFinite DEF Typed, SerializerTypeOK
  <2>4. OwedCounted'
    BY <1>2, <2>2, <2>3, OwedStaysCounted
  <2>5. RoutedFirst' /\ EntriesHonest'
    BY <1>2, <2>1 DEF RoutedFirst, EntriesHonest, DroppedIn
  <2> QED BY <1>2, <2>1, <2>4, <2>5
<1>9. CASE DropFrame
  <2>1. 1 <= GopSize - (cursor % GopSize)
    <3>1. cursor % GopSize \in 0 .. GopSize - 1
      BY <1>0, GopOffset
    <3> QED BY <3>1, SerializerAssumption
  <2>2. /\ NotifyFramesDropped(Gop(cursor), 1) /\ cursor' = cursor + 1
        /\ dropped' = dropped \cup cursor .. cursor + 1 - 1
        /\ capture' = "idle"
        /\ UNCHANGED <<routed, inLane, lost>>
    BY <1>0, <1>9 DEF DropFrame
  <2>3. /\ EntriesHonest' /\ \A g : Open(g) => Open(g)'
        /\ Cardinality(dropped') = Cardinality(dropped) + 1
        /\ frameGaps' = frameGaps + 1 /\ stop' = stop
    <3>1. PICK c \in Nat : c = Gop(cursor)
      BY <1>0
    <3>2. NotifyFramesDropped(c, 1)
      BY <2>2, <3>1
    <3> QED BY <1>2, <2>1, <2>2, <3>1, <3>2, DropEntries
  <2>4. Owed' \subseteq Owed
    BY <1>0, <2>2, <2>3 DEF Owed, Outstanding
  <2>5. OwedCounted'
    BY <1>2, <2>3, <2>4, OwedStaysCounted
  <2> QED BY <1>2, <2>2, <2>3, <2>5 DEF RoutedFirst
<1> QED BY <1>3, <1>4, <1>5, <1>6, <1>7, <1>8, <1>9 DEF Capture

(* A lane delivers a frame or loses it; a lost frame was owed before.      *)
LEMMA LanesLoss ==
  ASSUME Typed, Apart, LossInv, ~lanesStopped, Lanes
  PROVE  LossInv'
<1>2. stop = "running" /\ RoutedFirst /\ EntriesHonest /\ OwedCounted
  BY DEF LossInv
<1>3. Cardinality(dropped) = Cardinality(dropped) + 0 /\ frameGaps = frameGaps + 0
  BY OwedFinite DEF Typed, SerializerTypeOK
<1>4. ASSUME NEW f \in inLane, Encoded(f)
      PROVE  LossInv'
  <2> DEFINE c == Gop(f)
             b == [Buffer(c) EXCEPT !.chunks = @ \cup {f}]
  <2>1. /\ pending' = Stored(c, b)
        /\ inLane' = inLane \ {f}
        /\ UNCHANGED <<frameGaps, stop, capture, cursor, routed, dropped, lost>>
    BY <1>4 DEF Encoded, PushChunk, emitVars
  <2>2. /\ b.expectedSet = Buffer(c).expectedSet /\ b.nominal = Buffer(c).nominal
        /\ b.dropped = Buffer(c).dropped
    <3>1. Buffer(c) \in GopBuffer
      BY BufferType DEF Typed
    <3> QED BY <3>1 DEF GopBuffer
  <2> HIDE DEF b, c
  <2>3. /\ DOMAIN pending' = DOMAIN pending \cup {c}
        /\ \A g \in DOMAIN pending' : pending'[g] = IF g = c THEN b ELSE pending[g]
    BY <2>1 DEF Stored
  <2>4. /\ Buffer(c).dropped <= Cardinality(DroppedIn(c))
        /\ Buffer(c).expectedSet => Buffer(c).nominal = GopSize
    <3>1. Cardinality(DroppedIn(c)) \in Nat
      BY OwedFinite
    <3> QED BY <1>2, <3>1 DEF Buffer, NewBuffer, EntriesHonest
  <2>5. \A g : DroppedIn(g)' = DroppedIn(g)
    BY <2>1 DEF DroppedIn
  <2>6. EntriesHonest'
    BY <1>2, <2>2, <2>3, <2>4, <2>5 DEF EntriesHonest
  <2>7. \A g : Open(g) => Open(g)'
    BY <2>2, <2>3 DEF Open, Buffer
  <2>8. Owed' \subseteq Owed
    BY <2>1, <2>7 DEF Owed, Outstanding
  <2>9. OwedCounted'
    BY <1>2, <1>3, <2>1, <2>8, OwedStaysCounted
  <2> QED BY <1>2, <2>1, <2>6, <2>9 DEF LossInv, RoutedFirst
<1>5. ASSUME NEW f \in inLane, LaneLoses(f)
      PROVE  LossInv'
  <2>1. /\ UNCHANGED <<pending, frameGaps, stop, capture, cursor, routed, dropped>>
        /\ inLane' = inLane \ {f} /\ lost' = lost \cup {f}
    BY <1>5 DEF LaneLoses, serializerVars
  <2>2. Owed' \subseteq Owed
    BY <1>5, <2>1 DEF Owed, Outstanding, Open
  <2>3. OwedCounted'
    BY <1>2, <1>3, <2>1, <2>2, OwedStaysCounted
  <2>4. RoutedFirst' /\ EntriesHonest'
    BY <1>2, <1>5, <2>1 DEF RoutedFirst, EntriesHonest, DroppedIn
  <2> QED BY <1>2, <2>1, <2>3, <2>4 DEF LossInv
<1> QED BY <1>4, <1>5 DEF Lanes

(* Sets without a common element add up. *)
LEMMA DisjointUnion ==
  ASSUME NEW A, NEW B, IsFiniteSet(A), IsFiniteSet(B), A \cap B = {}
  PROVE  IsFiniteSet(A \cup B) /\ Cardinality(A \cup B) = Cardinality(A) + Cardinality(B)
<1>1. Cardinality(A) \in Nat /\ Cardinality(B) \in Nat /\ Cardinality(A \cap B) = 0
  BY FS_CardinalityType, FS_EmptySet
<1>2. /\ IsFiniteSet(A \cup B)
      /\ Cardinality(A \cup B) = Cardinality(A) + Cardinality(B) - Cardinality(A \cap B)
  BY FS_Union
<1>3. \A m, n, k \in Int : k = 0 => m + n - k = m + n
  OBVIOUS
<1> QED BY <1>1, <1>2, <1>3

(* The shortfall of a popped GOP is at least what it still owed.           *)
LEMMA ShortfallCovers ==
  ASSUME Typed, Placement, Apart, EntriesHonest,
         NEW g \in DOMAIN pending, pending[g].expectedSet,
         NEW S, S = {f \in Frames : Gop(f) = g /\ (f \in inLane \cup lost \/ f >= cursor)}
  PROVE  IsFiniteSet(S) /\ Cardinality(S) \in Nat /\ Cardinality(S) <= Shortfall(pending[g])
<1> DEFINE b == pending[g]
           C == b.chunks
           D == DroppedIn(g)
           P == PositionsOf(g)
<1>1. /\ g \in Nat /\ b \in GopBuffer /\ IsFiniteSet(C) /\ b.nominal = GopSize
      /\ b.dropped \in Nat /\ b.dropped <= Cardinality(D)
  BY DEF Typed, SerializerTypeOK, EntriesHonest, GopBuffer
<1>2. IsFiniteSet(P) /\ Cardinality(P) = GopSize /\ \A f \in Nat : f \in P <=> Gop(f) = g
  BY <1>1, PositionsOfGop
<1>3. C \subseteq P /\ D \subseteq P /\ S \subseteq P
  <2>1. \A f \in C : f \in Nat /\ Gop(f) = g
    BY <1>1 DEF Placement, GopBuffer
  <2>2. \A f \in D : f \in Nat /\ Gop(f) = g
    BY DEF DroppedIn, Typed, ClientTypeOK
  <2>3. \A f \in S : f \in Nat /\ Gop(f) = g
    BY StreamAssumption DEF Frames
  <2> HIDE DEF P, C, D
  <2> QED BY <1>2, <2>1, <2>2, <2>3
<1>4. C \cap D = {} /\ (C \cup D) \cap S = {}
  <2>1. \A f \in C : f \in Buffered
    BY DEF Buffered
  <2>2. \A f \in C \cup D : f \in Captured /\ AtOnePlace(f)
    BY <2>1 DEF Apart, Places, DroppedIn
  <2>3. \A f \in C : f \notin dropped \cup inLane \cup lost
    BY <2>1, <2>2 DEF AtOnePlace
  <2>4. \A f \in D : f \in dropped /\ f \notin inLane \cup lost
    BY <2>2 DEF AtOnePlace, DroppedIn
  <2>5. \A f \in Captured : ~ (f >= cursor)
    BY DEF Captured, Typed, ClientTypeOK
  <2> HIDE DEF C, D
  <2> QED BY <2>2, <2>3, <2>4, <2>5
<1>5. IsFiniteSet(S) /\ IsFiniteSet(D)
  BY <1>2, <1>3, FS_Subset
<1> HIDE DEF C, D, P
<1>6. Cardinality(C) + Cardinality(D) + Cardinality(S) <= GopSize
  <2>1. /\ IsFiniteSet(C \cup D)
        /\ Cardinality(C \cup D) = Cardinality(C) + Cardinality(D)
    BY <1>1, <1>4, <1>5, DisjointUnion DEF C
  <2>2. Cardinality((C \cup D) \cup S) = Cardinality(C \cup D) + Cardinality(S)
    BY <1>4, <1>5, <2>1, DisjointUnion
  <2>3. Cardinality((C \cup D) \cup S) <= Cardinality(P)
    BY <1>2, <1>3, FS_Subset
  <2> QED BY <1>2, <2>1, <2>2, <2>3
<1>7. Cardinality(C) \in Nat /\ Cardinality(D) \in Nat /\ Cardinality(S) \in Nat
  BY <1>1, <1>5, FS_CardinalityType DEF C
<1>8. Shortfall(b) = IF GopSize > b.dropped /\ GopSize - b.dropped > Cardinality(C)
                     THEN GopSize - b.dropped - Cardinality(C) ELSE 0
  BY <1>1, <1>7, SerializerAssumption DEF Shortfall, ExpectedChunks, C
<1> QED BY <1>1, <1>5, <1>6, <1>7, <1>8, SerializerAssumption

(* Popping a GOP moves what it owes to frame_gaps_.                        *)
LEMMA PopLoss ==
  ASSUME Typed, Placement, Apart, LossInv, ~lanesStopped, PopGop, UNCHANGED clientVars
  PROVE  LossInv'
<1> DEFINE g == nextExpectedGop
           S == {f \in Frames : Gop(f) = g /\ (f \in inLane \cup lost \/ f >= cursor)}
<1>1. /\ g \in DOMAIN pending /\ pending' = Erased(g)
      /\ frameGaps' = frameGaps + Shortfall(pending[g]) /\ stop' = stop
      /\ UNCHANGED <<capture, cursor, routed, inLane, dropped, lost, lanesStopped>>
  BY DEF PopGop, clientVars
<1>2. stop = "running" /\ RoutedFirst /\ EntriesHonest /\ OwedCounted
  BY DEF LossInv
<1>3. /\ DOMAIN pending' = DOMAIN pending \ {g}
      /\ \A h \in DOMAIN pending' : pending'[h] = pending[h]
  BY <1>1, ErasedFacts
<1>4. RoutedFirst' /\ EntriesHonest'
  BY <1>1, <1>2, <1>3 DEF RoutedFirst, EntriesHonest, DroppedIn
<1>5. Shortfall(pending[g]) \in Nat /\ frameGaps \in Nat
  BY <1>1, ShortfallNat DEF Typed, SerializerTypeOK
<1>6. /\ Cardinality(dropped) \in Nat /\ Cardinality(Owed) \in Nat /\ IsFiniteSet(Owed)
  BY OwedFinite
<1>7. CASE pending[g].expectedSet
  <2>1. IsFiniteSet(S) /\ Cardinality(S) \in Nat /\ Cardinality(S) <= Shortfall(pending[g])
    BY <1>1, <1>2, <1>7, ShortfallCovers
  <2>2. Owed' \subseteq Owed \cup S
    <3>1. \A h : Open(h) /\ h # g => Open(h)'
      BY <1>3 DEF Open
    <3>2. ASSUME NEW f \in Owed' PROVE f \in Owed \cup S
      <4>1. f \in Frames /\ Outstanding(f) /\ ~Open(Gop(f))'
        BY <1>1, <3>2 DEF Owed, Outstanding
      <4>2. CASE Gop(f) = g
        BY <4>1, <4>2 DEF Outstanding
      <4>3. CASE Gop(f) # g
        <5>1. ~Open(Gop(f))
          BY <3>1, <4>1, <4>3
        <5> QED BY <4>1, <5>1 DEF Owed
      <4> QED BY <4>2, <4>3
    <3> QED BY <3>2
  <2> HIDE DEF S, g
  <2>3. /\ IsFiniteSet(Owed \cup S) /\ Cardinality(Owed \cup S) \in Nat
        /\ Cardinality(Owed \cup S) <= Cardinality(Owed) + Cardinality(S)
    <3>1. IsFiniteSet(Owed \cup S) /\ IsFiniteSet(Owed \cap S)
      BY <1>6, <2>1, FS_Union, FS_Intersection
    <3>2. Cardinality(Owed \cup S) = Cardinality(Owed) + Cardinality(S) - Cardinality(Owed \cap S)
      BY <1>6, <2>1, FS_Union
    <3>3. Cardinality(Owed \cap S) \in Nat /\ Cardinality(Owed \cup S) \in Nat
      BY <3>1, FS_CardinalityType
    <3> QED BY <1>6, <2>1, <3>1, <3>2, <3>3
  <2>4. Cardinality(Owed') \in Nat /\ Cardinality(Owed') <= Cardinality(Owed \cup S)
    BY <2>2, <2>3, FS_Subset, FS_CardinalityType
  <2>5. OwedCounted'
    BY <1>1, <1>2, <1>5, <1>6, <2>1, <2>3, <2>4 DEF OwedCounted
  <2> QED BY <1>1, <1>2, <1>4, <2>5 DEF LossInv
<1>8. CASE ~pending[g].expectedSet
  <2>1. \A h : Open(h) => Open(h)'
    BY <1>3, <1>8 DEF Open
  <2>2. Owed' \subseteq Owed
    BY <1>1, <2>1 DEF Owed, Outstanding
  <2>3. Cardinality(Owed') \in Nat /\ Cardinality(Owed') <= Cardinality(Owed)
    BY <1>6, <2>2, FS_Subset, FS_CardinalityType
  <2>4. OwedCounted'
    BY <1>1, <1>2, <1>5, <1>6, <2>3 DEF OwedCounted
  <2> QED BY <1>1, <1>2, <1>4, <2>4 DEF LossInv
<1> QED BY <1>7, <1>8

(* Every step keeps the losses counted; once the lanes have stopped there  *)
(* is nothing left to count.                                               *)
LEMMA NextLoss == TypeOK /\ OrderInv /\ Apart /\ LossInv /\ [Next]_vars => LossInv'
<1> SUFFICES ASSUME Typed, Placement, Apart, LossInv, [Next]_vars
             PROVE  LossInv'
  BY TypeParts DEF Typed, OrderInv
<1>1. CASE lanesStopped
  <2>1. lanesStopped'
    BY <1>1 DEF Next, Capture, Arrive, RegisterExpected, RegisterDropped, RouteNewGroup,
       RouteKnownGroup, SubmitFrame, DropFrame, Lanes, Encoded, LaneLoses, StopLanes,
       StopSerializer, Emit, Clock, BusThread, FinishStop, clientVars, vars
  <2> QED BY <2>1 DEF LossInv
<1>2. CASE ~lanesStopped
  <2>0. stop = "running"
    BY <1>2 DEF LossInv
  <2>1. CASE Capture
    BY <2>1, CaptureLoss
  <2>2. CASE Lanes
    BY <1>2, <2>2, LanesLoss
  <2>3. CASE StopLanes
    BY <2>3 DEF StopLanes, LossInv
  <2>4. CASE Emit /\ PopGop
    BY <1>2, <2>4, PopLoss DEF Emit
  <2>5. CASE Clock
    <3>1. UNCHANGED <<frameGaps, stop, capture, cursor, routed, inLane, dropped, lost, lanesStopped>>
      BY <2>5 DEF Clock, Tick, clientVars
    <3>2. /\ DOMAIN pending' = DOMAIN pending
          /\ \A g \in DOMAIN pending :
               /\ pending'[g].dropped = pending[g].dropped
               /\ pending'[g].nominal = pending[g].nominal
               /\ pending'[g].expectedSet = pending[g].expectedSet
      BY <2>5 DEF Clock, Tick, Typed, SerializerTypeOK, GopBuffer
    <3>3. \A g : Open(g)' <=> Open(g)
      BY <3>2 DEF Open
    <3>4. Owed' = Owed
      BY <3>1, <3>3 DEF Owed, Outstanding
    <3> QED BY <1>2, <3>1, <3>2, <3>4
            DEF LossInv, RoutedFirst, EntriesHonest, DroppedIn, OwedCounted
  <2>6. CASE (Emit /\ ~PopGop) \/ BusThread \/ UNCHANGED vars
    <3>1. UNCHANGED <<pending, frameGaps, stop, capture, cursor, routed, inLane, dropped, lost,
                      lanesStopped>>
      BY <2>6 DEF Emit, EmitLoop, SkipGop, EmitExit, WriteChunk, SkipChunk, RefuseChunk,
         BusThread, BusError, clientVars, vars, serializerVars
    <3> QED BY <3>1 DEF LossInv, RoutedFirst, EntriesHonest, DroppedIn, OwedCounted, Owed,
                        Outstanding, Open
  <2>7. CASE StopSerializer \/ FinishStop
    BY <1>2, <2>0, <2>7 DEF StopSerializer, FinishStop, StopFinish
  <2> QED BY <2>1, <2>2, <2>3, <2>4, <2>5, <2>6, <2>7 DEF Next
<1> QED BY <1>1, <1>2

(* Nothing is owed initially. *)
LEMMA InitLoss == Init => LossInv
<1> SUFFICES ASSUME Init PROVE LossInv
  OBVIOUS
<1>1. /\ DOMAIN pending = {} /\ frameGaps = 0 /\ stop = "running" /\ capture = "idle"
      /\ routed = {} /\ inLane = {} /\ dropped = {} /\ lost = {}
  BY DEF Init, SerializerInit
<1>2. Owed = {}
  BY <1>1 DEF Owed, Outstanding
<1>3. OwedCounted
  BY <1>1, <1>2, FS_EmptySet DEF OwedCounted
<1> QED BY <1>1, <1>3 DEF LossInv, RoutedFirst, EntriesHonest

(* Until the lanes have stopped, frame_gaps_ is at least the number of     *)
(* dropped frames and of frames lost in a lane whose GOP has been passed,  *)
(* for any number of frames, GOP size and stall timeout.                   *)
THEOREM LossesAlwaysCounted == Spec => []LossesCounted
<1>1. ASSUME TypeOK, OrderInv, Apart, LossInv PROVE LossesCounted
  <2> SUFFICES ASSUME ~lanesStopped
               PROVE  Cardinality(dropped)
                        + Cardinality({f \in lost : Gop(f) \notin DOMAIN pending}) <= frameGaps
    BY DEF LossesCounted
  <2> DEFINE L == {f \in lost : Gop(f) \notin DOMAIN pending}
  <2>1. Typed /\ RoutedFirst /\ OwedCounted
    BY <1>1, TypeParts DEF Typed, LossInv
  <2>2. \A f \in lost : f \in Frames
    BY <1>1, <2>1, StreamAssumption
    DEF Apart, Places, Captured, Frames, OrderInv, CaptureState, Typed, ClientTypeOK
  <2>3. L \subseteq Owed
    BY <2>1, <2>2 DEF Owed, Outstanding, Open, RoutedFirst
  <2>4. /\ IsFiniteSet(Owed) /\ Cardinality(Owed) \in Nat
        /\ Cardinality(dropped) \in Nat
    BY <1>1, <2>1, OwedFinite
  <2> HIDE DEF L
  <2>5. Cardinality(L) \in Nat /\ Cardinality(L) <= Cardinality(Owed)
    BY <2>3, <2>4, FS_Subset, FS_CardinalityType
  <2>6. Cardinality(dropped) + Cardinality(L) <= frameGaps
    BY <2>1, <2>4, <2>5 DEF OwedCounted, Typed, SerializerTypeOK
  <2> QED BY <2>6 DEF L
<1>2. Init => LossInv
  BY InitLoss
<1> QED BY <1>1, <1>2, NextLoss, TypeCorrect, OrderInvariant, ApartInvariant, PTL DEF Spec

=============================================================================
