--------------------------- MODULE MultiNvRecorder ---------------------------
(***************************************************************************)
(* src/src/multi_nv_recorder.cpp, the capture thread: PushFrame turns the  *)
(* camera's 32-bit frame counter into a source index, reports what is      *)
(* missing, routes each group of frames to one lane, and submits or drops  *)
(* the frame.  The lane, the scheduler and the serializer are seen only    *)
(* through what they are told; EncoderLane, GopScheduler and               *)
(* RecordingStream are their side.  Start and Stop come between frames     *)
(* here (EncoderLane has the Stop that does not).                          *)
(***************************************************************************)
EXTENDS Integers, FiniteSets

CONSTANTS Modulus,      \* values of acq_nframe, 2^32 in the code
          GopSize,
          KeepGroups,   \* a group's route is erased that many groups later
          NumLanes,
          MaxPosition,  \* bound: frames the camera takes
          MaxRecordings \* bound: calls of Start

ASSUME RecorderAssumption ==
  /\ Modulus \in Nat \ {0} /\ GopSize \in Nat \ {0} /\ KeepGroups \in Nat \ {0}
  /\ NumLanes \in Nat \ {0} /\ MaxPosition \in Nat /\ MaxRecordings \in Nat

Lanes == 0 .. NumLanes - 1

VARIABLES
  camera,     \* frames the camera has taken, delivered or not
  started, recordings,
  haveAcq, lastAcq, lastSource, \* have_acq_sequence_, last_acq_nframe_, last_source_index_
  routes,     \* frame_group_routes_: group -> lane and needs_idr
  pc,         \* where PushFrame is: "idle", "missing", "route", "push"
  source, remaining, \* RegisterMissingFrames' locals, then source_index
  framesDropped, \* frames_dropped_
  first,      \* history: camera position of the recording's first frame
  position,   \* history: camera position of the present frame
  hugeGap,    \* history: half the counter's range was missed in one go
  reported,   \* history: group -> sum of NotifyFramesDropped
  submitted   \* history: what the lanes were given

recordingVars == <<started, recordings, first>>
sequenceVars  == <<haveAcq, lastAcq, lastSource>>
vars == <<camera, recordingVars, sequenceVars, routes, pc, source, remaining,
          framesDropped, position, hugeGap, reported, submitted>>

Group(s) == s \div GopSize
Groups   == 0 .. Group(MaxPosition + Modulus)

\* A map entry added or replaced; an entry removed if present.
With(map, key, value) == [k \in DOMAIN map \cup {key} |-> IF k = key THEN value ELSE map[k]]
Without(map, key) == [k \in DOMAIN map \ {key} |-> map[k]]
NoRoutes == [g \in {} |-> [lane |-> 0, needsIdr |-> TRUE]]

Init ==
  /\ camera = 0
  /\ started = FALSE /\ recordings = 0 /\ first = 0
  /\ haveAcq = FALSE /\ lastAcq = 0 /\ lastSource = 0
  /\ routes = NoRoutes /\ pc = "idle" /\ source = 0 /\ remaining = 0
  /\ framesDropped = 0
  /\ position = 0 /\ hugeGap = FALSE
  /\ reported = [g \in Groups |-> 0] /\ submitted = {}

----------------------------------------------------------------------------
(* A lane or the serializer may fail to start; what did start is stopped.  *)
Start ==
  /\ ~started /\ pc = "idle" /\ recordings < MaxRecordings
  /\ started' \in BOOLEAN /\ recordings' = recordings + 1
  /\ haveAcq' = FALSE /\ lastAcq' = 0 /\ lastSource' = 0
  /\ framesDropped' = 0
  /\ routes' = NoRoutes
  /\ hugeGap' = FALSE /\ reported' = [g \in Groups |-> 0] /\ submitted' = {}
  /\ UNCHANGED <<camera, first, pc, source, remaining, position>>

Stop ==
  /\ started /\ pc = "idle"
  /\ started' = FALSE
  /\ routes' = NoRoutes
  /\ UNCHANGED <<camera, recordings, first, sequenceVars, pc, source, remaining,
                 framesDropped, position, hugeGap, reported, submitted>>

----------------------------------------------------------------------------
(* PushFrame.  The camera misses `skip` frames and delivers the next one.  *)
Delivered(skip) == camera + skip
Acq(skip)       == Delivered(skip) % Modulus

\* Mutant: the difference of the counters is signed.
SignedStep(skip) == Acq(skip) - lastAcq

\* uint32_t step = acq_nframe - last_acq_nframe_
Step(skip) == (Acq(skip) - lastAcq) % Modulus
InOrder(skip) == Step(skip) # 0 /\ Step(skip) <= Modulus \div 2

Delivers(skip) ==
  /\ pc = "idle" /\ Delivered(skip) < MaxPosition
  /\ camera' = Delivered(skip) + 1
  /\ UNCHANGED <<recordings, started>>

FirstFrame(skip) ==
  /\ started /\ ~haveAcq /\ Delivers(skip)
  /\ haveAcq' = TRUE /\ lastAcq' = Acq(skip) /\ lastSource' = 0
  /\ source' = 0 /\ pc' = "route"
  /\ first' = Delivered(skip) /\ position' = Delivered(skip)
  /\ UNCHANGED <<routes, remaining, framesDropped, hugeGap, reported, submitted>>

\* A duplicate, or more than half the range ahead: not reported to the serializer.
RejectFrame(skip) ==
  /\ started /\ haveAcq /\ Delivers(skip)
  /\ ~InOrder(skip)
  /\ framesDropped' = framesDropped + 1
  /\ hugeGap' = (hugeGap \/ skip >= Modulus \div 2)
  /\ UNCHANGED <<first, sequenceVars, routes, pc, source, remaining, position, reported, submitted>>

NextFrame(skip) ==
  /\ started /\ haveAcq /\ Delivers(skip)
  /\ InOrder(skip)
  /\ remaining' = Step(skip) - 1
  /\ source' = lastSource + 1
  /\ pc' = IF remaining' > 0 THEN "missing" ELSE "route"
  /\ lastSource' = lastSource + Step(skip) /\ lastAcq' = Acq(skip)
  /\ position' = Delivered(skip)
  /\ hugeGap' = (hugeGap \/ skip >= Modulus \div 2)
  /\ UNCHANGED <<first, haveAcq, routes, framesDropped, reported, submitted>>

\* Nothing is recorded: the camera runs on.
IgnoredFrame(skip) ==
  /\ ~started /\ Delivers(skip)
  /\ UNCHANGED <<first, sequenceVars, routes, pc, source, remaining, framesDropped,
                 position, hugeGap, reported, submitted>>

\* Mutant: the last group is filled up.
RestOfGroup == GopSize - (source % GopSize)

(* RegisterMissingFrames, one group at a time.  (last_source_index_ moves  *)
(* after the loop in the code; nothing reads it in between.)               *)
InThisGroup ==
  LET room == GopSize - (source % GopSize)
  IN IF remaining < room THEN remaining ELSE room

RegisterMissing ==
  /\ pc = "missing"
  /\ reported' = [reported EXCEPT ![Group(source)] = @ + InThisGroup]
  /\ source' = source + InThisGroup
  /\ remaining' = remaining - InThisGroup
  /\ pc' = IF remaining' > 0 THEN "missing" ELSE "route"
  /\ UNCHANGED <<camera, recordingVars, sequenceVars, routes, framesDropped, position,
                 hugeGap, submitted>>

\* AssignLane may choose any lane.
RouteNewGroup(lane) ==
  /\ pc = "route" /\ Group(source) \notin DOMAIN routes
  /\ routes' = Without(With(routes, Group(source), [lane |-> lane, needsIdr |-> TRUE]),
                       Group(source) - KeepGroups)
  /\ pc' = "push"
  /\ UNCHANGED <<camera, recordingVars, sequenceVars, source, remaining, framesDropped,
                 position, hugeGap, reported, submitted>>

RouteKnownGroup ==
  /\ pc = "route" /\ Group(source) \in DOMAIN routes
  /\ pc' = "push"
  /\ UNCHANGED <<camera, recordingVars, sequenceVars, routes, source, remaining,
                 framesDropped, position, hugeGap, reported, submitted>>

\* Mutant: the serializer is not told.
DropFrameSilently ==
  /\ pc = "push"
  /\ framesDropped' = framesDropped + 1
  /\ pc' = "idle"
  /\ UNCHANGED <<camera, recordingVars, sequenceVars, routes, source, remaining,
                 position, hugeGap, reported, submitted>>

\* Mutant: a dropped frame uses up the IDR request of its group.
DropFrameAndIdr ==
  /\ pc = "push"
  /\ framesDropped' = framesDropped + 1
  /\ reported' = [reported EXCEPT ![Group(source)] = @ + 1]
  /\ routes' = [routes EXCEPT ![Group(source)].needsIdr = FALSE]
  /\ pc' = "idle"
  /\ UNCHANGED <<camera, recordingVars, sequenceVars, source, remaining,
                 position, hugeGap, submitted>>

\* No free slot, or the ownership copy failed.
DropFrame ==
  /\ pc = "push"
  /\ framesDropped' = framesDropped + 1
  /\ reported' = [reported EXCEPT ![Group(source)] = @ + 1]
  /\ pc' = "idle"
  /\ UNCHANGED <<camera, recordingVars, sequenceVars, routes, source, remaining,
                 position, hugeGap, submitted>>

SubmitFrame ==
  /\ pc = "push"
  /\ LET route == routes[Group(source)] IN
       /\ submitted' = submitted \cup {[source |-> source, position |-> position,
                                        lane |-> route.lane, forceIdr |-> route.needsIdr]}
       /\ routes' = [routes EXCEPT ![Group(source)].needsIdr = FALSE]
  /\ pc' = "idle"
  /\ UNCHANGED <<camera, recordingVars, sequenceVars, source, remaining, framesDropped,
                 position, hugeGap, reported>>

----------------------------------------------------------------------------
Arrival(skip) == FirstFrame(skip) \/ RejectFrame(skip) \/ NextFrame(skip) \/ IgnoredFrame(skip)

Route == (\E lane \in Lanes : RouteNewGroup(lane)) \/ RouteKnownGroup

Next == \/ Start \/ Stop \/ \E skip \in 0 .. MaxPosition : Arrival(skip)
        \/ RegisterMissing \/ Route \/ DropFrame \/ SubmitFrame

Spec == Init /\ [][Next]_vars

----------------------------------------------------------------------------
(* Properties.                                                             *)

\* The values of every variable.
TypeOK ==
  /\ camera \in Nat /\ first \in Nat /\ position \in Nat
  /\ started \in BOOLEAN /\ recordings \in 0 .. MaxRecordings
  /\ haveAcq \in BOOLEAN /\ lastAcq \in 0 .. Modulus - 1 /\ lastSource \in Nat
  /\ DOMAIN routes \subseteq Groups
  /\ \A g \in DOMAIN routes : routes[g] \in [lane : Lanes, needsIdr : BOOLEAN]
  /\ pc \in {"idle", "missing", "route", "push"}
  /\ source \in Nat /\ remaining \in Nat /\ framesDropped \in Nat
  /\ hugeGap \in BOOLEAN
  /\ reported \in [Groups -> Nat]
  /\ submitted \subseteq [source : Nat, position : Nat, lane : Lanes, forceIdr : BOOLEAN]

(* A frame's source index is its distance in camera frames from the first  *)
(* frame of the recording, across wraparounds of the counter, losses and   *)
(* earlier recordings, unless half the range was missed in one go.         *)
SourceIsPosition ==
  ~hugeGap => \A f \in submitted : f.position = first + f.source

(* For every group, the frames reported dropped and the frames submitted   *)
(* add up to the positions passed: the number the serializer waits for,    *)
(* nominal minus dropped, is the number that the lanes were given.         *)
PassedIn(g) == Cardinality({s \in 0 .. lastSource : Group(s) = g})
SubmittedIn(g) == {f \in submitted : Group(f.source) = g}

GroupsBalance ==
  pc = "idle" /\ haveAcq =>
    \A g \in 0 .. Group(lastSource) :
      reported[g] + Cardinality(SubmittedIn(g)) = PassedIn(g)

(* A group is decodable on its own: all its frames are on one lane, the    *)
(* first one that reaches the lane asks for an IDR picture, and no other   *)
(* does, whichever frames of the group are lost.                           *)
OneIdrPerGroup ==
  \A f, h \in submitted : Group(f.source) = Group(h.source) =>
    /\ f.lane = h.lane
    /\ f.forceIdr <=> \A e \in SubmittedIn(Group(f.source)) : f.source <= e.source
=============================================================================
