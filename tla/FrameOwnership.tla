--------------------------- MODULE FrameOwnership ---------------------------
(***************************************************************************)
(* The way of a picture from the camera's buffers to the encoder: the      *)
(* copies that PushFrame of multi_nv_recorder.cpp and of gst_recorder.cpp  *)
(* submit to CUDA streams, the one event the capture thread waits for, the *)
(* event the recorder's thread waits for, and the slot's way back.         *)
(*                                                                         *)
(* A picture is the number of its frame.  The operations of a stream run   *)
(* one after the other, those of different streams in any order but for    *)
(* the events between the copies of one frame.  The camera fills its ring  *)
(* of buffers by itself; assumed of it: while a frame is in the callback   *)
(* its buffer is not overwritten (see README).                             *)
(* FrameCallback adds the previewer and has the next-state relation.       *)
(***************************************************************************)
EXTENDS Integers, Sequences, FiniteSets

CONSTANTS
  Paths,      \* the copy paths: a subset of DOMAIN Route
  Ring,       \* buffers of the camera
  PoolSize,   \* cfg_.pool_size_per_lane, POOL_SIZE
  CudaFaults, \* a submission or a wait may fail
  MaxFrames   \* bound: pictures the camera takes

(* The streams of the copies of one path, in order.  Copy k writes buffer  *)
(* k of the slot (gray8 or pinned staging, NV12 pool, host pool) and reads *)
(* buffer k - 1; the first one reads the camera's.                         *)
Route ==
  [direct  |-> <<"copy", "convert">>, \* local or peer: to gray8, convert
   pinned  |-> <<"capture", "copy", "convert">>, \* to host, to gray8, convert
   raw     |-> <<"record">>, \* to host
   encoded |-> <<"record", "record">>] \* to gray8, convert

LanePaths == {"direct", "pinned"}

ASSUME FrameOwnershipAssumption ==
  /\ Paths \subseteq DOMAIN Route
  /\ Ring \in Nat \ {0} /\ PoolSize \in Nat \ {0} /\ MaxFrames \in Nat
  /\ CudaFaults \in BOOLEAN

Slots   == 0 .. PoolSize - 1
Frames  == 1 .. MaxFrames
Streams == {"capture", "copy", "convert", "record"}

VARIABLES
  path,      \* how the recorder was set up: copy path of lane, or codec
  exposed,   \* number of the last picture taken by the camera
  callback,  \* capture thread: "idle", "record", "wait", "preview"
  current,   \* frame in the callback, or the last one
  nextSlot,  \* next_slot_, pool_index_ (modulo the pool)
  slot,      \* slot reserved while it waits, else 0
  stream,    \* operations submitted to each stream and not yet done
  buffer,    \* content of buffer k of each slot
  slotInUse, \* slot_in_use_, as the set of slots in use
  ready,     \* submit_queue_, frame_queue_
  encoding   \* frames whose slot the encoder or the file sink reads

ownershipVars ==
  <<path, exposed, callback, current, nextSlot, slot, stream, buffer, slotInUse, ready, encoding>>

Last == Len(Route[path])

OwnershipInit ==
  /\ path \in Paths
  /\ exposed = 0 /\ callback = "idle" /\ current = 0 /\ nextSlot = 0 /\ slot = 0
  /\ stream = [s \in Streams |-> <<>>]
  /\ buffer = [k \in 1 .. Last |-> [i \in Slots |-> 0]]
  /\ slotInUse = {} /\ ready = <<>> /\ encoding = {}

----------------------------------------------------------------------------
\* What the buffer that frame f was delivered in holds now.
CameraBuffer(f) == exposed - ((exposed - f) % Ring)

Expose ==
  /\ exposed < MaxFrames
  /\ callback # "idle" => exposed < current + Ring - 1
  /\ exposed' = exposed + 1
  /\ UNCHANGED <<path, callback, current, nextSlot, slot, stream, buffer, slotInUse, ready,
                 encoding>>

\* xiGetImage; no recording, or a recorder that refuses, goes on to preview.
GetImage ==
  /\ callback = "idle"
  /\ current' \in {f \in Frames : current < f /\ f <= exposed /\ CameraBuffer(f) = f}
  /\ callback' \in {"record", "preview"}
  /\ UNCHANGED <<path, exposed, nextSlot, slot, stream, buffer, slotInUse, ready, encoding>>

(* A lane probes its pool from next_slot_ on, and next_slot_ advances with *)
(* every call; GstRecorder tries only the slot at pool_index_, which       *)
(* advances when the slot is taken.                                        *)
After(i) == (i + 1) % PoolSize
Probe(i) == (nextSlot + i) % PoolSize

FreeSlot(i) ==
  /\ i \in Slots \ slotInUse
  /\ IF path \in LanePaths
       THEN \E n \in Slots : i = Probe(n) /\ \A l \in 0 .. n - 1 : Probe(l) \in slotInUse
       ELSE i = nextSlot

SlotBusy ==
  /\ callback = "record" /\ ~\E i \in Slots : FreeSlot(i)
  /\ callback' = "preview"
  /\ nextSlot' = IF path \in LanePaths THEN After(nextSlot) ELSE nextSlot
  /\ UNCHANGED <<path, exposed, current, slot, stream, buffer, slotInUse, ready, encoding>>

\* Copies from..to of the current frame appended to their streams.
Submitted(from, to, s) ==
  [str \in Streams |->
     stream[str] \o [j \in 1 .. Cardinality({k \in from .. to : Route[path][k] = str}) |->
        [frame |-> current, slot |-> s,
         copy |-> CHOOSE k \in from .. to :
                    /\ Route[path][k] = str
                    /\ Cardinality({l \in from .. k : Route[path][l] = str}) = j]]]

\* The copies submitted before the capture thread waits or returns; the
\* conversion of a lane follows only after the wait.
BeforeWait == IF path \in LanePaths THEN Last - 1 ELSE Last
HasToWait  == path # "encoded"

SubmitCopies ==
  /\ callback = "record"
  /\ \E i \in Slots :
       /\ FreeSlot(i)
       /\ slotInUse' = slotInUse \cup {i}
       /\ stream' = Submitted(1, BeforeWait, i)
       /\ IF HasToWait
            THEN callback' = "wait" /\ slot' = i /\ UNCHANGED ready
            ELSE /\ callback' = "preview" /\ slot' = 0
                 /\ ready' = Append(ready, [frame |-> current, slot |-> i])
  /\ nextSlot' = After(nextSlot)
  /\ UNCHANGED <<path, exposed, current, buffer, encoding>>

\* A call fails after k copies have been submitted: they stay in their
\* streams, the slot is given back, and nobody waits for them.
SubmissionFails ==
  /\ CudaFaults /\ path \in LanePaths
  /\ callback = "record"
  /\ \E i \in Slots, k \in 0 .. BeforeWait :
       FreeSlot(i) /\ stream' = Submitted(1, k, i)
  /\ callback' = "preview" /\ nextSlot' = After(nextSlot)
  /\ UNCHANGED <<path, exposed, current, slot, buffer, slotInUse, ready, encoding>>

Pending(f, copies) ==
  \E s \in Streams : \E j \in DOMAIN stream[s] :
    stream[s][j].frame = f /\ stream[s][j].copy \in copies

\* Mutant: the capture thread goes on at once.
ReadSubmitted == TRUE

\* cudaEventSynchronize(capture_read_done), cudaStreamSynchronize: the
\* camera's buffer has been read.
ReadDone == ~Pending(current, {1})

ReadCompleted ==
  /\ callback = "wait" /\ ReadDone
  /\ callback' = "preview"
  /\ LET item == [frame |-> current, slot |-> slot]
     IN  IF path \in LanePaths
           THEN /\ stream' = Submitted(Last, Last, slot)
                /\ ready' = Append(ready, item) /\ UNCHANGED encoding
           ELSE encoding' = encoding \cup {item} /\ UNCHANGED <<stream, ready>>
  /\ slot' = 0
  /\ UNCHANGED <<path, exposed, current, nextSlot, buffer, slotInUse>>

WaitFails ==
  /\ CudaFaults /\ path \in LanePaths
  /\ callback = "wait"
  /\ callback' = "preview"
  /\ slotInUse' = slotInUse \ {slot} /\ slot' = 0
  /\ UNCHANGED <<path, exposed, current, nextSlot, stream, buffer, ready, encoding>>

----------------------------------------------------------------------------
(* The device.                                                             *)
RunCopy(s) ==
  /\ stream[s] # <<>>
  /\ LET op == Head(stream[s])
     IN  /\ ~Pending(op.frame, 1 .. op.copy - 1)
         /\ buffer' = [buffer EXCEPT ![op.copy][op.slot] =
                         IF op.copy = 1 THEN CameraBuffer(op.frame)
                                        ELSE buffer[op.copy - 1][op.slot]]
  /\ stream' = [stream EXCEPT ![s] = Tail(@)]
  /\ UNCHANGED <<path, exposed, callback, current, nextSlot, slot, slotInUse, ready, encoding>>

\* The default stream, of plain cudaMemcpy, waits for the streams created
\* without cudaStreamNonBlocking.
BlockingStreamsIdle == stream["record"] = <<>>

(* The recorder's thread waits for the slot's event and hands the slot to  *)
(* the encoder, which reads it and gives it back when it likes.            *)

\* Mutant: the slot is given back as soon as it has been handed over.
TakeAndRelease ==
  /\ ready # <<>>
  /\ ~Pending(Head(ready).frame, 1 .. Last)
  /\ encoding' = encoding \cup {Head(ready)} /\ ready' = Tail(ready)
  /\ slotInUse' = slotInUse \ {Head(ready).slot}
  /\ UNCHANGED <<path, exposed, callback, current, nextSlot, slot, stream, buffer>>

TakeFrame ==
  /\ ready # <<>>
  /\ ~Pending(Head(ready).frame, 1 .. Last)
  /\ encoding' = encoding \cup {Head(ready)} /\ ready' = Tail(ready)
  /\ UNCHANGED <<path, exposed, callback, current, nextSlot, slot, stream, buffer, slotInUse>>

ReleaseSlot ==
  \E item \in encoding :
    /\ encoding' = encoding \ {item}
    /\ slotInUse' = slotInUse \ {item.slot}
    /\ UNCHANGED <<path, exposed, callback, current, nextSlot, slot, stream, buffer, ready>>

Recorder ==
  \/ SlotBusy \/ SubmitCopies \/ SubmissionFails \/ ReadCompleted \/ WaitFails
  \/ TakeFrame \/ ReleaseSlot

----------------------------------------------------------------------------
(* As long as the encoder may read a slot, the slot holds the picture of   *)
(* the frame it was submitted for: not the picture that has overwritten it *)
(* in the camera's ring, and not that of the slot's previous frame.        *)
OwnPicture == \A item \in encoding : buffer[Last][item.slot] = item.frame
=============================================================================
