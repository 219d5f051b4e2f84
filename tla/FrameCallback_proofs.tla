------------------------ MODULE FrameCallback_proofs ------------------------
(***************************************************************************)
(* Theorems of FrameCallback for every camera ring, pool and number of     *)
(* pictures: the types and the display for every copy path, the pictures   *)
(* in the encoder for every path on which the capture thread waits for the *)
(* camera's buffer to be read (not "encoded", which FrameTorn refutes).    *)
(***************************************************************************)
EXTENDS FrameCallback, FrameSequences, FiniteSetTheorems, TLAPS

Item == [frame : Frames, slot : Slots]
Op   == [frame : Frames, slot : Slots, copy : 1 .. Last]

\* The values of every variable of FrameOwnership.  An operation is in the
\* stream of its copy and is of a frame that has come.
Typed ==
  /\ path \in Paths /\ exposed \in 0 .. MaxFrames /\ current \in 0 .. exposed
  /\ callback \in {"idle", "record", "wait", "preview"}
  /\ slot \in Slots /\ nextSlot \in Slots /\ slotInUse \subseteq Slots
  /\ buffer \in [1 .. Last -> [Slots -> 0 .. MaxFrames]]
  /\ stream \in [Streams -> Seq(Op)]
  /\ \A s \in Streams : \A j \in 1 .. Len(stream[s]) :
       Route[path][stream[s][j].copy] = s /\ stream[s][j].frame <= current
  /\ ready \in Seq(Item) /\ encoding \subseteq Item

\* During the callback the camera has not come round to the frame's buffer.
InCallback ==
  /\ callback # "idle" => current >= 1 /\ exposed - current < Ring
  /\ updatePC # "idle" => callback = "preview"
  /\ closed \in BOOLEAN /\ (closed => callback = "idle")

\* The frame the capture thread waits for.
Waiting == IF callback = "wait" THEN {[frame |-> current, slot |-> slot]} ELSE {}

Handed == Elements(ready) \cup encoding

\* A slot in use is that of one frame.
Owners ==
  /\ Rising(ready) /\ encoding \cap Elements(ready) = {}
  /\ \A x \in Handed :
       x.frame <= current /\ (callback \in {"record", "wait"} => x.frame < current)
  /\ \A x \in Handed \cup Waiting : x.slot \in slotInUse
  /\ \A x, y \in Handed \cup Waiting : x.slot = y.slot => x = y

\* No operation of stream q is on the slot of x; or the last one that is, is
\* that of the frame of x.
NoOp(q, x) == \A j \in 1 .. Len(q) : q[j].slot # x.slot
LastOp(q, x) ==
  \E i \in 1 .. Len(q) :
    /\ q[i].frame = x.frame /\ q[i].slot = x.slot
    /\ \A j \in 1 .. Len(q) : j > i => q[j].slot # x.slot

\* Copy k of the frame of x has been made and will not be overwritten, or it
\* is still to be made and nothing comes behind it.
Made(x, k) == NoOp(stream[Route[path][k]], x) /\ buffer[k][x.slot] = x.frame
Coming(x, k) == LastOp(stream[Route[path][k]], x)

Good(x, k) == Made(x, k) \/ Coming(x, k)

WaitingGood(x) == \A k \in 1 .. BeforeWait : Good(x, k)
HandedGood(x)  == Made(x, 1) /\ \A k \in 1 .. Last : Good(x, k)
EncodedGood(x) == \A k \in 1 .. Last : Made(x, k)

Copies ==
  /\ \A x \in Waiting : WaitingGood(x)
  /\ \A x \in Handed : HandedGood(x)
  /\ \A x \in encoding : EncodedGood(x)

\* The two threads of the previewer exclude each other in its buffer, and a
\* picture in it is no older than the one that was copied out last.
Display ==
  /\ gpuCopyMutex = "update" <=> updatePC = "copying"
  /\ gpuCopyMutex = "loop" <=> previewPC = "copying"
  /\ previewGray8 = Torn <=> updatePC = "copying"
  /\ previewGray8 = Freed => previewPC = "done"
  /\ pinnedBuffer = Freed => previewPC = "done"
  /\ pinnedBuffer # Torn
  /\ previewPC = "copying" => pinnedBuffer = previewGray8
  /\ previewGray8 <= current /\ pinnedBuffer <= current
  /\ previewGray8 >= 0 => pinnedBuffer <= previewGray8
  /\ previewPC # "done" => shown <= pinnedBuffer

CallbackInv == Typed /\ InCallback /\ Owners /\ PreviewTypeOK(Frames) /\ Display
CopiesInv == path # "encoded" => Copies

----------------------------------------------------------------------------
(* The paths of the copies, and the numbers of slots and pictures.         *)

(* Every copy has a stream, and its own one unless the codec encodes.      *)
LEMMA RouteFacts ==
  ASSUME path \in Paths
  PROVE  /\ Last \in 1 .. 3 /\ BeforeWait \in 1 .. Last
         /\ \A k \in 1 .. Last : Route[path][k] \in Streams
         /\ path \in LanePaths => BeforeWait = Last - 1
         /\ path \notin LanePaths => BeforeWait = Last
         /\ path \in LanePaths => path # "encoded"
         /\ path = "encoded" => Last = 2 /\ Route[path][1] = Route[path][2]
         /\ path # "encoded" =>
              \A k, l \in 1 .. Last : Route[path][k] = Route[path][l] => k = l
<1> USE DEF Last, BeforeWait, LanePaths, Streams
<1>1. path \in {"direct", "pinned", "raw", "encoded"}
  BY FrameOwnershipAssumption DEF Route
<1>2. CASE path = "direct"
  <2>1. Route[path] = <<"copy", "convert">>
    BY <1>2 DEF Route
  <2> QED BY <1>2, <2>1
<1>3. CASE path = "pinned"
  <2>1. Route[path] = <<"capture", "copy", "convert">>
    BY <1>3 DEF Route
  <2> QED BY <1>3, <2>1
<1>4. CASE path = "raw"
  <2>1. Route[path] = <<"record">>
    BY <1>4 DEF Route
  <2> QED BY <1>4, <2>1
<1>5. CASE path = "encoded"
  <2>1. Route[path] = <<"record", "record">>
    BY <1>5 DEF Route
  <2> QED BY <1>5, <2>1
<1> QED BY <1>1, <1>2, <1>3, <1>4, <1>5

(* What a buffer of the camera's ring holds is a picture taken since the   *)
(* frame that was delivered in it, and that frame until the camera has     *)
(* come round.                                                             *)
LEMMA CameraRange ==
  ASSUME exposed \in Nat, NEW f \in 0 .. exposed
  PROVE  /\ CameraBuffer(f) \in f .. exposed
         /\ exposed - f < Ring => CameraBuffer(f) = f
         /\ CameraBuffer(f) = f => exposed - f < Ring
<1> DEFINE d == exposed - f
<1>1. \A n \in Nat \ {0} : \A a \in Nat :
        /\ a % n \in 0 .. n - 1
        /\ a % n <= a
        /\ a < n => a % n = a
  OBVIOUS
<1>2. d \in Nat
  OBVIOUS
<1>3. /\ d % Ring \in 0 .. Ring - 1
      /\ d % Ring <= d
      /\ d < Ring => d % Ring = d
  BY <1>1, <1>2, FrameOwnershipAssumption
<1>4. PICK m \in Int : m = d % Ring
  BY <1>3
<1>5. CameraBuffer(f) = exposed - m
  BY <1>4 DEF CameraBuffer
<1> QED BY <1>3, <1>4, <1>5, FrameOwnershipAssumption

(* Behind a slot comes a slot. *)
LEMMA AfterIsSlot == \A i \in Slots : After(i) \in Slots
<1>1. \A n \in Nat \ {0} : \A i \in 0 .. n - 1 : (i + 1) % n \in 0 .. n - 1
  OBVIOUS
<1> QED BY <1>1, FrameOwnershipAssumption DEF After, Slots

----------------------------------------------------------------------------
(* Operations on a slot in a stream.                                       *)

(* Operations on other slots may come behind. *)
LEMMA OpsBehind ==
  ASSUME NEW T, NEW q \in Seq(T), NEW r \in Seq(T), NEW x,
         \A j \in 1 .. Len(r) : r[j].slot # x.slot
  PROVE  /\ NoOp(q, x) => NoOp(q \o r, x)
         /\ LastOp(q, x) => LastOp(q \o r, x)
<1> DEFINE m == Len(q)
           n == Len(r)
           s == q \o r
<1>1. /\ m \in Nat /\ n \in Nat /\ Len(s) = m + n
      /\ \A i \in 1 .. m + n : s[i] = IF i <= m THEN q[i] ELSE r[i - m]
  BY ConcatProperties, LenProperties
<1>2. \A j \in 1 .. n : r[j].slot # x.slot
  OBVIOUS
<1> HIDE DEF m, n, s
<1>3. \A i \in 1 .. m + n : i > m => s[i].slot # x.slot
  <2> TAKE i \in 1 .. m + n
  <2> HAVE i > m
  <2>1. i - m \in 1 .. n /\ s[i] = r[i - m]
    BY <1>1
  <2> QED BY <1>2, <2>1
<1>4. \A i \in 1 .. m : i \in 1 .. m + n /\ s[i] = q[i]
  BY <1>1
<1>5. ASSUME NoOp(q, x)
      PROVE  NoOp(s, x)
  <2>1. \A j \in 1 .. m : q[j].slot # x.slot
    BY <1>5 DEF NoOp, m
  <2>2. \A j \in 1 .. m + n : s[j].slot # x.slot
    <3> TAKE j \in 1 .. m + n
    <3>1. CASE j > m
      BY <1>3, <3>1
    <3>2. CASE ~(j > m)
      <4>1. j \in 1 .. m
        BY <1>1, <3>2
      <4> QED BY <1>4, <2>1, <4>1
    <3> QED BY <3>1, <3>2
  <2> QED BY <1>1, <2>2 DEF NoOp
<1>6. ASSUME LastOp(q, x)
      PROVE  LastOp(s, x)
  <2>1. PICK i \in 1 .. m : /\ q[i].frame = x.frame /\ q[i].slot = x.slot
                             /\ \A j \in 1 .. m : j > i => q[j].slot # x.slot
    BY <1>6 DEF LastOp, m
  <2>2. i \in 1 .. m + n /\ s[i].frame = x.frame /\ s[i].slot = x.slot
    BY <1>4, <2>1
  <2>3. \A j \in 1 .. m + n : j > i => s[j].slot # x.slot
    <3> TAKE j \in 1 .. m + n
    <3> HAVE j > i
    <3>1. CASE j > m
      BY <1>3, <3>1
    <3>2. CASE ~(j > m)
      <4>1. j \in 1 .. m
        BY <1>1, <3>2
      <4> QED BY <1>4, <2>1, <4>1
    <3> QED BY <3>1, <3>2
  <2> QED BY <1>1, <2>2, <2>3 DEF LastOp
<1> QED BY <1>5, <1>6 DEF s

(* One's own operation, behind the others, is the last. *)
LEMMA OwnOpBehind ==
  ASSUME NEW T, NEW q \in Seq(T), NEW r \in Seq(T), NEW x,
         Len(r) = 1, r[1].frame = x.frame, r[1].slot = x.slot
  PROVE  LastOp(q \o r, x)
<1> DEFINE m == Len(q)
           s == q \o r
<1>1. /\ m \in Nat /\ Len(s) = m + 1
      /\ \A i \in 1 .. m + 1 : s[i] = IF i <= m THEN q[i] ELSE r[i - m]
  <2> DEFINE n == Len(r)
  <2>1. /\ m \in Nat /\ Len(s) = m + n
        /\ \A i \in 1 .. m + n : s[i] = IF i <= m THEN q[i] ELSE r[i - m]
    BY ConcatProperties, LenProperties
  <2>2. n = 1
    OBVIOUS
  <2> HIDE DEF m, n, s
  <2> QED BY <2>1, <2>2
<1> HIDE DEF m, s
<1>2. m + 1 \in 1 .. m + 1 /\ s[m + 1] = r[1]
  <2>1. m + 1 \in 1 .. m + 1 /\ ~(m + 1 <= m) /\ (m + 1) - m = 1
    BY <1>1
  <2> QED BY <1>1, <2>1
<1>3. \A j \in 1 .. m + 1 : ~(j > m + 1)
  BY <1>1
<1> QED BY <1>1, <1>2, <1>3 DEF LastOp, s

(* When the first operation is done, the last one is still to come or it   *)
(* was the first.                                                          *)
LEMMA FirstOpDone ==
  ASSUME NEW T, NEW q \in Seq(T), q # <<>>, NEW x
  PROVE  /\ NoOp(q, x) => NoOp(Tail(q), x) /\ Head(q).slot # x.slot
         /\ LastOp(q, x) =>
              \/ LastOp(Tail(q), x)
              \/ NoOp(Tail(q), x) /\ Head(q).frame = x.frame /\ Head(q).slot = x.slot
<1> DEFINE n == Len(q)
           r == Tail(q)
<1>1. /\ n \in Nat /\ n >= 1 /\ Len(r) = n - 1 /\ Head(q) = q[1]
      /\ \A i \in 1 .. n - 1 : r[i] = q[i + 1]
  BY HeadTaken
<1> HIDE DEF n, r
<1>2. \A i \in 1 .. n - 1 : i + 1 \in 1 .. n
  BY <1>1
<1>3. ASSUME NoOp(q, x)
      PROVE  NoOp(r, x) /\ Head(q).slot # x.slot
  <2>1. \A j \in 1 .. n : q[j].slot # x.slot
    BY <1>3 DEF NoOp, n
  <2>2. \A j \in 1 .. n - 1 : r[j].slot # x.slot
    BY <1>1, <1>2, <2>1
  <2>3. 1 \in 1 .. n
    BY <1>1
  <2> QED BY <1>1, <2>1, <2>2, <2>3 DEF NoOp
<1>4. ASSUME LastOp(q, x)
      PROVE  \/ LastOp(r, x)
             \/ NoOp(r, x) /\ Head(q).frame = x.frame /\ Head(q).slot = x.slot
  <2>1. PICK i \in 1 .. n : /\ q[i].frame = x.frame /\ q[i].slot = x.slot
                             /\ \A j \in 1 .. n : j > i => q[j].slot # x.slot
    BY <1>4 DEF LastOp, n
  <2>2. CASE i = 1
    <3>1. \A j \in 1 .. n - 1 : r[j].slot # x.slot
      <4> TAKE j \in 1 .. n - 1
      <4>1. j + 1 \in 1 .. n /\ j + 1 > i
        BY <1>1, <2>2
      <4> QED BY <1>1, <2>1, <4>1
    <3> QED BY <1>1, <2>1, <2>2, <3>1 DEF NoOp
  <2>3. CASE i # 1
    <3>1. /\ i - 1 \in 1 .. n - 1 /\ (i - 1) + 1 = i
      BY <1>1, <2>3
    <3>2. r[i - 1] = q[i]
      BY <1>1, <3>1
    <3>3. \A j \in 1 .. n - 1 : j > i - 1 => r[j].slot # x.slot
      <4> TAKE j \in 1 .. n - 1
      <4> HAVE j > i - 1
      <4>1. j + 1 \in 1 .. n /\ j + 1 > i
        BY <1>1
      <4> QED BY <1>1, <2>1, <4>1
    <3> QED BY <1>1, <2>1, <3>1, <3>2, <3>3 DEF LastOp
  <2> QED BY <2>2, <2>3
<1> QED BY <1>3, <1>4 DEF r


----------------------------------------------------------------------------
(* What a call of PushFrame appends to the streams.                        *)

\* The copies from..to that one step of the capture thread submits.
Scope(from, to) ==
  \/ from = 1 /\ to = BeforeWait
  \/ path \in LanePaths /\ from = 1 /\ to \in 0 .. BeforeWait
  \/ path \in LanePaths /\ from = Last /\ to = Last

(* The copies of one stream, numbered in their order. *)
LEMMA CopiesNumbered ==
  ASSUME path \in Paths, NEW from, NEW to, Scope(from, to), NEW str \in Streams,
         NEW S, S = {k \in from .. to : Route[path][k] = str}
  PROVE  /\ Cardinality(S) \in Nat
         /\ \A j \in 1 .. Cardinality(S) : \E k \in from .. to :
              /\ Route[path][k] = str
              /\ Cardinality({l \in from .. k : Route[path][l] = str}) = j
         /\ path # "encoded" =>
              \A k \in from .. to : Route[path][k] = str => Cardinality(S) = 1
<1> DEFINE Rank(k) == Cardinality({l \in from .. k : Route[path][l] = str})
<1>1. from \in 1 .. 3 /\ to \in 0 .. 3 /\ from .. to \subseteq 1 .. Last
  BY RouteFacts DEF Scope
<1>2. CASE path # "encoded"
  <2>1. CASE S = {}
    <3>1. \A k \in from .. to : Route[path][k] # str
      BY <2>1
    <3>2. Cardinality(S) = 0
      BY <2>1, FS_EmptySet
    <3> HIDE DEF Rank
    <3>3. \A j \in 1 .. Cardinality(S) : \E k \in from .. to : Route[path][k] = str /\ Rank(k) = j
      BY <3>2
    <3> QED BY <3>1, <3>2, <3>3 DEF Rank
  <2>2. ASSUME NEW k \in S
        PROVE  /\ Cardinality(S) = 1
               /\ k \in from .. to /\ Route[path][k] = str
               /\ Cardinality({l \in from .. k : Route[path][l] = str}) = 1
    <3>1. \A l \in S : l = k
      BY <1>1, <1>2, RouteFacts
    <3>2. S = {k}
      BY <2>2, <3>1
    <3>3. {l \in from .. k : Route[path][l] = str} = {k}
      BY <1>1, <3>2
    <3> QED BY <3>2, <3>3, FS_Singleton
  <2>3. CASE S # {}
    <3>1. PICK k \in S : TRUE
      BY <2>3
    <3>2. /\ Cardinality(S) = 1
          /\ k \in from .. to /\ Route[path][k] = str
          /\ Cardinality({l \in from .. k : Route[path][l] = str}) = 1
      BY <2>2
    <3>3. Rank(k) = 1
      BY <3>2
    <3> HIDE DEF Rank
    <3>4. \A j \in 1 .. Cardinality(S) : \E l \in from .. to : Route[path][l] = str /\ Rank(l) = j
      BY <3>2, <3>3
    <3> QED BY <3>2, <3>4 DEF Rank
  <2> QED BY <2>1, <2>3
<1>3. CASE path = "encoded"
  <2>1. from = 1 /\ to = 2 /\ Route[path][1] = "record" /\ Route[path][2] = "record"
    BY <1>3, RouteFacts DEF Scope, Route
  <2>2. CASE str = "record"
    <3>1. /\ {l \in from .. 1 : Route[path][l] = str} = 1 .. 1
          /\ {l \in from .. 2 : Route[path][l] = str} = 1 .. 2
          /\ S = 1 .. 2
      BY <2>1, <2>2
    <3>2. Cardinality(1 .. 1) = 1 /\ Cardinality(1 .. 2) = 2
      <4>1. ASSUME NEW b \in Int, b >= 1
            PROVE  Cardinality(1 .. b) = b
        <5>1. Cardinality(1 .. b) = IF 1 > b THEN 0 ELSE (b - 1) + 1
          BY FS_Interval
        <5> QED BY <4>1, <5>1
      <4>2. 1 \in Int /\ 2 \in Int /\ 1 >= 1 /\ 2 >= 1
        OBVIOUS
      <4> QED BY <4>1, <4>2, Zenon
    <3> QED BY <1>3, <2>1, <2>2, <3>1, <3>2
  <2>3. CASE str # "record"
    <3>1. S = {}
      BY <2>1, <2>3
    <3> QED BY <1>3, <3>1, FS_EmptySet
  <2> QED BY <2>2, <2>3
<1> QED BY <1>2, <1>3

\* q: those of the copies from..to, for slot i, whose stream is str.
NewOps(q, from, to, i, str) ==
  /\ \A j \in 1 .. Len(q) :
       /\ q[j].frame = current /\ q[j].slot = i
       /\ q[j].copy \in from .. to /\ Route[path][q[j].copy] = str
  /\ path # "encoded" => \A k \in from .. to : Route[path][k] = str => Len(q) = 1

(* Each stream gets the copies that are its own, and each copy its stream. *)
LEMMA SubmittedOps ==
  ASSUME path \in Paths, current \in Frames, NEW i \in Slots,
         NEW from, NEW to, Scope(from, to), NEW str \in Streams
  PROVE  \E q \in Seq(Op) :
           Submitted(from, to, i)[str] = stream[str] \o q /\ NewOps(q, from, to, i, str)
<1> DEFINE S == {k \in from .. to : Route[path][k] = str}
           n == Cardinality(S)
           Nth(j) == CHOOSE k \in from .. to :
                       /\ Route[path][k] = str
                       /\ Cardinality({l \in from .. k : Route[path][l] = str}) = j
           q == [j \in 1 .. n |-> [frame |-> current, slot |-> i, copy |-> Nth(j)]]
<1>1. n \in Nat
  BY CopiesNumbered
<1>2. \A j \in 1 .. n : Nth(j) \in from .. to /\ Route[path][Nth(j)] = str
  <2>1. \A j \in 1 .. n : \E k \in from .. to :
          /\ Route[path][k] = str
          /\ Cardinality({l \in from .. k : Route[path][l] = str}) = j
    BY CopiesNumbered
  <2> QED BY <2>1
<1>3. path # "encoded" => \A k \in from .. to : Route[path][k] = str => n = 1
  BY CopiesNumbered
<1>4. from .. to \subseteq 1 .. Last
  BY RouteFacts DEF Scope
<1>5. Submitted(from, to, i)[str] = stream[str] \o q
  BY DEF Submitted
<1> HIDE DEF S, n, Nth
<1>6. /\ q \in Seq(Op) /\ Len(q) = n
      /\ \A j \in 1 .. n : q[j] = [frame |-> current, slot |-> i, copy |-> Nth(j)]
  BY <1>1, <1>2, <1>4 DEF Op
<1> HIDE DEF q
<1>7. NewOps(q, from, to, i, str)
  BY <1>2, <1>3, <1>6 DEF NewOps
<1> QED BY <1>5, <1>6, <1>7

----------------------------------------------------------------------------
(* The types.                                                              *)

(* Steps that leave the recorder, the device and the camera alone. *)
Quiet ==
  /\ UNCHANGED <<path, exposed, current, nextSlot, slot, stream, buffer, slotInUse, ready,
                 encoding>>
  /\ \/ callback' = callback
     \/ callback = "preview" /\ callback' = "idle"

FrameStep ==
  Quiet \/ GetImage \/ Expose \/ Recorder \/ \E s \in Streams : RunCopy(s)

(* Every step is one of these for the frames. *)
LEMMA EveryFrameStep ==
  ASSUME [Next]_vars
  PROVE  FrameStep
<1>1. CASE Callback
  BY <1>1 DEF Callback, FrameStep
<1>2. CASE CameraAndRecorder
  BY <1>2 DEF CameraAndRecorder, FrameStep
<1>3. CASE Device
  BY <1>3 DEF Device, FrameStep
<1>4. CASE UpdateFrame
  <2>1. CASE UpdateSkipped \/ UpdateReturns
    <3>1. Quiet
      BY <2>1 DEF UpdateSkipped, UpdateReturns, CallbackReturns, Quiet
    <3> QED BY <3>1 DEF FrameStep
  <2>2. CASE UNCHANGED <<ownershipVars, closed>>
    <3>1. Quiet
      BY <2>2 DEF ownershipVars, Quiet
    <3> QED BY <3>1 DEF FrameStep
  <2> QED BY <1>4, <2>1, <2>2 DEF UpdateFrame
<1>5. CASE PreviewLoop \/ CloseCamera \/ StopPreviewer
           \/ DisplayChanges \/ UNCHANGED vars
  <2>1. UNCHANGED ownershipVars
    BY <1>5 DEF PreviewLoop, CloseCamera, StopPreviewer, DisplayChanges, vars
  <2>2. Quiet
    BY <2>1 DEF ownershipVars, Quiet
  <2> QED BY <2>2 DEF FrameStep
<1> QED BY <1>1, <1>2, <1>3, <1>4, <1>5 DEF Next

\* Every operation of a stream is the copy of that stream, of a frame that has
\* come.
OpsInPlace(q, str) ==
  \A j \in 1 .. Len(q) : Route[path][q[j].copy] = str /\ q[j].frame <= current

(* Streams with more copies of the current frame keep their type. *)
LEMMA SubmittedTyped ==
  ASSUME Typed, current \in Frames, NEW i \in Slots, NEW from, NEW to, Scope(from, to)
  PROVE  /\ Submitted(from, to, i) \in [Streams -> Seq(Op)]
         /\ \A str \in Streams : OpsInPlace(Submitted(from, to, i)[str], str)
<1>1. ASSUME NEW str \in Streams
      PROVE  /\ Submitted(from, to, i)[str] \in Seq(Op)
             /\ OpsInPlace(Submitted(from, to, i)[str], str)
  <2>1. PICK q \in Seq(Op) :
          Submitted(from, to, i)[str] = stream[str] \o q /\ NewOps(q, from, to, i, str)
    <3>1. path \in Paths
      BY DEF Typed
    <3> QED BY <1>1, <3>1, SubmittedOps
  <2> DEFINE p == stream[str]
             r == p \o q
             m == Len(p)
             n == Len(q)
  <2>2. p \in Seq(Op) /\ \A j \in 1 .. m : Route[path][p[j].copy] = str /\ p[j].frame <= current
    BY DEF Typed
  <2>3. /\ r \in Seq(Op) /\ m \in Nat /\ n \in Nat /\ Len(r) = m + n
        /\ \A j \in 1 .. m + n : r[j] = IF j <= m THEN p[j] ELSE q[j - m]
    BY <2>2, ConcatProperties, LenProperties
  <2>4. \A j \in 1 .. n : Route[path][q[j].copy] = str /\ q[j].frame <= current
    BY <2>1 DEF Frames, NewOps
  <2>5. r \in Seq(Op) /\ Submitted(from, to, i)[str] = r
    BY <2>1, <2>3
  <2> HIDE DEF p, r, m, n
  <2>6. \A j \in 1 .. m + n : Route[path][r[j].copy] = str /\ r[j].frame <= current
    <3> TAKE j \in 1 .. m + n
    <3>1. CASE j <= m
      <4>1. j \in 1 .. m /\ r[j] = p[j]
        BY <2>3, <3>1
      <4> QED BY <2>2, <4>1
    <3>2. CASE ~(j <= m)
      <4>1. j - m \in 1 .. n /\ r[j] = q[j - m]
        BY <2>3, <3>2
      <4> QED BY <2>4, <4>1
    <3> QED BY <3>1, <3>2
  <2> QED BY <2>3, <2>5, <2>6 DEF OpsInPlace
<1>2. DOMAIN Submitted(from, to, i) = Streams
  BY DEF Submitted
<1>3. Submitted(from, to, i) = [str \in Streams |-> Submitted(from, to, i)[str]]
  BY DEF Submitted
<1> QED BY <1>1, <1>3

(* The steps of the capture thread that submit copies. *)
LEMMA SubmissionTyped ==
  ASSUME Typed, InCallback, SubmitCopies \/ SubmissionFails \/ ReadCompleted
  PROVE  Typed'
<1>1. /\ Op' = Op /\ Last' = Last
      /\ UNCHANGED <<path, exposed, current, buffer>>
      /\ current \in Frames
  <2>1. UNCHANGED <<path, exposed, current, buffer>> /\ callback # "idle"
    BY DEF SubmitCopies, SubmissionFails, ReadCompleted
  <2>2. Op' = Op /\ Last' = Last
    BY <2>1 DEF Op, Last
  <2>3. current \in Frames
    BY <2>1, FrameOwnershipAssumption DEF Typed, InCallback, Frames
  <2> QED BY <2>1, <2>2, <2>3
<1>2. PICK i \in Slots, from \in 0 .. 3, to \in 0 .. 3 :
        /\ Scope(from, to)
        /\ stream' = Submitted(from, to, i) \/ stream' = stream
        /\ ReadCompleted => i = slot
        /\ ~ReadCompleted => i \in Slots \ slotInUse
  <2>0. Last \in 0 .. 3 /\ BeforeWait \in 0 .. 3 /\ 0 .. BeforeWait \subseteq 0 .. 3
    <3>1. Last \in 1 .. 3 /\ BeforeWait \in 1 .. Last
      BY RouteFacts DEF Typed
    <3> QED BY <3>1
  <2>1. CASE SubmitCopies
    BY <2>0, <2>1 DEF SubmitCopies, FreeSlot, Scope, ReadCompleted
  <2>2. CASE SubmissionFails
    BY <2>0, <2>2 DEF SubmissionFails, FreeSlot, Scope, ReadCompleted
  <2>3. CASE ReadCompleted
    <3>1. slot \in Slots /\ Scope(1, BeforeWait) /\ (path \in LanePaths => Scope(Last, Last))
      BY DEF Typed, Scope
    <3> QED BY <2>0, <2>3, <3>1 DEF ReadCompleted
  <2> QED BY <2>1, <2>2, <2>3
<1>3. /\ stream' \in [Streams -> Seq(Op)]
      /\ \A s \in Streams : \A j \in 1 .. Len(stream'[s]) :
           Route[path][stream'[s][j].copy] = s /\ stream'[s][j].frame <= current
  <2>1. CASE stream' = Submitted(from, to, i)
    BY <1>1, <1>2, <2>1, SubmittedTyped DEF OpsInPlace
  <2>2. CASE stream' = stream
    BY <2>2 DEF Typed
  <2> QED BY <1>2, <2>1, <2>2
<1>4. /\ callback' \in {"idle", "record", "wait", "preview"}
      /\ slot' \in Slots /\ nextSlot' \in Slots /\ slotInUse' \subseteq Slots
  <2>1. 0 \in Slots
    BY FrameOwnershipAssumption DEF Slots
  <2> QED BY <2>1, AfterIsSlot
          DEF SubmitCopies, SubmissionFails, ReadCompleted, FreeSlot, Typed
<1>5. ready' \in Seq(Item) /\ encoding' \subseteq Item
  <2>1. \A j \in Slots : [frame |-> current, slot |-> j] \in Item
    BY <1>1 DEF Item
  <2>2. \A x \in Item : Append(ready, x) \in Seq(Item)
    BY Appended DEF Typed
  <2>3. ready \in Seq(Item) /\ encoding \subseteq Item /\ slot \in Slots
    BY DEF Typed
  <2>4. CASE SubmitCopies
    BY <2>1, <2>2, <2>3, <2>4 DEF SubmitCopies
  <2>5. CASE SubmissionFails
    BY <2>3, <2>5 DEF SubmissionFails
  <2>6. CASE ReadCompleted
    BY <2>1, <2>2, <2>3, <2>6 DEF ReadCompleted
  <2> QED BY <2>4, <2>5, <2>6
<1> QED BY <1>1, <1>3, <1>4, <1>5 DEF Typed

(* Making a copy keeps the types. *)
LEMMA RunCopyTyped ==
  ASSUME Typed, NEW s \in Streams, RunCopy(s)
  PROVE  Typed'
<1> DEFINE q == stream[s]
           op == Head(q)
<1>1. /\ UNCHANGED <<path, exposed, callback, current, nextSlot, slot, slotInUse, ready,
                     encoding>>
      /\ Op' = Op /\ Last' = Last
      /\ stream' = [stream EXCEPT ![s] = Tail(@)] /\ q # <<>>
  BY DEF RunCopy, Op, Last
<1>2. /\ q \in Seq(Op) /\ q # <<>>
      /\ \A j \in 1 .. Len(q) : Route[path][q[j].copy] = s /\ q[j].frame <= current
  BY <1>1 DEF Typed
<1>3. /\ op \in Op /\ op = q[1] /\ Tail(q) \in Seq(Op)
      /\ Len(q) \in Nat /\ Len(q) >= 1 /\ Len(Tail(q)) = Len(q) - 1
      /\ \A j \in 1 .. Len(q) - 1 : Tail(q)[j] = q[j + 1]
  BY <1>2, HeadTaken
<1>4. op.frame \in 0 .. exposed /\ op.copy \in 1 .. Last /\ op.slot \in Slots
  BY <1>2, <1>3 DEF Op, Typed, Frames
<1>5. buffer' \in [1 .. Last -> [Slots -> 0 .. MaxFrames]]
  <2>1. CameraBuffer(op.frame) \in 0 .. MaxFrames
    <3>1. exposed \in Nat /\ exposed <= MaxFrames
      BY FrameOwnershipAssumption DEF Typed
    <3>2. CameraBuffer(op.frame) \in op.frame .. exposed
      BY <1>4, <3>1, CameraRange
    <3> QED BY <1>4, <3>1, <3>2, FrameOwnershipAssumption
  <2>2. op.copy # 1 => buffer[op.copy - 1][op.slot] \in 0 .. MaxFrames
    <3>1. op.copy # 1 => op.copy - 1 \in 1 .. Last
      <4>1. Last \in Nat
        BY RouteFacts DEF Typed
      <4> QED BY <1>4, <4>1
    <3> QED BY <1>4, <3>1 DEF Typed
  <2>3. PICK c \in 0 .. MaxFrames : buffer' = [buffer EXCEPT ![op.copy][op.slot] = c]
    BY <2>1, <2>2 DEF RunCopy
  <2>4. buffer \in [1 .. Last -> [Slots -> 0 .. MaxFrames]]
    BY DEF Typed
  <2> HIDE DEF op
  <2> QED BY <1>4, <2>3, <2>4
<1>6. /\ stream' \in [Streams -> Seq(Op)]
      /\ \A t \in Streams : \A j \in 1 .. Len(stream'[t]) :
           Route[path][stream'[t][j].copy] = t /\ stream'[t][j].frame <= current
  <2>1. stream \in [Streams -> Seq(Op)]
    BY DEF Typed
  <2>2. \A j \in 1 .. Len(Tail(q)) :
          Route[path][Tail(q)[j].copy] = s /\ Tail(q)[j].frame <= current
    <3> TAKE j \in 1 .. Len(Tail(q))
    <3>1. j + 1 \in 1 .. Len(q) /\ Tail(q)[j] = q[j + 1]
      BY <1>3
    <3> QED BY <1>2, <3>1
  <2>3. /\ stream'[s] = Tail(q)
        /\ \A t \in Streams \ {s} : stream'[t] = stream[t]
        /\ stream' \in [Streams -> Seq(Op)]
    BY <1>1, <1>3, <2>1
  <2>4. \A t \in Streams \ {s} : \A j \in 1 .. Len(stream[t]) :
          Route[path][stream[t][j].copy] = t /\ stream[t][j].frame <= current
    BY DEF Typed
  <2> HIDE DEF q
  <2> QED BY <2>2, <2>3, <2>4
<1> QED BY <1>1, <1>5, <1>6 DEF Typed

(* The frames keep their types. *)
LEMMA TypedStep ==
  ASSUME Typed, InCallback, FrameStep
  PROVE  Typed'
<1>1. CASE Quiet
  BY <1>1 DEF Quiet, Typed, Op, Last
<1>2. CASE GetImage
  <2>1. /\ UNCHANGED <<path, exposed, nextSlot, slot, stream, buffer, slotInUse, ready, encoding>>
        /\ Op' = Op /\ Last' = Last
        /\ callback' \in {"record", "preview"} /\ current' \in Frames
        /\ current < current' /\ current' <= exposed
    BY <1>2 DEF GetImage, Op, Last
  <2>2. \A s \in Streams : \A j \in 1 .. Len(stream[s]) :
          Route[path][stream[s][j].copy] = s /\ stream[s][j].frame <= current'
    <3> TAKE s \in Streams
    <3> TAKE j \in 1 .. Len(stream[s])
    <3>1. /\ Route[path][stream[s][j].copy] = s /\ stream[s][j].frame <= current
          /\ stream[s][j].frame \in Nat /\ current \in Nat
      <4>1. stream[s] \in Seq(Op)
        BY DEF Typed
      <4>2. stream[s][j] \in Op
        BY <4>1
      <4>3. stream[s][j].frame \in Nat
        BY <4>2 DEF Op, Frames
      <4>4. Route[path][stream[s][j].copy] = s /\ stream[s][j].frame <= current
        BY DEF Typed
      <4>5. current \in Nat
        BY FrameOwnershipAssumption DEF Typed
      <4> QED BY <4>3, <4>4, <4>5
    <3> QED BY <2>1, <3>1 DEF Frames
  <2> QED BY <2>1, <2>2 DEF Typed, Frames
<1>3. CASE Expose
  <2>1. /\ UNCHANGED <<path, callback, current, nextSlot, slot, stream, buffer, slotInUse,
                       ready, encoding>>
        /\ Op' = Op /\ Last' = Last
        /\ exposed < MaxFrames /\ exposed' = exposed + 1
    BY <1>3 DEF Expose, Op, Last
  <2>2. exposed' \in 0 .. MaxFrames /\ current' \in 0 .. exposed'
    BY <2>1, FrameOwnershipAssumption DEF Typed
  <2> QED BY <2>1, <2>2 DEF Typed
<1>4. CASE SlotBusy
  BY <1>4, AfterIsSlot DEF SlotBusy, Typed, Op, Last
<1>5. CASE SubmitCopies \/ SubmissionFails \/ ReadCompleted
  BY <1>5, SubmissionTyped
<1>6. CASE WaitFails
  <2>1. 0 \in Slots
    BY FrameOwnershipAssumption DEF Slots
  <2> QED BY <1>6, <2>1 DEF WaitFails, Typed, Op, Last
<1>7. CASE TakeFrame
  <2>1. Head(ready) \in Item /\ Tail(ready) \in Seq(Item)
    BY <1>7, HeadTaken DEF TakeFrame, Typed
  <2>2. /\ encoding' = encoding \cup {Head(ready)} /\ ready' = Tail(ready)
        /\ UNCHANGED <<path, exposed, callback, current, nextSlot, slot, stream, buffer, slotInUse>>
    BY <1>7 DEF TakeFrame
  <2>3. Op' = Op /\ Last' = Last
    BY <2>2 DEF Op, Last
  <2>4. ready' \in Seq(Item) /\ encoding' \subseteq Item
    BY <2>1, <2>2 DEF Typed
  <2> QED BY <2>2, <2>3, <2>4 DEF Typed
<1>8. CASE ReleaseSlot
  <2>1. /\ encoding' \subseteq encoding /\ slotInUse' \subseteq slotInUse
        /\ UNCHANGED <<path, exposed, callback, current, nextSlot, slot, stream, buffer, ready>>
    BY <1>8 DEF ReleaseSlot
  <2>2. Op' = Op /\ Last' = Last
    BY <2>1 DEF Op, Last
  <2>3. encoding' \subseteq Item /\ slotInUse' \subseteq Slots
    BY <2>1 DEF Typed
  <2> QED BY <2>1, <2>2, <2>3 DEF Typed
<1>9. CASE \E s \in Streams : RunCopy(s)
  BY <1>9, RunCopyTyped
<1> QED BY <1>1, <1>2, <1>3, <1>4, <1>5, <1>6, <1>7, <1>8, <1>9 DEF FrameStep, Recorder

----------------------------------------------------------------------------
(* The callback and the previewer.                                         *)

(* What the recorder's steps do to the callback. *)
LEMMA RecorderInCallback ==
  ASSUME Recorder
  PROVE  /\ UNCHANGED <<exposed, current>>
         /\ \/ callback' = callback
            \/ callback \in {"record", "wait"} /\ callback' \in {"wait", "preview"}
<1>1. CASE SlotBusy \/ SubmissionFails \/ ReadCompleted \/ WaitFails
  BY <1>1 DEF SlotBusy, SubmissionFails, ReadCompleted, WaitFails
<1>2. CASE SubmitCopies
  BY <1>2 DEF SubmitCopies
<1>3. CASE TakeFrame \/ ReleaseSlot
  BY <1>3 DEF TakeFrame, ReleaseSlot
<1> QED BY <1>1, <1>2, <1>3 DEF Recorder

(* The previewer copies during the callback only, and the camera does not  *)
(* come round to the buffer in it.                                         *)
LEMMA InCallbackStep ==
  ASSUME Typed, InCallback, [Next]_vars
  PROVE  InCallback'
<1>0. exposed \in Nat /\ current \in 0 .. exposed /\ Ring \in Nat \ {0} /\ MaxFrames \in Nat
  BY FrameOwnershipAssumption DEF Typed
<1>1. CASE Callback
  <2>1. /\ callback = "idle" /\ ~closed
        /\ current' \in Frames /\ current' <= exposed /\ CameraBuffer(current') = current'
        /\ callback' \in {"record", "preview"} /\ exposed' = exposed
        /\ UNCHANGED <<updatePC, closed>>
    BY <1>1 DEF Callback, GetImage, previewVars
  <2>2. PICK f \in Nat : f = current'
    BY <2>1 DEF Frames
  <2>3. f \in 0 .. exposed /\ f >= 1
    BY <1>0, <2>1, <2>2 DEF Frames
  <2>4. exposed - f < Ring
    BY <1>0, <2>1, <2>2, <2>3, CameraRange
  <2> QED BY <2>1, <2>2, <2>3, <2>4 DEF InCallback
<1>2. CASE CameraAndRecorder
  <2>1. UNCHANGED <<updatePC, closed>>
    BY <1>2 DEF CameraAndRecorder, previewVars
  <2>2. CASE Expose
    <3>1. /\ exposed' = exposed + 1 /\ UNCHANGED <<callback, current>>
          /\ callback # "idle" => exposed < current + Ring - 1
      BY <2>2 DEF Expose
    <3>2. callback # "idle" => (exposed + 1) - current < Ring
      BY <1>0, <3>1
    <3> QED BY <2>1, <3>1, <3>2 DEF InCallback
  <2>3. CASE Recorder
    BY <2>1, <2>3, RecorderInCallback DEF InCallback
  <2> QED BY <1>2, <2>2, <2>3 DEF CameraAndRecorder
<1>3. CASE Device
  BY <1>3 DEF Device, RunCopy, previewVars, InCallback
<1>4. CASE UpdateFrame
  <2>1. CASE UpdateSkipped \/ UpdateReturns
    BY <2>1 DEF UpdateSkipped, UpdateReturns, NotDue, Publish, previewVars, CallbackReturns,
                InCallback
  <2>2. CASE UpdateDecides /\ UNCHANGED <<ownershipVars, closed>>
    BY <2>2 DEF UpdateDecides, CopyDue, ownershipVars, InCallback
  <2>3. CASE (BeginCopyIn \/ UpdateFinishes) /\ UNCHANGED <<ownershipVars, closed>>
    BY <2>3 DEF BeginCopyIn, UpdateFinishes, EndCopyIn, ownershipVars, InCallback
  <2> QED BY <1>4, <2>1, <2>2, <2>3 DEF UpdateFrame
<1>5. CASE PreviewLoop \/ StopPreviewer \/ DisplayChanges
           \/ UNCHANGED vars
  <2>1. UNCHANGED <<updatePC, closed, ownershipVars>>
    BY <1>5 DEF PreviewLoop, CheckFrame, BeginCopyOut, EndCopyOut, PushBuffer, PreviewExit,
                StopPreviewer, ClearKeepRunning, JoinAndFree, DisplayChanges, SinkFails,
                SinkRecovers, vars, previewVars
  <2> QED BY <2>1 DEF ownershipVars, InCallback
<1>6. CASE CloseCamera
  BY <1>6 DEF CloseCamera, ownershipVars, previewVars, InCallback
<1> QED BY <1>1, <1>2, <1>3, <1>4, <1>5, <1>6 DEF Next

\* The steps of the previewer.
PreviewStep ==
  \/ CopyDue \/ BeginCopyIn \/ EndCopyIn(current) \/ Publish
  \/ CheckFrame \/ BeginCopyOut \/ EndCopyOut \/ PushBuffer \/ PreviewExit
  \/ SinkFails \/ SinkRecovers \/ ClearKeepRunning \/ (JoinAndFree /\ updatePC = "idle")
  \/ UNCHANGED previewVars

(* Every step is one of these for the previewer: the picture it copies is  *)
(* that of the frame in the callback, and its buffers are freed when the   *)
(* capture thread has left it.                                             *)
LEMMA EveryPreviewStep ==
  ASSUME Typed, InCallback, [Next]_vars
  PROVE  PreviewStep /\ current' \in 0 .. MaxFrames /\ current' >= current
<1>0. current \in 0 .. MaxFrames /\ exposed \in Nat /\ current \in 0 .. exposed
  BY FrameOwnershipAssumption DEF Typed
<1>1. CASE Callback
  BY <1>0, <1>1, FrameOwnershipAssumption DEF Callback, GetImage, Frames, PreviewStep
<1>2. CASE CameraAndRecorder \/ Device
  <2>1. UNCHANGED <<current, previewVars>>
    BY <1>2, RecorderInCallback DEF CameraAndRecorder, Device, Expose, RunCopy
  <2> QED BY <1>0, <2>1 DEF PreviewStep
<1>3. CASE UpdateFrame
  <2>1. current' = current
    BY <1>3 DEF UpdateFrame, UpdateSkipped, UpdateReturns, CallbackReturns, ownershipVars
  <2>2. UpdateFinishes => EndCopyIn(current)
    <3>1. ASSUME updatePC = "copying"
          PROVE  CameraBuffer(current) = current
      BY <1>0, <3>1, CameraRange DEF InCallback
    <3> QED BY <3>1 DEF UpdateFinishes, EndCopyIn
  <2> QED BY <1>0, <1>3, <2>1, <2>2
          DEF UpdateFrame, UpdateSkipped, UpdateReturns, UpdateDecides, NotDue, PreviewStep
<1>4. CASE PreviewLoop \/ CloseCamera \/ DisplayChanges
           \/ UNCHANGED vars
  <2>1. current' = current
    BY <1>4 DEF PreviewLoop, CloseCamera, DisplayChanges, vars, ownershipVars
  <2> QED BY <1>0, <1>4, <2>1 DEF PreviewLoop, CloseCamera, DisplayChanges, vars, PreviewStep
<1>5. CASE StopPreviewer
  <2>1. current' = current /\ updatePC = "idle"
    BY <1>5 DEF StopPreviewer, ownershipVars, InCallback
  <2> QED BY <1>0, <1>5, <2>1 DEF StopPreviewer, PreviewStep
<1> QED BY <1>1, <1>2, <1>3, <1>4, <1>5 DEF Next

(* The previewer keeps its types, and its pictures their order. *)
LEMMA DisplayStep ==
  ASSUME PreviewTypeOK(Frames), Display, PreviewStep, MaxFrames \in Nat,
         current \in 0 .. MaxFrames, current' \in 0 .. MaxFrames, current' >= current
  PROVE  /\ PreviewTypeOK(Frames)' /\ Display'
         /\ shown' >= shown
<1> USE DEF PreviewTypeOK, Display, Frames, Empty, Torn, Freed
<1>1. CASE CopyDue
  BY <1>1 DEF CopyDue
<1>2. CASE BeginCopyIn
  BY <1>2 DEF BeginCopyIn
<1>3. CASE EndCopyIn(current)
  BY <1>3 DEF EndCopyIn
<1>4. CASE Publish
  BY <1>4 DEF Publish
<1>5. CASE CheckFrame
  BY <1>5 DEF CheckFrame
<1>6. CASE BeginCopyOut
  BY <1>6 DEF BeginCopyOut
<1>7. CASE EndCopyOut
  BY <1>7 DEF EndCopyOut
<1>8. CASE PushBuffer
  BY <1>8 DEF PushBuffer
<1>9. CASE PreviewExit
  BY <1>9 DEF PreviewExit
<1>10. CASE SinkFails \/ SinkRecovers \/ ClearKeepRunning
  <2>1. /\ previewing' \in BOOLEAN /\ sinkUp' \in BOOLEAN
        /\ UNCHANGED <<frameAvailable, gpuCopyMutex, previewGray8, pinnedBuffer, updatePC,
                       previewPC, shown>>
    BY <1>10 DEF SinkFails, SinkRecovers, ClearKeepRunning
  <2> QED BY <2>1
<1>11. CASE JoinAndFree /\ updatePC = "idle"
  BY <1>11 DEF JoinAndFree
<1>12. CASE UNCHANGED previewVars
  BY <1>12 DEF previewVars
<1> QED BY <1>1, <1>2, <1>3, <1>4, <1>5, <1>6, <1>7, <1>8, <1>9, <1>10, <1>11, <1>12
        DEF PreviewStep

----------------------------------------------------------------------------
(* The owner of a slot in use.                                             *)

(* Handed frames have numbers and slots. *)
LEMMA HandedTyped ==
  ASSUME Typed
  PROVE  /\ Elements(ready) \subseteq Item /\ Handed \subseteq Item
         /\ \A x \in Handed : x.frame \in Nat /\ x.slot \in Slots
         /\ current \in Nat /\ slot \in Slots
         /\ Elements(ready) \subseteq Handed /\ encoding \subseteq Handed
<1>1. Elements(ready) \subseteq Item
  <2>1. ready \in Seq(Item)
    BY DEF Typed
  <2> QED BY <2>1 DEF Elements
<1>2. Handed \subseteq Item
  BY <1>1 DEF Handed, Typed
<1> QED BY <1>1, <1>2, FrameOwnershipAssumption DEF Typed, Item, Frames, Handed

(* The current frame may be queued behind the frames already handed over. *)
LEMMA CurrentQueued ==
  ASSUME Typed, Owners, callback \in {"record", "wait"}, current >= 1, NEW i \in Slots,
         NEW x, x = [frame |-> current, slot |-> i], NEW r, r = Append(ready, x)
  PROVE  /\ x \in Item /\ r \in Seq(Item)
         /\ Rising(r) /\ Elements(r) = Elements(ready) \cup {x}
         /\ x \notin encoding /\ x \notin Elements(ready)
<1>1. x \in Item /\ x.frame = current
  BY FrameOwnershipAssumption DEF Typed, Item, Frames
<1>2. \A y \in Handed : y.frame < current /\ y.frame \in Nat
  BY HandedTyped DEF Owners
<1>3. Below(FramesIn(ready), {x.frame})
  <2>1. \A j \in 1 .. Len(ready) : ready[j] \in Handed
    BY DEF Elements, Handed
  <2> QED BY <1>1, <1>2, <2>1 DEF Below, FramesIn
<1>4. ready \in Seq(Item) /\ Rising(ready)
  BY DEF Typed, Owners
<1>5. r \in Seq(Item) /\ Elements(r) = Elements(ready) \cup {x}
  BY <1>1, <1>4, Appended
<1>6. Rising(r)
  BY <1>1, <1>3, <1>4, RisingAppend
<1>7. x \notin Handed
  BY <1>1, <1>2
<1> QED BY <1>1, <1>5, <1>6, <1>7, HandedTyped

(* Steps that hand nothing over. *)
LEMMA OwnersKept ==
  ASSUME Typed, Owners, UNCHANGED <<ready, encoding>>, slotInUse \subseteq slotInUse',
         Waiting' = Waiting,
         \/ /\ current' = current
            /\ callback' \in {"record", "wait"} => callback \in {"record", "wait"}
         \/ current' \in Nat /\ current' > current
  PROVE  Owners'
<1>1. Handed' = Handed /\ Elements(ready') = Elements(ready)
  BY DEF Handed, Elements
<1>2. Rising(ready') /\ encoding' \cap Elements(ready') = {}
  BY <1>1 DEF Owners, Rising
<1>3. \A x \in Handed :
        x.frame <= current' /\ (callback' \in {"record", "wait"} => x.frame < current')
  BY HandedTyped DEF Owners
<1> QED BY <1>1, <1>2, <1>3 DEF Owners

(* A slot is taken by one frame. *)
LEMMA SubmitCopiesOwners ==
  ASSUME Typed, InCallback, Owners, SubmitCopies
  PROVE  Owners'
<1>1. PICK i \in Slots :
        /\ i \notin slotInUse /\ slotInUse' = slotInUse \cup {i}
        /\ UNCHANGED <<current, encoding>>
        /\ \/ callback' = "wait" /\ slot' = i /\ ready' = ready
           \/ /\ callback' = "preview"
              /\ ready' = Append(ready, [frame |-> current, slot |-> i])
  BY DEF SubmitCopies, FreeSlot
<1>2. callback = "record" /\ current >= 1 /\ Waiting = {}
  BY DEF SubmitCopies, InCallback, Waiting
<1>3. PICK x : x = [frame |-> current, slot |-> i]
  OBVIOUS
<1>4. /\ \A y \in Handed : y.frame < current /\ y.slot \in slotInUse /\ y.slot # i
      /\ \A y, z \in Handed : y.slot = z.slot => y = z
  BY <1>1, <1>2, HandedTyped DEF Owners
<1>5. x.frame = current /\ x.slot = i
  BY <1>3
<1>6. CASE callback' = "wait" /\ slot' = i /\ ready' = ready
  <2>1. Handed' = Handed /\ Waiting' = {x} /\ Elements(ready') = Elements(ready)
    BY <1>1, <1>3, <1>6 DEF Handed, Waiting, Elements
  <2>2. Rising(ready') /\ encoding' \cap Elements(ready') = {}
    BY <1>1, <1>6, <2>1 DEF Owners, Rising
  <2> QED BY <1>1, <1>4, <1>5, <2>1, <2>2, HandedTyped DEF Owners
<1>7. CASE callback' = "preview" /\ ready' = Append(ready, x)
  <2>1. Rising(ready') /\ Elements(ready') = Elements(ready) \cup {x} /\ x \notin encoding
    BY <1>1, <1>2, <1>3, <1>7, CurrentQueued
  <2>2. Handed' = Handed \cup {x} /\ Waiting' = {}
    BY <1>1, <1>7, <2>1 DEF Handed, Waiting
  <2>3. encoding' \cap Elements(ready') = {}
    BY <1>1, <2>1 DEF Owners
  <2> QED BY <1>1, <1>4, <1>5, <1>7, <2>1, <2>2, <2>3, HandedTyped DEF Owners
<1> QED BY <1>1, <1>3, <1>6, <1>7

(* The frame waited for is handed over with its slot. *)
LEMMA ReadCompletedOwners ==
  ASSUME Typed, InCallback, Owners, ReadCompleted
  PROVE  Owners'
<1>1. PICK x : x = [frame |-> current, slot |-> slot]
  OBVIOUS
<1>2. /\ callback = "wait" /\ callback' = "preview"
      /\ UNCHANGED <<current, slotInUse>>
      /\ \/ ready' = Append(ready, x) /\ encoding' = encoding
         \/ ready' = ready /\ encoding' = encoding \cup {x}
  BY <1>1 DEF ReadCompleted
<1>3. current >= 1 /\ Waiting = {x} /\ Waiting' = {} /\ x.frame = current /\ slot \in Slots
  BY <1>1, <1>2, HandedTyped DEF InCallback, Waiting
<1>4. /\ \A y \in Handed : y.frame < current
      /\ \A y \in Handed \cup {x} : y.slot \in slotInUse
      /\ \A y, z \in Handed \cup {x} : y.slot = z.slot => y = z
  BY <1>2, <1>3 DEF Owners
<1>5. /\ Rising(Append(ready, x)) /\ Elements(Append(ready, x)) = Elements(ready) \cup {x}
      /\ x \notin encoding /\ x \notin Elements(ready)
  BY <1>1, <1>2, <1>3, CurrentQueued
<1>6. Rising(ready') /\ encoding' \cap Elements(ready') = {} /\ Handed' = Handed \cup {x}
  <2>1. CASE ready' = Append(ready, x) /\ encoding' = encoding
    BY <1>5, <2>1 DEF Owners, Handed
  <2>2. CASE ready' = ready /\ encoding' = encoding \cup {x}
    <3>1. Elements(ready') = Elements(ready) /\ Rising(ready')
      BY <2>2 DEF Elements, Owners, Rising
    <3> QED BY <1>5, <2>2, <3>1 DEF Owners, Handed
  <2> QED BY <1>2, <2>1, <2>2
<1> QED BY <1>2, <1>3, <1>4, <1>6, HandedTyped DEF Owners

(* A slot given back was that of one frame. *)
LEMMA OwnersStep ==
  ASSUME Typed, InCallback, Owners, FrameStep
  PROVE  Owners'
<1>1. CASE Quiet \/ Expose \/ SlotBusy \/ SubmissionFails \/ \E s \in Streams : RunCopy(s)
  <2>1. /\ UNCHANGED <<current, slot, slotInUse, ready, encoding>>
        /\ \/ callback' = callback
           \/ callback \in {"record", "preview"} /\ callback' \in {"idle", "preview"}
    BY <1>1 DEF Quiet, Expose, SlotBusy, SubmissionFails, RunCopy
  <2>2. Waiting' = Waiting
    BY <2>1 DEF Waiting
  <2> QED BY <2>1, <2>2, OwnersKept
<1>2. CASE GetImage
  <2>1. /\ UNCHANGED <<slot, slotInUse, ready, encoding>> /\ callback = "idle"
        /\ callback' \in {"record", "preview"}
        /\ current' \in Nat /\ current' > current
    BY <1>2, HandedTyped, FrameOwnershipAssumption DEF GetImage, Frames
  <2>2. Waiting' = Waiting
    BY <2>1 DEF Waiting
  <2> QED BY <2>1, <2>2, OwnersKept
<1>3. CASE SubmitCopies
  BY <1>3, SubmitCopiesOwners
<1>4. CASE ReadCompleted
  BY <1>4, ReadCompletedOwners
<1>5. CASE WaitFails
  <2>1. /\ callback = "wait" /\ callback' = "preview" /\ slotInUse' = slotInUse \ {slot}
        /\ UNCHANGED <<current, ready, encoding>>
    BY <1>5 DEF WaitFails
  <2>2. Handed' = Handed /\ Waiting' = {} /\ Elements(ready') = Elements(ready)
    BY <2>1 DEF Handed, Waiting, Elements
  <2>3. \A x \in Handed : x.slot # slot
    <3>1. PICK y : y = [frame |-> current, slot |-> slot]
      OBVIOUS
    <3>2. Waiting = {y} /\ y.slot = slot /\ y.frame = current
      BY <2>1, <3>1 DEF Waiting
    <3>3. \A x \in Handed : x.frame < current
      BY <2>1 DEF Owners
    <3> QED BY <3>2, <3>3, HandedTyped DEF Owners
  <2>4. Rising(ready') /\ encoding' \cap Elements(ready') = {}
    BY <2>1, <2>2 DEF Owners, Rising
  <2>5. \A x \in Handed : x.slot \in slotInUse' /\ x.frame <= current
    BY <2>1, <2>3 DEF Owners
  <2> QED BY <2>1, <2>2, <2>4, <2>5 DEF Owners
<1>6. CASE TakeFrame
  <2>1. /\ ready # <<>> /\ encoding' = encoding \cup {Head(ready)} /\ ready' = Tail(ready)
        /\ UNCHANGED <<callback, current, slot, slotInUse>>
    BY <1>6 DEF TakeFrame
  <2>2. /\ Elements(ready) = Elements(Tail(ready)) \cup {Head(ready)}
        /\ Rising(Tail(ready)) /\ Below({Head(ready).frame}, FramesIn(Tail(ready)))
    BY <2>1, HeadTaken, RisingTail DEF Typed, Owners
  <2>3. Head(ready) \notin Elements(Tail(ready))
    <3>1. Head(ready) \in Item
      BY <2>2, HandedTyped
    <3>2. \A x \in Elements(Tail(ready)) : Head(ready).frame < x.frame
      BY <2>2 DEF Elements, FramesIn, Below
    <3> QED BY <3>1, <3>2, FrameOwnershipAssumption DEF Item, Frames
  <2>4. /\ Handed' = Handed /\ Waiting' = Waiting
        /\ Rising(ready') /\ encoding' \cap Elements(ready') = {}
    <3>1. Handed' = Handed
      BY <2>1, <2>2 DEF Handed
    <3>2. Waiting' = Waiting
      BY <2>1 DEF Waiting
    <3>3. Elements(ready') = Elements(Tail(ready)) /\ Rising(ready')
      BY <2>1, <2>2 DEF Elements
    <3>4. encoding \cap Elements(ready) = {}
      BY DEF Owners
    <3> QED BY <2>1, <2>2, <2>3, <3>1, <3>2, <3>3, <3>4
  <2> QED BY <2>1, <2>4 DEF Owners
<1>7. CASE ReleaseSlot
  <2>1. PICK x \in encoding :
          /\ encoding' = encoding \ {x} /\ slotInUse' = slotInUse \ {x.slot}
          /\ UNCHANGED <<callback, current, slot, ready>>
    BY <1>7 DEF ReleaseSlot
  <2>2. Waiting' = Waiting /\ Elements(ready') = Elements(ready) /\ Rising(ready')
    BY <2>1 DEF Waiting, Elements, Owners, Rising
  <2>3. Handed' \subseteq Handed /\ x \notin Handed' /\ encoding' \cap Elements(ready') = {}
    BY <2>1, <2>2 DEF Handed, Owners
  <2>4. x \notin Waiting
    <3>1. callback = "wait" => x.frame < current /\ x.frame \in Nat /\ current \in Nat
      BY HandedTyped DEF Owners, Handed
    <3>2. \A y \in Waiting : callback = "wait" /\ y.frame = current
      BY DEF Waiting
    <3> QED BY <3>1, <3>2
  <2>5. \A y \in Handed' \cup Waiting' : y \in Handed \cup Waiting /\ y # x
    BY <2>2, <2>3, <2>4
  <2>6. \A y \in Handed' \cup Waiting' : y.slot \in slotInUse'
    BY <2>1, <2>5 DEF Owners, Handed
  <2> QED BY <2>1, <2>2, <2>3, <2>5, <2>6 DEF Owners
<1> QED BY <1>1, <1>2, <1>3, <1>4, <1>5, <1>6, <1>7 DEF FrameStep, Recorder

----------------------------------------------------------------------------
(* The copies.                                                             *)

(* Copies submitted for other slots, or other copies, change nothing.      *)
LEMMA SubmittedElsewhere ==
  ASSUME Typed, path # "encoded", current \in Frames, NEW i \in Slots,
         NEW from, NEW to, Scope(from, to), stream' = Submitted(from, to, i),
         UNCHANGED <<path, buffer>>,
         NEW x, NEW k \in 1 .. Last, x.slot # i \/ k \notin from .. to
  PROVE  /\ Made(x, k) => Made(x, k)'
         /\ Good(x, k) => Good(x, k)'
<1> DEFINE str == Route[path][k]
<1>1. /\ path \in Paths /\ str \in Streams /\ Route[path'][k] = str
      /\ from .. to \subseteq 1 .. Last
      /\ \A l \in 1 .. Last : Route[path][l] = str => l = k
  BY RouteFacts DEF Typed, Scope
<1>2. PICK q \in Seq(Op) :
        Submitted(from, to, i)[str] = stream[str] \o q /\ NewOps(q, from, to, i, str)
  <2>1. path \in Paths /\ str \in Streams
    BY <1>1
  <2> HIDE DEF str
  <2> QED BY <2>1, SubmittedOps
<1>3. \A j \in 1 .. Len(q) : q[j].slot # x.slot
  BY <1>1, <1>2 DEF NewOps
<1>4. stream[str] \in Seq(Op)
  BY <1>1 DEF Typed
<1>5. stream'[str] = stream[str] \o q
  BY <1>2
<1>6. /\ NoOp(stream[str], x) => NoOp(stream'[str], x)
      /\ LastOp(stream[str], x) => LastOp(stream'[str], x)
  BY <1>3, <1>4, <1>5, OpsBehind
<1>7. Made(x, k) => Made(x, k)'
  BY <1>1, <1>6 DEF Made
<1>8. Coming(x, k) => Coming(x, k)'
  BY <1>1, <1>6 DEF Coming
<1> QED BY <1>7, <1>8 DEF Good

(* The copies submitted for the current frame are to come. *)
LEMMA SubmittedComing ==
  ASSUME Typed, path # "encoded", current \in Frames, NEW i \in Slots,
         NEW from, NEW to, Scope(from, to), stream' = Submitted(from, to, i), path' = path,
         NEW x, x.frame = current, x.slot = i, NEW k \in from .. to
  PROVE  Good(x, k)'
<1> DEFINE str == Route[path][k]
<1>1. path \in Paths /\ k \in 1 .. Last /\ str \in Streams /\ Route[path'][k] = str
  BY RouteFacts DEF Typed, Scope
<1>2. PICK q \in Seq(Op) :
        Submitted(from, to, i)[str] = stream[str] \o q /\ NewOps(q, from, to, i, str)
  <2>1. path \in Paths /\ str \in Streams
    BY <1>1
  <2> HIDE DEF str
  <2> QED BY <2>1, SubmittedOps
<1>3. Len(q) = 1 /\ q[1].frame = x.frame /\ q[1].slot = x.slot
  BY <1>2 DEF NewOps
<1>4. stream[str] \in Seq(Op) /\ stream'[str] = stream[str] \o q
  BY <1>1, <1>2 DEF Typed
<1>5. LastOp(stream'[str], x)
  BY <1>3, <1>4, OwnOpBehind
<1> QED BY <1>1, <1>5 DEF Coming, Good

(* A copy still to come is pending. *)
LEMMA ComingPending ==
  ASSUME Typed, path # "encoded", NEW x, NEW k \in 1 .. Last, Coming(x, k), NEW C, k \in C
  PROVE  Pending(x.frame, C)
<1> DEFINE str == Route[path][k]
<1>1. /\ str \in Streams /\ stream[str] \in Seq(Op)
      /\ \A l \in 1 .. Last : Route[path][l] = str => l = k
      /\ \A j \in 1 .. Len(stream[str]) : Route[path][stream[str][j].copy] = str
  BY RouteFacts DEF Typed
<1>2. PICK j \in 1 .. Len(stream[str]) : stream[str][j].frame = x.frame
  BY DEF Coming, LastOp
<1>3. j \in DOMAIN stream[str] /\ stream[str][j] \in Op
  BY <1>1, <1>2
<1>4. stream[str][j].copy = k
  BY <1>1, <1>3 DEF Op
<1> QED BY <1>1, <1>2, <1>3, <1>4 DEF Pending

(* A copy that has been made stays when another one is made. *)
LEMMA RunCopyMade ==
  ASSUME Typed, path # "encoded", NEW s \in Streams, RunCopy(s),
         NEW x, x.slot \in Slots, NEW k \in 1 .. Last, Made(x, k)
  PROVE  Made(x, k)'
<1> DEFINE t == Route[path][k]
<1>1. /\ t \in Streams /\ stream \in [Streams -> Seq(Op)] /\ Last \in Nat
      /\ \A l \in 1 .. Last : Route[path][l] = t => l = k
      /\ \A j \in 1 .. Len(stream[s]) : Route[path][stream[s][j].copy] = s
      /\ buffer \in [1 .. Last -> [Slots -> 0 .. MaxFrames]]
  BY RouteFacts DEF Typed
<1>2. /\ stream[s] # <<>> /\ path' = path
      /\ stream' = [stream EXCEPT ![s] = Tail(@)]
  BY DEF RunCopy
<1>3. PICK op : op = Head(stream[s])
  OBVIOUS
<1>4. PICK c : buffer' = [buffer EXCEPT ![op.copy][op.slot] = c]
  BY <1>3 DEF RunCopy
<1>5. op \in Op /\ Route[path][op.copy] = s
  <2>1. Head(stream[s]) \in Op /\ Head(stream[s]) = stream[s][1] /\ 1 \in 1 .. Len(stream[s])
    BY <1>1, <1>2, HeadTaken
  <2> QED BY <1>1, <1>3, <2>1
<1>6. op.copy \in 1 .. Last /\ op.slot \in Slots
  BY <1>5 DEF Op
<1>7. NoOp(stream[t], x) /\ buffer[k][x.slot] = x.frame
  BY DEF Made
<1>8. CASE t = s
  <2>1. /\ NoOp(Tail(stream[s]), x) /\ op.slot # x.slot
    BY <1>1, <1>2, <1>3, <1>7, <1>8, FirstOpDone
  <2>2. stream'[t] = Tail(stream[s])
    BY <1>1, <1>2, <1>8
  <2>3. buffer'[k][x.slot] = buffer[k][x.slot]
    BY <1>1, <1>4, <1>6, <2>1
  <2> QED BY <1>2, <1>7, <2>1, <2>2, <2>3 DEF Made
<1>9. CASE t # s
  <2>1. op.copy # k
    BY <1>5, <1>9
  <2>2. stream'[t] = stream[t]
    BY <1>1, <1>2, <1>9
  <2>3. buffer'[k] = buffer[k]
    BY <1>1, <1>4, <1>6, <2>1
  <2> QED BY <1>2, <1>7, <2>2, <2>3 DEF Made
<1> QED BY <1>8, <1>9

(* A copy to come is made from the one before, or from the camera's buffer *)
(* while the frame is in it.                                               *)
LEMMA RunCopyGood ==
  ASSUME Typed, path # "encoded", NEW s \in Streams, RunCopy(s),
         NEW x, x.slot \in Slots, x.frame \in 0 .. exposed, NEW k \in 1 .. Last, Good(x, k),
         k = 1 => Made(x, 1) \/ exposed - x.frame < Ring,
         k > 1 => Good(x, k - 1)
  PROVE  Good(x, k)'
<1> DEFINE t == Route[path][k]
<1>1. CASE Made(x, k)
  BY <1>1, RunCopyMade DEF Good
<1>2. CASE Coming(x, k) /\ ~Made(x, k)
  <2>1. /\ t \in Streams /\ stream \in [Streams -> Seq(Op)] /\ Last \in Nat
        /\ \A l \in 1 .. Last : Route[path][l] = t => l = k
        /\ \A j \in 1 .. Len(stream[s]) : Route[path][stream[s][j].copy] = s
        /\ buffer \in [1 .. Last -> [Slots -> 0 .. MaxFrames]]
        /\ exposed \in Nat
    BY RouteFacts, FrameOwnershipAssumption DEF Typed
  <2>2. PICK op : op = Head(stream[s])
    OBVIOUS
  <2>3. /\ stream[s] # <<>> /\ path' = path
        /\ stream' = [stream EXCEPT ![s] = Tail(@)]
        /\ ~Pending(op.frame, 1 .. op.copy - 1)
        /\ buffer' = [buffer EXCEPT ![op.copy][op.slot] =
                        IF op.copy = 1 THEN CameraBuffer(op.frame)
                                       ELSE buffer[op.copy - 1][op.slot]]
    BY <2>2 DEF RunCopy
  <2>4. op \in Op /\ Route[path][op.copy] = s
    <3>1. Head(stream[s]) \in Op /\ Head(stream[s]) = stream[s][1] /\ 1 \in 1 .. Len(stream[s])
      BY <2>1, <2>3, HeadTaken
    <3> QED BY <2>1, <2>2, <3>1
  <2>5. op.copy \in 1 .. Last /\ op.slot \in Slots
    BY <2>4 DEF Op
  <2>6. LastOp(stream[t], x)
    BY <1>2 DEF Coming
  <2>7. CASE t # s
    <3>1. stream'[t] = stream[t]
      BY <2>1, <2>3, <2>7
    <3> QED BY <2>3, <2>6, <3>1 DEF Coming, Good
  <2>8. CASE t = s /\ LastOp(Tail(stream[s]), x)
    <3>1. stream'[t] = Tail(stream[s])
      BY <2>1, <2>3, <2>8
    <3> QED BY <2>3, <2>8, <3>1 DEF Coming, Good
  <2>9. CASE t = s /\ ~LastOp(Tail(stream[s]), x)
    <3>1. NoOp(Tail(stream[s]), x) /\ op.frame = x.frame /\ op.slot = x.slot
      BY <2>1, <2>2, <2>3, <2>6, <2>9, FirstOpDone
    <3>2. op.copy = k
      BY <2>1, <2>4, <2>5, <2>9
    <3>3. stream'[t] = Tail(stream[s])
      BY <2>1, <2>3, <2>9
    <3>4. CASE k = 1
      <4>1. CameraBuffer(x.frame) = x.frame
        BY <1>2, <2>1, <3>4, CameraRange
      <4>2. buffer' = [buffer EXCEPT ![k][x.slot] = x.frame]
        BY <2>3, <3>1, <3>2, <3>4, <4>1
      <4>3. buffer'[k][x.slot] = x.frame
        BY <2>1, <4>2
      <4> QED BY <2>3, <3>1, <3>3, <4>3 DEF Made, Good
    <3>5. CASE k # 1
      <4>1. k - 1 \in 1 .. Last /\ k - 1 \in 1 .. k - 1 /\ k > 1
        BY <2>1, <3>5
      <4>2. ~Pending(x.frame, 1 .. k - 1)
        BY <2>3, <3>1, <3>2
      <4>3. Made(x, k - 1)
        BY <4>1, <4>2, ComingPending DEF Good
      <4>4. buffer[k - 1][x.slot] = x.frame
        BY <4>3 DEF Made
      <4>5. buffer' = [buffer EXCEPT ![k][x.slot] = x.frame]
        BY <2>3, <3>1, <3>2, <3>5, <4>4
      <4>6. buffer'[k][x.slot] = x.frame
        BY <2>1, <4>5
      <4> QED BY <2>3, <3>1, <3>3, <4>6 DEF Made, Good
    <3> QED BY <3>4, <3>5
  <2> QED BY <2>7, <2>8, <2>9
<1> QED BY <1>1, <1>2 DEF Good

(* Steps that leave streams and buffers alone leave the copies as they are. *)
LEMMA SameCopies ==
  ASSUME UNCHANGED <<path, stream, buffer>>
  PROVE  /\ \A x : WaitingGood(x)' <=> WaitingGood(x)
         /\ \A x : HandedGood(x)' <=> HandedGood(x)
         /\ \A x : EncodedGood(x)' <=> EncodedGood(x)
<1>1. Last' = Last /\ BeforeWait' = BeforeWait
  BY DEF Last, BeforeWait
<1>2. \A x, k : Made(x, k)' <=> Made(x, k)
  BY DEF Made
<1>3. \A x, k : Good(x, k)' <=> Good(x, k)
  BY <1>2 DEF Good, Coming
<1> QED BY <1>1, <1>2, <1>3 DEF WaitingGood, HandedGood, EncodedGood

(* Copies submitted for a slot leave the frames in other slots as they are. *)
LEMMA OthersStayGood ==
  ASSUME Typed, path # "encoded", current \in Frames, NEW i \in Slots,
         NEW from, NEW to, Scope(from, to), stream' = Submitted(from, to, i),
         UNCHANGED <<path, buffer>>, NEW x, x.slot # i
  PROVE  /\ HandedGood(x) => HandedGood(x)'
         /\ EncodedGood(x) => EncodedGood(x)'
<1>1. Last' = Last /\ 1 \in 1 .. Last
  BY RouteFacts DEF Last, Typed
<1>2. \A k \in 1 .. Last : (Made(x, k) => Made(x, k)') /\ (Good(x, k) => Good(x, k)')
  BY SubmittedElsewhere
<1> QED BY <1>1, <1>2 DEF HandedGood, EncodedGood

(* The copies up to the wait are submitted. *)
LEMMA SubmitCopiesCopies ==
  ASSUME Typed, InCallback, Owners, Copies, path # "encoded", SubmitCopies
  PROVE  Copies'
<1>1. PICK i \in Slots :
        /\ i \notin slotInUse /\ stream' = Submitted(1, BeforeWait, i)
        /\ UNCHANGED <<path, current, buffer, ready, encoding>>
        /\ callback = "record" /\ callback' = "wait" /\ slot' = i
  BY DEF SubmitCopies, FreeSlot, HasToWait
<1>2. /\ current \in Frames /\ Scope(1, BeforeWait) /\ BeforeWait' = BeforeWait
      /\ Handed' = Handed
  BY <1>1, FrameOwnershipAssumption
     DEF Scope, BeforeWait, Last, Handed, Elements, Typed, InCallback, Frames
<1>3. PICK x : x = [frame |-> current, slot |-> i]
  OBVIOUS
<1>4. Waiting' = {x} /\ x.frame = current /\ x.slot = i
  BY <1>1, <1>3 DEF Waiting
<1>5. WaitingGood(x)'
  <2>1. \A k \in 1 .. BeforeWait : Good(x, k)'
    BY <1>1, <1>2, <1>4, SubmittedComing
  <2> QED BY <1>2, <2>1 DEF WaitingGood
<1>6. \A y \in Handed : y.slot # i
  BY <1>1 DEF Owners
<1>7. \A y \in Handed : HandedGood(y)'
  BY <1>1, <1>2, <1>6, OthersStayGood DEF Copies
<1>8. \A y \in encoding : EncodedGood(y)'
  <2>1. encoding \subseteq Handed
    BY DEF Handed
  <2> QED BY <1>1, <1>2, <1>6, <2>1, OthersStayGood DEF Copies
<1> QED BY <1>1, <1>2, <1>4, <1>5, <1>7, <1>8 DEF Copies

(* A failed submission leaves copies for a slot that nobody has. *)
LEMMA SubmissionFailsCopies ==
  ASSUME Typed, InCallback, Owners, Copies, path # "encoded", SubmissionFails
  PROVE  Copies'
<1>1. PICK i \in Slots, k \in 0 .. BeforeWait :
        /\ i \notin slotInUse /\ stream' = Submitted(1, k, i)
        /\ UNCHANGED <<path, current, buffer, ready, encoding>> /\ path \in LanePaths
        /\ callback = "record" /\ callback' = "preview"
  BY DEF SubmissionFails, FreeSlot
<1>2. /\ current \in Frames /\ Scope(1, k) /\ Handed' = Handed /\ Waiting' = {}
  BY <1>1, FrameOwnershipAssumption
     DEF Scope, Handed, Elements, Waiting, Typed, InCallback, Frames
<1>3. \A y \in Handed : y.slot # i
  BY <1>1 DEF Owners
<1>4. \A y \in Handed : HandedGood(y)'
  BY <1>1, <1>2, <1>3, OthersStayGood DEF Copies
<1>5. \A y \in encoding : EncodedGood(y)'
  <2>1. encoding \subseteq Handed
    BY DEF Handed
  <2> QED BY <1>1, <1>2, <1>3, <2>1, OthersStayGood DEF Copies
<1> QED BY <1>1, <1>2, <1>4, <1>5 DEF Copies

(* The camera's buffer has been read: what is left to do is in the slot.   *)
LEMMA ReadCompletedCopies ==
  ASSUME Typed, InCallback, Owners, Copies, path # "encoded", ReadCompleted
  PROVE  Copies'
<1>1. PICK x : x = [frame |-> current, slot |-> slot]
  OBVIOUS
<1>2. /\ callback = "wait" /\ callback' = "preview" /\ ~Pending(current, {1})
      /\ UNCHANGED <<path, current, buffer>>
  BY DEF ReadCompleted, ReadDone
<1>3. /\ Waiting = {x} /\ Waiting' = {} /\ x.frame = current /\ x.slot = slot
      /\ current \in Frames /\ slot \in Slots
  BY <1>1, <1>2, FrameOwnershipAssumption DEF Waiting, InCallback, Typed, Frames
<1>4. \A y \in Handed : y.slot # slot
  <2>1. \A y \in Handed : y.frame < current
    BY <1>2 DEF Owners
  <2> QED BY <1>3, <2>1, HandedTyped DEF Owners
<1>5. /\ 1 \in 1 .. BeforeWait /\ 1 \in 1 .. Last /\ Last \in Nat /\ BeforeWait \in Nat
      /\ path \in LanePaths => BeforeWait = Last - 1
      /\ path \notin LanePaths => BeforeWait = Last
      /\ Last' = Last
  BY <1>2, RouteFacts DEF Typed, Last
<1>6. Made(x, 1) /\ \A k \in 1 .. BeforeWait : Good(x, k)
  <2>1. \A k \in 1 .. BeforeWait : Good(x, k)
    BY <1>3 DEF Copies, WaitingGood
  <2>2. ~Coming(x, 1)
    BY <1>2, <1>3, <1>5, ComingPending
  <2> QED BY <1>5, <2>1, <2>2 DEF Good
<1>7. CASE path \in LanePaths
  <2>1. /\ stream' = Submitted(Last, Last, slot) /\ Scope(Last, Last)
        /\ ready' = Append(ready, x) /\ encoding' = encoding
    BY <1>1, <1>7 DEF ReadCompleted, Scope
  <2>2. Handed' = Handed \cup {x}
    <3>1. Elements(ready') = Elements(ready) \cup {x}
      BY <1>1, <1>2, <1>3, <2>1, CurrentQueued DEF InCallback
    <3> QED BY <2>1, <3>1 DEF Handed
  <2>3. \A y \in Handed : HandedGood(y)'
    BY <1>2, <1>3, <1>4, <2>1, OthersStayGood DEF Copies
  <2>4. \A y \in encoding : EncodedGood(y)'
    <3>1. encoding \subseteq Handed
      BY DEF Handed
    <3> QED BY <1>2, <1>3, <1>4, <2>1, <3>1, OthersStayGood DEF Copies
  <2>5. HandedGood(x)'
    <3>1. /\ \A k \in 1 .. BeforeWait : k \in 1 .. Last /\ k \notin Last .. Last
          /\ \A k \in 1 .. Last : k \in 1 .. BeforeWait \/ k \in Last .. Last
      BY <1>5, <1>7
    <3>2. Made(x, 1)'
      BY <1>2, <1>3, <1>5, <1>6, <2>1, <3>1, SubmittedElsewhere
    <3>3. \A k \in 1 .. BeforeWait : Good(x, k)'
      BY <1>2, <1>3, <1>6, <2>1, <3>1, SubmittedElsewhere
    <3>4. \A k \in Last .. Last : Good(x, k)'
      BY <1>2, <1>3, <2>1, SubmittedComing
    <3> QED BY <1>5, <3>1, <3>2, <3>3, <3>4 DEF HandedGood
  <2> QED BY <1>3, <2>1, <2>2, <2>3, <2>4, <2>5 DEF Copies
<1>8. CASE path \notin LanePaths
  <2>1. UNCHANGED <<path, stream, buffer, ready>> /\ encoding' = encoding \cup {x}
    BY <1>1, <1>2, <1>8 DEF ReadCompleted
  <2>2. Handed' = Handed \cup {x}
    BY <2>1 DEF Handed, Elements
  <2>3. Last = 1
    <3>1. path \in {"raw"}
      BY <1>8, FrameOwnershipAssumption DEF LanePaths, Route, Typed
    <3>2. Route["raw"] = <<"record">>
      BY DEF Route
    <3> QED BY <3>1, <3>2 DEF Last
  <2>4. HandedGood(x) /\ EncodedGood(x)
    <3>1. \A k \in 1 .. Last : k = 1
      BY <2>3
    <3> QED BY <1>6, <3>1 DEF HandedGood, EncodedGood, Good
  <2> QED BY <1>3, <2>1, <2>2, <2>4, SameCopies DEF Copies
<1> QED BY <1>7, <1>8

(* Making a copy serves the frame it is for, and disturbs no other. *)
LEMMA RunCopyCopies ==
  ASSUME Typed, InCallback, Owners, Copies, path # "encoded", NEW s \in Streams, RunCopy(s)
  PROVE  Copies'
<1>1. UNCHANGED <<path, exposed, callback, current, slot, ready, encoding>>
  BY DEF RunCopy
<1>2. /\ Last' = Last /\ BeforeWait' = BeforeWait /\ Handed' = Handed /\ Waiting' = Waiting
  BY <1>1 DEF Last, BeforeWait, Handed, Elements, Waiting
<1>3. /\ 1 \in 1 .. Last /\ Last \in Nat /\ BeforeWait \in 1 .. Last
  BY RouteFacts DEF Typed
<1>4. ASSUME NEW x \in Handed
      PROVE  x.slot \in Slots /\ x.frame \in 0 .. exposed
  <2>1. x.frame \in Nat /\ x.slot \in Slots /\ current \in Nat
    BY HandedTyped
  <2>2. x.frame <= current /\ current <= exposed
    BY DEF Owners, Typed
  <2>3. exposed \in Nat
    BY FrameOwnershipAssumption DEF Typed
  <2> QED BY <2>1, <2>2, <2>3
<1>5. ASSUME NEW x \in Handed
      PROVE  HandedGood(x)'
  <2>1. Made(x, 1) /\ \A k \in 1 .. Last : Good(x, k)
    BY DEF Copies, HandedGood
  <2>2. Made(x, 1)'
    BY <1>3, <1>4, <2>1, RunCopyMade
  <2>3. ASSUME NEW k \in 1 .. Last
        PROVE  Good(x, k)'
    <3>1. k > 1 => Good(x, k - 1)
      <4>1. k > 1 => k - 1 \in 1 .. Last
        BY <1>3
      <4> QED BY <2>1, <4>1
    <3> QED BY <1>4, <2>1, <3>1, RunCopyGood
  <2> QED BY <1>2, <2>2, <2>3 DEF HandedGood
<1>6. ASSUME NEW x \in encoding
      PROVE  EncodedGood(x)'
  <2>1. x.slot \in Slots /\ \A k \in 1 .. Last : Made(x, k)
    BY <1>4 DEF Handed, Copies, EncodedGood
  <2>2. \A k \in 1 .. Last : Made(x, k)'
    BY <2>1, RunCopyMade
  <2> QED BY <1>2, <2>2 DEF EncodedGood
<1>7. ASSUME NEW x \in Waiting
      PROVE  WaitingGood(x)'
  <2>1. /\ x.slot \in Slots /\ x.frame = current /\ x.frame \in 0 .. exposed
        /\ exposed - x.frame < Ring
    BY DEF Waiting, InCallback, Typed
  <2>2. \A k \in 1 .. BeforeWait : Good(x, k)
    BY DEF Copies, WaitingGood
  <2>3. ASSUME NEW k \in 1 .. BeforeWait
        PROVE  Good(x, k)'
    <3>1. /\ k \in 1 .. Last
          /\ k > 1 => k - 1 \in 1 .. BeforeWait
      BY <1>3
    <3>2. k > 1 => Good(x, k - 1)
      BY <2>2, <3>1
    <3> QED BY <2>1, <2>2, <3>1, <3>2, RunCopyGood
  <2> QED BY <1>2, <2>3 DEF WaitingGood
<1> QED BY <1>1, <1>2, <1>5, <1>6, <1>7 DEF Copies

(* The frames keep their own pictures. *)
LEMMA CopiesStep ==
  ASSUME Typed, InCallback, Owners, Copies, path # "encoded", FrameStep
  PROVE  Copies' /\ path' # "encoded"
<1>0. path' = path
  BY DEF FrameStep, Recorder, Quiet, GetImage, Expose, SlotBusy, SubmitCopies, SubmissionFails,
         ReadCompleted, WaitFails, TakeFrame, ReleaseSlot, RunCopy
<1>1. CASE Quiet \/ GetImage \/ Expose \/ SlotBusy \/ WaitFails
  <2>1. UNCHANGED <<path, stream, buffer, ready, encoding>>
    BY <1>1 DEF Quiet, GetImage, Expose, SlotBusy, WaitFails
  <2>2. Waiting' \subseteq Waiting
    <3>1. CASE WaitFails
      BY <3>1 DEF WaitFails, Waiting
    <3>2. CASE Quiet \/ GetImage \/ Expose \/ SlotBusy
      <4>1. \/ callback' = callback /\ UNCHANGED <<current, slot>>
            \/ callback' # "wait"
        BY <3>2 DEF Quiet, GetImage, Expose, SlotBusy
      <4> QED BY <4>1 DEF Waiting
    <3> QED BY <1>1, <3>1, <3>2
  <2>3. Handed' = Handed
    BY <2>1 DEF Handed, Elements
  <2> QED BY <1>0, <2>1, <2>2, <2>3, SameCopies DEF Copies
<1>2. CASE SubmitCopies
  BY <1>0, <1>2, SubmitCopiesCopies
<1>3. CASE SubmissionFails
  BY <1>0, <1>3, SubmissionFailsCopies
<1>4. CASE ReadCompleted
  BY <1>0, <1>4, ReadCompletedCopies
<1>5. CASE TakeFrame
  <2>1. /\ UNCHANGED <<path, stream, buffer, callback, current, slot>>
        /\ ready # <<>> /\ ~Pending(Head(ready).frame, 1 .. Last)
        /\ encoding' = encoding \cup {Head(ready)} /\ ready' = Tail(ready)
    BY <1>5 DEF TakeFrame
  <2>2. Elements(ready) = Elements(ready') \cup {Head(ready)}
    BY <2>1, HeadTaken DEF Typed
  <2>3. Handed' = Handed /\ Waiting' = Waiting /\ Head(ready) \in Handed
    BY <2>1, <2>2 DEF Handed, Waiting
  <2>4. EncodedGood(Head(ready))
    <3>1. \A k \in 1 .. Last : Good(Head(ready), k)
      BY <2>3 DEF Copies, HandedGood
    <3>2. \A k \in 1 .. Last : ~Coming(Head(ready), k)
      BY <2>1, ComingPending
    <3> QED BY <3>1, <3>2 DEF EncodedGood, Good
  <2> QED BY <1>0, <2>1, <2>3, <2>4, SameCopies DEF Copies
<1>6. CASE ReleaseSlot
  <2>1. /\ UNCHANGED <<path, stream, buffer, callback, current, slot, ready>>
        /\ encoding' \subseteq encoding
    BY <1>6 DEF ReleaseSlot
  <2>2. Handed' \subseteq Handed /\ Waiting' = Waiting
    BY <2>1 DEF Handed, Elements, Waiting
  <2> QED BY <1>0, <2>1, <2>2, SameCopies DEF Copies
<1>7. CASE \E s \in Streams : RunCopy(s)
  BY <1>0, <1>7, RunCopyCopies
<1> QED BY <1>1, <1>2, <1>3, <1>4, <1>5, <1>6, <1>7 DEF FrameStep, Recorder

----------------------------------------------------------------------------
(* The theorems.                                                           *)

(* At first nothing has been taken, submitted or shown. *)
LEMMA InitInv ==
  ASSUME Init
  PROVE  CallbackInv /\ CopiesInv
<1>1. /\ path \in Paths /\ exposed = 0 /\ callback = "idle" /\ current = 0
      /\ nextSlot = 0 /\ slot = 0 /\ stream = [s \in Streams |-> <<>>]
      /\ buffer = [k \in 1 .. Last |-> [i \in Slots |-> 0]]
      /\ slotInUse = {} /\ ready = <<>> /\ encoding = {} /\ closed = FALSE
  BY DEF Init, OwnershipInit
<1>2. 0 \in Slots /\ 0 \in 0 .. MaxFrames
  BY FrameOwnershipAssumption DEF Slots
<1>3. Typed
  <2>1. stream \in [Streams -> Seq(Op)] /\ \A s \in Streams : 1 .. Len(stream[s]) = {}
    <3>1. <<>> \in Seq(Op) /\ 1 .. Len(<<>>) = {}
      OBVIOUS
    <3> QED BY <1>1, <3>1
  <2>2. ready \in Seq(Item)
    BY <1>1
  <2>3. buffer \in [1 .. Last -> [Slots -> 0 .. MaxFrames]]
    BY <1>1, <1>2
  <2> QED BY <1>1, <1>2, <2>1, <2>2, <2>3, FrameOwnershipAssumption DEF Typed
<1>4. PreviewTypeOK(Frames) /\ Display /\ updatePC = "idle"
  <2>1. PreviewInit
    BY DEF Init
  <2>2. PreviewTypeOK(Frames)
    BY <2>1 DEF PreviewInit, PreviewTypeOK
  <2>3. Display
    BY <1>1, <2>1 DEF PreviewInit, Display, Empty, Torn, Freed
  <2> QED BY <2>1, <2>2, <2>3 DEF PreviewInit
<1>5. InCallback
  BY <1>1, <1>4 DEF InCallback
<1>6. Handed = {} /\ Waiting = {} /\ Elements(ready) = {} /\ Rising(ready)
  BY <1>1, EmptyQueue DEF Handed, Waiting
<1>7. Owners /\ Copies
  BY <1>1, <1>6 DEF Owners, Copies
<1> QED BY <1>3, <1>4, <1>5, <1>7 DEF CallbackInv, CopiesInv

(* The invariant is inductive. *)
LEMMA InvStep ==
  ASSUME CallbackInv, [Next]_vars
  PROVE  CallbackInv' /\ shown' >= shown
<1>1. FrameStep
  BY EveryFrameStep
<1>2. Typed' /\ InCallback' /\ Owners'
  BY <1>1, TypedStep, InCallbackStep, OwnersStep DEF CallbackInv
<1>3. PreviewStep /\ current' \in 0 .. MaxFrames /\ current' >= current
  BY EveryPreviewStep DEF CallbackInv
<1>4. current \in 0 .. MaxFrames /\ MaxFrames \in Nat
  BY FrameOwnershipAssumption DEF CallbackInv, Typed
<1>5. PreviewTypeOK(Frames)' /\ Display' /\ shown' >= shown
  BY <1>3, <1>4, DisplayStep DEF CallbackInv
<1> QED BY <1>2, <1>5 DEF CallbackInv

(* Every variable of the callback, the device and the previewer keeps its  *)
(* type, and a frame on its way to the encoder has a slot that is in use.  *)
THEOREM FrameTypeCorrect == Spec => []TypeOK
<1>1. Init => CallbackInv
  BY InitInv
<1>2. CallbackInv /\ [Next]_vars => CallbackInv'
  BY InvStep
<1>3. CallbackInv => TypeOK
  <2> SUFFICES ASSUME CallbackInv
               PROVE  TypeOK
    OBVIOUS
  <2> USE DEF CallbackInv
  <2>1. /\ path \in Paths /\ exposed \in 0 .. MaxFrames /\ current \in 0 .. exposed
        /\ callback \in {"idle", "record", "wait", "preview"}
        /\ {slot, nextSlot} \subseteq Slots
        /\ slotInUse \subseteq Slots /\ closed \in BOOLEAN
        /\ buffer \in [1 .. Last -> [Slots -> 0 .. MaxFrames]]
    BY DEF Typed, InCallback
  <2>2. \A s \in Streams : \A j \in DOMAIN stream[s] : stream[s][j] \in Op
    <3>1. \A s \in Streams : stream[s] \in Seq(Op)
      BY DEF Typed
    <3> QED BY <3>1
  <2>3. \A item \in encoding \cup {ready[j] : j \in DOMAIN ready} :
          item \in Item /\ item.slot \in slotInUse
    <3>1. DOMAIN ready = 1 .. Len(ready)
      BY DEF Typed
    <3>2. {ready[j] : j \in DOMAIN ready} = Elements(ready)
      BY <3>1 DEF Elements
    <3> QED BY <3>2, HandedTyped DEF Owners, Handed
  <2> QED BY <2>1, <2>2, <2>3 DEF TypeOK, Op, Item
<1> QED BY <1>1, <1>2, <1>3, PTL DEF Spec

(* The display never goes back to an older picture, and never shows one    *)
(* that was being overwritten or has been freed.                           *)
THEOREM DisplayAlwaysMovesForward == Spec => DisplayMovesForward
<1>1. Init => CallbackInv
  BY InitInv
<1>2. CallbackInv /\ [Next]_vars => CallbackInv'
  BY InvStep
<1>3. CallbackInv /\ [Next]_vars => [shown' >= shown]_shown
  BY InvStep
<1> QED BY <1>1, <1>2, <1>3, PTL DEF Spec, DisplayMovesForward

(* As long as the encoder may read a slot, the slot holds the picture of   *)
(* its frame: on every copy path on which the capture thread waits for the *)
(* camera's buffer to be read.                                             *)
THEOREM OwnPictureAlways ==
  ASSUME "encoded" \notin Paths
  PROVE  Spec => []OwnPicture
<1> DEFINE Inv == CallbackInv /\ Copies /\ path # "encoded"
<1>1. Init => Inv
  BY InitInv DEF CallbackInv, CopiesInv, Typed
<1>2. Inv /\ [Next]_vars => Inv'
  <2> SUFFICES ASSUME Inv, [Next]_vars
               PROVE  Inv'
    OBVIOUS
  <2>1. FrameStep
    BY EveryFrameStep
  <2>2. Copies' /\ path' # "encoded"
    BY <2>1, CopiesStep DEF CallbackInv
  <2> QED BY <2>2, InvStep
<1>3. Inv => OwnPicture
  <2>1. Inv => Last \in 1 .. Last
    BY RouteFacts DEF CallbackInv, Typed
  <2> QED BY <2>1 DEF Copies, EncodedGood, Made, OwnPicture
<1> QED BY <1>1, <1>2, <1>3, PTL DEF Spec

=============================================================================
