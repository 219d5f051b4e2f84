----------------------- MODULE CaptureSequence_proofs -----------------------
(***************************************************************************)
(* Theorems of MultiNvRecorder and CaptureSequence for every counter       *)
(* width, group size and number of lanes.  The invariant follows a cursor, *)
(* the source index below which every frame has been reported dropped or   *)
(* submitted: Clock ties it to the camera, Placed and Routing say what the *)
(* lanes have of the frames below it, Balance counts them.                 *)
(***************************************************************************)
EXTENDS CaptureSequence, FiniteSetTheorems, TLAPS

----------------------------------------------------------------------------
(* Modulus is the range of the camera's counter: lemmas about %.           *)

(* Quotient and remainder are unique.                                      *)
LEMMA RemainderUnique ==
  ASSUME NEW m \in Nat \ {0}, NEW x \in Int, NEW q \in Int, NEW r \in 0 .. m - 1,
         x = m * q + r
  PROVE  x % m = r
<1> DEFINE p == x \div m
           s == x % m
<1>1. p \in Int /\ s \in 0 .. m - 1 /\ x = m * p + s
  OBVIOUS
<1> HIDE DEF p, s
<1>2. m * q - m * p = m * (q - p)
  BY <1>1
<1>3. \A k \in Int : k >= 1 => m * k >= m
  <2> SUFFICES ASSUME NEW k \in Int, k >= 1
               PROVE  m * k >= m
    OBVIOUS
  <2>1. m * k = m + m * (k - 1)
    OBVIOUS
  <2>2. m * (k - 1) >= 0
    OBVIOUS
  <2> QED BY <2>1, <2>2
<1>4. \A k \in Int : k <= -1 => m * k <= -m
  <2> SUFFICES ASSUME NEW k \in Int, k <= -1
               PROVE  m * k <= -m
    OBVIOUS
  <2>1. m * (-k) >= m
    BY <1>3
  <2>2. m * (-k) = -(m * k)
    OBVIOUS
  <2>3. m * k \in Int
    OBVIOUS
  <2> QED BY <2>1, <2>2, <2>3
<1> DEFINE d == m * (q - p)
<1>5. d \in Int /\ d = s - r
  <2>1. m * q \in Int /\ m * p \in Int
    BY <1>1
  <2> QED BY <1>1, <1>2, <2>1
<1>6. q - p >= 1 => d >= m
  BY <1>1, <1>3
<1>7. q - p <= -1 => d <= -m
  BY <1>1, <1>4
<1>8. q - p = 0 => d = 0
  OBVIOUS
<1>9. q - p \in Int
  BY <1>1
<1> HIDE DEF d
<1>10. q - p = 0
  BY <1>1, <1>5, <1>6, <1>7, <1>9
<1>11. s = r
  BY <1>1, <1>5, <1>8, <1>10
<1> QED BY <1>11 DEF s

(* A multiple of m more or less does not change the remainder.             *)
LEMMA RemainderShift ==
  ASSUME NEW m \in Nat \ {0}, NEW x \in Int, NEW k \in Int
  PROVE  (x + m * k) % m = x % m
<1> DEFINE p == x \div m
           s == x % m
<1>1. p \in Int /\ s \in 0 .. m - 1 /\ x = m * p + s
  OBVIOUS
<1> HIDE DEF p, s
<1>2. m * p + m * k = m * (p + k)
  BY <1>1
<1>3. m * p \in Int /\ m * k \in Int /\ m * (p + k) \in Int /\ p + k \in Int
  BY <1>1
<1>4. x + m * k = m * (p + k) + s
  BY <1>1, <1>2, <1>3
<1>5. x + m * k \in Int
  BY <1>3
<1>6. (x + m * k) % m = s
  BY <1>1, <1>3, <1>4, <1>5, RemainderUnique
<1> QED BY <1>6 DEF s

(* What a difference of two counter values (less j) says of the difference *)
(* of the positions.                                                       *)
LEMMA RemainderOfDifference ==
  ASSUME NEW m \in Nat \ {0}, NEW a \in Int, NEW b \in Int, NEW j \in Int
  PROVE  ((a % m) - (b % m) - j) % m = (a - b - j) % m
<1> DEFINE p == a \div m
           s == a % m
           q == b \div m
           t == b % m
<1>1. p \in Int /\ s \in 0 .. m - 1 /\ a = m * p + s
  OBVIOUS
<1>2. q \in Int /\ t \in 0 .. m - 1 /\ b = m * q + t
  OBVIOUS
<1> HIDE DEF p, s, q, t
<1>3. m * p + m * (q - p) = m * q
  BY <1>1, <1>2
<1>4. m * p \in Int /\ m * q \in Int /\ m * (q - p) \in Int /\ q - p \in Int
  BY <1>1, <1>2
<1>5. s - t - j = (a - b - j) + m * (q - p)
  BY <1>1, <1>2, <1>3, <1>4
<1>6. ((a - b - j) + m * (q - p)) % m = (a - b - j) % m
  <2> DEFINE x == a - b - j
             k == q - p
  <2>1. x \in Int /\ k \in Int
    BY <1>4
  <2> HIDE DEF x, k
  <2>2. (x + m * k) % m = x % m
    BY <2>1, RemainderShift
  <2> QED BY <2>2, Zenon DEF x, k
<1>7. (s - t - j) % m = (a - b - j) % m
  BY <1>5, <1>6
<1> QED BY <1>7 DEF s, t

(* The remainder of a natural number: itself if it is less than m, and     *)
(* never more.                                                             *)
LEMMA RemainderOfNat ==
  ASSUME NEW m \in Nat \ {0}, NEW d \in Nat
  PROVE  d % m \in 0 .. m - 1 /\ d % m <= d /\ (d < m => d % m = d)
<1>1. d < m => d % m = d
  BY m * 0 = 0, RemainderUnique
<1>2. d % m \in 0 .. m - 1
  OBVIOUS
<1>3. d % m <= d
  BY <1>1, <1>2
<1> QED BY <1>1, <1>2, <1>3

(* PushFrame's step: never more than the camera advanced, and exactly that *)
(* as long as this is less than the counter's range.                       *)
LEMMA CounterStep ==
  ASSUME NEW p \in Nat, NEW d \in Nat, p < d
  PROVE  LET step == ((d % Modulus) - (p % Modulus)) % Modulus
         IN /\ step \in Nat /\ step <= d - p
            /\ d - p < Modulus => step = d - p
<1>1. Modulus \in Nat \ {0}
  BY RecorderAssumption
<1>2. ((d % Modulus) - (p % Modulus) - 0) % Modulus = (d - p - 0) % Modulus
  <2>1. d \in Int /\ p \in Int /\ 0 \in Int
    OBVIOUS
  <2> QED BY <1>1, <2>1, RemainderOfDifference, Zenon
<1>3. d % Modulus \in Int /\ p % Modulus \in Int
  BY <1>1
<1>4. ((d % Modulus) - (p % Modulus)) % Modulus = (d - p) % Modulus
  BY <1>2, <1>3
<1> DEFINE e == d - p
           s == ((d % Modulus) - (p % Modulus)) % Modulus
<1>5. e \in Nat
  OBVIOUS
<1>6. s = e % Modulus
  BY <1>4
<1> HIDE DEF e, s
<1>7. s \in Nat /\ s <= e /\ (e < Modulus => s = e)
  <2>1. e % Modulus \in 0 .. Modulus - 1 /\ e % Modulus <= e /\ (e < Modulus => e % Modulus = e)
    BY <1>1, <1>5, RemainderOfNat, Zenon
  <2> DEFINE v == e % Modulus
  <2> HIDE DEF v
  <2>2. v \in 0 .. Modulus - 1 /\ v <= e /\ (e < Modulus => v = e)
    BY <2>1 DEF v
  <2>3. s = v
    BY <1>6 DEF v
  <2> QED BY <1>1, <2>2, <2>3
<1> QED BY <1>7 DEF e, s

----------------------------------------------------------------------------
(* The groups of source indexes.                                           *)

(* A source index lies GopSize * Group(s) or up to GopSize - 1 above it.   *)
LEMMA GroupBounds ==
  ASSUME NEW s \in Nat
  PROVE  /\ Group(s) \in Nat
         /\ s % GopSize \in 0 .. GopSize - 1
         /\ s = GopSize * Group(s) + (s % GopSize)
BY RecorderAssumption DEF Group

(* Different groups start at least GopSize apart.                          *)
LEMMA GroupStarts ==
  ASSUME NEW a \in Nat, NEW b \in Nat, a < b
  PROVE  GopSize * a + GopSize <= GopSize * b
<1>1. \A d \in Nat : GopSize * d >= 0
  BY RecorderAssumption
<1>2. GopSize * b = GopSize * a + GopSize + GopSize * (b - a - 1)
  BY RecorderAssumption
<1>3. /\ b - a - 1 \in Nat
      /\ GopSize * a \in Int /\ GopSize * b \in Int /\ GopSize * (b - a - 1) \in Int
  BY RecorderAssumption
<1> QED BY <1>1, <1>2, <1>3, RecorderAssumption

(* Groups follow each other in the order of the source indexes.            *)
LEMMA GroupMonotonic ==
  ASSUME NEW s \in Nat, NEW t \in Nat, s <= t
  PROVE  Group(s) <= Group(t)
<1> DEFINE p == GopSize * Group(s)
           q == GopSize * Group(t)
<1>1. /\ s = p + (s % GopSize) /\ s % GopSize \in 0 .. GopSize - 1
      /\ t = q + (t % GopSize) /\ t % GopSize \in 0 .. GopSize - 1
      /\ Group(s) \in Nat /\ Group(t) \in Nat
  BY GroupBounds
<1>2. p \in Nat /\ q \in Nat
  BY <1>1, RecorderAssumption
<1>3. Group(t) < Group(s) => q + GopSize <= p
  BY <1>1, GroupStarts
<1> HIDE DEF p, q
<1>4. ~ (Group(t) < Group(s))
  BY <1>1, <1>2, <1>3, RecorderAssumption
<1> QED BY <1>1, <1>4

(* What RegisterMissingFrames reports in one go lies in one group.         *)
LEMMA RunInOneGroup ==
  ASSUME NEW s \in Nat, NEW n \in Nat, n <= GopSize - (s % GopSize),
         NEW t \in s .. s + n - 1
  PROVE  Group(t) = Group(s)
<1> DEFINE p == GopSize * Group(s)
           q == GopSize * Group(t)
           r == s % GopSize
           u == t % GopSize
<1>1. t \in Nat /\ s <= t
  OBVIOUS
<1>2. /\ s = p + r /\ r \in 0 .. GopSize - 1
      /\ t = q + u /\ u \in 0 .. GopSize - 1
      /\ Group(s) \in Nat /\ Group(t) \in Nat
  BY <1>1, GroupBounds
<1>3. p \in Nat /\ q \in Nat
  BY <1>2, RecorderAssumption
<1>4. Group(s) < Group(t) => p + GopSize <= q
  BY <1>2, GroupStarts
<1>5. Group(s) <= Group(t)
  BY <1>1, GroupMonotonic
<1>6. n <= GopSize - r
  OBVIOUS
<1> HIDE DEF p, q, r, u
<1>7. ~ (Group(s) < Group(t))
  BY <1>1, <1>2, <1>3, <1>4, <1>6, RecorderAssumption
<1> QED BY <1>2, <1>5, <1>7

(* The groups of the positions up to MaxPosition are all tracked.          *)
LEMMA GroupTracked ==
  ASSUME NEW s \in Nat, s <= MaxPosition
  PROVE  Group(s) \in Groups
<1>1. MaxPosition + Modulus \in Nat /\ s <= MaxPosition + Modulus
  BY RecorderAssumption
<1>2. Group(s) <= Group(MaxPosition + Modulus)
  BY <1>1, GroupMonotonic
<1> QED BY <1>1, <1>2, GroupBounds DEF Groups

----------------------------------------------------------------------------
(* The clock: where PushFrame is in the stream.                            *)

(* Between and inside the calls of PushFrame, source indexes follow the    *)
(* camera: never ahead of it, and in step with it until a gap is too large *)
(* to be seen.                                                             *)
Clock ==
  /\ camera <= MaxPosition
  /\ pc # "idle" => started /\ haveAcq
  /\ pc = "missing" => remaining > 0 /\ source + remaining = lastSource
  /\ pc \in {"route", "push"} => source = lastSource
  /\ pc = "push" => Group(source) \in DOMAIN routes
  /\ haveAcq => /\ position < camera /\ lastAcq = position % Modulus
                /\ first + lastSource <= position
                /\ ~hugeGap => first + lastSource = position
                /\ ~hugeGap /\ started => camera = position + 1

(* The step of the source index against that of the camera.                *)
LEMMA StepBounds ==
  ASSUME TypeOK, Clock, haveAcq, NEW skip \in 0 .. MaxPosition
  PROVE  /\ Step(skip) \in Nat /\ Step(skip) <= camera + skip - position
         /\ started /\ ~hugeGap /\ skip < Modulus \div 2 =>
              Step(skip) = skip + 1 /\ InOrder(skip)
<1>1. /\ skip \in Nat /\ Modulus \in Nat \ {0}
      /\ camera \in Nat /\ position \in Nat /\ position < camera
      /\ lastAcq = position % Modulus
      /\ started /\ ~hugeGap => camera = position + 1
  BY RecorderAssumption DEF TypeOK, Clock
<1> DEFINE d == camera + skip
<1>2. d \in Nat /\ position < d
  BY <1>1
<1>3. Step(skip) = ((d % Modulus) - (position % Modulus)) % Modulus
  BY <1>1, Zenon DEF Step, Acq, Delivered
<1>4. /\ Step(skip) \in Nat /\ Step(skip) <= d - position
      /\ d - position < Modulus => Step(skip) = d - position
  BY <1>1, <1>2, <1>3, CounterStep, Zenon
<1>5. ASSUME started, ~hugeGap, skip < Modulus \div 2
      PROVE  Step(skip) = skip + 1 /\ InOrder(skip)
  <2>1. /\ Modulus \div 2 \in Nat /\ Modulus \div 2 < Modulus
        /\ skip + 1 <= Modulus \div 2
    BY <1>1, <1>5
  <2>2. d - position = skip + 1
    BY <1>1, <1>5
  <2>3. Step(skip) = skip + 1
    BY <1>1, <1>4, <2>1, <2>2
  <2> QED BY <1>1, <2>1, <2>3 DEF InOrder
<1>6. Step(skip) \in Nat /\ Step(skip) <= camera + skip - position
  BY <1>1, <1>4
<1> QED BY <1>5, <1>6, Zenon

(* What registering a new group's route does to the map of routes.         *)
LEMMA NewRoute ==
  ASSUME NEW lane, RouteNewGroup(lane), TypeOK
  PROVE  /\ DOMAIN routes' = (DOMAIN routes \cup {Group(source)})
                               \ {Group(source) - KeepGroups}
         /\ Group(source) \in DOMAIN routes'
         /\ \A g \in DOMAIN routes' :
              routes'[g] = IF g = Group(source) THEN [lane |-> lane, needsIdr |-> TRUE]
                           ELSE routes[g]
<1>1. Group(source) \in Nat /\ Group(source) # Group(source) - KeepGroups
  <2>1. Group(source) \in Nat
    BY GroupBounds DEF TypeOK
  <2> QED BY <2>1, RecorderAssumption
<1> QED BY <1>1 DEF RouteNewGroup, With, Without

(* Reporting dropped frames keeps the counts natural numbers.              *)
LEMMA ReportedType ==
  ASSUME NEW g, NEW n \in Nat, TypeOK, reported' = [reported EXCEPT ![g] = @ + n]
  PROVE  /\ reported' \in [Groups -> Nat]
         /\ \A h \in Groups : reported'[h] = IF h = g THEN reported[h] + n ELSE reported[h]
<1>1. reported \in [Groups -> Nat]
  BY DEF TypeOK
<1>2. ASSUME NEW h \in Groups
      PROVE  /\ reported'[h] = IF h = g THEN reported[h] + n ELSE reported[h]
             /\ reported'[h] \in Nat
  <2>1. reported[h] \in Nat /\ reported[h] + n \in Nat
    BY <1>1
  <2>2. reported'[h] = IF h = g THEN reported[h] + n ELSE reported[h]
    BY <1>1
  <2> QED BY <2>1, <2>2
<1>3. DOMAIN reported' = Groups /\ reported' = [h \in DOMAIN reported' |-> reported'[h]]
  BY <1>1
<1> QED BY <1>2, <1>3

(* TypeOK and Clock, together, are kept by every step: the tracked groups  *)
(* are bounded because the source index never runs ahead of the camera.    *)
LEMMA ClockStep ==
  ASSUME TypeOK, Clock, [Next]_vars
  PROVE  TypeOK' /\ Clock'
<1>1. CASE Start
  <2>1. recordings' \in 0 .. MaxRecordings /\ 0 \in 0 .. Modulus - 1
    BY <1>1, RecorderAssumption DEF Start, TypeOK
  <2>2. /\ DOMAIN routes' \subseteq Groups
        /\ \A g \in DOMAIN routes' : routes'[g] \in [lane : Lanes, needsIdr : BOOLEAN]
    BY <1>1 DEF Start, NoRoutes
  <2>3. reported' \in [Groups -> Nat]
    BY <1>1 DEF Start
  <2>4. TypeOK'
    BY <1>1, <2>1, <2>2, <2>3 DEF Start, TypeOK
  <2>5. Clock'
    BY <1>1 DEF Start, Clock
  <2> QED BY <2>4, <2>5
<1>2. CASE Stop
  BY <1>2, RecorderAssumption DEF Stop, TypeOK, Clock, NoRoutes, recordingVars, sequenceVars
<1>3. ASSUME NEW skip \in 0 .. MaxPosition, Arrival(skip)
      PROVE  TypeOK' /\ Clock'
  <2>1. /\ skip \in Nat /\ Modulus \in Nat \ {0} /\ MaxPosition \in Nat
        /\ Delivered(skip) = camera + skip /\ camera + skip \in Nat
        /\ Acq(skip) = (camera + skip) % Modulus /\ Acq(skip) \in 0 .. Modulus - 1
    BY RecorderAssumption DEF TypeOK, Delivered, Acq
  <2>2. CASE FirstFrame(skip)
    <3>1. /\ camera' = camera + skip + 1 /\ camera + skip < MaxPosition
          /\ haveAcq' = TRUE /\ lastAcq' = Acq(skip) /\ lastSource' = 0
          /\ source' = 0 /\ pc' = "route" /\ started
          /\ first' = camera + skip /\ position' = camera + skip
          /\ UNCHANGED <<recordings, started, routes, remaining, framesDropped, hugeGap,
                         reported, submitted>>
      BY <2>1, <2>2 DEF FirstFrame, Delivers
    <3>2. TypeOK'
      BY <2>1, <3>1 DEF TypeOK
    <3>3. Clock'
      BY <2>1, <3>1 DEF TypeOK, Clock
    <3> QED BY <3>2, <3>3
  <2>3. CASE RejectFrame(skip)
    <3>1. hugeGap'
      <4>1. haveAcq /\ started /\ ~InOrder(skip) /\ hugeGap' = (hugeGap \/ skip >= Modulus \div 2)
        BY <2>3 DEF RejectFrame
      <4>2. ~ (started /\ ~hugeGap /\ skip < Modulus \div 2)
        BY <4>1, StepBounds, Zenon
      <4> DEFINE half == Modulus \div 2
      <4>3. half \in Nat
        BY <2>1
      <4> HIDE DEF half
      <4>4. skip < half \/ skip >= half
        BY <2>1, <4>3
      <4> QED BY <4>1, <4>2, <4>4, Zenon DEF half
    <3> QED BY <2>1, <2>3, <3>1 DEF RejectFrame, Delivers, TypeOK, Clock, sequenceVars
  <2>4. CASE NextFrame(skip)
    <3> DEFINE step == Step(skip)
    <3>1. /\ step \in Nat /\ step <= camera + skip - position
          /\ started /\ ~hugeGap /\ skip < Modulus \div 2 => step = skip + 1
      BY <2>4, StepBounds DEF NextFrame
    <3>2. step # 0
      BY <2>4 DEF NextFrame, InOrder
    <3> HIDE DEF step
    <3>3. /\ pc = "idle" /\ started /\ haveAcq /\ camera + skip < MaxPosition
          /\ camera' = camera + skip + 1
          /\ remaining' = step - 1 /\ source' = lastSource + 1
          /\ pc' = IF remaining' > 0 THEN "missing" ELSE "route"
          /\ lastSource' = lastSource + step /\ lastAcq' = Acq(skip)
          /\ position' = camera + skip
          /\ hugeGap' = (hugeGap \/ skip >= Modulus \div 2)
          /\ UNCHANGED <<started, recordings, first, haveAcq, routes, framesDropped,
                         reported, submitted>>
      BY <2>1, <2>4 DEF NextFrame, Delivers, step
    <3>4. TypeOK'
      BY <2>1, <3>1, <3>2, <3>3 DEF TypeOK
    <3>5. Clock'
      <4>1. /\ camera \in Nat /\ position \in Nat /\ first \in Nat /\ lastSource \in Nat
            /\ position < camera /\ first + lastSource <= position
            /\ ~hugeGap => first + lastSource = position /\ camera = position + 1
            /\ Modulus \div 2 \in Nat /\ hugeGap \in BOOLEAN
        BY <2>1, <3>3 DEF TypeOK, Clock
      <4>2. ~hugeGap' => ~hugeGap /\ skip < Modulus \div 2
        <5> DEFINE half == Modulus \div 2
        <5>1. half \in Nat
          BY <4>1
        <5> HIDE DEF half
        <5>2. skip < half \/ skip >= half
          BY <2>1, <5>1
        <5> QED BY <3>3, <5>2, Zenon DEF half
      <4>3. ~hugeGap' => step = skip + 1
        BY <3>1, <3>3, <4>2, Zenon
      <4>4. /\ first' + lastSource' <= position'
            /\ ~hugeGap' => first' + lastSource' = position' /\ camera' = position' + 1
        BY <2>1, <3>1, <3>3, <4>1, <4>2, <4>3
      <4>5. remaining' > 0 => source' + remaining' = lastSource'
        BY <3>1, <3>3, <4>1
      <4>6. remaining' \in Nat /\ (~ (remaining' > 0) => source' = lastSource')
        BY <3>1, <3>2, <3>3, <4>1
      <4>7. position' < camera' /\ camera' <= MaxPosition
        BY <2>1, <3>3
      <4>8. lastAcq' = position' % Modulus /\ pc' \in {"missing", "route"}
        BY <2>1, <3>3
      <4> QED BY <3>3, <4>4, <4>5, <4>6, <4>7, <4>8 DEF Clock
    <3> QED BY <3>4, <3>5
  <2>5. CASE IgnoredFrame(skip)
    BY <2>1, <2>5 DEF IgnoredFrame, Delivers, TypeOK, Clock, sequenceVars
  <2> QED BY <1>3, <2>2, <2>3, <2>4, <2>5 DEF Arrival
<1>4. CASE RegisterMissing
  <2> DEFINE n == InThisGroup
  <2>1. n \in Nat /\ n > 0 /\ n <= remaining
    <3>1. source % GopSize \in 0 .. GopSize - 1
      BY GroupBounds DEF TypeOK
    <3> QED BY <1>4, <3>1, RecorderAssumption DEF RegisterMissing, InThisGroup, TypeOK, Clock
  <2> HIDE DEF n
  <2>2. /\ pc = "missing"
        /\ reported' = [reported EXCEPT ![Group(source)] = @ + n]
        /\ source' = source + n /\ remaining' = remaining - n
        /\ pc' = IF remaining' > 0 THEN "missing" ELSE "route"
        /\ UNCHANGED <<camera, recordingVars, sequenceVars, routes, framesDropped, position,
                       hugeGap, submitted>>
    BY <1>4 DEF RegisterMissing, n
  <2>3. TypeOK'
    <3>1. reported' \in [Groups -> Nat]
      BY <2>1, <2>2, ReportedType
    <3>2. source' \in Nat /\ remaining' \in Nat
      BY <2>1, <2>2 DEF TypeOK
    <3> QED BY <2>2, <3>1, <3>2 DEF TypeOK, recordingVars, sequenceVars
  <2>4. Clock'
    BY <2>1, <2>2 DEF TypeOK, Clock, recordingVars, sequenceVars
  <2> QED BY <2>3, <2>4
<1>5. ASSUME NEW lane \in Lanes, RouteNewGroup(lane)
      PROVE  TypeOK' /\ Clock'
  <2>1. /\ pc = "route" /\ pc' = "push"
        /\ UNCHANGED <<camera, recordingVars, sequenceVars, source, remaining, framesDropped,
                       position, hugeGap, reported, submitted>>
    BY <1>5 DEF RouteNewGroup
  <2>2. Group(source) \in Groups
    <3>1. /\ source \in Nat /\ lastSource \in Nat /\ first \in Nat /\ position \in Nat
          /\ source = lastSource /\ first + lastSource <= position
          /\ position < camera /\ camera <= MaxPosition /\ camera \in Nat
      BY <2>1 DEF TypeOK, Clock
    <3>2. source <= MaxPosition
      BY <3>1, RecorderAssumption
    <3> QED BY <3>1, <3>2, GroupTracked
  <2>3. DOMAIN routes' \subseteq Groups
    BY <1>5, <2>2, NewRoute DEF TypeOK
  <2>4. \A g \in DOMAIN routes' : routes'[g] \in [lane : Lanes, needsIdr : BOOLEAN]
    <3> SUFFICES ASSUME NEW g \in DOMAIN routes'
                 PROVE  routes'[g] \in [lane : Lanes, needsIdr : BOOLEAN]
      OBVIOUS
    <3>1. CASE g = Group(source)
      <4>1. routes'[g] = [lane |-> lane, needsIdr |-> TRUE]
        BY <1>5, <3>1, NewRoute
      <4> QED BY <4>1
    <3>2. CASE g # Group(source)
      <4>1. routes'[g] = routes[g] /\ g \in DOMAIN routes
        BY <1>5, <3>2, NewRoute
      <4> QED BY <4>1 DEF TypeOK
    <3> QED BY <3>1, <3>2
  <2>5. TypeOK'
    BY <2>1, <2>3, <2>4 DEF TypeOK, recordingVars, sequenceVars
  <2>6. Clock'
    BY <1>5, <2>1, NewRoute DEF Clock, recordingVars, sequenceVars
  <2> QED BY <2>5, <2>6
<1>6. CASE RouteKnownGroup
  BY <1>6 DEF RouteKnownGroup, TypeOK, Clock, recordingVars, sequenceVars
<1>7. CASE DropFrame
  <2>1. reported' \in [Groups -> Nat] /\ framesDropped' \in Nat
    <3>1. reported' \in [Groups -> Nat]
      BY <1>7, ReportedType DEF DropFrame
    <3> QED BY <1>7, <3>1 DEF DropFrame, TypeOK
  <2>2. TypeOK'
    BY <1>7, <2>1 DEF DropFrame, TypeOK, recordingVars, sequenceVars
  <2>3. Clock'
    BY <1>7 DEF DropFrame, Clock, recordingVars, sequenceVars
  <2> QED BY <2>2, <2>3
<1>8. CASE SubmitFrame
  <2> DEFINE g == Group(source)
  <2>1. /\ pc = "push" /\ pc' = "idle"
        /\ submitted' = submitted \cup {[source |-> source, position |-> position,
                                         lane |-> routes[g].lane,
                                         forceIdr |-> routes[g].needsIdr]}
        /\ routes' = [routes EXCEPT ![g].needsIdr = FALSE]
        /\ UNCHANGED <<camera, recordingVars, sequenceVars, source, remaining, framesDropped,
                       position, hugeGap, reported>>
    BY <1>8 DEF SubmitFrame
  <2>2. g \in DOMAIN routes /\ routes[g] \in [lane : Lanes, needsIdr : BOOLEAN]
    BY <2>1 DEF TypeOK, Clock
  <2> HIDE DEF g
  <2>3. DOMAIN routes' = DOMAIN routes
    BY <2>1
  <2>4. \A h \in DOMAIN routes' : routes'[h] \in [lane : Lanes, needsIdr : BOOLEAN]
    <3>1. routes'[g] = [routes[g] EXCEPT !.needsIdr = FALSE]
      BY <2>1, <2>2
    <3>2. routes'[g] \in [lane : Lanes, needsIdr : BOOLEAN]
      BY <2>2, <3>1
    <3>3. \A h \in DOMAIN routes : h # g => routes'[h] = routes[h]
      BY <2>1
    <3> QED BY <2>3, <3>2, <3>3 DEF TypeOK
  <2>5. submitted' \subseteq [source : Nat, position : Nat, lane : Lanes, forceIdr : BOOLEAN]
    BY <2>1, <2>2 DEF TypeOK
  <2>6. TypeOK'
    BY <2>1, <2>3, <2>4, <2>5 DEF TypeOK, recordingVars, sequenceVars
  <2>7. Clock'
    BY <2>1, <2>3 DEF Clock, recordingVars, sequenceVars
  <2> QED BY <2>6, <2>7
<1>9. CASE UNCHANGED vars
  BY <1>9 DEF vars, TypeOK, Clock, recordingVars, sequenceVars
<1> QED BY <1>1, <1>2, <1>3, <1>4, <1>5, <1>6, <1>7, <1>8, <1>9 DEF Next, Route

----------------------------------------------------------------------------
(* The cursor: every source index below it has been reported or submitted. *)

Cursor == IF ~haveAcq THEN 0 ELSE IF pc = "idle" THEN lastSource + 1 ELSE source

(* The cursor is a source index. *)
LEMMA CursorType == ASSUME TypeOK PROVE Cursor \in Nat
BY DEF TypeOK, Cursor

(* Only RegisterMissingFrames, a drop and a submission move the cursor;    *)
(* everything else takes or gives up a frame without deciding one.         *)
LEMMA CursorKept ==
  ASSUME TypeOK, Clock,
         \/ Stop \/ Route \/ UNCHANGED vars
         \/ \E skip \in 0 .. MaxPosition : Arrival(skip)
  PROVE  /\ Cursor' = Cursor
         /\ UNCHANGED submitted
         /\ haveAcq => haveAcq' /\ first' = first
         /\ started' => started
         /\ hugeGap => hugeGap'
         /\ Route \/ routes' = routes \/ (~started' /\ routes' = NoRoutes)
<1>1. CASE Stop
  BY <1>1 DEF Stop, Cursor, sequenceVars
<1>2. CASE Route
  <2>1. /\ pc = "route" /\ pc' = "push"
        /\ UNCHANGED <<recordingVars, sequenceVars, source, hugeGap, submitted>>
    BY <1>2 DEF Route, RouteNewGroup, RouteKnownGroup
  <2> QED BY <1>2, <2>1 DEF Cursor, recordingVars, sequenceVars
<1>3. CASE UNCHANGED vars
  BY <1>3 DEF vars, Cursor, recordingVars, sequenceVars
<1>4. ASSUME NEW skip \in 0 .. MaxPosition, Arrival(skip)
      PROVE  /\ Cursor' = Cursor
             /\ haveAcq => haveAcq' /\ first' = first
             /\ hugeGap => hugeGap'
             /\ started' = started /\ submitted' = submitted /\ routes' = routes
  <2>1. CASE FirstFrame(skip)
    BY <2>1 DEF FirstFrame, Delivers, Cursor
  <2>2. CASE RejectFrame(skip)
    BY <2>2 DEF RejectFrame, Delivers, Cursor, sequenceVars
  <2>3. CASE NextFrame(skip)
    <3>1. source' = lastSource + 1 /\ haveAcq /\ haveAcq' /\ pc = "idle" /\ pc' # "idle"
      BY <2>3 DEF NextFrame, Delivers
    <3> QED BY <2>3, <3>1 DEF NextFrame, Delivers, Cursor
  <2>4. CASE IgnoredFrame(skip)
    BY <2>4 DEF IgnoredFrame, Delivers, Cursor, sequenceVars
  <2> QED BY <1>4, <2>1, <2>2, <2>3, <2>4 DEF Arrival
<1>5. CASE \E skip \in 0 .. MaxPosition : Arrival(skip)
  BY <1>4, <1>5, Zenon
<1> QED BY <1>1, <1>2, <1>3, <1>5, Zenon

(* What is reported in one go: the cursor moves over it, inside one group. *)
LEMMA MissingRun ==
  ASSUME TypeOK, Clock, RegisterMissing
  PROVE  /\ InThisGroup \in Nat /\ InThisGroup <= GopSize - (source % GopSize)
         /\ Cursor = source /\ Cursor' = source + InThisGroup
         /\ Group(source) \in Groups
<1>1. source % GopSize \in 0 .. GopSize - 1 /\ source \in Nat /\ remaining \in Nat
  BY GroupBounds DEF TypeOK
<1>2. InThisGroup \in Nat /\ InThisGroup <= GopSize - (source % GopSize)
  BY <1>1, RecorderAssumption DEF InThisGroup
<1>3. Cursor = source /\ Cursor' = source + InThisGroup
  BY DEF RegisterMissing, Cursor, Clock, sequenceVars
<1>4. source <= MaxPosition
  BY <1>1, RecorderAssumption DEF RegisterMissing, TypeOK, Clock
<1> QED BY <1>1, <1>2, <1>3, <1>4, GroupTracked

(* A drop or a submission decides the frame at the cursor.                 *)
LEMMA FrameDecided ==
  ASSUME TypeOK, Clock, DropFrame \/ SubmitFrame
  PROVE  /\ source \in Nat /\ Cursor = source /\ Cursor' = source + 1
         /\ Group(source) \in Groups /\ Group(source) \in DOMAIN routes
<1>1. /\ source \in Nat /\ lastSource \in Nat /\ first \in Nat /\ position \in Nat
      /\ source = lastSource /\ first + lastSource <= position
      /\ position < camera /\ camera <= MaxPosition /\ camera \in Nat
      /\ pc = "push" /\ pc' = "idle" /\ haveAcq /\ UNCHANGED sequenceVars
      /\ Group(source) \in DOMAIN routes
  BY DEF TypeOK, Clock, DropFrame, SubmitFrame
<1>2. source <= MaxPosition
  BY <1>1, RecorderAssumption
<1> QED BY <1>1, <1>2, GroupTracked DEF Cursor, sequenceVars

----------------------------------------------------------------------------
(* Positions.                                                              *)

(* The frames submitted are frames of this recording, and are where they   *)
(* say they are.                                                           *)
Placed ==
  /\ ~haveAcq => submitted = {}
  /\ \A f \in submitted : f.source < Cursor
  /\ SourceIsPosition

(* Placed is kept by every step. *)
LEMMA PlacedStep ==
  ASSUME TypeOK, Clock, Placed, [Next]_vars
  PROVE  Placed'
<1>1. Cursor \in Nat
  BY CursorType
<1>2. CASE Start
  BY <1>2 DEF Start, Placed, SourceIsPosition
<1>3. CASE \/ Stop \/ Route \/ UNCHANGED vars
           \/ \E skip \in 0 .. MaxPosition : Arrival(skip)
  BY <1>3, CursorKept DEF Placed, SourceIsPosition
<1>4. CASE RegisterMissing
  <2>1. InThisGroup \in Nat /\ Cursor' = Cursor + InThisGroup
    BY <1>4, MissingRun
  <2>2. UNCHANGED <<haveAcq, submitted, hugeGap, first>>
    BY <1>4 DEF RegisterMissing, recordingVars, sequenceVars
  <2>3. \A f \in submitted : f.source \in Nat /\ f.source < Cursor
    BY DEF Placed, TypeOK
  <2>4. \A f \in submitted : f.source < Cursor'
    BY <1>1, <2>1, <2>3
  <2> QED BY <2>2, <2>4 DEF Placed, SourceIsPosition
<1>5. CASE DropFrame
  <2>1. Cursor' = Cursor + 1
    BY <1>5, FrameDecided
  <2>2. UNCHANGED <<haveAcq, submitted, hugeGap, first>>
    BY <1>5 DEF DropFrame, recordingVars, sequenceVars
  <2>3. \A f \in submitted : f.source \in Nat /\ f.source < Cursor
    BY DEF Placed, TypeOK
  <2>4. \A f \in submitted : f.source < Cursor'
    BY <1>1, <2>1, <2>3
  <2> QED BY <2>2, <2>4 DEF Placed, SourceIsPosition
<1>6. CASE SubmitFrame
  <2> DEFINE new == [source |-> source, position |-> position,
                     lane |-> routes[Group(source)].lane,
                     forceIdr |-> routes[Group(source)].needsIdr]
  <2>1. Cursor' = source + 1 /\ Cursor = source /\ source \in Nat
    BY <1>6, FrameDecided
  <2>2. /\ submitted' = submitted \cup {new} /\ haveAcq
        /\ UNCHANGED <<haveAcq, hugeGap, first>>
        /\ ~hugeGap => position = first + source
    BY <1>6 DEF SubmitFrame, Clock, recordingVars, sequenceVars
  <2>3. \A f \in submitted : f.source \in Nat /\ f.source < Cursor
    BY DEF Placed, TypeOK
  <2>4. \A f \in submitted' : f.source < Cursor'
    BY <2>1, <2>2, <2>3
  <2>5. SourceIsPosition'
    BY <2>2 DEF Placed, SourceIsPosition
  <2> QED BY <2>2, <2>4, <2>5 DEF Placed
<1> QED BY <1>2, <1>3, <1>4, <1>5, <1>6 DEF Next

----------------------------------------------------------------------------
(* Routes and IDR requests.                                                *)

(* While a recording runs, the route of a group with submitted frames is   *)
(* on record, or the cursor has left the group for good; a route says      *)
(* which lane the group's frames went to, and asks for an IDR picture just *)
(* as long as none went.                                                   *)
Routing ==
  /\ started => \A f \in submitted : \/ Group(f.source) \in DOMAIN routes
                                     \/ Group(f.source) < Group(Cursor)
  /\ \A g \in DOMAIN routes :
       /\ \A f \in SubmittedIn(g) : f.lane = routes[g].lane /\ ~routes[g].needsIdr
       /\ ~routes[g].needsIdr => SubmittedIn(g) # {}
  /\ OneIdrPerGroup

(* Routing is kept when nothing is submitted and no route changes.         *)
LEMMA RoutingKept ==
  ASSUME TypeOK, Placed, Routing, Cursor' \in Nat, Cursor <= Cursor',
         UNCHANGED submitted, started' => started,
         routes' = routes \/ (~started' /\ routes' = NoRoutes)
  PROVE  Routing'
<1>1. \A f \in submitted : Group(f.source) < Group(Cursor) => Group(f.source) < Group(Cursor')
  <2>1. Cursor \in Nat
    BY CursorType
  <2>2. /\ Group(Cursor) \in Nat /\ Group(Cursor') \in Nat
        /\ Group(Cursor) <= Group(Cursor')
    BY <2>1, GroupMonotonic, GroupBounds
  <2>3. \A f \in submitted : Group(f.source) \in Nat
    BY GroupBounds DEF TypeOK
  <2> QED BY <2>2, <2>3
<1>2. OneIdrPerGroup'
  BY DEF Routing, OneIdrPerGroup, SubmittedIn
<1>3. CASE routes' = routes
  BY <1>1, <1>2, <1>3 DEF Routing, SubmittedIn
<1>4. CASE ~started' /\ routes' = NoRoutes
  BY <1>2, <1>4 DEF Routing, NoRoutes
<1> QED BY <1>3, <1>4

(* Routing is kept by every step. *)
LEMMA RoutingStep ==
  ASSUME TypeOK, Clock, Placed, Routing, [Next]_vars
  PROVE  Routing'
<1>1. Cursor \in Nat /\ Cursor' \in Nat
  BY ClockStep, CursorType DEF TypeOK, Cursor
<1>2. CASE Start
  BY <1>2 DEF Start, Routing, OneIdrPerGroup, NoRoutes
<1>3. CASE \/ Stop \/ RouteKnownGroup \/ UNCHANGED vars
           \/ \E skip \in 0 .. MaxPosition : Arrival(skip)
  <2>1. \/ Stop \/ Route \/ UNCHANGED vars
        \/ \E skip \in 0 .. MaxPosition : Arrival(skip)
    BY <1>3 DEF Route
  <2>2. ASSUME NEW lane \in Lanes, RouteNewGroup(lane)
        PROVE  ~ (Stop \/ RouteKnownGroup \/ UNCHANGED vars
                  \/ \E skip \in 0 .. MaxPosition : Arrival(skip))
    <3>1. pc = "route" /\ pc' # pc
      BY <2>2 DEF RouteNewGroup
    <3>2. ~ UNCHANGED vars
      BY <3>1 DEF vars
    <3>3. ~ Stop /\ \A skip \in 0 .. MaxPosition : ~ Arrival(skip)
      BY <3>1 DEF Stop, Arrival, FirstFrame, RejectFrame, NextFrame, IgnoredFrame, Delivers
    <3>4. ~ RouteKnownGroup
      BY <2>2 DEF RouteNewGroup, RouteKnownGroup
    <3> QED BY <3>2, <3>3, <3>4
  <2>3. RouteKnownGroup => routes' = routes
    BY DEF RouteKnownGroup
  <2>4. routes' = routes \/ (~started' /\ routes' = NoRoutes)
    BY <1>3, <2>1, <2>2, <2>3, CursorKept DEF Route
  <2> QED BY <1>1, <2>1, <2>4, CursorKept, RoutingKept
<1>4. CASE RegisterMissing
  <2>1. Cursor <= Cursor'
    BY <1>1, <1>4, MissingRun
  <2>2. UNCHANGED <<submitted, started, routes>>
    BY <1>4 DEF RegisterMissing, recordingVars
  <2> QED BY <1>1, <2>1, <2>2, RoutingKept
<1>5. CASE DropFrame
  <2>1. Cursor <= Cursor'
    BY <1>1, <1>5, FrameDecided
  <2>2. UNCHANGED <<submitted, started, routes>>
    BY <1>5 DEF DropFrame, recordingVars
  <2> QED BY <1>1, <2>1, <2>2, RoutingKept
<1>6. ASSUME NEW lane \in Lanes, RouteNewGroup(lane)
      PROVE  Routing'
  <2> DEFINE g == Group(source)
  <2>1. /\ Cursor = source /\ Cursor' = source
        /\ g \notin DOMAIN routes /\ started
        /\ UNCHANGED <<submitted, started>>
    BY <1>6 DEF RouteNewGroup, Clock, Cursor, recordingVars, sequenceVars
  <2>2. /\ DOMAIN routes' = (DOMAIN routes \cup {g}) \ {g - KeepGroups}
        /\ g \in DOMAIN routes'
        /\ routes'[g] = [lane |-> lane, needsIdr |-> TRUE]
        /\ \A h \in DOMAIN routes' : h # g => h \in DOMAIN routes /\ routes'[h] = routes[h]
    BY <1>6, NewRoute
  <2>3. g \in Nat /\ g - KeepGroups < g /\ g - KeepGroups \in Int
    <3>1. g \in Nat
      BY GroupBounds DEF TypeOK
    <3> QED BY <3>1, RecorderAssumption
  <2> HIDE DEF g
  <2>4. ASSUME NEW f \in submitted
        PROVE  Group(f.source) \in DOMAIN routes \/ Group(f.source) < g
    BY <2>1 DEF Routing, g
  <2>5. ASSUME NEW f \in submitted
        PROVE  Group(f.source) \in DOMAIN routes' \/ Group(f.source) < g
    BY <2>2, <2>3, <2>4
  <2>6. SubmittedIn(g) = {}
    BY <2>1, <2>3, <2>4 DEF SubmittedIn
  <2>7. ASSUME NEW h \in DOMAIN routes'
        PROVE  /\ \A f \in SubmittedIn(h) : f.lane = routes'[h].lane /\ ~routes'[h].needsIdr
               /\ ~routes'[h].needsIdr => SubmittedIn(h) # {}
    <3>1. CASE h = g
      BY <2>2, <2>6, <3>1
    <3>2. CASE h # g
      BY <2>2, <3>2 DEF Routing
    <3> QED BY <3>1, <3>2
  <2>8. \A h : SubmittedIn(h)' = SubmittedIn(h)
    BY <2>1 DEF SubmittedIn
  <2>9. OneIdrPerGroup'
    BY <2>1 DEF Routing, OneIdrPerGroup, SubmittedIn
  <2>10. Group(Cursor') = g
    BY <2>1 DEF g
  <2> QED BY <2>1, <2>5, <2>7, <2>8, <2>9, <2>10 DEF Routing, SubmittedIn
<1>7. CASE SubmitFrame
  <2> DEFINE g == Group(source)
             new == [source |-> source, position |-> position,
                     lane |-> routes[g].lane, forceIdr |-> routes[g].needsIdr]
  <2>1. /\ Cursor = source /\ Cursor' = source + 1 /\ source \in Nat
        /\ g \in DOMAIN routes /\ started
    BY <1>7, FrameDecided DEF SubmitFrame, Clock
  <2>2. /\ submitted' = submitted \cup {new}
        /\ routes' = [routes EXCEPT ![g].needsIdr = FALSE]
        /\ UNCHANGED started
    BY <1>7 DEF SubmitFrame, recordingVars
  <2>3. routes[g] \in [lane : Lanes, needsIdr : BOOLEAN]
    BY <2>1 DEF TypeOK
  <2>4. /\ DOMAIN routes' = DOMAIN routes
        /\ routes'[g].lane = routes[g].lane /\ routes'[g].needsIdr = FALSE
        /\ \A h \in DOMAIN routes : h # g => routes'[h] = routes[h]
    BY <2>1, <2>2, <2>3
  <2>5. /\ new.source = source /\ new.lane = routes[g].lane
        /\ new.forceIdr = routes[g].needsIdr /\ Group(new.source) = g
    OBVIOUS
  <2> HIDE DEF new, g
  <2>6. \A f \in submitted : f.source \in Nat /\ f.source < source
    BY <2>1 DEF Placed, TypeOK
  <2>7. ASSUME NEW k
        PROVE  SubmittedIn(k)' = IF k = g THEN SubmittedIn(k) \cup {new} ELSE SubmittedIn(k)
    <3>1. SubmittedIn(k)' = {f \in submitted \cup {new} : Group(f.source) = k}
      BY <2>2 DEF SubmittedIn
    <3> QED BY <2>5, <3>1 DEF SubmittedIn
  <2>8. ASSUME NEW f \in submitted'
        PROVE  Group(f.source) \in DOMAIN routes' \/ Group(f.source) < Group(Cursor')
    <3>1. CASE f = new
      BY <2>1, <2>4, <2>5, <3>1
    <3>2. CASE f # new
      <4>1. f \in submitted
        BY <2>2, <3>2
      <4>2. CASE Group(f.source) \in DOMAIN routes
        BY <2>4, <4>2
      <4>3. CASE Group(f.source) < Group(Cursor)
        <5>1. /\ Group(Cursor) <= Group(Cursor')
              /\ Group(Cursor) \in Nat /\ Group(Cursor') \in Nat
          BY <1>1, <2>1, GroupMonotonic, GroupBounds
        <5>2. Group(f.source) \in Nat
          BY <2>6, <4>1, GroupBounds
        <5> QED BY <4>3, <5>1, <5>2
      <4> QED BY <2>1, <4>1, <4>2, <4>3 DEF Routing
    <3> QED BY <3>1, <3>2
  <2>9. ASSUME NEW h \in DOMAIN routes'
        PROVE  /\ \A f \in SubmittedIn(h)' : f.lane = routes'[h].lane /\ ~routes'[h].needsIdr
               /\ ~routes'[h].needsIdr => SubmittedIn(h)' # {}
    <3>1. CASE h = g
      BY <2>1, <2>4, <2>5, <2>7, <3>1 DEF Routing
    <3>2. CASE h # g
      BY <2>4, <2>7, <3>2 DEF Routing
    <3> QED BY <3>1, <3>2
  <2>10. OneIdrPerGroup'
    <3> SUFFICES ASSUME NEW f \in submitted', NEW h \in submitted',
                        Group(f.source) = Group(h.source)
                 PROVE  /\ f.lane = h.lane
                        /\ f.forceIdr <=> \A e \in SubmittedIn(Group(f.source))' :
                                             f.source <= e.source
      BY DEF OneIdrPerGroup, SubmittedIn
    <3>1. CASE Group(f.source) # g
      <4>1. f \in submitted /\ h \in submitted
        BY <2>2, <2>5, <3>1
      <4> QED BY <2>7, <3>1, <4>1 DEF Routing, OneIdrPerGroup
    <3>2. CASE Group(f.source) = g
      <4>1. \A e \in SubmittedIn(g) : e.lane = routes[g].lane /\ ~routes[g].needsIdr
        BY <2>1 DEF Routing
      <4>2. routes[g].needsIdr \/ SubmittedIn(g) # {}
        BY <2>1 DEF Routing
      <4>3. f \in SubmittedIn(g) \cup {new} /\ h \in SubmittedIn(g) \cup {new}
        BY <2>2, <3>2 DEF SubmittedIn
      <4> DEFINE after == SubmittedIn(Group(f.source))'
      <4>0. after = SubmittedIn(g) \cup {new}
        BY <2>7, <3>2
      <4> HIDE DEF after
      <4>4. f.lane = h.lane
        BY <2>5, <4>1, <4>3
      <4>5. CASE f = new
        <5>1. CASE routes[g].needsIdr
          <6>1. SubmittedIn(g) = {}
            BY <4>1, <5>1
          <6>2. \A e \in after : f.source <= e.source
            BY <2>1, <2>5, <4>0, <4>5, <6>1
          <6> QED BY <2>5, <4>4, <4>5, <5>1, <6>2 DEF after
        <5>2. CASE ~routes[g].needsIdr
          <6>1. PICK e \in SubmittedIn(g) : TRUE
            BY <4>2, <5>2
          <6>2. e \in submitted /\ e.source < source /\ e.source \in Nat
            BY <2>6, <6>1 DEF SubmittedIn
          <6>3. ~ (f.source <= e.source)
            BY <2>1, <2>5, <4>5, <6>2
          <6>4. ~ f.forceIdr
            BY <2>5, <4>5, <5>2
          <6>5. e \in after
            BY <4>0, <6>1
          <6> QED BY <4>4, <6>3, <6>4, <6>5 DEF after
        <5> QED BY <5>1, <5>2
      <4>6. CASE f # new
        <5>1. f \in submitted /\ f \in SubmittedIn(g)
          BY <4>3, <4>6 DEF SubmittedIn
        <5>2. f.forceIdr <=> \A e \in SubmittedIn(g) : f.source <= e.source
          BY <3>2, <5>1 DEF Routing, OneIdrPerGroup
        <5>3. f.source <= new.source
          BY <2>1, <2>5, <2>6, <5>1
        <5>4. (\A e \in after : f.source <= e.source)
                <=> \A e \in SubmittedIn(g) : f.source <= e.source
          BY <4>0, <5>3
        <5> QED BY <4>4, <5>2, <5>4 DEF after
      <4> QED BY <4>5, <4>6
    <3> QED BY <3>1, <3>2
  <2> QED BY <2>8, <2>9, <2>10 DEF Routing, SubmittedIn
<1> QED BY <1>2, <1>3, <1>4, <1>5, <1>6, <1>7 DEF Next, Route

----------------------------------------------------------------------------
(* Counting the frames of a group.                                         *)

\* The source indexes of group g that are below c.
Passed(g, c) == {s \in 0 .. c - 1 : Group(s) = g}

(* They are finitely many. *)
LEMMA PassedFinite ==
  ASSUME NEW g, NEW c \in Nat
  PROVE  IsFiniteSet(Passed(g, c)) /\ Cardinality(Passed(g, c)) \in Nat
<1>1. IsFiniteSet(0 .. c - 1)
  BY FS_Interval
<1>2. Passed(g, c) \subseteq 0 .. c - 1
  BY DEF Passed
<1>3. IsFiniteSet(Passed(g, c))
  BY <1>1, <1>2, FS_Subset
<1> QED BY <1>3, FS_CardinalityType

(* A run of n indexes inside one group adds n to that group, and nothing   *)
(* to the others.                                                          *)
LEMMA PassedRun ==
  ASSUME NEW g, NEW c \in Nat, NEW n \in Nat, n <= GopSize - (c % GopSize)
  PROVE  Cardinality(Passed(g, c + n)) =
           IF g = Group(c) THEN Cardinality(Passed(g, c)) + n ELSE Cardinality(Passed(g, c))
<1> DEFINE run == c .. c + n - 1
<1>1. \A s \in run : Group(s) = Group(c)
  BY RunInOneGroup
<1>2. 0 .. (c + n) - 1 = (0 .. c - 1) \cup run /\ (0 .. c - 1) \cap run = {}
  OBVIOUS
<1>3. IsFiniteSet(run) /\ Cardinality(run) = n
  <2>1. c \in Int /\ c + n - 1 \in Int
    OBVIOUS
  <2>2. /\ IsFiniteSet(run)
        /\ Cardinality(run) = IF c > c + n - 1 THEN 0 ELSE (c + n - 1) - c + 1
    BY <2>1, FS_Interval
  <2> QED BY <2>2
<1> HIDE DEF run
<1>4. CASE g = Group(c)
  <2>1. Passed(g, c + n) = Passed(g, c) \cup run
    BY <1>1, <1>2, <1>4 DEF Passed
  <2>2. Passed(g, c) \cap run = {}
    BY <1>2 DEF Passed
  <2>3. Cardinality(Passed(g, c) \cup run) =
          Cardinality(Passed(g, c)) + Cardinality(run) - Cardinality(Passed(g, c) \cap run)
    BY <1>3, PassedFinite, FS_Union
  <2>4. Cardinality(Passed(g, c) \cap run) = 0
    BY <2>2, FS_EmptySet
  <2>5. Cardinality(Passed(g, c)) \in Nat
    BY PassedFinite
  <2>6. Cardinality(Passed(g, c) \cup run) = Cardinality(Passed(g, c)) + n
    BY <1>3, <2>3, <2>4, <2>5
  <2> QED BY <1>4, <2>1, <2>6
<1>5. CASE g # Group(c)
  <2>1. Passed(g, c + n) = Passed(g, c)
    BY <1>1, <1>2, <1>5 DEF Passed
  <2> QED BY <1>5, <2>1
<1> QED BY <1>4, <1>5

(* The balance at every point of PushFrame, not only between its calls.    *)
Balance ==
  /\ IsFiniteSet(submitted)
  /\ \A g \in Groups : reported[g] + Cardinality(SubmittedIn(g)) = Cardinality(Passed(g, Cursor))

(* A group has finitely many submitted frames. *)
LEMMA SubmittedFinite ==
  ASSUME IsFiniteSet(submitted), NEW g
  PROVE  IsFiniteSet(SubmittedIn(g)) /\ Cardinality(SubmittedIn(g)) \in Nat
<1>1. SubmittedIn(g) \subseteq submitted
  BY DEF SubmittedIn
<1>2. IsFiniteSet(SubmittedIn(g))
  BY <1>1, FS_Subset
<1> QED BY <1>2, FS_CardinalityType

(* The frame at the cursor is a run of one. *)
LEMMA OneFrame ==
  ASSUME NEW g, NEW c \in Nat
  PROVE  Cardinality(Passed(g, c + 1)) =
           IF g = Group(c) THEN Cardinality(Passed(g, c)) + 1 ELSE Cardinality(Passed(g, c))
<1>1. 1 <= GopSize - (c % GopSize)
  BY GroupBounds, RecorderAssumption
<1> QED BY <1>1, PassedRun

(* Balance is kept by every step. *)
LEMMA BalanceStep ==
  ASSUME TypeOK, Clock, Placed, Balance, [Next]_vars
  PROVE  Balance'
<1>1. Cursor \in Nat /\ \A g \in Groups : reported[g] \in Nat
  BY CursorType DEF TypeOK
<1>2. CASE Start
  <2>1. IsFiniteSet(submitted')
    BY <1>2, FS_EmptySet DEF Start
  <2>2. Cursor' = 0
    BY <1>2 DEF Start, Cursor
  <2>3. ASSUME NEW g \in Groups
        PROVE  /\ reported'[g] = 0
               /\ Cardinality(SubmittedIn(g)') = 0
               /\ Cardinality(Passed(g, Cursor')) = 0
    <3>1. SubmittedIn(g)' = {} /\ reported'[g] = 0
      BY <1>2 DEF Start, SubmittedIn
    <3>2. Passed(g, Cursor') = {}
      BY <2>2 DEF Passed
    <3> QED BY <3>1, <3>2, FS_EmptySet
  <2>4. \A g \in Groups :
          reported'[g] + Cardinality(SubmittedIn(g)') = Cardinality(Passed(g, Cursor'))
    BY <2>3
  <2> QED BY <2>1, <2>4 DEF Balance, SubmittedIn, Passed, Groups, Group
<1>3. CASE \/ Stop \/ Route \/ UNCHANGED vars
           \/ \E skip \in 0 .. MaxPosition : Arrival(skip)
  <2>1. Cursor' = Cursor /\ UNCHANGED submitted
    BY <1>3, CursorKept
  <2>2. UNCHANGED reported
    BY <1>3 DEF Stop, Route, RouteNewGroup, RouteKnownGroup, vars, Arrival,
                FirstFrame, RejectFrame, NextFrame, IgnoredFrame
  <2> QED BY <2>1, <2>2 DEF Balance, SubmittedIn, Passed
<1>4. CASE RegisterMissing
  <2> DEFINE n == InThisGroup
  <2>1. /\ n \in Nat /\ n <= GopSize - (source % GopSize)
        /\ Cursor = source /\ Cursor' = source + n
    BY <1>4, MissingRun
  <2>2. reported' = [reported EXCEPT ![Group(source)] = @ + n] /\ submitted' = submitted
    BY <1>4 DEF RegisterMissing
  <2> HIDE DEF n
  <2>3. ASSUME NEW g \in Groups
        PROVE  reported'[g] + Cardinality(SubmittedIn(g)') = Cardinality(Passed(g, Cursor'))
    <3>1. Cardinality(Passed(g, Cursor')) =
            IF g = Group(source) THEN Cardinality(Passed(g, Cursor)) + n
                                 ELSE Cardinality(Passed(g, Cursor))
      BY <1>1, <2>1, PassedRun
    <3>2. reported'[g] = IF g = Group(source) THEN reported[g] + n ELSE reported[g]
      BY <2>1, <2>2, ReportedType
    <3>3. SubmittedIn(g)' = SubmittedIn(g)
      BY <2>2 DEF SubmittedIn
    <3>4. /\ Cardinality(SubmittedIn(g)) \in Nat
          /\ reported[g] + Cardinality(SubmittedIn(g)) = Cardinality(Passed(g, Cursor))
      BY SubmittedFinite DEF Balance
    <3> QED BY <1>1, <2>1, <3>1, <3>2, <3>3, <3>4
  <2> QED BY <2>2, <2>3 DEF Balance, SubmittedIn, Passed
<1>5. CASE DropFrame
  <2>1. source \in Nat /\ Cursor = source /\ Cursor' = source + 1
    BY <1>5, FrameDecided
  <2>2. reported' = [reported EXCEPT ![Group(source)] = @ + 1] /\ submitted' = submitted
    BY <1>5 DEF DropFrame
  <2>3. ASSUME NEW g \in Groups
        PROVE  reported'[g] + Cardinality(SubmittedIn(g)') = Cardinality(Passed(g, Cursor'))
    <3>1. Cardinality(Passed(g, Cursor')) =
            IF g = Group(source) THEN Cardinality(Passed(g, Cursor)) + 1
                                 ELSE Cardinality(Passed(g, Cursor))
      BY <2>1, OneFrame
    <3>2. reported'[g] = IF g = Group(source) THEN reported[g] + 1 ELSE reported[g]
      BY <2>2, ReportedType
    <3>3. SubmittedIn(g)' = SubmittedIn(g)
      BY <2>2 DEF SubmittedIn
    <3>4. /\ Cardinality(SubmittedIn(g)) \in Nat
          /\ reported[g] + Cardinality(SubmittedIn(g)) = Cardinality(Passed(g, Cursor))
      BY SubmittedFinite DEF Balance
    <3> QED BY <1>1, <3>1, <3>2, <3>3, <3>4
  <2> QED BY <2>2, <2>3 DEF Balance, SubmittedIn, Passed
<1>6. CASE SubmitFrame
  <2> DEFINE new == [source |-> source, position |-> position,
                     lane |-> routes[Group(source)].lane,
                     forceIdr |-> routes[Group(source)].needsIdr]
  <2>1. source \in Nat /\ Cursor = source /\ Cursor' = source + 1
    BY <1>6, FrameDecided
  <2>2. submitted' = submitted \cup {new} /\ reported' = reported
    BY <1>6 DEF SubmitFrame
  <2>3. new.source = source
    OBVIOUS
  <2> HIDE DEF new
  <2>4. new \notin submitted
    BY <2>1, <2>3 DEF Placed
  <2>5. IsFiniteSet(submitted')
    BY <2>2, FS_AddElement DEF Balance
  <2>6. ASSUME NEW g \in Groups
        PROVE  reported'[g] + Cardinality(SubmittedIn(g)') = Cardinality(Passed(g, Cursor'))
    <3>1. Cardinality(Passed(g, Cursor')) =
            IF g = Group(source) THEN Cardinality(Passed(g, Cursor)) + 1
                                 ELSE Cardinality(Passed(g, Cursor))
      BY <2>1, OneFrame
    <3>2. SubmittedIn(g)' = IF g = Group(source) THEN SubmittedIn(g) \cup {new}
                                                 ELSE SubmittedIn(g)
      <4>1. SubmittedIn(g)' = {f \in submitted \cup {new} : Group(f.source) = g}
        BY <2>2 DEF SubmittedIn
      <4> QED BY <2>3, <4>1 DEF SubmittedIn
    <3>3. /\ IsFiniteSet(SubmittedIn(g)) /\ Cardinality(SubmittedIn(g)) \in Nat
          /\ reported[g] + Cardinality(SubmittedIn(g)) = Cardinality(Passed(g, Cursor))
      BY SubmittedFinite DEF Balance
    <3>4. Cardinality(SubmittedIn(g) \cup {new}) = Cardinality(SubmittedIn(g)) + 1
      <4>1. new \notin SubmittedIn(g)
        BY <2>4 DEF SubmittedIn
      <4> QED BY <3>3, <4>1, FS_AddElement
    <3> QED BY <1>1, <2>2, <3>1, <3>2, <3>3, <3>4
  <2> QED BY <2>5, <2>6 DEF Balance, SubmittedIn, Passed
<1> QED BY <1>2, <1>3, <1>4, <1>5, <1>6 DEF Next

----------------------------------------------------------------------------
(* The same numbers, counted by XimeaCapture.                              *)

(* Quotients grow with the dividend. *)
LEMMA QuotientMonotonic ==
  ASSUME NEW m \in Nat \ {0}, NEW c \in Nat, NEW skip \in Nat
  PROVE  c \div m <= (c + skip) \div m
<1> DEFINE p == c \div m
           q == (c + skip) \div m
           r == c % m
           s == (c + skip) % m
<1>1. /\ p \in Int /\ r \in 0 .. m - 1 /\ c = m * p + r
      /\ q \in Int /\ s \in 0 .. m - 1 /\ c + skip = m * q + s
  OBVIOUS
<1> HIDE DEF p, q, r, s
<1>2. SUFFICES ASSUME q < p
               PROVE  FALSE
  BY <1>1 DEF p, q
<1>3. m * p = m * q + m + m * (p - q - 1) /\ m * (p - q - 1) >= 0
  <2>1. p - q - 1 \in Nat
    BY <1>1, <1>2
  <2>2. \A k \in Nat : m * k >= 0
    OBVIOUS
  <2>3. \A x, y \in Int : m * x = m * y + m + m * (x - y - 1)
    OBVIOUS
  <2> QED BY <1>1, <2>1, <2>2, <2>3
<1>4. m * p \in Int /\ m * q \in Int
  BY <1>1
<1> QED BY <1>1, <1>3, <1>4

(* Counting an image: the frames added to the lost ones are at most those  *)
(* that the camera took in between, and exactly those if its number did    *)
(* not wrap round in the gap.                                              *)
LEMMA GapCounted ==
  ASSUME NEW c \in Nat, NEW skip \in Nat, c > 0, lastImage = (c - 1) % Modulus
  PROVE  LET acq  == (c + skip) % Modulus
             lost == (acq - lastImage - 1) % Modulus
         IN /\ lost \in Nat /\ lost <= skip
            /\ ~ (c \div Modulus < (c + skip) \div Modulus) =>
                 IF Capture!IsAhead(acq) THEN lost = skip ELSE skip = 0
<1> DEFINE acq  == (c + skip) % Modulus
           lost == (acq - lastImage - 1) % Modulus
<1>1. Modulus \in Nat \ {0}
  BY RecorderAssumption
<1>2. lost = skip % Modulus
  <2> DEFINE a == c + skip
             b == c - 1
             e == a - b - 1
  <2>1. a \in Int /\ b \in Int /\ 1 \in Int /\ e = skip
    OBVIOUS
  <2> HIDE DEF a, b
  <2>2. ((a % Modulus) - (b % Modulus) - 1) % Modulus = (a - b - 1) % Modulus
    BY <1>1, <2>1, RemainderOfDifference, Zenon
  <2>3. lost = ((a % Modulus) - (b % Modulus) - 1) % Modulus
    BY Zenon DEF a, b
  <2> QED BY <2>1, <2>2, <2>3, Zenon
<1>3. skip % Modulus \in Nat /\ skip % Modulus <= skip /\ (skip < Modulus => skip % Modulus = skip)
  BY <1>1, RemainderOfNat
<1>4. (lastImage + 1) % Modulus = c % Modulus
  <2> DEFINE k == (c - 1) \div Modulus
  <2>1. /\ k \in Int /\ lastImage \in 0 .. Modulus - 1
        /\ c - 1 = Modulus * k + lastImage
    BY <1>1
  <2> HIDE DEF k
  <2>2. Modulus * k \in Int
    BY <1>1, <2>1
  <2>3. c = (lastImage + 1) + Modulus * k
    BY <2>1, <2>2
  <2>4. lastImage + 1 \in Int
    BY <1>1, <2>1
  <2>5. ((lastImage + 1) + Modulus * k) % Modulus = (lastImage + 1) % Modulus
    <3> DEFINE x == lastImage + 1
    <3>1. x \in Int
      BY <2>4
    <3> HIDE DEF x
    <3>2. (x + Modulus * k) % Modulus = x % Modulus
      BY <1>1, <2>1, <3>1, RemainderShift, Zenon
    <3> QED BY <3>2, Zenon DEF x
  <2> QED BY <2>3, <2>5, Zenon
<1>5. ASSUME ~ (c \div Modulus < (c + skip) \div Modulus)
      PROVE  IF acq > c % Modulus THEN skip % Modulus = skip ELSE skip = 0
  <2> DEFINE p == c \div Modulus
             q == (c + skip) \div Modulus
             r == c % Modulus
             s == (c + skip) % Modulus
  <2>1. /\ p \in Int /\ r \in 0 .. Modulus - 1 /\ c = Modulus * p + r
        /\ q \in Int /\ s \in 0 .. Modulus - 1 /\ c + skip = Modulus * q + s
    BY <1>1
  <2>2. p = q
    BY <1>1, <1>5, <2>1, QuotientMonotonic
  <2> HIDE DEF p, q, r, s
  <2>3. Modulus * p \in Int
    BY <1>1, <2>1
  <2>4. skip = s - r
    BY <1>1, <2>1, <2>2, <2>3
  <2>5. skip < Modulus
    BY <1>1, <2>1, <2>4
  <2>6. IF s > r THEN TRUE ELSE skip = 0
    BY <1>1, <2>1, <2>4
  <2> QED BY <1>3, <2>5, <2>6 DEF r, s
<1> HIDE DEF lost
<1> QED BY <1>2, <1>3, <1>4, <1>5 DEF Capture!IsAhead, lost

(* Where the counters are between two images.                              *)
Counted ==
  /\ haveLast \in BOOLEAN /\ wrapInGap \in BOOLEAN
  /\ captured \in Nat /\ dropped \in Nat
  /\ ~haveLast => captured = 0 /\ dropped = 0 /\ ~wrapInGap
  /\ haveLast => /\ start \in Nat /\ start < camera
                 /\ lastImage = (camera - 1) % Modulus
  /\ CaptureCountsLosses

(* Counted is kept by every step. *)
LEMMA CountedStep ==
  ASSUME TypeOK, Counted, [SequenceNext]_sequenceSpecVars
  PROVE  Counted'
<1>1. ASSUME UNCHANGED captureVars, UNCHANGED camera
      PROVE  Counted'
  BY <1>1 DEF captureVars, Counted, CaptureCountsLosses
<1>2. CASE RecorderStep
  <2>1. UNCHANGED camera
    BY <1>2 DEF RecorderStep, Start, Stop, RegisterMissing, Route, RouteNewGroup,
                RouteKnownGroup, DropFrame, SubmitFrame
  <2> QED BY <1>1, <1>2, <2>1 DEF RecorderStep
<1>3. CASE UNCHANGED sequenceSpecVars
  BY <1>1, <1>3 DEF sequenceSpecVars, vars
<1>4. ASSUME NEW skip \in 0 .. MaxPosition, CaptureLoop(skip)
      PROVE  Counted'
  <2> DEFINE acq  == (camera + skip) % Modulus
             lost == (acq - lastImage - 1) % Modulus
             ahead == Capture!IsAhead(acq)
  <2>1. skip \in Nat /\ camera \in Nat /\ Modulus \in Nat \ {0}
    BY RecorderAssumption DEF TypeOK
  <2>2. camera' = (camera + skip) + 1
    BY <1>4 DEF CaptureLoop, Arrival, FirstFrame, RejectFrame, NextFrame, IgnoredFrame,
                Delivers, Delivered
  <2>3. /\ dropped' = IF haveLast /\ ahead THEN dropped + lost ELSE dropped
        /\ lastImage' = acq /\ haveLast' = TRUE /\ captured' = captured + 1
        /\ start' = IF haveLast THEN start ELSE camera + skip
        /\ wrapInGap' = \/ wrapInGap
                        \/ haveLast /\ camera \div Modulus < (camera + skip) \div Modulus
    BY <1>4 DEF CaptureLoop, Capture!CountFrame, Acq, Delivered
  <2>4. (camera' - 1) = camera + skip
    BY <2>1, <2>2
  <2>5. lastImage' = (camera' - 1) % Modulus
    BY <2>3, <2>4
  <2>6. CASE ~haveLast
    <3>1. /\ captured' = 1 /\ dropped' = 0 /\ start' = camera + skip /\ ~wrapInGap'
      BY <2>3, <2>6 DEF Counted
    <3>2. captured' + dropped' = camera' - start'
      BY <2>1, <2>2, <3>1
    <3> QED BY <2>1, <2>2, <2>3, <2>5, <3>1, <3>2 DEF Counted, CaptureCountsLosses
  <2>7. CASE haveLast
    <3>1. /\ start \in Nat /\ start < camera /\ captured \in Nat /\ dropped \in Nat
          /\ captured + dropped <= camera - start
          /\ ~wrapInGap => captured + dropped = camera - start
          /\ lastImage = (camera - 1) % Modulus
      BY <2>7 DEF Counted, CaptureCountsLosses
    <3> HIDE DEF acq
    <3>2. /\ lost \in Nat /\ lost <= skip
          /\ ~ (camera \div Modulus < (camera + skip) \div Modulus) =>
               IF ahead THEN lost = skip ELSE skip = 0
      <4>1. camera > 0
        BY <2>1, <3>1
      <4> QED BY <2>1, <3>1, <4>1, GapCounted, Zenon DEF acq
    <3> HIDE DEF lost, ahead
    <3>3. /\ dropped' \in Nat /\ captured' \in Nat
          /\ captured' + dropped' <= camera' - start'
      BY <2>1, <2>2, <2>3, <2>7, <3>1, <3>2
    <3>4. ASSUME ~wrapInGap'
          PROVE  captured' + dropped' = camera' - start'
      <4>1. ~wrapInGap /\ (IF ahead THEN lost = skip ELSE skip = 0)
        BY <2>3, <2>7, <3>2, <3>4, Zenon
      <4> QED BY <2>1, <2>2, <2>3, <2>7, <3>1, <3>2, <4>1
    <3>5. start' \in Nat /\ start' < camera'
      BY <2>1, <2>2, <2>3, <2>7, <3>1
    <3>6. wrapInGap' \in BOOLEAN /\ haveLast'
      BY <2>3 DEF Counted
    <3> QED BY <2>5, <3>3, <3>4, <3>5, <3>6 DEF Counted, CaptureCountsLosses
  <2> QED BY <2>6, <2>7 DEF Counted
<1> QED BY <1>2, <1>3, <1>4 DEF SequenceNext

----------------------------------------------------------------------------
(* The theorems.                                                           *)

\* The inductive invariant: of PushFrame, and of the capture thread.
IInv == TypeOK /\ Clock /\ Placed /\ Routing /\ Balance

(* Every step of the capture thread is a step of PushFrame, or none.       *)
LEMMA SequenceStepIsRecorderStep ==
  ASSUME [SequenceNext]_sequenceSpecVars
  PROVE  [Next]_vars
<1>1. CASE RecorderStep
  BY <1>1 DEF RecorderStep, Next
<1>2. ASSUME NEW skip \in 0 .. MaxPosition, CaptureLoop(skip)
      PROVE  Next
  BY <1>2 DEF CaptureLoop, Next
<1>3. CASE UNCHANGED sequenceSpecVars
  BY <1>3 DEF sequenceSpecVars
<1> QED BY <1>1, <1>2, <1>3 DEF SequenceNext

(* The invariant holds before the first frame. *)
LEMMA InitIInv == Init => IInv
<1> SUFFICES ASSUME Init
             PROVE  IInv
  OBVIOUS
<1>1. TypeOK
  <2>1. 0 \in 0 .. MaxRecordings /\ 0 \in 0 .. Modulus - 1
    BY RecorderAssumption
  <2>2. reported \in [Groups -> Nat]
    BY DEF Init
  <2>3. DOMAIN routes = {}
    BY DEF Init, NoRoutes
  <2> QED BY <2>1, <2>2, <2>3 DEF Init, TypeOK
<1>2. Clock /\ Cursor = 0
  BY RecorderAssumption DEF Init, Clock, Cursor
<1>3. Placed
  BY DEF Init, Placed, SourceIsPosition
<1>4. Routing
  BY DEF Init, Routing, OneIdrPerGroup, NoRoutes
<1>5. Balance
  <2>1. ASSUME NEW g \in Groups
        PROVE  SubmittedIn(g) = {} /\ Passed(g, Cursor) = {} /\ reported[g] = 0
    BY <1>2 DEF Init, SubmittedIn, Passed
  <2> QED BY <2>1, FS_EmptySet DEF Init, Balance
<1> QED BY <1>1, <1>2, <1>3, <1>4, <1>5 DEF IInv

(* Every step keeps it. *)
LEMMA StepIInv == IInv /\ [Next]_vars => IInv'
BY ClockStep, PlacedStep, RoutingStep, BalanceStep DEF IInv

(* GroupsBalance is the balance between two calls of PushFrame.            *)
LEMMA BalanceBetweenCalls == IInv => GroupsBalance
<1> SUFFICES ASSUME IInv, pc = "idle", haveAcq, NEW g \in 0 .. Group(lastSource)
             PROVE  reported[g] + Cardinality(SubmittedIn(g)) = PassedIn(g)
  BY DEF GroupsBalance
<1>1. lastSource \in Nat /\ lastSource <= MaxPosition
  BY RecorderAssumption DEF IInv, TypeOK, Clock
<1>2. Group(lastSource) \in Groups
  BY <1>1, GroupTracked
<1>3. g \in Groups
  <2>1. Group(MaxPosition + Modulus) \in Nat /\ Group(lastSource) \in Nat
    <3>1. MaxPosition + Modulus \in Nat
      BY RecorderAssumption
    <3> QED BY <1>1, <3>1, GroupBounds
  <2> QED BY <1>2, <2>1 DEF Groups
<1>4. PassedIn(g) = Cardinality(Passed(g, Cursor))
  <2>1. 0 .. Cursor - 1 = 0 .. lastSource
    BY <1>1 DEF Cursor
  <2> QED BY <2>1 DEF PassedIn, Passed
<1> QED BY <1>3, <1>4 DEF IInv, Balance

(* The recorder's variables keep their types; in particular the map of     *)
(* routes and the dropped counts speak of groups the camera has reached.   *)
THEOREM RecorderTypeCorrect == Spec => []TypeOK
BY InitIInv, StepIInv, PTL DEF Spec, IInv

(* A submitted frame's source index is its distance from the recording's   *)
(* first frame, for every counter width, unless half the counter's range   *)
(* was missed in one go.                                                   *)
THEOREM SourceIsAlwaysPosition == Spec => []SourceIsPosition
BY InitIInv, StepIInv, PTL DEF Spec, IInv, Placed

(* What the serializer is told of a group and what the lanes were given of *)
(* it make up the group, whatever was lost on the way.                     *)
THEOREM GroupsAlwaysBalance == Spec => []GroupsBalance
BY InitIInv, StepIInv, BalanceBetweenCalls, PTL DEF Spec

(* A group goes to one lane and its first submitted frame, and no other,   *)
(* asks for an IDR picture.                                                *)
THEOREM OneIdrPerGroupAlways == Spec => []OneIdrPerGroup
BY InitIInv, StepIInv, PTL DEF Spec, IInv, Routing

\* The invariant of the capture thread.
SequenceIInv == IInv /\ Counted

(* It holds initially and is kept by every step. *)
LEMMA SequenceInvariant == SequenceSpec => []SequenceIInv
<1>1. SequenceInit => SequenceIInv
  <2> SUFFICES ASSUME SequenceInit
               PROVE  Counted
    BY InitIInv DEF SequenceInit, SequenceIInv
  <2> QED BY DEF SequenceInit, Capture!StartAcquisition, Counted, CaptureCountsLosses
<1>2. SequenceIInv /\ [SequenceNext]_sequenceSpecVars => SequenceIInv'
  BY StepIInv, CountedStep, SequenceStepIsRecorderStep DEF SequenceIInv, IInv
<1> QED BY <1>1, <1>2, PTL DEF SequenceSpec

(* The capture thread behaves as PushFrame's specification allows, so that *)
(* the theorems above hold of it.                                          *)
THEOREM SequenceRefinesRecorder == SequenceSpec => Spec
<1>1. SequenceInit => Init
  BY DEF SequenceInit
<1> QED BY <1>1, SequenceStepIsRecorderStep, PTL DEF SequenceSpec, Spec

(* The camera statistics never count a frame twice, and count every frame  *)
(* as long as the frame number does not wrap round inside a gap.           *)
THEOREM CaptureAlwaysCountsLosses == SequenceSpec => []CaptureCountsLosses
BY SequenceInvariant, PTL DEF SequenceIInv, Counted
=============================================================================
