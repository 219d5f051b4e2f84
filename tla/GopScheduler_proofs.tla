------------------------- MODULE GopScheduler_proofs -------------------------
(***************************************************************************)
(* Theorems of GopScheduler for every number of lanes, all weights and     *)
(* bounds: no group is given away or forgotten, and each cycle is exact.   *)
(*                                                                         *)
(* Sums over the lanes need induction.  The library's induction theorems   *)
(* have a predicate as parameter; SetInduction states the same for a set   *)
(* of numbers, from the well-foundedness of <, and is used with the set    *)
(* {n \in Nat : ...} of the numbers with the property.                     *)
(***************************************************************************)
EXTENDS GopScheduler, WellFoundedInduction, TLAPS

LessThan == {ss \in Nat \X Nat : ss[1] < ss[2]}

(* There is no endless descent in the natural numbers. *)
LEMMA LessThanWellFounded == IsWellFoundedOn(LessThan, Nat)
BY NatLessThanWellFounded DEF OpToRel, LessThan

(* A non-empty set of numbers has a least element. *)
LEMMA LeastElement ==
  ASSUME NEW T, T \subseteq Nat, T # {}
  PROVE  \E x \in T : \A y \in T : x <= y
<1>1. PICK x \in T : \A y \in T : <<y, x>> \notin LessThan
  BY LessThanWellFounded, WFMin
<1>2. ASSUME NEW y \in T
      PROVE  x <= y
  <2>1. x \in Nat /\ y \in Nat
    OBVIOUS
  <2>2. y < x => <<y, x>> \in LessThan
    BY <2>1 DEF LessThan
  <2> QED BY <1>1, <2>1, <2>2
<1> QED BY <1>2

(* Induction: a set with 0 and with the successor of each of its numbers   *)
(* has all numbers.                                                        *)
LEMMA SetInduction ==
  ASSUME NEW S, 0 \in S, \A n \in Nat : n \in S => n + 1 \in S
  PROVE  Nat \subseteq S
<1> DEFINE T == Nat \ S
<1> SUFFICES ASSUME T # {}
             PROVE  FALSE
  OBVIOUS
<1>1. PICK x \in T : \A y \in T : x <= y
  BY LeastElement
<1>2. x \in Nat /\ x # 0
  OBVIOUS
<1>3. x - 1 \in Nat /\ x - 1 \notin T
  BY <1>1, <1>2
<1>4. (x - 1) + 1 \in S
  BY <1>3
<1>5. (x - 1) + 1 = x
  BY <1>2
<1> QED BY <1>4, <1>5

----------------------------------------------------------------------------
(* The sum over the lanes.                                                 *)

\* g[n] is the sum of f over the first n lanes, for n up to m.
IsPrefixSum(g, f, m) ==
  g = [n \in 0 .. m |-> IF n = 0 THEN 0 ELSE g[n - 1] + f[n - 1]]

(* The recursive function of SumOver exists. *)
LEMMA PrefixSumExists ==
  ASSUME NEW f \in [Lanes -> Int]
  PROVE  \E g \in [0 .. NumLanes -> Int] : IsPrefixSum(g, f, NumLanes)
<1> DEFINE S == {m \in Nat : m <= NumLanes => \E g \in [0 .. m -> Int] : IsPrefixSum(g, f, m)}
<1>1. 0 \in S
  <2> DEFINE g == [n \in 0 .. 0 |-> 0]
  <2>1. g \in [0 .. 0 -> Int] /\ IsPrefixSum(g, f, 0)
    BY DEF IsPrefixSum
  <2> QED BY <2>1
<1>2. ASSUME NEW m \in Nat, m \in S
      PROVE  m + 1 \in S
  <2> SUFFICES ASSUME m + 1 <= NumLanes
               PROVE  \E g \in [0 .. m + 1 -> Int] : IsPrefixSum(g, f, m + 1)
    OBVIOUS
  <2>1. PICK g \in [0 .. m -> Int] : IsPrefixSum(g, f, m)
    BY <1>2, SchedulerAssumption
  <2> DEFINE h == [n \in 0 .. m + 1 |-> IF n = m + 1 THEN g[m] + f[m] ELSE g[n]]
  <2>2. f[m] \in Int
    BY SchedulerAssumption DEF Lanes
  <2>3. h \in [0 .. m + 1 -> Int]
    BY <2>2
  <2>4. ASSUME NEW n \in 0 .. m + 1
        PROVE  h[n] = IF n = 0 THEN 0 ELSE h[n - 1] + f[n - 1]
    <3>1. CASE n = m + 1
      BY <3>1
    <3>2. CASE n # m + 1
      <4>1. n \in 0 .. m
        BY <3>2
      <4>2. g[n] = IF n = 0 THEN 0 ELSE g[n - 1] + f[n - 1]
        BY <2>1, <4>1 DEF IsPrefixSum
      <4> QED BY <4>1, <4>2
    <3> QED BY <3>1, <3>2
  <2>5. IsPrefixSum(h, f, m + 1)
    BY <2>3, <2>4 DEF IsPrefixSum
  <2> QED BY <2>3, <2>5
<1> HIDE DEF S
<1>3. Nat \subseteq S
  BY <1>1, <1>2, SetInduction
<1> QED BY <1>3, SchedulerAssumption DEF S

(* SumOver is the last of the prefix sums, which are whole numbers. *)
LEMMA SumOverIsPrefixSum ==
  ASSUME NEW f \in [Lanes -> Int]
  PROVE  \E g \in [0 .. NumLanes -> Int] :
           /\ SumOver(f) = g[NumLanes]
           /\ g[0] = 0
           /\ \A m \in Lanes : g[m + 1] = g[m] + f[m]
<1> DEFINE g == CHOOSE h : IsPrefixSum(h, f, NumLanes)
<1>1. IsPrefixSum(g, f, NumLanes)
  BY PrefixSumExists
<1>2. SumOver(f) = g[NumLanes]
  BY DEF SumOver, IsPrefixSum
<1> HIDE DEF g
<1>3. g[0] = 0 /\ \A m \in Lanes : g[m + 1] = g[m] + f[m]
  <2>1. 0 \in 0 .. NumLanes
    BY SchedulerAssumption
  <2>2. ASSUME NEW m \in Lanes
        PROVE  g[m + 1] = g[m] + f[m]
    <3>1. m + 1 \in 0 .. NumLanes /\ m + 1 # 0 /\ (m + 1) - 1 = m
      BY SchedulerAssumption DEF Lanes
    <3> QED BY <1>1, <3>1 DEF IsPrefixSum
  <2> QED BY <1>1, <2>1, <2>2 DEF IsPrefixSum
<1> DEFINE S == {m \in Nat : m <= NumLanes => g[m] \in Int}
<1>4. Nat \subseteq S
  <2>1. ASSUME NEW m \in Nat, m \in S
        PROVE  m + 1 \in S
    BY <1>3, <2>1, SchedulerAssumption DEF Lanes
  <2>2. 0 \in S
    BY <1>3
  <2> HIDE DEF S
  <2> QED BY <2>1, <2>2, SetInduction
<1>5. g \in [0 .. NumLanes -> Int]
  <2>1. ASSUME NEW m \in 0 .. NumLanes
        PROVE  g[m] \in Int
    BY <1>4, SchedulerAssumption
  <2>2. g = [m \in 0 .. NumLanes |-> g[m]]
    BY <1>1 DEF IsPrefixSum
  <2> QED BY <2>1, <2>2
<1> QED BY <1>2, <1>3, <1>5

(* The sum of whole numbers is a whole number. *)
LEMMA SumOverInt == \A f \in [Lanes -> Int] : SumOver(f) \in Int
BY SumOverIsPrefixSum, SchedulerAssumption

(* The sum of two functions is the sum of their sums. *)
LEMMA SumOverAdd ==
  ASSUME NEW f \in [Lanes -> Int], NEW g \in [Lanes -> Int]
  PROVE  SumOver([l \in Lanes |-> f[l] + g[l]]) = SumOver(f) + SumOver(g)
<1> DEFINE h == [l \in Lanes |-> f[l] + g[l]]
<1>1. PICK sf \in [0 .. NumLanes -> Int] :
        SumOver(f) = sf[NumLanes] /\ sf[0] = 0 /\ \A m \in Lanes : sf[m + 1] = sf[m] + f[m]
  BY SumOverIsPrefixSum
<1>2. PICK sg \in [0 .. NumLanes -> Int] :
        SumOver(g) = sg[NumLanes] /\ sg[0] = 0 /\ \A m \in Lanes : sg[m + 1] = sg[m] + g[m]
  BY SumOverIsPrefixSum
<1>3. h \in [Lanes -> Int] /\ \A m \in Lanes : h[m] = f[m] + g[m]
  OBVIOUS
<1> HIDE DEF h
<1>4. PICK sh \in [0 .. NumLanes -> Int] :
        SumOver(h) = sh[NumLanes] /\ sh[0] = 0 /\ \A m \in Lanes : sh[m + 1] = sh[m] + h[m]
  BY <1>3, SumOverIsPrefixSum
<1> DEFINE S == {m \in Nat : m <= NumLanes => sh[m] = sf[m] + sg[m]}
<1>5. Nat \subseteq S
  <2>1. 0 \in S
    BY <1>1, <1>2, <1>4
  <2>2. ASSUME NEW m \in Nat, m \in S
        PROVE  m + 1 \in S
    <3> SUFFICES ASSUME m + 1 <= NumLanes
                 PROVE  sh[m + 1] = sf[m + 1] + sg[m + 1]
      OBVIOUS
    <3>1. m \in Lanes /\ m \in 0 .. NumLanes
      BY SchedulerAssumption DEF Lanes
    <3>2. sh[m] = sf[m] + sg[m]
      BY <2>2, <3>1, SchedulerAssumption
    <3>3. /\ sh[m] \in Int /\ sf[m] \in Int /\ sg[m] \in Int
          /\ f[m] \in Int /\ g[m] \in Int
      BY <3>1
    <3>4. /\ sh[m + 1] = sh[m] + h[m] /\ sf[m + 1] = sf[m] + f[m]
          /\ sg[m + 1] = sg[m] + g[m] /\ h[m] = f[m] + g[m]
      BY <1>1, <1>2, <1>3, <1>4, <3>1
    <3> QED BY <3>2, <3>3, <3>4
  <2> HIDE DEF S
  <2> QED BY <2>1, <2>2, SetInduction
<1>6. NumLanes \in Nat /\ NumLanes <= NumLanes
  BY SchedulerAssumption
<1>7. sh[NumLanes] = sf[NumLanes] + sg[NumLanes]
  BY <1>5, <1>6
<1> QED BY <1>1, <1>2, <1>4, <1>7 DEF h

(* Changing one summand changes the sum as much. *)
LEMMA SumOverChange ==
  ASSUME NEW f \in [Lanes -> Int], NEW k \in Lanes, NEW d \in Int
  PROVE  SumOver([f EXCEPT ![k] = @ + d]) = SumOver(f) + d
<1> DEFINE h == [f EXCEPT ![k] = @ + d]
<1>1. PICK sf \in [0 .. NumLanes -> Int] :
        SumOver(f) = sf[NumLanes] /\ sf[0] = 0 /\ \A m \in Lanes : sf[m + 1] = sf[m] + f[m]
  BY SumOverIsPrefixSum
<1>2. h \in [Lanes -> Int] /\ \A m \in Lanes : h[m] = IF m = k THEN f[m] + d ELSE f[m]
  OBVIOUS
<1> HIDE DEF h
<1>3. PICK sh \in [0 .. NumLanes -> Int] :
        SumOver(h) = sh[NumLanes] /\ sh[0] = 0 /\ \A m \in Lanes : sh[m + 1] = sh[m] + h[m]
  BY <1>2, SumOverIsPrefixSum
<1> DEFINE S == {m \in Nat : m <= NumLanes => sh[m] = sf[m] + (IF k < m THEN d ELSE 0)}
<1>4. Nat \subseteq S
  <2>1. 0 \in S
    BY <1>1, <1>3 DEF Lanes
  <2>2. ASSUME NEW m \in Nat, m \in S
        PROVE  m + 1 \in S
    <3> SUFFICES ASSUME m + 1 <= NumLanes
                 PROVE  sh[m + 1] = sf[m + 1] + (IF k < m + 1 THEN d ELSE 0)
      OBVIOUS
    <3>1. m \in Lanes /\ m \in 0 .. NumLanes
      BY SchedulerAssumption DEF Lanes
    <3>2. sh[m] = sf[m] + (IF k < m THEN d ELSE 0)
      BY <2>2, <3>1, SchedulerAssumption
    <3>3. sh[m] \in Int /\ sf[m] \in Int /\ f[m] \in Int /\ k \in Int
      BY <3>1 DEF Lanes
    <3>4. /\ sh[m + 1] = sh[m] + h[m] /\ sf[m + 1] = sf[m] + f[m]
          /\ h[m] = IF m = k THEN f[m] + d ELSE f[m]
      BY <1>1, <1>2, <1>3, <3>1
    <3> QED BY <3>2, <3>3, <3>4
  <2> HIDE DEF S
  <2> QED BY <2>1, <2>2, SetInduction
<1>5. NumLanes \in Nat /\ NumLanes <= NumLanes /\ k < NumLanes
  BY SchedulerAssumption DEF Lanes
<1>6. sh[NumLanes] = sf[NumLanes] + d
  BY <1>4, <1>5
<1> QED BY <1>1, <1>3, <1>6 DEF h

(* A sum without negative summands is at least each of them. *)
LEMMA SumOverNonNegative ==
  ASSUME NEW f \in [Lanes -> Int], \A l \in Lanes : f[l] >= 0
  PROVE  \A l \in Lanes : f[l] <= SumOver(f)
<1>1. PICK sf \in [0 .. NumLanes -> Int] :
        SumOver(f) = sf[NumLanes] /\ sf[0] = 0 /\ \A m \in Lanes : sf[m + 1] = sf[m] + f[m]
  BY SumOverIsPrefixSum
<1> DEFINE S == {m \in Nat : m <= NumLanes =>
                   sf[m] >= 0 /\ \A l \in Lanes : l < m => f[l] <= sf[m]}
<1>2. Nat \subseteq S
  <2>1. 0 \in S
    BY <1>1 DEF Lanes
  <2>2. ASSUME NEW m \in Nat, m \in S
        PROVE  m + 1 \in S
    <3> SUFFICES ASSUME m + 1 <= NumLanes
                 PROVE  /\ sf[m + 1] >= 0
                        /\ \A l \in Lanes : l < m + 1 => f[l] <= sf[m + 1]
      OBVIOUS
    <3>1. m \in Lanes /\ m \in 0 .. NumLanes
      BY SchedulerAssumption DEF Lanes
    <3>2. sf[m] >= 0 /\ \A l \in Lanes : l < m => f[l] <= sf[m]
      BY <2>2, <3>1, SchedulerAssumption
    <3>3. sf[m] \in Int /\ f[m] \in Int /\ f[m] >= 0 /\ sf[m + 1] = sf[m] + f[m]
      BY <1>1, <3>1
    <3>4. ASSUME NEW l \in Lanes, l < m + 1
          PROVE  f[l] <= sf[m + 1]
      <4>1. f[l] \in Int /\ (l < m \/ l = m)
        BY <3>4 DEF Lanes
      <4> QED BY <3>2, <3>3, <4>1
    <3> QED BY <3>2, <3>3, <3>4
  <2> HIDE DEF S
  <2> QED BY <2>1, <2>2, SetInduction
<1>3. NumLanes \in Nat /\ NumLanes <= NumLanes /\ \A l \in Lanes : l < NumLanes
  BY SchedulerAssumption DEF Lanes
<1> QED BY <1>1, <1>2, <1>3

(* A sum without positive summands is not positive. *)
LEMMA SumOverNonPositive ==
  ASSUME NEW f \in [Lanes -> Int], \A l \in Lanes : f[l] <= 0
  PROVE  SumOver(f) <= 0
<1>1. PICK sf \in [0 .. NumLanes -> Int] :
        SumOver(f) = sf[NumLanes] /\ sf[0] = 0 /\ \A m \in Lanes : sf[m + 1] = sf[m] + f[m]
  BY SumOverIsPrefixSum
<1> DEFINE S == {m \in Nat : m <= NumLanes => sf[m] <= 0}
<1>2. Nat \subseteq S
  <2>1. 0 \in S
    BY <1>1
  <2>2. ASSUME NEW m \in Nat, m \in S
        PROVE  m + 1 \in S
    <3> SUFFICES ASSUME m + 1 <= NumLanes
                 PROVE  sf[m + 1] <= 0
      OBVIOUS
    <3>1. m \in Lanes /\ m \in 0 .. NumLanes
      BY SchedulerAssumption DEF Lanes
    <3>2. sf[m] <= 0
      BY <2>2, <3>1, SchedulerAssumption
    <3>3. sf[m] \in Int /\ f[m] \in Int /\ f[m] <= 0 /\ sf[m + 1] = sf[m] + f[m]
      BY <1>1, <3>1
    <3> QED BY <3>2, <3>3
  <2> HIDE DEF S
  <2> QED BY <2>1, <2>2, SetInduction
<1>3. NumLanes \in Nat /\ NumLanes <= NumLanes
  BY SchedulerAssumption
<1> QED BY <1>1, <1>2, <1>3

(* Weights are positive, so their total is. *)
LEMMA TotalPositive ==
  ASSUME TypeOK
  PROVE  Total \in Nat \ {0}
<1>1. /\ weight \in [Lanes -> Int]
      /\ \A l \in Lanes : weight[l] >= 1
  BY SchedulerAssumption DEF TypeOK
<1>2. 0 \in Lanes
  BY SchedulerAssumption DEF Lanes
<1>3. weight[0] <= SumOver(weight) /\ SumOver(weight) \in Int
  BY <1>1, <1>2, SumOverNonNegative, SumOverInt
<1> QED BY <1>1, <1>2, <1>3 DEF Total

(* The fallback reads the depth of a lane not read before. *)
LEMMA MinIsMember ==
  ASSUME NEW S, S \subseteq Lanes, S # {}
  PROVE  Min(S) \in S
<1>1. S \subseteq Nat
  BY DEF Lanes
<1>2. \E x \in S : \A y \in S : x <= y
  BY <1>1, LeastElement
<1> QED BY <1>2 DEF Min

----------------------------------------------------------------------------
(* Type correctness.                                                       *)

\* A call has begun below the bound, and no lane is served more often than
\* AssignLane has returned.
Bounded ==
  /\ call # "idle" => rounds < MaxRounds
  /\ \A l \in Lanes : served[l] <= rounds

TypeInv == TypeOK /\ Bounded

(* Returning a lane keeps the types. *)
LEMMA ReturnType ==
  ASSUME TypeInv, call # "idle", NEW l \in Lanes, Return(l),
         UNCHANGED <<weight, depth, depthAtCall>>, passedOver' = passedOver
  PROVE  TypeInv'
<1>1. Total \in Int
  BY TotalPositive DEF TypeInv
<1>2. credit' \in [Lanes -> Int]
  BY <1>1 DEF TypeInv, TypeOK, Return
<1>3. /\ rounds' = rounds + 1 /\ rounds < MaxRounds /\ rounds \in Nat
      /\ \A m \in Lanes : served[m] \in Nat /\ served[m] <= rounds
  BY SchedulerAssumption DEF TypeInv, TypeOK, Bounded, Return
<1>4. \A m \in Lanes : served'[m] = IF m = l THEN served[m] + 1 ELSE served[m]
  BY DEF TypeInv, TypeOK, Return
<1>5. \A m \in Lanes : served'[m] \in 0 .. MaxRounds /\ served'[m] <= rounds'
  BY <1>3, <1>4, SchedulerAssumption
<1>6. served' \in [Lanes -> 0 .. MaxRounds]
  <2>1. served' = [m \in Lanes |-> served'[m]]
    BY DEF TypeInv, TypeOK, Return
  <2> QED BY <1>5, <2>1
<1>7. rounds' \in 0 .. MaxRounds
  BY <1>3, SchedulerAssumption
<1>8. call' = "idle" /\ unprobed' = {} /\ best' = <<>> /\ chosen' = l
  BY DEF Return
<1> QED BY <1>2, <1>5, <1>6, <1>7, <1>8 DEF TypeInv, TypeOK, Bounded

(* The pair kept by the fallback. *)
LEMMA LeastLoadedType ==
  ASSUME TypeOK, NEW l \in Lanes
  PROVE  LeastLoaded(l) \in Lanes \X (0 .. PoolSize)
BY DEF TypeOK, LeastLoaded

(* Every step keeps the types. *)
LEMMA NextTypeInv == TypeInv /\ [Next]_vars => TypeInv'
<1> SUFFICES ASSUME TypeInv, [Next]_vars
             PROVE  TypeInv'
  OBVIOUS
<1>1. CASE BeginAssign
  <2>1. credit' \in [Lanes -> Int]
    BY <1>1, SchedulerAssumption DEF BeginAssign, TypeInv, TypeOK
  <2>2. Lanes # {}
    BY SchedulerAssumption DEF Lanes
  <2> QED BY <1>1, <2>1, <2>2 DEF BeginAssign, TypeInv, TypeOK, Bounded
<1>2. ASSUME NEW l \in Lanes, Accept(l)
      PROVE  TypeInv'
  BY <1>2, ReturnType DEF Accept
<1>3. ASSUME NEW l \in Lanes, PassOver(l)
      PROVE  TypeInv'
  <2>1. /\ unprobed' \subseteq Lanes /\ unprobed' # {}
        /\ call' \in {"probe", "fallback"} /\ call = "probe"
    BY <1>3, SchedulerAssumption DEF PassOver, ProbedNext, TypeInv, TypeOK, Lanes
  <2> QED BY <1>3, <2>1 DEF PassOver, TypeInv, TypeOK, Bounded
<1>4. CASE ReadDepth
  <2> DEFINE l == Min(unprobed)
  <2>1. l \in unprobed /\ l \in Lanes /\ call = "fallback"
    BY <1>4, MinIsMember DEF ReadDepth, TypeInv, TypeOK
  <2>2. LeastLoaded(l) \in Lanes \X (0 .. PoolSize)
    BY <2>1, LeastLoadedType DEF TypeInv
  <2>3. LeastLoaded(l)[1] \in Lanes
    BY <2>2
  <2>4. CASE unprobed = {l}
    <3>1. Return(LeastLoaded(l)[1])
      BY <1>4, <2>4 DEF ReadDepth
    <3> HIDE DEF l
    <3>2. UNCHANGED <<weight, depth, depthAtCall>> /\ passedOver' = passedOver
      BY <1>4 DEF ReadDepth
    <3> QED BY <2>1, <2>3, <3>1, <3>2, ReturnType
  <2>5. CASE unprobed # {l}
    <3>1. /\ best' = LeastLoaded(l) /\ unprobed' = unprobed \ {l}
          /\ UNCHANGED <<credit, call, chosen, rounds, served>>
          /\ UNCHANGED <<weight, depth, depthAtCall, passedOver>>
      BY <1>4, <2>5 DEF ReadDepth
    <3> HIDE DEF l
    <3>2. unprobed' # {} /\ unprobed' \subseteq Lanes
      BY <2>1, <2>5, <3>1 DEF TypeInv, TypeOK
    <3> QED BY <2>1, <2>2, <3>1, <3>2 DEF TypeInv, TypeOK, Bounded
  <2> QED BY <2>4, <2>5
<1>5. CASE Submit
  <2>1. depth' \in [Lanes -> 0 .. PoolSize]
    BY <1>5, SchedulerAssumption DEF Submit, TypeInv, TypeOK
  <2> QED BY <1>5, <2>1 DEF Submit, callVars, historyVars, TypeInv, TypeOK, Bounded
<1>6. ASSUME NEW l \in Lanes, PopSubmit(l)
      PROVE  TypeInv'
  <2>1. depth[l] - 1 \in 0 .. PoolSize
    <3>1. depth[l] \in 0 .. PoolSize
      BY DEF TypeInv, TypeOK
    <3>2. depth[l] > 0
      BY <1>6 DEF PopSubmit
    <3> QED BY <3>1, <3>2, SchedulerAssumption
  <2>2. depth' \in [Lanes -> 0 .. PoolSize]
    BY <1>6, <2>1 DEF PopSubmit, TypeInv, TypeOK
  <2> QED BY <1>6, <2>2 DEF PopSubmit, callVars, historyVars, TypeInv, TypeOK, Bounded
<1>7. CASE UNCHANGED vars
  BY <1>7 DEF vars, callVars, historyVars, TypeInv, TypeOK, Bounded
<1> QED BY <1>1, <1>2, <1>3, <1>4, <1>5, <1>6, <1>7 DEF Next, AssignLane

(* What SetWeights and the constructor leave behind is well typed. *)
LEMMA InitTypeInv == Init => TypeInv
<1> SUFFICES ASSUME Init
             PROVE  TypeInv
  OBVIOUS
<1>1. 0 \in 0 .. PoolSize /\ 0 \in 0 .. MaxRounds /\ 0 \in Int
  BY SchedulerAssumption
<1>2. /\ credit \in [Lanes -> Int] /\ served \in [Lanes -> 0 .. MaxRounds]
      /\ depth \in [Lanes -> 0 .. PoolSize] /\ depthAtCall \in [Lanes -> 0 .. PoolSize]
  BY <1>1 DEF Init
<1>3. Bounded
  BY <1>1 DEF Init, Bounded
<1> QED BY <1>1, <1>2, <1>3 DEF Init, TypeInv, TypeOK

(* The variables keep to their types, for any number of lanes, any weights *)
(* and any bounds.                                                         *)
THEOREM SchedulerTypeCorrect == Spec => []TypeOK
<1>1. Spec => []TypeInv
  BY InitTypeInv, NextTypeInv, PTL DEF Spec
<1>2. TypeInv => TypeOK
  BY DEF TypeInv
<1> QED BY <1>1, <1>2, PTL

----------------------------------------------------------------------------
(* Credit.                                                                 *)

(* The weights never change, hence neither does their total. *)
LEMMA TotalUnchanged == [Next]_vars => weight' = weight /\ Total' = Total
<1>1. [Next]_vars => weight' = weight
  BY DEF Next, AssignLane, BeginAssign, Accept, PassOver, ReadDepth, Return, Submit, PopSubmit,
         vars, callVars, historyVars
<1>2. weight' = weight => Total' = Total
  BY DEF Total
<1> QED BY <1>1, <1>2

\* During a call the share of the call is already credited.
Rounds == IF call = "idle" THEN rounds ELSE rounds + 1

CreditInv == \A l \in Lanes : credit[l] = Rounds * weight[l] - Total * served[l]

\* All that is credited is paid.
SumInv == SumOver(credit) = IF call = "idle" THEN 0 ELSE Total

\* While no lane has been passed over, all lanes can be probed, and no lane
\* has been paid for in advance.
AheadInv ==
  ~passedOver =>
    /\ call # "idle" => call = "probe" /\ unprobed = Lanes
    /\ \A l \in Lanes : credit[l] > -Total

(* The accounts are whole numbers. *)
LEMMA AccountTypes ==
  ASSUME TypeOK
  PROVE  /\ Total \in Int /\ rounds \in Int
         /\ credit \in [Lanes -> Int] /\ weight \in [Lanes -> Int] /\ served \in [Lanes -> Int]
<1>1. Total \in Int /\ rounds \in Int /\ credit \in [Lanes -> Int]
  BY TotalPositive, SchedulerAssumption DEF TypeOK
<1>2. weight \in [Lanes -> Int]
  BY SchedulerAssumption DEF TypeOK
<1>3. served \in [Lanes -> Int]
  BY SchedulerAssumption DEF TypeOK
<1> QED BY <1>1, <1>2, <1>3

(* What the return of a lane does to the credit. *)
LEMMA ReturnCredit ==
  ASSUME TypeInv, CreditInv, SumInv, call # "idle", NEW l \in Lanes, Return(l),
         weight' = weight, Total' = Total
  PROVE  CreditInv' /\ SumInv'
<1>1. /\ Total \in Int /\ rounds \in Int
      /\ credit \in [Lanes -> Int] /\ weight \in [Lanes -> Int] /\ served \in [Lanes -> Int]
  BY AccountTypes DEF TypeInv
<1>2. /\ credit' = [credit EXCEPT ![l] = @ + (-Total)]
      /\ call' = "idle" /\ rounds' = rounds + 1
      /\ \A m \in Lanes : served'[m] = IF m = l THEN served[m] + 1 ELSE served[m]
  BY <1>1 DEF Return
<1>3. SumInv'
  <2>1. SumOver(credit') = SumOver(credit) + (-Total)
    <3>1. -Total \in Int
      BY <1>1
    <3> QED BY <1>1, <1>2, <3>1, SumOverChange
  <2>2. SumOver(credit) = Total
    BY DEF SumInv
  <2> QED BY <1>1, <1>2, <2>1, <2>2 DEF SumInv
<1>4. ASSUME NEW m \in Lanes
      PROVE  credit'[m] = Rounds' * weight'[m] - Total' * served'[m]
  <2>1. credit[m] = (rounds + 1) * weight[m] - Total * served[m]
    BY DEF CreditInv, Rounds
  <2>2. Rounds' = rounds + 1
    BY <1>2 DEF Rounds
  <2>3. CASE m # l
    BY <1>1, <1>2, <2>1, <2>2, <2>3
  <2>4. CASE m = l
    <3>1. credit'[m] = credit[m] - Total /\ served'[m] = served[m] + 1
      BY <1>1, <1>2, <2>4
    <3>2. \A t, s \in Int : t * (s + 1) = t * s + t
      OBVIOUS
    <3>3. Total * (served[m] + 1) = Total * served[m] + Total
      BY <1>1, <3>2
    <3>4. \A x, y, t \in Int : (x - y) - t = x - (y + t)
      OBVIOUS
    <3>5. (rounds + 1) * weight[m] \in Int /\ Total * served[m] \in Int
      BY <1>1
    <3> QED BY <1>1, <2>1, <2>2, <3>1, <3>3, <3>4, <3>5
  <2> QED BY <2>3, <2>4
<1> QED BY <1>3, <1>4 DEF CreditInv

(* Every step keeps the accounts. *)
LEMMA NextCredit == TypeInv /\ CreditInv /\ SumInv /\ [Next]_vars => CreditInv' /\ SumInv'
<1> SUFFICES ASSUME TypeInv, CreditInv, SumInv, [Next]_vars
             PROVE  CreditInv' /\ SumInv'
  OBVIOUS
<1>1. /\ Total \in Int /\ rounds \in Int
      /\ credit \in [Lanes -> Int] /\ weight \in [Lanes -> Int] /\ served \in [Lanes -> Int]
  BY AccountTypes DEF TypeInv
<1>2. weight' = weight /\ Total' = Total
  BY TotalUnchanged
<1>3. CASE BeginAssign
  <2>1. /\ credit' = [l \in Lanes |-> credit[l] + weight[l]] /\ call = "idle"
        /\ call' = "probe" /\ rounds' = rounds /\ served' = served
    BY <1>3 DEF BeginAssign
  <2>2. SumInv'
    <3>1. SumOver(credit') = SumOver(credit) + SumOver(weight)
      BY <1>1, <2>1, SumOverAdd
    <3>2. SumOver(credit) = 0 /\ SumOver(weight) = Total
      BY <2>1 DEF SumInv, Total
    <3> QED BY <1>1, <1>2, <2>1, <3>1, <3>2 DEF SumInv
  <2>3. ASSUME NEW l \in Lanes
        PROVE  credit'[l] = Rounds' * weight'[l] - Total' * served'[l]
    <3>1. /\ credit[l] = rounds * weight[l] - Total * served[l]
          /\ credit'[l] = credit[l] + weight[l]
          /\ Rounds' = rounds + 1
      BY <2>1 DEF CreditInv, Rounds
    <3>2. \A r, w \in Int : (r + 1) * w = r * w + w
      OBVIOUS
    <3>3. (rounds + 1) * weight[l] = rounds * weight[l] + weight[l]
      BY <1>1, <3>2
    <3>4. \A x, y, w \in Int : (x - y) + w = (x + w) - y
      OBVIOUS
    <3>5. rounds * weight[l] \in Int /\ Total * served[l] \in Int /\ weight[l] \in Int
      BY <1>1
    <3> QED BY <1>2, <2>1, <3>1, <3>3, <3>4, <3>5
  <2> QED BY <2>2, <2>3 DEF CreditInv
<1>4. ASSUME NEW l \in Lanes, Accept(l)
      PROVE  CreditInv' /\ SumInv'
  BY <1>2, <1>4, ReturnCredit DEF Accept
<1>5. CASE ReadDepth
  <2> DEFINE l == Min(unprobed)
  <2>1. l \in Lanes /\ call # "idle"
    BY <1>5, MinIsMember DEF ReadDepth, TypeInv, TypeOK
  <2>2. LeastLoaded(l)[1] \in Lanes
    BY <2>1, LeastLoadedType DEF TypeInv
  <2>3. CASE unprobed = {l}
    <3>1. Return(LeastLoaded(l)[1])
      BY <1>5, <2>3 DEF ReadDepth
    <3> QED BY <1>2, <2>1, <2>2, <3>1, ReturnCredit
  <2>4. CASE unprobed # {l}
    BY <1>2, <1>5, <2>4 DEF ReadDepth, CreditInv, SumInv, Rounds
  <2> QED BY <2>3, <2>4
<1>6. ASSUME NEW l \in Lanes, PassOver(l)
      PROVE  CreditInv' /\ SumInv'
  <2>1. call # "idle" /\ call' # "idle" /\ UNCHANGED <<credit, rounds, served>>
    BY <1>6 DEF PassOver
  <2> QED BY <1>2, <2>1 DEF CreditInv, SumInv, Rounds
<1>7. CASE \/ Submit \/ (\E l \in Lanes : PopSubmit(l)) \/ UNCHANGED vars
  <2>1. UNCHANGED <<call, credit, rounds, served>>
    BY <1>7 DEF Submit, PopSubmit, vars, callVars, historyVars
  <2> QED BY <1>2, <2>1 DEF CreditInv, SumInv, Rounds
<1> QED BY <1>3, <1>4, <1>5, <1>6, <1>7 DEF Next, AssignLane

(* The accounts are kept in every execution. *)
LEMMA CreditKept == Spec => [](TypeInv /\ CreditInv /\ SumInv)
<1>1. Init => TypeInv /\ CreditInv /\ SumInv
  <2> SUFFICES ASSUME Init
               PROVE  TypeInv /\ CreditInv /\ SumInv
    OBVIOUS
  <2>1. TypeInv
    BY InitTypeInv
  <2>2. Total \in Int /\ weight \in [Lanes -> Int]
    BY <2>1, AccountTypes DEF TypeInv
  <2>3. CreditInv
    BY <2>2 DEF Init, CreditInv, Rounds
  <2>4. SumInv
    <3>1. credit \in [Lanes -> Int] /\ \A l \in Lanes : credit[l] >= 0 /\ credit[l] <= 0
      BY DEF Init
    <3>2. SumOver(credit) \in Int /\ SumOver(credit) <= 0
      BY <3>1, SumOverInt, SumOverNonPositive
    <3>3. 0 \in Lanes /\ credit[0] = 0
      BY SchedulerAssumption DEF Init, Lanes
    <3>4. 0 <= SumOver(credit)
      BY <3>1, <3>3, SumOverNonNegative
    <3> QED BY <3>2, <3>4 DEF Init, SumInv
  <2> QED BY <2>1, <2>3, <2>4
<1> QED BY <1>1, NextTypeInv, NextCredit, PTL DEF Spec

(* A lane's credit is its share of all groups less the groups it got, for  *)
(* any number of lanes and any weights, whatever lanes are passed over.    *)
THEOREM CreditIsAlwaysDebt == Spec => []CreditIsDebt
<1>1. CreditInv => CreditIsDebt
  BY DEF CreditInv, CreditIsDebt, Rounds
<1> QED BY <1>1, CreditKept, PTL

(* The lane with most credit has some, since the sum is positive. *)
LEMMA MostCreditIsPositive ==
  ASSUME TypeInv, SumInv, call # "idle",
         NEW l \in Lanes, \A m \in Lanes : credit[m] <= credit[l]
  PROVE  credit[l] > 0
<1>1. credit \in [Lanes -> Int] /\ Total > 0 /\ SumOver(credit) = Total
  BY AccountTypes, TotalPositive DEF TypeInv, SumInv
<1>2. (\A m \in Lanes : credit[m] <= 0) => SumOver(credit) <= 0
  BY <1>1, SumOverNonPositive
<1>3. PICK m \in Lanes : ~(credit[m] <= 0)
  BY <1>1, <1>2, TotalPositive DEF TypeInv
<1>4. credit[m] \in Int /\ credit[l] \in Int /\ credit[m] <= credit[l]
  BY <1>1
<1> QED BY <1>3, <1>4

(* Every step keeps the lanes from being paid in advance. *)
LEMMA NextAhead == TypeInv /\ SumInv /\ AheadInv /\ [Next]_vars => AheadInv'
<1> SUFFICES ASSUME TypeInv, SumInv, AheadInv, [Next]_vars, ~passedOver'
             PROVE  /\ call' # "idle" => call' = "probe" /\ unprobed' = Lanes
                    /\ \A l \in Lanes : credit'[l] > -Total'
  BY DEF AheadInv
<1>1. /\ Total \in Nat \ {0} /\ Total' = Total
      /\ credit \in [Lanes -> Int] /\ weight \in [Lanes -> 1 .. MaxWeight]
  BY TotalPositive, TotalUnchanged, AccountTypes DEF TypeInv, TypeOK
<1>2. ~passedOver
  BY DEF Next, AssignLane, BeginAssign, Accept, PassOver, ReadDepth, Submit, PopSubmit,
         vars, historyVars
<1>3. /\ call # "idle" => call = "probe" /\ unprobed = Lanes
      /\ \A l \in Lanes : credit[l] > -Total
  BY <1>2 DEF AheadInv
<1>4. CASE BeginAssign
  <2>1. /\ call' = "probe" /\ unprobed' = Lanes
        /\ \A l \in Lanes : credit'[l] = credit[l] + weight[l]
    BY <1>4 DEF BeginAssign
  <2>2. ASSUME NEW l \in Lanes
        PROVE  credit'[l] > -Total
    <3>1. credit[l] \in Int /\ weight[l] \in Int /\ weight[l] >= 1 /\ credit[l] > -Total
      BY <1>1, <1>3, SchedulerAssumption
    <3> QED BY <1>1, <2>1, <3>1
  <2> QED BY <1>1, <2>1, <2>2
<1>5. ASSUME NEW l \in Lanes, Accept(l)
      PROVE  /\ call' # "idle" => call' = "probe" /\ unprobed' = Lanes
             /\ \A m \in Lanes : credit'[m] > -Total'
  <2>1. /\ call' = "idle" /\ credit' = [credit EXCEPT ![l] = @ - Total]
        /\ call # "idle" /\ \A m \in unprobed : credit[m] <= credit[l]
    BY <1>5 DEF Accept, Return, ProbedNext
  <2>2. credit[l] > 0
    BY <1>3, <2>1, MostCreditIsPositive
  <2>3. ASSUME NEW m \in Lanes
        PROVE  credit'[m] > -Total
    <3>1. credit'[m] = IF m = l THEN credit[m] - Total ELSE credit[m]
      BY <1>1, <2>1
    <3>2. credit[m] \in Int /\ credit[m] > -Total
      BY <1>1, <1>3
    <3> QED BY <1>1, <2>2, <3>1, <3>2
  <2> QED BY <1>1, <2>1, <2>3
<1>6. ~ReadDepth
  BY <1>3 DEF ReadDepth
<1>7. ASSUME NEW l \in Lanes, PassOver(l)
      PROVE  FALSE
  BY <1>7 DEF PassOver
<1>8. CASE \/ Submit \/ (\E l \in Lanes : PopSubmit(l)) \/ UNCHANGED vars
  <2>1. UNCHANGED <<call, credit, unprobed>>
    BY <1>8 DEF Submit, PopSubmit, vars, callVars, historyVars
  <2> QED BY <1>1, <1>3, <2>1
<1> QED BY <1>4, <1>5, <1>6, <1>7, <1>8 DEF Next, AssignLane

(* No lane is paid in advance in any execution. *)
LEMMA AheadKept == Spec => [](TypeInv /\ CreditInv /\ SumInv /\ AheadInv)
<1>1. Init => AheadInv
  <2> SUFFICES ASSUME Init
               PROVE  AheadInv
    OBVIOUS
  <2>1. Total \in Nat \ {0}
    BY InitTypeInv, TotalPositive DEF TypeInv
  <2> QED BY <2>1 DEF Init, AheadInv
<1> QED BY <1>1, CreditKept, NextAhead, PTL DEF Spec

(* As long as no lane has been over the bound, no lane is ever a whole     *)
(* group ahead of its share, however ties are broken.                      *)
THEOREM NeverAheadAlways == Spec => []NeverAGroupAhead
<1>1. TypeInv /\ CreditInv /\ AheadInv => NeverAGroupAhead
  <2> SUFFICES ASSUME TypeInv, CreditInv, AheadInv, call = "idle", ~passedOver, NEW l \in Lanes
               PROVE  Total * (served[l] - 1) < rounds * weight[l]
    BY DEF NeverAGroupAhead
  <2>1. Total \in Int /\ rounds * weight[l] \in Int /\ served[l] \in Int /\ Total * served[l] \in Int
    BY AccountTypes DEF TypeInv
  <2>2. rounds * weight[l] - Total * served[l] > -Total
    BY DEF CreditInv, AheadInv, Rounds
  <2>3. \A t, s \in Int : t * (s - 1) = t * s - t
    OBVIOUS
  <2>4. Total * (served[l] - 1) = Total * served[l] - Total
    BY <2>1, <2>3
  <2> QED BY <2>1, <2>2, <2>4
<1> QED BY <1>1, AheadKept, PTL

(* As long as no lane has been over the bound, every cycle of as many      *)
(* calls as the weights add up to gives each lane exactly its weight in    *)
(* groups: a credit that is a multiple of the total is not negative, and   *)
(* credits without negative ones that add up to 0 are all 0.               *)
THEOREM CycleIsAlwaysExact == Spec => []CycleIsExact
<1>1. TypeInv /\ CreditInv /\ SumInv /\ AheadInv => CycleIsExact
  <2> SUFFICES ASSUME TypeInv, CreditInv, SumInv, AheadInv,
                      call = "idle", ~passedOver, rounds % Total = 0
               PROVE  \A l \in Lanes : served[l] = weight[l] * (rounds \div Total)
    BY DEF CycleIsExact
  <2> DEFINE cycles == rounds \div Total
  <2>1. /\ Total \in Nat \ {0} /\ rounds \in Nat
        /\ credit \in [Lanes -> Int] /\ weight \in [Lanes -> Int] /\ served \in [Lanes -> Int]
    BY TotalPositive, AccountTypes, SchedulerAssumption DEF TypeInv, TypeOK
  <2>2. cycles \in Int /\ rounds = Total * cycles
    BY <2>1
  <2> HIDE DEF cycles
  <2>3. ASSUME NEW l \in Lanes
        PROVE  /\ weight[l] * cycles - served[l] \in Int
               /\ credit[l] = Total * (weight[l] * cycles - served[l])
    <3>1. credit[l] = rounds * weight[l] - Total * served[l]
      BY DEF CreditInv, Rounds
    <3>2. \A t, c, w, n \in Int : (t * c) * w - t * n = t * (w * c - n)
      OBVIOUS
    <3>3. weight[l] \in Int /\ served[l] \in Int
      BY <2>1
    <3> QED BY <2>1, <2>2, <3>1, <3>2, <3>3
  <2>4. ASSUME NEW l \in Lanes
        PROVE  credit[l] >= 0
    <3>1. credit[l] > -Total
      BY DEF AheadInv
    <3>2. \A t \in Nat \ {0} : \A d \in Int : t * d > -t => t * d >= 0
      <4> SUFFICES ASSUME NEW t \in Nat \ {0}, NEW d \in Int, t * d > -t
                   PROVE  t * d >= 0
        OBVIOUS
      <4>1. CASE d >= 0
        BY <4>1
      <4>2. CASE d <= -1
        <5>1. t * d <= t * (-1)
          BY <4>2
        <5> QED BY <5>1
      <4> QED BY <4>1, <4>2
    <3> QED BY <2>1, <2>3, <3>1, <3>2
  <2>5. ASSUME NEW l \in Lanes
        PROVE  credit[l] = 0
    <3>1. credit[l] <= SumOver(credit)
      BY <2>1, <2>4, SumOverNonNegative
    <3> QED BY <2>1, <2>4, <3>1 DEF SumInv
  <2>6. ASSUME NEW l \in Lanes
        PROVE  served[l] = weight[l] * cycles
    <3>1. \A t \in Nat \ {0} : \A d \in Int : t * d = 0 => d = 0
      OBVIOUS
    <3>2. weight[l] * cycles - served[l] = 0
      BY <2>1, <2>3, <2>5, <3>1
    <3>3. weight[l] * cycles \in Int /\ served[l] \in Int
      BY <2>1, <2>2
    <3> QED BY <3>2, <3>3
  <2> QED BY <2>6 DEF cycles
<1> QED BY <1>1, AheadKept, PTL

----------------------------------------------------------------------------
(* The depth of the chosen lane.                                           *)

\* During a call depths only fall; the fallback's best lane so far is no
\* fuller than any lane it has read was when the call began.
DepthInv ==
  /\ call # "idle" => \A l \in Lanes : depth[l] <= depthAtCall[l]
  /\ call = "probe" => best = <<>>
  /\ call = "fallback" =>
       IF best = <<>> THEN unprobed = Lanes
       ELSE /\ best[1] \in Lanes /\ depth[best[1]] <= best[2]
            /\ \A l \in Lanes \ unprobed : best[2] <= depthAtCall[l]

(* One reading of the fallback: the better of two lanes. *)
LEMMA LeastLoadedLight ==
  ASSUME TypeInv, DepthInv, call = "fallback", NEW l \in unprobed
  PROVE  LET b == LeastLoaded(l)
         IN  /\ b \in Lanes \X (0 .. PoolSize)
             /\ b[1] \in Lanes /\ depth[b[1]] <= b[2]
             /\ \A m \in Lanes \ (unprobed \ {l}) : b[2] <= depthAtCall[m]
<1> DEFINE b == LeastLoaded(l)
<1>1. l \in Lanes /\ depth[l] \in Int /\ depth[l] <= depthAtCall[l] /\ depthAtCall[l] \in Int
  BY DEF TypeInv, TypeOK, DepthInv
<1>2. b \in Lanes \X (0 .. PoolSize)
  BY <1>1, LeastLoadedType DEF TypeInv
<1>3. CASE best = <<>>
  <2>1. b = <<l, depth[l]>> /\ Lanes \ (unprobed \ {l}) = {l}
    BY <1>1, <1>3 DEF LeastLoaded, DepthInv
  <2> QED BY <1>1, <1>2, <2>1
<1>4. CASE best # <<>>
  <2>1. /\ best \in Lanes \X (0 .. PoolSize) /\ best[2] \in Int
        /\ best[1] \in Lanes /\ depth[best[1]] <= best[2]
        /\ \A m \in Lanes \ unprobed : best[2] <= depthAtCall[m] /\ depthAtCall[m] \in Int
    BY <1>4, SchedulerAssumption DEF TypeInv, TypeOK, DepthInv
  <2>2. CASE depth[l] < best[2]
    <3>1. b = <<l, depth[l]>>
      BY <2>2 DEF LeastLoaded
    <3> QED BY <1>1, <1>2, <2>1, <2>2, <3>1
  <2>3. CASE ~(depth[l] < best[2])
    <3>1. b = best
      BY <1>4, <2>3 DEF LeastLoaded
    <3> QED BY <1>1, <1>2, <2>1, <2>3, <3>1
  <2> QED BY <2>2, <2>3
<1> QED BY <1>2, <1>3, <1>4

(* Every step keeps what the fallback has learned true. *)
LEMMA NextDepth == TypeInv /\ DepthInv /\ [Next]_vars => DepthInv'
<1> SUFFICES ASSUME TypeInv, DepthInv, [Next]_vars
             PROVE  DepthInv'
  OBVIOUS
<1>1. CASE BeginAssign
  <2>1. \A l \in Lanes : depth[l] \in Int
    BY DEF TypeInv, TypeOK
  <2> QED BY <1>1, <2>1 DEF BeginAssign, DepthInv
<1>2. ASSUME NEW l \in Lanes, Accept(l)
      PROVE  DepthInv'
  BY <1>2 DEF Accept, Return, DepthInv
<1>3. ASSUME NEW l \in Lanes, PassOver(l)
      PROVE  DepthInv'
  <2>1. /\ call = "probe" /\ UNCHANGED <<best, depth, depthAtCall>>
        /\ \/ call' = "fallback" /\ unprobed' = Lanes
           \/ call' = "probe"
    BY <1>3 DEF PassOver
  <2>2. best = <<>>
    BY <2>1 DEF DepthInv
  <2> QED BY <2>1, <2>2 DEF DepthInv
<1>4. CASE ReadDepth
  <2> DEFINE l == Min(unprobed)
  <2>1. l \in unprobed /\ l \in Lanes /\ call = "fallback" /\ UNCHANGED <<depth, depthAtCall>>
    BY <1>4, MinIsMember DEF ReadDepth, TypeInv, TypeOK
  <2>2. CASE unprobed = {l}
    <3>1. call' = "idle"
      BY <1>4, <2>2 DEF ReadDepth, Return
    <3> QED BY <3>1 DEF DepthInv
  <2>3. CASE unprobed # {l}
    <3>1. best' = LeastLoaded(l) /\ unprobed' = unprobed \ {l} /\ call' = call
      BY <1>4, <2>3 DEF ReadDepth
    <3> HIDE DEF l
    <3>2. /\ LeastLoaded(l) \in Lanes \X (0 .. PoolSize)
          /\ LeastLoaded(l)[1] \in Lanes
          /\ depth[LeastLoaded(l)[1]] <= LeastLoaded(l)[2]
          /\ \A m \in Lanes \ (unprobed \ {l}) : LeastLoaded(l)[2] <= depthAtCall[m]
      BY <2>1, LeastLoadedLight
    <3>3. LeastLoaded(l) # <<>>
      <4>1. \A b : b \in Lanes \X (0 .. PoolSize) => b # <<>>
        OBVIOUS
      <4> QED BY <3>2, <4>1, Zenon
    <3> QED BY <2>1, <3>1, <3>2, <3>3 DEF DepthInv
  <2> QED BY <2>2, <2>3
<1>5. CASE Submit
  BY <1>5 DEF Submit, callVars, historyVars, DepthInv
<1>6. ASSUME NEW k \in Lanes, PopSubmit(k)
      PROVE  DepthInv'
  <2>1. /\ UNCHANGED <<call, unprobed, best, depthAtCall>>
        /\ \A l \in Lanes : depth[l] \in Int /\ depthAtCall[l] \in Int
        /\ \A l \in Lanes : depth'[l] = IF l = k THEN depth[l] - 1 ELSE depth[l]
    BY <1>6 DEF PopSubmit, callVars, historyVars, TypeInv, TypeOK
  <2>2. \A l \in Lanes : depth'[l] <= depth[l] /\ depth'[l] \in Int
    BY <2>1
  <2>3. call # "idle" => \A l \in Lanes : depth'[l] <= depthAtCall[l]
    BY <2>1, <2>2 DEF DepthInv
  <2>4. ASSUME call = "fallback", best # <<>>
        PROVE  /\ best[1] \in Lanes /\ depth'[best[1]] <= best[2]
               /\ \A l \in Lanes \ unprobed : best[2] <= depthAtCall[l]
    <3>1. best[1] \in Lanes /\ depth[best[1]] <= best[2] /\ best[2] \in Int
      BY <2>4, SchedulerAssumption DEF DepthInv, TypeInv, TypeOK
    <3> QED BY <2>1, <2>2, <2>4, <3>1 DEF DepthInv
  <2> QED BY <2>1, <2>3, <2>4 DEF DepthInv
<1>7. CASE UNCHANGED vars
  BY <1>7 DEF vars, callVars, historyVars, DepthInv
<1> QED BY <1>1, <1>2, <1>3, <1>4, <1>5, <1>6, <1>7 DEF Next, AssignLane

(* Although the depths change while they are read, the group goes to a     *)
(* lane below the bound, or to one no fuller than any lane was when the    *)
(* call began.                                                             *)
THEOREM ChosenLaneIsAlwaysLight == Spec => ChosenLaneIsLight
<1>1. ASSUME TypeInv, DepthInv, Next, call # "idle", call' = "idle"
      PROVE  \/ depth[chosen'] < MaxQueue
             \/ \A l \in Lanes : depth[chosen'] <= depthAtCall[l]
  <2>1. ASSUME NEW l \in Lanes, Accept(l)
        PROVE  depth[chosen'] < MaxQueue
    BY <2>1 DEF Accept, Return
  <2>2. ASSUME ReadDepth
        PROVE  \A l \in Lanes : depth[chosen'] <= depthAtCall[l]
    <3> DEFINE l == Min(unprobed)
    <3>1. l \in unprobed /\ l \in Lanes /\ call = "fallback"
      BY <1>1, <2>2, MinIsMember DEF ReadDepth, TypeInv, TypeOK
    <3>2. unprobed = {l} /\ chosen' = LeastLoaded(l)[1]
      BY <1>1, <2>2 DEF ReadDepth, Return
    <3> HIDE DEF l
    <3>3. /\ LeastLoaded(l) \in Lanes \X (0 .. PoolSize)
          /\ depth[LeastLoaded(l)[1]] <= LeastLoaded(l)[2]
          /\ \A m \in Lanes \ (unprobed \ {l}) : LeastLoaded(l)[2] <= depthAtCall[m]
      BY <1>1, <3>1, LeastLoadedLight
    <3>4. ASSUME NEW m \in Lanes
          PROVE  depth[chosen'] <= depthAtCall[m]
      <4>1. /\ LeastLoaded(l)[2] <= depthAtCall[m] /\ LeastLoaded(l)[2] \in Int
            /\ depth[chosen'] <= LeastLoaded(l)[2]
            /\ depth[chosen'] \in Int /\ depthAtCall[m] \in Int
        BY <1>1, <3>2, <3>3, SchedulerAssumption DEF TypeInv, TypeOK
      <4> QED BY <4>1
    <3> QED BY <3>4
  <2>3. ~BeginAssign /\ ~(\E l \in Lanes : PassOver(l)) /\ ~Submit
        /\ ~(\E l \in Lanes : PopSubmit(l))
    BY <1>1 DEF BeginAssign, PassOver, Submit, PopSubmit, callVars
  <2> QED BY <1>1, <2>1, <2>2, <2>3 DEF Next, AssignLane
<1>2. TypeInv /\ DepthInv /\ [Next]_vars
        => [call # "idle" /\ call' = "idle" =>
              \/ depth[chosen'] < MaxQueue
              \/ \A l \in Lanes : depth[chosen'] <= depthAtCall[l]]_vars
  BY <1>1
<1>3. Init => TypeInv /\ DepthInv
  BY InitTypeInv DEF Init, DepthInv
<1> QED BY <1>2, <1>3, NextTypeInv, NextDepth, PTL DEF Spec, ChosenLaneIsLight
=============================================================================
