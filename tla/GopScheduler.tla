---------------------------- MODULE GopScheduler ----------------------------
(***************************************************************************)
(* src/src/gop_scheduler.cpp: smooth weighted round-robin over the lanes,  *)
(* passing over lanes whose submit queue is at the bound.                  *)
(*                                                                         *)
(* AssignLane holds mutex_, but the queue depths it asks for, one at a     *)
(* time, are atomics that the lanes' push threads decrease meanwhile: each *)
(* reading is a step.  Depths grow only by the caller's own SubmitSlot.    *)
(* Weights are naturals (the code's doubles are compared and added only).  *)
(***************************************************************************)
EXTENDS Integers, FiniteSetsExt

CONSTANTS NumLanes,   \* lanes_.size()
          MaxWeight,  \* bound: weights of the configuration
          MaxQueue,   \* max_queue_depth
          PoolSize,   \* slots of a lane, hence the largest queue depth
          MaxRounds   \* bound: calls of AssignLane

ASSUME SchedulerAssumption ==
  /\ NumLanes \in Nat \ {0} /\ MaxWeight \in Nat \ {0}
  /\ MaxQueue \in Nat /\ PoolSize \in Nat \ {0} /\ MaxRounds \in Nat

Lanes == 0 .. NumLanes - 1

VARIABLES
  weight,   \* State::weight
  credit,   \* State::current
  call,     \* where AssignLane is: "idle", "probe", "fallback"
  unprobed, \* suffix of `order` not yet probed; in the fallback, lanes not yet read
  best,     \* fallback: <<lane, depth>> of the least loaded lane so far, or <<>>
  chosen,   \* the lane returned last, -1 before the first call
  depth,    \* queue_depth_ of every lane
  depthAtCall, \* history: depth when the present call began
  rounds, served, \* history: calls, and calls that returned each lane
  passedOver      \* history: some lane was ever passed over

callVars    == <<weight, credit, call, unprobed, best, chosen>>
historyVars == <<depthAtCall, rounds, served, passedOver>>
vars == <<callVars, depth, historyVars>>

(* SetWeights, which only the constructor calls.                           *)
Init ==
  /\ weight \in [Lanes -> 1 .. MaxWeight]
  /\ credit = [l \in Lanes |-> 0]
  /\ call = "idle" /\ unprobed = {} /\ best = <<>> /\ chosen = -1
  /\ depth = [l \in Lanes |-> 0] /\ depthAtCall = depth
  /\ rounds = 0 /\ served = [l \in Lanes |-> 0] /\ passedOver = FALSE

\* Added up lane after lane, from 0.0.
SumOver(f) ==
  LET sum[n \in 0 .. NumLanes] == IF n = 0 THEN 0 ELSE sum[n - 1] + f[n - 1]
  IN  sum[NumLanes]

Total == SumOver(weight)

----------------------------------------------------------------------------
(* AssignLane.                                                             *)
\* Mutant: every lane gains the same.
BeginAssignUnweighted ==
  /\ call = "idle" /\ rounds < MaxRounds
  /\ credit' = [l \in Lanes |-> credit[l] + 1]
  /\ call' = "probe" /\ unprobed' = Lanes /\ best' = <<>>
  /\ depthAtCall' = depth
  /\ UNCHANGED <<weight, chosen, depth, rounds, served, passedOver>>

BeginAssign ==
  /\ call = "idle" /\ rounds < MaxRounds
  /\ credit' = [l \in Lanes |-> credit[l] + weight[l]]
  /\ call' = "probe" /\ unprobed' = Lanes /\ best' = <<>>
  /\ depthAtCall' = depth
  /\ UNCHANGED <<weight, chosen, depth, rounds, served, passedOver>>

\* Mutant: the chosen lane pays its own weight.
ReturnCheaply(l) ==
  /\ credit' = [credit EXCEPT ![l] = @ - weight[l]]
  /\ chosen' = l
  /\ call' = "idle" /\ unprobed' = {} /\ best' = <<>>
  /\ rounds' = rounds + 1 /\ served' = [served EXCEPT ![l] = @ + 1]

Return(l) ==
  /\ credit' = [credit EXCEPT ![l] = @ - Total]
  /\ chosen' = l
  /\ call' = "idle" /\ unprobed' = {} /\ best' = <<>>
  /\ rounds' = rounds + 1 /\ served' = [served EXCEPT ![l] = @ + 1]

\* Mutant: sorted in ascending order.
ProbedLast(l) == l \in unprobed /\ \A m \in unprobed : credit[l] <= credit[m]

\* std::sort leaves the order of equal credits open.
ProbedNext(l) == l \in unprobed /\ \A m \in unprobed : credit[m] <= credit[l]

Accept(l) ==
  /\ call = "probe" /\ ProbedNext(l)
  /\ depth[l] < MaxQueue
  /\ Return(l)
  /\ UNCHANGED <<weight, depth, depthAtCall, passedOver>>

\* Mutant: no fallback.
PassOverAll(l) ==
  /\ call = "probe" /\ ProbedNext(l)
  /\ depth[l] >= MaxQueue
  /\ unprobed' = unprobed \ {l}
  /\ passedOver' = TRUE
  /\ UNCHANGED <<weight, credit, call, best, chosen, depth, depthAtCall, rounds, served>>

PassOver(l) ==
  /\ call = "probe" /\ ProbedNext(l)
  /\ depth[l] >= MaxQueue
  /\ IF unprobed = {l} THEN call' = "fallback" /\ unprobed' = Lanes
                       ELSE call' = call /\ unprobed' = unprobed \ {l}
  /\ passedOver' = TRUE
  /\ UNCHANGED <<weight, credit, best, chosen, depth, depthAtCall, rounds, served>>

\* Mutant: the fuller lane wins.
MostLoaded(l) ==
  IF best = <<>> \/ depth[l] > best[2] THEN <<l, depth[l]>> ELSE best

\* Every lane is over the bound: read all depths again, in index order.
LeastLoaded(l) ==
  IF best = <<>> \/ depth[l] < best[2] THEN <<l, depth[l]>> ELSE best

ReadDepth ==
  /\ call = "fallback"
  /\ LET l == Min(unprobed) IN
       IF unprobed = {l}
       THEN Return(LeastLoaded(l)[1])
       ELSE /\ best' = LeastLoaded(l)
            /\ unprobed' = unprobed \ {l}
            /\ UNCHANGED <<credit, call, chosen, rounds, served>>
  /\ UNCHANGED <<weight, depth, depthAtCall, passedOver>>

----------------------------------------------------------------------------
(* The capture thread submits frames of the group to the chosen lane, as   *)
(* long as the lane has a free slot; the push threads take them out.       *)
Submit ==
  /\ call = "idle" /\ chosen # -1
  /\ depth[chosen] < PoolSize
  /\ depth' = [depth EXCEPT ![chosen] = @ + 1]
  /\ UNCHANGED <<callVars, historyVars>>

PopSubmit(l) ==
  /\ depth[l] > 0
  /\ depth' = [depth EXCEPT ![l] = @ - 1]
  /\ UNCHANGED <<callVars, historyVars>>

AssignLane == BeginAssign \/ (\E l \in Lanes : Accept(l) \/ PassOver(l)) \/ ReadDepth

Next == AssignLane \/ Submit \/ \E l \in Lanes : PopSubmit(l)

Spec == Init /\ [][Next]_vars

----------------------------------------------------------------------------
(* Properties.                                                             *)

\* The values of every variable.
TypeOK ==
  /\ weight \in [Lanes -> 1 .. MaxWeight]
  /\ credit \in [Lanes -> Int]
  /\ call \in {"idle", "probe", "fallback"}
  /\ unprobed \subseteq Lanes /\ (call # "idle" <=> unprobed # {})
  /\ best \in {<<>>} \cup Lanes \X (0 .. PoolSize)
  /\ chosen \in Lanes \cup {-1}
  /\ depth \in [Lanes -> 0 .. PoolSize] /\ depthAtCall \in [Lanes -> 0 .. PoolSize]
  /\ rounds \in 0 .. MaxRounds /\ served \in [Lanes -> 0 .. MaxRounds]
  /\ passedOver \in BOOLEAN

(* A lane's credit is what it is owed: its share of all groups so far,     *)
(* less the groups it got.  Passing over a lane, or the fallback, neither  *)
(* forgets nor invents credit.                                             *)
CreditIsDebt ==
  call = "idle" =>
    \A l \in Lanes : credit[l] = rounds * weight[l] - Total * served[l]

(* While no lane has been over the bound, every cycle of Total calls gives *)
(* each lane exactly its weight in groups, however ties are broken.        *)
CycleIsExact ==
  call = "idle" /\ ~passedOver /\ rounds % Total = 0 =>
    \A l \in Lanes : served[l] = weight[l] * (rounds \div Total)

(* Within a cycle no lane is ever a whole group ahead of its share.        *)
NeverAGroupAhead ==
  call = "idle" /\ ~passedOver =>
    \A l \in Lanes : Total * (served[l] - 1) < rounds * weight[l]

(* Although the depths are read one by one while they change, the group    *)
(* goes to a lane that is below the bound when AssignLane returns, or at   *)
(* least no fuller than any lane was when the call began.                  *)
ChosenLaneIsLight ==
  [][call # "idle" /\ call' = "idle" =>
       \/ depth[chosen'] < MaxQueue
       \/ \A l \in Lanes : depth[chosen'] <= depthAtCall[l]]_vars
=============================================================================
