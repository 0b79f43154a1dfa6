--------------------------- MODULE SpeedTest_proofs ---------------------------
(***************************************************************************)
(* For any number of targets, workers and slots: results are complete, and *)
(* no download runs beside the tested targets but those of a failed test.  *)
(***************************************************************************)
EXTENDS SpeedTest, FiniteSetTheorems, TLAPS

K == AtLeastOne(Threads)
Slots == AtLeastOne(Concurrency)

Tests == {"waiting", "warming", "running", "some", "none"}
WorkerStates == {"unborn", "running", "ok", "err", "panic"}

\* A test has passed the workers before the one it awaits, each of which came
\* through and was counted once.
PassedInv ==
  \A t \in Target :
    /\ test[t] \in {"waiting", "warming"} =>
         /\ awaited[t] = 1 /\ total[t] = 0
         /\ \A w \in Worker : worker[t][w] = "unborn"
    /\ test[t] = "running" =>
         /\ total[t] = awaited[t] - 1
         /\ \A w \in 1..(awaited[t] - 1) : worker[t][w] = "ok"
    /\ test[t] = "some" =>
         /\ total[t] = K
         /\ \A w \in Worker : worker[t][w] = "ok"

\* What has arrived is a result, and it arrived once.
ArrivedInv ==
  \A t \in Target : Cardinality(Collected(t)) = IF test[t] = "some" THEN 1 ELSE 0

SlotInv == Cardinality(InProgress) <= Slots

IInv == TypeOK /\ PassedInv /\ ArrivedInv /\ SlotInv

-----------------------------------------------------------------------------
(* Numbers and sets.                                                       *)

LEMMA KType == K \in Nat /\ K >= 1 /\ Slots \in Nat /\ Slots >= 1 /\ Worker = 1..K
BY SpeedAssumption, SMT DEF K, Slots, AtLeastOne, Worker

LEMMA TargetsFinite == \A S \in SUBSET Target : IsFiniteSet(S) /\ Cardinality(S) \in Nat
<1>1. IsFiniteSet(Target)
  BY FS_Interval, SpeedAssumption, SMT DEF Target
<1> QED BY <1>1, FS_Subset, FS_CardinalityType

LEMMA WorkersCounted == Cardinality(Worker) = K
BY KType, FS_Interval, SMT

\* The slots in use do not grow unless a test begins.
LEMMA SlotsKept ==
  ASSUME SlotInv, InProgress' \subseteq InProgress
  PROVE  SlotInv'
<1>1. InProgress \in SUBSET Target /\ InProgress' \in SUBSET Target
  BY DEF InProgress
<1>2. Cardinality(InProgress') <= Cardinality(InProgress)
  BY <1>1, TargetsFinite, FS_Subset
<1> QED BY <1>1, <1>2, TargetsFinite, KType, SMT DEF SlotInv

-----------------------------------------------------------------------------
(* The invariant.                                                          *)

LEMMA InitIInv == Init => IInv
<1> SUFFICES ASSUME Init PROVE IInv
  OBVIOUS
<1>1. 1 \in Worker /\ 0 \in 0..K
  BY KType, SMT
<1>2. TypeOK
  <2>1. total \in [Target -> 0..AtLeastOne(Threads)]
    BY <1>1 DEF Init, K
  <2>2. collected \in Seq(Target)
    BY SMT DEF Init
  <2> QED BY <1>1, <2>1, <2>2, Zenon DEF Init, TypeOK
<1>3. PassedInv
  BY DEF Init, PassedInv
<1>4. ArrivedInv
  <2>1. \A t \in Target : Collected(t) = {}
    BY SMT DEF Init, Collected
  <2> QED BY <2>1, FS_EmptySet DEF Init, ArrivedInv
<1>5. SlotInv
  <2>1. InProgress = {}
    BY DEF Init, InProgress
  <2> QED BY <2>1, FS_EmptySet, KType, SMT DEF SlotInv
<1> QED BY <1>2, <1>3, <1>4, <1>5 DEF IInv

\* A test that moves to s, its workers, its counts and the results unchanged.
LEMMA MovesOnly ==
  ASSUME IInv, NEW t \in Target, NEW s \in {"warming", "none"},
         test[t] # "some", s = "warming" => test[t] = "waiting",
         test' = [test EXCEPT ![t] = s],
         UNCHANGED <<caller, worker, awaited, total, collected, cancelled>>
  PROVE  TypeOK' /\ PassedInv' /\ ArrivedInv'
<1>1. TypeOK'
  BY DEF IInv, TypeOK
<1>2. test \in [Target -> Tests]
  BY DEF IInv, TypeOK, Tests
<1>3. PassedInv'
  BY <1>2 DEF IInv, PassedInv
<1>4. ArrivedInv'
  BY <1>2 DEF IInv, ArrivedInv, Collected
<1> QED BY <1>1, <1>3, <1>4

\* The workers of a test that has none yet are born.
LEMMA SpawnKeeps ==
  ASSUME IInv, NEW t \in Target, test[t] \in {"waiting", "warming"}, Spawn(t),
         UNCHANGED <<caller, awaited, total, collected, cancelled>>
  PROVE  TypeOK' /\ PassedInv' /\ ArrivedInv'
<1>1. TypeOK'
  BY DEF IInv, TypeOK, Spawn
<1>2. test \in [Target -> Tests]
       /\ worker \in [Target -> [Worker -> WorkerStates]]
  BY DEF IInv, TypeOK, Tests, WorkerStates
<1>3. PassedInv'
  <2>1. 1..(1 - 1) = {}
    BY SMT
  <2>2. total[t] = 0 /\ awaited[t] = 1
    BY DEF IInv, PassedInv
  <2> QED BY <1>2, <2>1, <2>2 DEF IInv, PassedInv, Spawn
<1>4. ArrivedInv'
  BY <1>2 DEF IInv, ArrivedInv, Collected, Spawn
<1> QED BY <1>1, <1>3, <1>4

LEMMA StartKeeps ==
  ASSUME IInv, NEW t \in Target, Start(t)
  PROVE  IInv'
<1>1. TypeOK' /\ PassedInv' /\ ArrivedInv'
  <2>1. CASE cancelled
    BY <2>1, MovesOnly DEF Start, Drop
  <2>2. CASE ~cancelled /\ caller = "cli"
    BY <2>2, MovesOnly DEF Start
  <2>3. CASE ~cancelled /\ caller # "cli"
    BY <2>3, SpawnKeeps DEF Start
  <2> QED BY <2>1, <2>2, <2>3
<1>2. SlotInv'
  <2>1. InProgress \in SUBSET Target /\ InProgress' \subseteq InProgress \cup {t}
    BY DEF Start, Spawn, Drop, InProgress, IInv, TypeOK
  <2>2. IsFiniteSet(InProgress \cup {t})
        /\ Cardinality(InProgress \cup {t}) \in Nat
        /\ Cardinality(InProgress \cup {t}) <= Cardinality(InProgress) + 1
    <3>1. IsFiniteSet(InProgress) /\ Cardinality(InProgress) \in Nat
      BY <2>1, TargetsFinite
    <3>2. /\ IsFiniteSet(InProgress \cup {t})
          /\ \/ Cardinality(InProgress \cup {t}) = Cardinality(InProgress)
             \/ Cardinality(InProgress \cup {t}) = Cardinality(InProgress) + 1
      BY <3>1, FS_AddElement
    <3> QED BY <3>1, <3>2
  <2>3. Cardinality(InProgress') <= Cardinality(InProgress \cup {t})
        /\ Cardinality(InProgress') \in Nat
    BY <2>1, <2>2, FS_Subset, FS_CardinalityType
  <2>4. Cardinality(InProgress) < Slots
    BY DEF Start, SlotFree, Slots
  <2> QED BY <2>1, <2>2, <2>3, <2>4, TargetsFinite, KType, SMT DEF SlotInv
<1> QED BY <1>1, <1>2 DEF IInv

LEMMA WarmUpKeeps ==
  ASSUME IInv, NEW t \in Target, WarmUp(t)
  PROVE  IInv'
<1>1. TypeOK' /\ PassedInv' /\ ArrivedInv'
  <2>1. CASE Spawn(t)
    BY <2>1, SpawnKeeps DEF WarmUp
  <2>2. CASE Drop(t) /\ UNCHANGED worker
    BY <2>2, MovesOnly DEF WarmUp, Drop
  <2> QED BY <2>1, <2>2 DEF WarmUp
<1>2. InProgress' \subseteq InProgress
  BY DEF WarmUp, Spawn, Drop, InProgress, IInv, TypeOK
<1> QED BY <1>1, <1>2, SlotsKept DEF IInv

LEMMA GiveUpKeeps ==
  ASSUME IInv, NEW t \in Target, GiveUp(t)
  PROVE  IInv'
<1>1. TypeOK' /\ PassedInv' /\ ArrivedInv'
  BY MovesOnly DEF GiveUp, Drop
<1>2. InProgress' \subseteq InProgress
  BY DEF GiveUp, Drop, InProgress, IInv, TypeOK
<1> QED BY <1>1, <1>2, SlotsKept DEF IInv

LEMMA WorkerEndsKeeps ==
  ASSUME IInv, NEW t \in Target, NEW w \in Worker, WorkerEnds(t, w)
  PROVE  IInv'
<1>0. worker \in [Target -> [Worker -> WorkerStates]]
  BY DEF IInv, TypeOK, WorkerStates
<1>1. PICK r \in {"ok", "err", "panic"} : worker' = [worker EXCEPT ![t][w] = r]
  BY DEF WorkerEnds
<1>2. UNCHANGED <<caller, test, awaited, total, collected, cancelled>>
  BY DEF WorkerEnds
<1>3. worker' \in [Target -> [Worker -> WorkerStates]]
  BY <1>0, <1>1 DEF WorkerStates
<1>4. TypeOK'
  BY <1>2, <1>3 DEF IInv, TypeOK, WorkerStates
\* Only a running worker changes: one that came through has.
<1>5. \A u \in Target, v \in Worker :
        worker[u][v] \in {"ok", "unborn"} => worker'[u][v] = worker[u][v]
  BY <1>0, <1>1 DEF WorkerEnds
<1>6. \A u \in Target : test[u] = "running" => 1..(awaited[u] - 1) \subseteq Worker
  <2>1. \A u \in Target : awaited[u] \in 1..K
    BY KType DEF IInv, TypeOK
  <2> QED BY <2>1, KType, SMT
<1>7. PassedInv'
  BY <1>2, <1>5, <1>6 DEF IInv, PassedInv
<1>8. ArrivedInv' /\ SlotInv'
  BY <1>2 DEF IInv, ArrivedInv, Collected, SlotInv, InProgress
<1> QED BY <1>4, <1>7, <1>8 DEF IInv

LEMMA AwaitKeeps ==
  ASSUME IInv, NEW t \in Target, AwaitWorker(t)
  PROVE  IInv'
<1>0. /\ test \in [Target -> Tests] /\ total \in [Target -> 0..K]
      /\ awaited \in [Target -> 1..K] /\ collected \in Seq(Target)
  BY KType DEF IInv, TypeOK, Tests, K
<1>1. /\ test[t] = "running" /\ worker[t][awaited[t]] = "ok"
      /\ total' = [total EXCEPT ![t] = @ + 1]
      /\ UNCHANGED <<caller, worker, cancelled>>
  BY DEF AwaitWorker, AddsUp, Current
<1>2. total[t] = awaited[t] - 1 /\ \A w \in 1..(awaited[t] - 1) : worker[t][w] = "ok"
  BY <1>1 DEF IInv, PassedInv
<1>3. \A w \in 1..awaited[t] : worker[t][w] = "ok"
  BY <1>0, <1>1, <1>2, SMT
<1>4. total' \in [Target -> 0..K]
  <2>1. total[t] + 1 \in 0..K
    BY <1>0, <1>2, KType, SMT
  <2> QED BY <1>0, <1>1, <2>1
<1>5. InProgress' \subseteq InProgress
  BY <1>0 DEF AwaitWorker, InProgress
<1>6. SlotInv'
  BY <1>5, SlotsKept DEF IInv
<1>7. CASE MoreToAwait(t)
  <2>1. awaited' = [awaited EXCEPT ![t] = @ + 1] /\ UNCHANGED <<test, collected>>
    BY <1>7 DEF AwaitWorker
  <2>2. awaited' \in [Target -> 1..K]
    <3>1. awaited[t] + 1 \in 1..K
      BY <1>0, <1>7, KType, SMT DEF MoreToAwait, K
    <3> QED BY <1>0, <2>1, <3>1
  <2>3. TypeOK'
    BY <1>1, <1>4, <2>1, <2>2, KType DEF IInv, TypeOK, K
  <2>4. PassedInv'
    <3>1. total'[t] = total[t] + 1 /\ awaited'[t] = awaited[t] + 1
      BY <1>0, <1>1, <2>1
    <3>2. total'[t] = awaited'[t] - 1 /\ awaited'[t] - 1 = awaited[t]
      BY <1>0, <1>2, <3>1, SMT
    <3>3. \A u \in Target \ {t} : total'[u] = total[u] /\ awaited'[u] = awaited[u]
      BY <1>0, <1>1, <2>1
    <3>4. worker' = worker /\ test' = test
      BY <1>1, <2>1
    <3> QED BY <1>1, <1>3, <3>2, <3>3, <3>4 DEF IInv, PassedInv
  <2>5. ArrivedInv'
    BY <2>1 DEF IInv, ArrivedInv, Collected
  <2> QED BY <1>6, <2>3, <2>4, <2>5 DEF IInv
<1>8. CASE ~MoreToAwait(t)
  <2>1. /\ test' = [test EXCEPT ![t] = "some"] /\ awaited' = awaited
        /\ collected' = Append(collected, t)
    BY <1>8 DEF AwaitWorker
  <2>2. awaited[t] = K
    BY <1>0, <1>8, KType, SMT DEF MoreToAwait, K
  <2>3. TypeOK'
    <3>1. collected' \in Seq(Target)
      BY <1>0, <2>1, SMT
    <3>2. test' \in [Target -> Tests]
      BY <1>0, <2>1 DEF Tests
    <3> QED BY <1>1, <1>4, <2>1, <3>1, <3>2, KType DEF IInv, TypeOK, K, Tests
  <2>4. PassedInv'
    <3>1. total'[t] = K
      BY <1>0, <1>1, <1>2, <2>2, KType, SMT
    <3>2. \A w \in Worker : worker[t][w] = "ok"
      BY <1>3, <2>2, KType
    <3>3. \A u \in Target \ {t} : total'[u] = total[u] /\ test'[u] = test[u]
      BY <1>0, <1>1, <2>1
    <3>4. test'[t] = "some" /\ worker' = worker
      BY <1>0, <1>1, <2>1
    <3> QED BY <2>1, <3>1, <3>2, <3>3, <3>4 DEF IInv, PassedInv
  <2>5. ArrivedInv'
    <3>1. \A u \in Target \ {t} : Collected(u)' = Collected(u) /\ test'[u] = test[u]
      <4>1. \A u \in Target \ {t} : Collected(u)' = Collected(u)
        BY <1>0, <2>1, SMT DEF Collected
      <4> QED BY <1>0, <2>1, <4>1
    <3>2. Collected(t) = {}
      <4>1. Cardinality(Collected(t)) = 0
        BY <1>1 DEF IInv, ArrivedInv
      <4>2. IsFiniteSet(Collected(t))
        <5>1. IsFiniteSet(1..Len(collected))
          BY <1>0, FS_Interval, SMT
        <5>2. Collected(t) \subseteq 1..Len(collected)
          BY DEF Collected
        <5> QED BY <5>1, <5>2, FS_Subset
      <4> QED BY <4>1, <4>2, FS_EmptySet
    <3>3. Collected(t)' = {Len(collected) + 1}
      <4>1. \A i \in 1..Len(collected) : collected[i] # t
        BY <3>2 DEF Collected
      <4>2. /\ Len(collected') = Len(collected) + 1 /\ Len(collected) \in Nat
            /\ \A i \in 1..Len(collected) : collected'[i] = collected[i]
            /\ collected'[Len(collected) + 1] = t
        BY <1>0, <2>1, SMT
      <4> QED BY <4>1, <4>2, SMT DEF Collected
    <3>4. Cardinality(Collected(t)') = 1 /\ test'[t] = "some"
      BY <1>0, <2>1, <3>3, FS_Singleton
    <3> QED BY <3>1, <3>4 DEF IInv, ArrivedInv
  <2> QED BY <1>6, <2>3, <2>4, <2>5 DEF IInv
<1> QED BY <1>7, <1>8

LEMMA NextIInv == IInv /\ [Next]_vars => IInv'
<1> SUFFICES ASSUME IInv, [Next]_vars PROVE IInv'
  OBVIOUS
<1>1. ASSUME NEW t \in Target, TestStep(t) PROVE IInv'
  BY <1>1, StartKeeps, WarmUpKeeps, AwaitKeeps, GiveUpKeeps DEF TestStep
<1>2. ASSUME NEW t \in Target, NEW w \in Worker, WorkerEnds(t, w) PROVE IInv'
  BY <1>2, WorkerEndsKeeps
<1>3. CASE Cancel
  BY <1>3 DEF Cancel, IInv, TypeOK, PassedInv, ArrivedInv, Collected, SlotInv, InProgress
<1>4. CASE UNCHANGED vars
  BY <1>4 DEF vars, IInv, TypeOK, PassedInv, ArrivedInv, Collected, SlotInv, InProgress
<1> QED BY <1>1, <1>2, <1>3, <1>4 DEF Next

LEMMA Invariance == Spec => []IInv
BY InitIInv, NextIInv, PTL DEF Spec

-----------------------------------------------------------------------------

(* The types hold for every number of targets and workers: no test awaits  *)
(* a worker it did not spawn (speedtest.rs, test).                         *)
THEOREM SpeedTypes == Spec => []TypeOK
BY Invariance, PTL DEF IInv

(* A target has one result, of all its workers, if they all came through,  *)
(* and none otherwise (speedtest.rs, test and test_batch).                 *)
THEOREM ResultsAreComplete == Spec => []ResultsComplete
<1>1. IInv => ResultsComplete
  BY WorkersCounted DEF IInv, ArrivedInv, PassedInv, ResultsComplete
<1> QED BY <1>1, Invariance, PTL

(* The targets with downloads under way are no more than the slots and the *)
(* targets given up (speedtest.rs, test_batch).                            *)
THEOREM StraysComeFromFailures == Spec => []StrayWorkersOnlyAfterFailure
<1>1. IInv => StrayWorkersOnlyAfterFailure
  <2> SUFFICES ASSUME IInv PROVE StrayWorkersOnlyAfterFailure
    OBVIOUS
  <2> DEFINE Strays == {t \in Busy : test[t] = "none"}
             Tested == Busy \ Strays
  <2>1. Busy \in SUBSET Target /\ Strays \in SUBSET Target /\ Tested \in SUBSET Target
        /\ InProgress \in SUBSET Target
    BY DEF Busy, InProgress
  <2>2. Tested \subseteq InProgress
    BY DEF Busy, InProgress, IInv, TypeOK, PassedInv
  <2>3. Cardinality(Tested) <= Cardinality(InProgress)
    BY <2>1, <2>2, TargetsFinite, FS_Subset
  <2>4. Cardinality(Busy) <= Cardinality(Tested) + Cardinality(Strays)
    <3>1. Busy = Tested \cup Strays /\ Tested \cap Strays = {}
      OBVIOUS
    <3>2. IsFiniteSet(Tested) /\ IsFiniteSet(Strays)
      BY <2>1, TargetsFinite
    <3>3. Cardinality(Tested \cup Strays) =
            Cardinality(Tested) + Cardinality(Strays) - Cardinality(Tested \cap Strays)
      BY <3>2, FS_Union
    <3>4. Cardinality(Tested \cap Strays) = 0
      BY <3>1, FS_EmptySet
    <3>5. Cardinality(Tested) \in Nat /\ Cardinality(Strays) \in Nat
      BY <2>1, TargetsFinite
    <3> QED BY <3>1, <3>3, <3>4, <3>5, SMT
  <2>5. Cardinality(InProgress) <= Slots
    BY DEF IInv, SlotInv
  <2>6. /\ Cardinality(Busy) \in Nat /\ Cardinality(Tested) \in Nat
        /\ Cardinality(Strays) \in Nat /\ Cardinality(InProgress) \in Nat
    BY <2>1, TargetsFinite
  <2> QED BY <2>3, <2>4, <2>5, <2>6, KType, SMT DEF StrayWorkersOnlyAfterFailure, Slots
<1> QED BY <1>1, Invariance, PTL
==============================================================================
