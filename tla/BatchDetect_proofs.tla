-------------------------- MODULE BatchDetect_proofs --------------------------
(***************************************************************************)
(* For any number of targets and any configuration: the accounting of the  *)
(* permits, the range of the limit, the completion numbers, and what they  *)
(* imply for the probes in flight; what the caller of a batch gets; and    *)
(* that a batch implements BatchContract.                                  *)
(***************************************************************************)
EXTENDS BatchDetect, FiniteSetTheorems, TLAPS

-----------------------------------------------------------------------------
(* Arithmetic of the configuration.                                        *)

LEMMA MaxLimitType == MaxLimit \in Nat /\ MaxLimit >= 1
BY ConfigAssumption, SMT DEF MaxLimit, Greatest

LEMMA CapType == \A p \in Nat : Gov!Unthrottled(p) \in 1..MaxLimit
BY MaxLimitType, SMT DEF Gov!Unthrottled, Gov!Greatest, Gov!Least

\* Every verdict of the governor caps within 1..MaxLimit.
LEMMA VerdictType ==
  ASSUME NEW p \in Nat, NEW v \in Verdicts(p)
  PROVE  v.cap \in 1..MaxLimit /\ v.why \in {"clear", "fd", "errors"}
<1>1. Gov!Unthrottled(p) \in 1..MaxLimit
  BY CapType
<1>2. CASE v = [cap |-> Gov!Unthrottled(p), why |-> "clear"]
  BY <1>1, <1>2
<1>3. CASE v \in [cap : 1..Gov!Least(p - 1, MaxLimit), why : {"fd", "errors"}]
  <2>1. v.cap \in 1..Gov!Least(p - 1, MaxLimit) /\ v.why \in {"fd", "errors"}
    BY <1>3
  <2>2. Gov!Least(p - 1, MaxLimit) \in Int /\ Gov!Least(p - 1, MaxLimit) <= MaxLimit
    BY MaxLimitType, SMT DEF Gov!Least
  <2> QED BY <2>1, <2>2, MaxLimitType, SMT
<1> QED BY <1>2, <1>3 DEF Verdicts, Gov!Verdicts

LEMMA InitialRawType == InitialRaw \in 0..MaxLimit
BY ConfigAssumption, MaxLimitType, SMT DEF InitialRaw, Clamp, Greatest, Least

LEMMA InitialLimitType == InitialLimits \subseteq 0..MaxLimit
<1>1. CASE Governed
  <2>1. \A v \in Verdicts(InitialRaw) : v.cap \in 1..MaxLimit
    BY InitialRawType, VerdictType
  <2>2. InitialLimits = {v.cap : v \in Verdicts(InitialRaw)}
    BY <1>1 DEF InitialLimits
  <2> QED BY <2>1, <2>2, MaxLimitType, SMT
<1>2. CASE ~Governed
  BY <1>2, InitialRawType DEF InitialLimits
<1> QED BY <1>1, <1>2

\* What a resize proposes is a natural number unless the clamp panics.
LEMMA ProposedType == limit \in Nat => Proposed \in Nat
<1> SUFFICES ASSUME limit \in Nat PROVE Proposed \in Nat
  OBVIOUS
<1>1. Steered \in Nat
  <2>1. (5 * limit + 3) \div 4 \in Nat /\ limit \div 2 \in Nat
    BY SMT
  <2> QED BY <2>1 DEF Steered
<1>2. ClampLo \in Nat /\ ClampHi \in Nat
  BY ConfigAssumption, MaxLimitType, SMT DEF ClampLo, ClampHi, Greatest, Least
<1> QED BY <1>1, <1>2, MaxLimitType, SMT DEF Proposed, Clamp, Greatest, Least

-----------------------------------------------------------------------------
(* Permits: moving one task, and handing permits to queued tasks.          *)

TasksAt == [Task -> PcStates]

LEMMA HoldersFinite ==
  ASSUME NEW p
  PROVE  IsFiniteSet(HoldersOf(p)) /\ Cardinality(HoldersOf(p)) \in Nat
<1>1. IsFiniteSet(Task)
  BY FS_Interval, ConfigAssumption, SMT DEF Task
<1>2. HoldersOf(p) \in SUBSET Task
  BY DEF HoldersOf
<1> QED BY <1>1, <1>2, FS_Subset, FS_CardinalityType

\* A task that lets go of its permit, takes one, or does neither.
LEMMA MoveTask ==
  ASSUME NEW p \in TasksAt, NEW t \in Task, NEW x \in PcStates
  PROVE  LET q == [p EXCEPT ![t] = x]
             held == p[t] \in {"granted", "probing"}
             holds == x \in {"granted", "probing"}
             h == Cardinality(HoldersOf(p))
         IN  /\ q \in TasksAt
             /\ held /\ ~holds => Cardinality(HoldersOf(q)) = h - 1
             /\ ~held /\ holds => Cardinality(HoldersOf(q)) = h + 1
             /\ (held <=> holds) => Cardinality(HoldersOf(q)) = h
<1> DEFINE q == [p EXCEPT ![t] = x]
<1>1. q \in TasksAt /\ q[t] = x /\ \A u \in Task : u # t => q[u] = p[u]
  BY DEF TasksAt
<1>2. IsFiniteSet(HoldersOf(p))
  BY HoldersFinite
<1>3. ASSUME p[t] \in {"granted", "probing"}, x \notin {"granted", "probing"}
      PROVE  Cardinality(HoldersOf(q)) = Cardinality(HoldersOf(p)) - 1
  <2>1. HoldersOf(q) = HoldersOf(p) \ {t}
    BY <1>1, <1>3 DEF HoldersOf
  <2>2. t \in HoldersOf(p)
    BY <1>3 DEF HoldersOf
  <2> QED BY <1>2, <2>1, <2>2, FS_RemoveElement
<1>4. ASSUME p[t] \notin {"granted", "probing"}, x \in {"granted", "probing"}
      PROVE  Cardinality(HoldersOf(q)) = Cardinality(HoldersOf(p)) + 1
  <2>1. HoldersOf(q) = HoldersOf(p) \cup {t}
    BY <1>1, <1>4 DEF HoldersOf
  <2>2. t \notin HoldersOf(p)
    BY <1>4 DEF HoldersOf
  <2> QED BY <1>2, <2>1, <2>2, FS_AddElement
<1>5. ASSUME p[t] \in {"granted", "probing"} <=> x \in {"granted", "probing"}
      PROVE  HoldersOf(q) = HoldersOf(p)
  BY <1>1, <1>5 DEF HoldersOf
<1> QED BY <1>1, <1>3, <1>4, <1>5

\* k permits handed out add k to the permits in all; only queued tasks move.
LEMMA Give ==
  ASSUME NEW p \in TasksAt, NEW k \in Nat, avail \in Nat, GivePermits(k, p)
  PROVE  /\ pc' \in TasksAt
         /\ avail' \in Nat
         /\ Permits' = avail + k + Cardinality(HoldersOf(p))
         /\ \A t \in Task : p[t] # "queued" => pc'[t] = p[t]
         /\ \A t \in Task : p[t] = "queued" => pc'[t] \in {"queued", "granted"}
<1>1. PICK W \in SUBSET Queued(p) :
        /\ Cardinality(W) = Least(k, Cardinality(Queued(p)))
        /\ pc' = [t \in Task |-> IF t \in W THEN "granted" ELSE p[t]]
        /\ avail' = avail + k - Cardinality(W)
  BY DEF GivePermits
<1>2. /\ pc' \in TasksAt
      /\ \A t \in Task : p[t] # "queued" => pc'[t] = p[t]
      /\ \A t \in Task : p[t] = "queued" => pc'[t] \in {"queued", "granted"}
  BY <1>1 DEF TasksAt, Queued, PcStates
<1>3. IsFiniteSet(Queued(p)) /\ IsFiniteSet(W)
  <2>1. IsFiniteSet(Task)
    BY FS_Interval, ConfigAssumption, SMT DEF Task
  <2>2. Queued(p) \in SUBSET Task
    BY DEF Queued
  <2>3. IsFiniteSet(Queued(p))
    BY <2>1, <2>2, FS_Subset
  <2> QED BY <2>3, FS_Subset
<1>4. Cardinality(W) \in Nat /\ Cardinality(Queued(p)) \in Nat
  BY <1>3, FS_CardinalityType
<1>5. avail' \in Nat
  BY <1>1, <1>4, SMT DEF Least
<1>6. HoldersOf(pc') = HoldersOf(p) \cup W /\ HoldersOf(p) \cap W = {}
  BY <1>1 DEF HoldersOf, Queued
<1>7. Cardinality(HoldersOf(pc')) = Cardinality(HoldersOf(p)) + Cardinality(W)
  <2>1. IsFiniteSet(HoldersOf(p)) /\ Cardinality(HoldersOf(p)) \in Nat
    BY HoldersFinite
  <2>2. Cardinality(HoldersOf(p) \cup W)
          = Cardinality(HoldersOf(p)) + Cardinality(W) - Cardinality(HoldersOf(p) \cap W)
    BY <1>3, <2>1, FS_Union
  <2>3. Cardinality(HoldersOf(p) \cap W) = 0
    BY <1>6, FS_EmptySet
  <2> QED BY <1>4, <1>6, <2>1, <2>2, <2>3, SMT
<1>8. Permits' = avail' + Cardinality(HoldersOf(pc'))
  BY DEF Permits, Holders
<1> QED BY <1>1, <1>2, <1>4, <1>5, <1>7, <1>8, HoldersFinite, SMT

-----------------------------------------------------------------------------
(* The accounting of the permits, inductive as it stands.                  *)

FixedLimit == ~Adaptive /\ ~Governed
Floored == Governed \/ InitialRaw >= 1

PermitInv ==
  /\ pc \in TasksAt
  /\ avail \in Nat
  /\ limit \in 0..MaxLimit
  /\ Floored => limit >= 1
  /\ Permits >= limit
  /\ FixedLimit => Permits = limit /\ \A t \in Task : pc[t] # "counted"

LEMMA InitPermits == Init => PermitInv
<1> SUFFICES ASSUME Init PROVE PermitInv
  OBVIOUS
<1>1. limit \in 0..MaxLimit /\ avail = limit
  BY InitialLimitType DEF Init
<1>2. Floored => limit >= 1
  <2>1. CASE Governed
    <3>1. \A v \in Verdicts(InitialRaw) : v.cap \in 1..MaxLimit
      BY InitialRawType, VerdictType
    <3> QED BY <2>1, <3>1 DEF Init, InitialLimits
  <2>2. CASE ~Governed
    BY <2>2 DEF Init, InitialLimits, Floored
  <2> QED BY <2>1, <2>2
<1>3. pc \in TasksAt /\ \A t \in Task : pc[t] = "spawned"
  BY DEF Init, TasksAt, PcStates
<1>4. Holders = {}
  BY <1>3 DEF Holders, HoldersOf
<1>5. Permits = avail
  BY <1>1, <1>4, FS_EmptySet, MaxLimitType, SMT DEF Permits
<1> QED BY <1>1, <1>2, <1>3, <1>5, MaxLimitType, SMT DEF PermitInv

\* A step that moves one task without touching permits or the limit.
LEMMA PermitsStay ==
  ASSUME PermitInv, NEW t \in Task, NEW x \in PcStates,
         pc' = [pc EXCEPT ![t] = x], UNCHANGED <<avail, limit>>,
         pc[t] \in {"granted", "probing"} <=> x \in {"granted", "probing"},
         FixedLimit => x # "counted"
  PROVE  PermitInv'
<1>1. pc' \in TasksAt /\ Cardinality(HoldersOf(pc')) = Cardinality(HoldersOf(pc))
  BY MoveTask DEF PermitInv
<1>2. Permits' = Permits
  BY <1>1 DEF Permits, Holders
<1>3. FixedLimit => \A u \in Task : pc'[u] # "counted"
  BY DEF PermitInv, TasksAt
<1> QED BY <1>1, <1>2, <1>3 DEF PermitInv, FixedLimit, Floored

\* A step in which one task leaves for good or moves on, and k of the permits
\* it held come back.
LEMMA PermitsReturn ==
  ASSUME PermitInv, NEW t \in Task, NEW x \in PcStates \ {"granted", "probing", "counted"},
         NEW k \in {0, 1}, k = 1 <=> pc[t] \in {"granted", "probing"},
         GivePermits(k, [pc EXCEPT ![t] = x]), UNCHANGED limit
  PROVE  PermitInv'
<1> DEFINE p == [pc EXCEPT ![t] = x]
<1>1. p \in TasksAt /\ Cardinality(HoldersOf(p)) = Cardinality(HoldersOf(pc)) - k
  BY MoveTask, HoldersFinite, SMT DEF PermitInv
<1> HIDE DEF p
<1>2. GivePermits(k, p) /\ avail \in Nat /\ k \in Nat
  BY DEF p, PermitInv
<1>3. /\ pc' \in TasksAt /\ avail' \in Nat
      /\ Permits' = avail + k + Cardinality(HoldersOf(p))
      /\ \A u \in Task : p[u] # "queued" => pc'[u] = p[u]
      /\ \A u \in Task : p[u] = "queued" => pc'[u] \in {"queued", "granted"}
  BY <1>1, <1>2, Give
<1>4. Permits' = Permits
  BY <1>1, <1>3, HoldersFinite, SMT DEF Permits, Holders, PermitInv
<1>5. FixedLimit => \A u \in Task : pc'[u] # "counted"
  <2>1. FixedLimit => \A u \in Task : p[u] # "counted"
    BY DEF PermitInv, TasksAt, p
  <2> QED BY <1>3, <2>1
<1> QED BY <1>3, <1>4, <1>5 DEF PermitInv, FixedLimit, Floored

\* A resize keeps at least as many permits as the new limit.
LEMMA ResizeKeepsPermits ==
  ASSUME PermitInv, NEW t \in Task, Resize(t)
  PROVE  PermitInv'
<1> DEFINE p == [pc EXCEPT ![t] = "done"]
<1>1. /\ p \in TasksAt
      /\ Cardinality(HoldersOf(p)) = Cardinality(HoldersOf(pc))
      /\ \A u \in Task : p[u] = "counted" => pc[u] = "counted"
  <2>1. pc[t] = "counted" /\ "done" \in PcStates
    BY DEF Resize, PcStates
  <2> QED BY <2>1, MoveTask DEF PermitInv, TasksAt
<1>2. ~FixedLimit
  BY DEF Resize, PermitInv
<1>3. PICK v \in Verdicts(Proposed) :
        /\ limit' = v.cap
        /\ IF v.cap >= limit
           THEN GivePermits(v.cap - limit, p)
           ELSE avail' = AvailAfterShrink(limit - v.cap) /\ pc' = p
  BY DEF Resize
<1> HIDE DEF p
<1>4. limit \in Nat /\ avail \in Nat /\ Permits >= limit
  BY MaxLimitType, SMT DEF PermitInv
<1>5. v.cap \in 1..MaxLimit
  BY <1>4, ProposedType, VerdictType
<1>6. /\ Cardinality(HoldersOf(pc)) \in Nat
      /\ Permits = avail + Cardinality(HoldersOf(pc))
  BY HoldersFinite DEF Permits, Holders
<1>7. CASE v.cap >= limit
  <2>1. v.cap - limit \in Nat /\ GivePermits(v.cap - limit, p)
    BY <1>3, <1>4, <1>5, <1>7, MaxLimitType, SMT
  <2>2. /\ pc' \in TasksAt /\ avail' \in Nat
        /\ Permits' = avail + (v.cap - limit) + Cardinality(HoldersOf(p))
    BY <1>1, <1>4, <2>1, Give
  <2>3. Permits' >= limit'
    BY <1>1, <1>3, <1>4, <1>5, <1>6, <2>2, MaxLimitType, SMT
  <2> QED BY <1>2, <1>3, <1>5, <2>2, <2>3, MaxLimitType, SMT DEF PermitInv, FixedLimit
<1>8. CASE ~(v.cap >= limit)
  <2>1. avail' = avail - Least(limit - v.cap, avail) /\ pc' = p
    BY <1>3, <1>8 DEF AvailAfterShrink
  <2>2. avail' \in Nat /\ avail' >= avail - (limit - v.cap)
    BY <1>4, <1>5, <1>8, <2>1, MaxLimitType, SMT DEF Least
  <2>3. Permits' = avail' + Cardinality(HoldersOf(pc))
    BY <1>1, <2>1 DEF Permits, Holders
  <2>4. Permits' >= limit'
    BY <1>3, <1>4, <1>5, <1>6, <2>2, <2>3, MaxLimitType, SMT
  <2> QED BY <1>1, <1>2, <1>3, <1>5, <2>1, <2>2, <2>4, MaxLimitType, SMT DEF PermitInv, FixedLimit
<1> QED BY <1>7, <1>8

LEMMA NextPermits == PermitInv /\ [Next]_vars => PermitInv'
<1> SUFFICES ASSUME PermitInv, [Next]_vars PROVE PermitInv'
  OBVIOUS
<1>1. ASSUME NEW t \in Task, Acquire(t) PROVE PermitInv'
  <2>1. CASE avail > 0
    <3>1. pc[t] = "spawned" /\ pc' = [pc EXCEPT ![t] = "granted"] /\ avail' = avail - 1 /\ limit' = limit
      BY <1>1, <2>1 DEF Acquire
    <3>2. pc' \in TasksAt /\ Cardinality(HoldersOf(pc')) = Cardinality(HoldersOf(pc)) + 1
      BY <3>1, MoveTask DEF PermitInv, PcStates
    <3>3. avail' \in Nat /\ Permits' = Permits
      BY <2>1, <3>1, <3>2, HoldersFinite, SMT DEF PermitInv, Permits, Holders
    <3>4. FixedLimit => \A u \in Task : pc'[u] # "counted"
      BY <3>1 DEF PermitInv, TasksAt
    <3> QED BY <3>1, <3>2, <3>3, <3>4 DEF PermitInv, FixedLimit, Floored
  <2>2. CASE ~(avail > 0)
    BY <1>1, <2>2, PermitsStay DEF Acquire, PcStates
  <2> QED BY <2>1, <2>2
<1>2. ASSUME NEW t \in Task, GiveUp(t) PROVE PermitInv'
  <2> DEFINE k == IF pc[t] = "granted" THEN 1 ELSE 0
  <2>1. /\ k \in {0, 1} /\ (k = 1 <=> pc[t] \in {"granted", "probing"})
        /\ GivePermits(k, [pc EXCEPT ![t] = "done"]) /\ UNCHANGED limit
    BY <1>2 DEF GiveUp
  <2>2. "done" \in PcStates \ {"granted", "probing", "counted"}
    BY DEF PcStates
  <2> HIDE DEF k
  <2> QED BY <2>1, <2>2, PermitsReturn
<1>3. ASSUME NEW t \in Task, StartProbe(t) PROVE PermitInv'
  BY <1>3, PermitsStay DEF StartProbe, semVars, PcStates
<1>4. ASSUME NEW t \in Task, NEW r, EndProbe(t, r) PROVE PermitInv'
  BY <1>4, PermitsReturn DEF EndProbe, PcStates
<1>5. ASSUME NEW t \in Task, PanicProbe(t) PROVE PermitInv'
  BY <1>5, PermitsReturn DEF PanicProbe, PcStates
<1>6. ASSUME NEW t \in Task, PushRecent(t) PROVE PermitInv'
  BY <1>6, PermitsStay DEF PushRecent, semVars, PcStates
<1>7. ASSUME NEW t \in Task, Count(t) PROVE PermitInv'
  <2>1. CASE Adaptive \/ Governed
    BY <1>7, <2>1, PermitsStay DEF Count, semVars, PcStates, FixedLimit
  <2>2. CASE ~(Adaptive \/ Governed)
    BY <1>7, <2>2, PermitsStay DEF Count, semVars, PcStates
  <2> QED BY <2>1, <2>2
<1>8. ASSUME NEW t \in Task, PanicResize(t) PROVE PermitInv'
  BY <1>8, PermitsStay DEF PanicResize, semVars, PcStates
<1>9. ASSUME UNCHANGED <<taskVars, semVars>> PROVE PermitInv'
  <2>1. UNCHANGED <<pc, avail, limit>>
    BY <1>9 DEF taskVars, semVars
  <2>2. Permits' = Permits
    BY <2>1 DEF Permits, Holders, HoldersOf
  <2> QED BY <2>1, <2>2 DEF PermitInv, FixedLimit, Floored
<1>10. ASSUME Collector \/ Cancel \/ Finished \/ UNCHANGED vars PROVE PermitInv'
  BY <1>9, <1>10 DEF Collector, CollectorCheck, CollectResult, CollectPanic,
                     Return, Cancel, Finished, vars
<1> QED BY <1>1, <1>2, <1>3, <1>4, <1>5, <1>6, <1>7, <1>8, <1>10, ResizeKeepsPermits
        DEF Next, TaskStep, FinishProbe, AbortProbe

LEMMA PermitsAccounted == Safety => []PermitInv
BY InitPermits, NextPermits, PTL DEF Safety

(* However shrinks, growths, aborts and panics interleave, the semaphore   *)
(* owns at least as many permits as the limit (detector.rs, the resize     *)
(* block): the batch never runs below the concurrency it reports.          *)
THEOREM NoPermitIsLost == Safety => []PermitsCoverLimit
BY PermitsAccounted, PTL DEF PermitInv, PermitsCoverLimit

(* With a fixed concurrency never more than max_concurrency probes are in  *)
(* flight (DetectorConfig.max_concurrency).                                *)
THEOREM FixedConcurrencyHolds == Safety => []FixedConcurrencyBound
<1>1. PermitInv => FixedConcurrencyBound
  <2> SUFFICES ASSUME PermitInv, FixedLimit PROVE Cardinality(Probing) <= MaxLimit
    BY DEF FixedConcurrencyBound, FixedLimit
  <2>1. Probing \in SUBSET Holders
    BY DEF Probing, Holders, HoldersOf
  <2>2. IsFiniteSet(Holders) /\ Cardinality(Holders) \in Nat
    BY HoldersFinite DEF Holders
  <2>3. Cardinality(Probing) \in Nat /\ Cardinality(Probing) <= Cardinality(Holders)
    BY <2>1, <2>2, FS_Subset, FS_CardinalityType
  <2>4. avail \in Nat /\ limit \in 0..MaxLimit /\ avail + Cardinality(Holders) = limit
    BY DEF PermitInv, Permits
  <2> QED BY <2>2, <2>3, <2>4, MaxLimitType, SMT
<1> QED BY <1>1, PermitsAccounted, PTL

(* Whenever the batch starts with a limit of at least 1 - always with a    *)
(* governor or without AIMD, and with AIMD unless min and initial are 0 -  *)
(* the limit stays between 1 and max_concurrency.                          *)
THEOREM LimitStaysInRange ==
  ASSUME Floored
  PROVE  Safety => []LimitInRange
<1>1. PermitInv => LimitInRange
  BY MaxLimitType, SMT DEF PermitInv, LimitInRange
<1> QED BY <1>1, PermitsAccounted, PTL

-----------------------------------------------------------------------------
(* How a step of task t moves the tasks: t goes from one of `from` to one  *)
(* of `to`, others stay or have a permit handed to them.                   *)

Moves(t, from, to) ==
  /\ pc[t] \in from
  /\ pc'[t] \in to
  /\ \A u \in Task \ {t} : pc'[u] = pc[u] \/ (pc[u] = "queued" /\ pc'[u] = "granted")

LEMMA GiveMoves ==
  ASSUME PermitInv, NEW t \in Task, NEW x \in PcStates \ {"queued"}, NEW k \in Nat,
         NEW from, pc[t] \in from,
         GivePermits(k, [pc EXCEPT ![t] = x])
  PROVE  Moves(t, from, {x})
<1> DEFINE p == [pc EXCEPT ![t] = x]
<1>1. p \in TasksAt /\ p[t] = x /\ \A u \in Task \ {t} : p[u] = pc[u]
  BY DEF PermitInv, TasksAt
<1>2. GivePermits(k, p) /\ avail \in Nat
  BY DEF PermitInv
<1> HIDE DEF p
<1>3. /\ \A u \in Task : p[u] # "queued" => pc'[u] = p[u]
      /\ \A u \in Task : p[u] = "queued" => pc'[u] \in {"queued", "granted"}
  BY <1>1, <1>2, Give
<1> QED BY <1>1, <1>3 DEF Moves

LEMMA SimpleMoves ==
  ASSUME PermitInv, NEW t \in Task, NEW x, NEW from, pc[t] \in from,
         pc' = [pc EXCEPT ![t] = x]
  PROVE  Moves(t, from, {x})
BY DEF PermitInv, TasksAt, Moves

\* Where each action takes its task.
LEMMA TaskMoves ==
  ASSUME PermitInv, NEW t \in Task
  PROVE  /\ Acquire(t) => Moves(t, {"spawned"}, {"granted", "queued"})
         /\ GiveUp(t) => Moves(t, {"spawned", "queued", "granted"}, {"done"})
         /\ StartProbe(t) => Moves(t, {"granted"}, {"probing"})
         /\ \A r : EndProbe(t, r) => Moves(t, {"probing"}, {"released"})
         /\ PanicProbe(t) => Moves(t, {"probing"}, {"panicked"})
         /\ PushRecent(t) => Moves(t, {"released"}, {"pushed"})
         /\ Count(t) => Moves(t, {"pushed"}, {"counted", "done"})
         /\ Resize(t) => Moves(t, {"counted"}, {"done"})
         /\ PanicResize(t) => Moves(t, {"counted"}, {"panicked"})
<1>1. ASSUME Acquire(t) PROVE Moves(t, {"spawned"}, {"granted", "queued"})
  BY <1>1 DEF Acquire, PermitInv, TasksAt, Moves
<1>2. ASSUME GiveUp(t) PROVE Moves(t, {"spawned", "queued", "granted"}, {"done"})
  <2>1. "done" \in PcStates \ {"queued"}
    BY DEF PcStates
  <2>2. PICK k \in {0, 1} : GivePermits(k, [pc EXCEPT ![t] = "done"])
    BY <1>2 DEF GiveUp
  <2>3. k \in Nat /\ pc[t] \in {"spawned", "queued", "granted"}
    BY <1>2 DEF GiveUp
  <2> QED BY <2>1, <2>2, <2>3, GiveMoves
<1>3. ASSUME StartProbe(t) PROVE Moves(t, {"granted"}, {"probing"})
  BY <1>3, SimpleMoves DEF StartProbe
<1>4. ASSUME NEW r, EndProbe(t, r) PROVE Moves(t, {"probing"}, {"released"})
  BY <1>4, GiveMoves, 1 \in Nat DEF EndProbe, PcStates
<1>5. ASSUME PanicProbe(t) PROVE Moves(t, {"probing"}, {"panicked"})
  BY <1>5, GiveMoves, 1 \in Nat DEF PanicProbe, PcStates
<1>6. ASSUME PushRecent(t) PROVE Moves(t, {"released"}, {"pushed"})
  BY <1>6, SimpleMoves DEF PushRecent
<1>7. ASSUME Count(t) PROVE Moves(t, {"pushed"}, {"counted", "done"})
  BY <1>7 DEF Count, PermitInv, TasksAt, Moves
<1>8. ASSUME Resize(t) PROVE Moves(t, {"counted"}, {"done"})
  <2>1. pc[t] \in {"counted"} /\ "done" \in PcStates \ {"queued"}
    BY <1>8 DEF Resize, PcStates
  <2>2. PICK v \in Verdicts(Proposed) :
          IF v.cap >= limit
          THEN GivePermits(v.cap - limit, [pc EXCEPT ![t] = "done"])
          ELSE pc' = [pc EXCEPT ![t] = "done"]
    BY <1>8 DEF Resize
  <2>3. limit \in Nat
    BY MaxLimitType, SMT DEF PermitInv
  <2>4. v.cap \in Nat
    BY <2>3, ProposedType, VerdictType, MaxLimitType, SMT
  <2>5. CASE v.cap >= limit
    <3>1. v.cap - limit \in Nat
      BY <2>3, <2>4, <2>5, SMT
    <3> QED BY <2>1, <2>2, <2>5, <3>1, GiveMoves
  <2>6. CASE ~(v.cap >= limit)
    BY <2>1, <2>2, <2>6, SimpleMoves
  <2> QED BY <2>5, <2>6
<1>9. ASSUME PanicResize(t) PROVE Moves(t, {"counted"}, {"panicked"})
  BY <1>9, SimpleMoves DEF PanicResize
<1> QED BY <1>1, <1>2, <1>3, <1>4, <1>5, <1>6, <1>7, <1>8, <1>9

\* What a step that is not a task's leaves alone.
LEMMA CollectorFrame ==
  Collector \/ Cancel \/ Finished \/ UNCHANGED vars
    => UNCHANGED <<pc, outcome, order, completed, avail, limit, recent, snap>>
BY DEF Collector, CollectorCheck, CollectResult, CollectPanic, Return, Cancel,
       Finished, vars, taskVars, semVars

-----------------------------------------------------------------------------
(* Completion numbers.                                                     *)

Numbered == {t \in Task : order[t] # N}
Before == {"spawned", "queued", "granted", "probing", "released", "pushed"}

NumInv ==
  /\ order \in [Task -> 0..N]
  /\ completed \in Nat
  /\ OrdersDistinct
  /\ \A t \in Task : pc[t] \in Before => order[t] = N
  /\ \A t \in Task : pc[t] \in {"counted", "done"} => order[t] # N

LEMMA TaskFinite == IsFiniteSet(Task) /\ Cardinality(Task) = N
BY FS_Interval, ConfigAssumption, SMT DEF Task

\* Taking the next number: there is one left, and numbers stay distinct.
LEMMA TakeNumber ==
  ASSUME NumInv, NEW t \in Task, order[t] = N,
         order' = [order EXCEPT ![t] = completed], completed' = completed + 1
  PROVE  /\ completed < N
         /\ order' \in [Task -> 0..N] /\ completed' \in Nat
         /\ OrdersDistinct'
         /\ order'[t] # N /\ \A u \in Task \ {t} : order'[u] = order[u]
<1>1. IsFiniteSet(Numbered) /\ Cardinality(Numbered) <= N - 1
  <2>1. Numbered \in SUBSET (Task \ {t})
    BY DEF Numbered
  <2>2. IsFiniteSet(Task \ {t}) /\ Cardinality(Task \ {t}) = N - 1
    BY TaskFinite, FS_RemoveElement
  <2> QED BY <2>1, <2>2, FS_Subset
<1>2. completed = Cardinality(Numbered) /\ completed \in Nat /\ N \in Nat
  BY ConfigAssumption DEF NumInv, OrdersDistinct, Numbered
<1>3. completed < N
  BY <1>1, <1>2, SMT
<1>4. /\ order'[t] = completed /\ order'[t] # N
      /\ \A u \in Task \ {t} : order'[u] = order[u]
      /\ order' \in [Task -> 0..N] /\ completed' \in Nat
  BY <1>2, <1>3, SMT DEF NumInv
<1>5. completed' = Cardinality(Numbered')
  <2>1. Numbered' = Numbered \cup {t} /\ t \notin Numbered
    BY <1>4 DEF Numbered
  <2>2. Cardinality(Numbered \cup {t}) = Cardinality(Numbered) + 1
    BY <1>1, <2>1, FS_AddElement
  <2> QED BY <1>2, <2>1, <2>2
<1>6. \A u \in Task : order'[u] # N => order'[u] < completed'
  <2> SUFFICES ASSUME NEW u \in Task, order'[u] # N PROVE order'[u] < completed'
    OBVIOUS
  <2>1. CASE u = t
    BY <1>2, <1>4, <2>1, SMT
  <2>2. CASE u # t
    <3>1. order[u] < completed /\ order[u] \in 0..N
      BY <1>4, <2>2 DEF NumInv, OrdersDistinct
    <3> QED BY <1>2, <1>4, <2>2, <3>1, SMT
  <2> QED BY <2>1, <2>2
<1>7. \A u, v \in Task : (u # v /\ order'[u] # N) => order'[u] # order'[v]
  <2> SUFFICES ASSUME NEW u \in Task, NEW v \in Task, u # v, order'[u] # N
               PROVE  order'[u] # order'[v]
    OBVIOUS
  <2>1. \A w \in Task : order[w] # N => order[w] < completed /\ order[w] \in 0..N
    BY DEF NumInv, OrdersDistinct
  <2>2. CASE u = t
    BY <1>2, <1>3, <1>4, <2>1, <2>2, SMT DEF NumInv
  <2>3. CASE v = t
    BY <1>2, <1>4, <2>1, <2>3, SMT DEF NumInv
  <2>4. CASE u # t /\ v # t
    BY <1>4, <2>4 DEF NumInv, OrdersDistinct
  <2> QED BY <2>2, <2>3, <2>4
<1>8. OrdersDistinct'
  BY <1>5, <1>6, <1>7 DEF OrdersDistinct, Numbered
<1> QED BY <1>3, <1>4, <1>8

LEMMA InitNum == Init => NumInv
<1> SUFFICES ASSUME Init PROVE NumInv
  OBVIOUS
<1>1. order \in [Task -> 0..N] /\ \A t \in Task : order[t] = N
  BY ConfigAssumption, SMT DEF Init
<1>2. Numbered = {} /\ completed = 0
  BY <1>1 DEF Numbered, Init
<1>3. completed = Cardinality(Numbered)
  BY <1>2, FS_EmptySet
<1>4. \A t \in Task : pc[t] \notin {"counted", "done"}
  BY DEF Init
<1> QED BY <1>1, <1>2, <1>3, <1>4 DEF NumInv, OrdersDistinct, Numbered

\* A step that takes no number: no task is at "done" or "counted" that was not.
LEMMA NumStays ==
  ASSUME NumInv, UNCHANGED <<order, completed>>,
         \A t \in Task : /\ pc'[t] \in Before => pc[t] \in Before
                         /\ pc'[t] \in {"counted", "done"} => pc[t] \in {"counted", "done"}
  PROVE  NumInv'
BY DEF NumInv, OrdersDistinct

LEMMA NextNum == PermitInv /\ NumInv /\ [Next]_vars => NumInv'
<1> SUFFICES ASSUME PermitInv, NumInv, [Next]_vars PROVE NumInv'
  OBVIOUS
<1>1. ASSUME NEW t \in Task, GiveUp(t) \/ Count(t) PROVE NumInv'
  <2>1. Moves(t, Before, {"counted", "done"})
    BY <1>1, TaskMoves DEF Moves, Before
  <2>2. order' = [order EXCEPT ![t] = completed] /\ completed' = completed + 1
    BY <1>1 DEF GiveUp, Count, CountUp
  <2>3. order[t] = N
    BY <2>1 DEF Moves, NumInv
  <2> QED BY <2>1, <2>2, <2>3, TakeNumber DEF Moves, NumInv, Before
<1>2. ASSUME NEW t \in Task,
             \/ Acquire(t) \/ StartProbe(t) \/ PanicProbe(t) \/ PushRecent(t)
             \/ Resize(t) \/ PanicResize(t) \/ \E r : EndProbe(t, r)
      PROVE  NumInv'
  <2>1. UNCHANGED <<order, completed>>
    BY <1>2 DEF Acquire, StartProbe, PanicProbe, PushRecent, Resize, PanicResize, EndProbe
  <2>2. \/ Moves(t, Before, Before) \/ Moves(t, {"probing"}, {"panicked"})
        \/ Moves(t, {"counted"}, {"done"}) \/ Moves(t, {"counted"}, {"panicked"})
    BY <1>2, TaskMoves DEF Moves, Before
  <2> QED BY <2>1, <2>2, NumStays DEF Moves, Before
<1>3. ASSUME Collector \/ Cancel \/ Finished \/ UNCHANGED vars PROVE NumInv'
  BY <1>3, CollectorFrame, NumStays
<1> QED BY <1>1, <1>2, <1>3 DEF Next, TaskStep, FinishProbe, AbortProbe

LEMMA NumbersKept == Safety => [](PermitInv /\ NumInv)
BY InitPermits, InitNum, NextPermits, NextNum, PTL DEF Safety

(* Every task that counts itself gets a number of its own, and the counter *)
(* is the number of those tasks (detector.rs, completed).                  *)
THEOREM CompletionNumbers == Safety => []OrdersDistinct
BY NumbersKept, PTL DEF NumInv

-----------------------------------------------------------------------------
(* The collector: what it has awaited, and what it wrote down.             *)

ResultKinds == Outcomes \cup {"missing", "gap"}
Ended == {"done", "panicked"}
Decided == {"released", "pushed", "counted", "done"}

CollInv ==
  /\ outcome \in [Task -> Outcomes]
  /\ results \in [Task -> ResultKinds]
  /\ cancelled \in BOOLEAN
  /\ cpc \in {"check", "await", "returned"}
  /\ next \in 1..(N + 1)
  /\ cpc = "await" => next <= N
  /\ cpc = "returned" => next = N + 1
  /\ \A t \in Task : t < next => pc[t] \in Ended
  /\ \A t \in Task : pc[t] \in Decided => outcome[t] \in {"ok", "err", "cancelled"}
  /\ \A t \in Task : outcome[t] = "cancelled" => cancelled
  /\ \A t \in Task : t >= next => results[t] = "missing"
  /\ \A t \in Task : (t < next /\ pc[t] = "done") => results[t] = outcome[t]
  /\ \A t \in Task : (t < next /\ pc[t] = "panicked")
                       => results[t] = IF cpc = "returned" THEN Filled("missing") ELSE "missing"

LEMMA InitColl == Init => CollInv
<1> SUFFICES ASSUME Init PROVE CollInv
  OBVIOUS
<1>1. /\ next = 1 /\ next \in 1..(N + 1) /\ next <= N
      /\ \A t \in Task : ~(t < next)
  BY ConfigAssumption, SMT DEF Init, Task
<1>2. /\ outcome \in [Task -> Outcomes] /\ results \in [Task -> ResultKinds]
      /\ \A t \in Task : pc[t] = "spawned" /\ outcome[t] = "none" /\ results[t] = "missing"
  BY DEF Init, Outcomes, ResultKinds
<1>3. cpc = "check" /\ cancelled = FALSE
  BY DEF Init
<1> QED BY <1>1, <1>2, <1>3 DEF CollInv, Decided

\* A step of one task: it was not over yet, so nothing was written about it.
LEMMA CollTask ==
  ASSUME CollInv, NEW t \in Task, NEW from, NEW to, Moves(t, from, to),
         from \cap Ended = {},
         UNCHANGED <<cancelled, collVars>>,
         outcome' \in [Task -> Outcomes],
         \A u \in Task \ {t} : outcome'[u] = outcome[u],
         outcome'[t] = "cancelled" => cancelled,
         pc'[t] \in Decided => outcome'[t] \in {"ok", "err", "cancelled"}
  PROVE  CollInv'
<1>1. UNCHANGED <<cpc, next, results, cancelled>>
  BY DEF collVars
<1>2. ~(t < next)
  BY DEF CollInv, Moves
<1>3. \A u \in Task : u < next => pc'[u] = pc[u] /\ outcome'[u] = outcome[u]
  BY <1>2 DEF CollInv, Moves, Ended
<1>4. \A u \in Task : pc'[u] \in Decided => outcome'[u] \in {"ok", "err", "cancelled"}
  BY DEF CollInv, Moves, Decided
<1>5. \A u \in Task : outcome'[u] = "cancelled" => cancelled
  BY DEF CollInv
<1> QED BY <1>1, <1>3, <1>4, <1>5 DEF CollInv

LEMMA NextColl == PermitInv /\ CollInv /\ [Next]_vars => CollInv'
<1> SUFFICES ASSUME PermitInv, CollInv, [Next]_vars PROVE CollInv'
  OBVIOUS
<1>0. outcome \in [Task -> Outcomes] /\ \A t \in Task : outcome[t] = "cancelled" => cancelled
  BY DEF CollInv
<1>1. ASSUME NEW t \in Task, GiveUp(t) PROVE CollInv'
  <2>1. Moves(t, {"spawned", "queued", "granted"}, {"done"})
    BY <1>1, TaskMoves
  <2>2. outcome' = [outcome EXCEPT ![t] = "cancelled"] /\ cancelled /\ UNCHANGED <<cancelled, collVars>>
    BY <1>1 DEF GiveUp
  <2> QED BY <1>0, <2>1, <2>2, CollTask DEF Outcomes, Ended
<1>2. ASSUME NEW t \in Task, NEW r \in {"ok", "err", "cancelled"}, EndProbe(t, r),
             r = "cancelled" => cancelled
      PROVE  CollInv'
  <2>1. Moves(t, {"probing"}, {"released"})
    BY <1>2, TaskMoves
  <2>2. outcome' = [outcome EXCEPT ![t] = r] /\ UNCHANGED <<cancelled, collVars>>
    BY <1>2 DEF EndProbe
  <2> QED BY <1>0, <1>2, <2>1, <2>2, CollTask DEF Outcomes, Ended
<1>3. ASSUME NEW t \in Task, PanicProbe(t) PROVE CollInv'
  <2>1. Moves(t, {"probing"}, {"panicked"})
    BY <1>3, TaskMoves
  <2>2. outcome' = [outcome EXCEPT ![t] = "lost"] /\ UNCHANGED <<cancelled, collVars>>
    BY <1>3 DEF PanicProbe
  <2> QED BY <1>0, <2>1, <2>2, CollTask DEF Outcomes, Ended, Moves, Decided
<1>4. ASSUME NEW t \in Task,
             \/ Acquire(t) \/ StartProbe(t) \/ PushRecent(t) \/ Count(t)
             \/ Resize(t) \/ PanicResize(t)
      PROVE  CollInv'
  <2>1. UNCHANGED <<outcome, cancelled, collVars>>
    BY <1>4 DEF Acquire, StartProbe, PushRecent, Count, Resize, PanicResize
  <2>2. PICK from, to : /\ Moves(t, from, to) /\ from \cap Ended = {}
                        /\ pc'[t] \in Decided => pc[t] \in Decided
    <3>1. \/ Moves(t, {"spawned"}, {"granted", "queued"}) \/ Moves(t, {"granted"}, {"probing"})
          \/ Moves(t, {"released"}, {"pushed"}) \/ Moves(t, {"pushed"}, {"counted", "done"})
          \/ Moves(t, {"counted"}, {"done"}) \/ Moves(t, {"counted"}, {"panicked"})
      BY <1>4, TaskMoves
    <3> QED BY <3>1 DEF Moves, Ended, Decided
  <2>3. pc'[t] \in Decided => outcome'[t] \in {"ok", "err", "cancelled"}
    BY <2>1, <2>2 DEF CollInv
  <2>4. outcome' \in [Task -> Outcomes] /\ (\A u \in Task \ {t} : outcome'[u] = outcome[u])
        /\ (outcome'[t] = "cancelled" => cancelled)
    BY <1>0, <2>1
  <2> QED BY <2>1, <2>2, <2>3, <2>4, CollTask
<1>5. CASE CollectorCheck
  <2>1. UNCHANGED <<pc, outcome, results, cancelled, next>> /\ cpc' = "await" /\ next <= N /\ cpc # "returned"
    BY <1>5 DEF CollectorCheck, taskVars
  <2> QED BY <2>1 DEF CollInv
<1>6. CASE CollectResult
  <2>1. /\ UNCHANGED <<pc, outcome, cancelled>> /\ cpc = "await" /\ cpc' = "check"
        /\ next' = next + 1 /\ pc[next] = "done" /\ next \in 1..N /\ next \in Task
        /\ results' = [results EXCEPT ![next] = outcome[next]]
    BY <1>6, ConfigAssumption, SMT DEF CollectResult, taskVars, CollInv, ResultOf, Task
  <2>2. \A t \in Task : t \in Int /\ (t < next' => t < next \/ t = next) /\ (t >= next' => t >= next /\ t # next)
    BY <2>1, SMT DEF Task
  <2>3. results' \in [Task -> ResultKinds]
    BY <2>1 DEF CollInv, ResultKinds
  <2>4. next' \in 1..(N + 1)
    BY <2>1, ConfigAssumption, SMT
  <2> QED BY <2>1, <2>2, <2>3, <2>4 DEF CollInv, Ended
<1>7. CASE CollectPanic
  <2>1. /\ UNCHANGED <<pc, outcome, cancelled, results>> /\ cpc = "await" /\ cpc' = "check"
        /\ next' = next + 1 /\ pc[next] = "panicked" /\ next \in 1..N /\ next \in Task
    BY <1>7, ConfigAssumption, SMT DEF CollectPanic, taskVars, CollInv, Task
  <2>2. \A t \in Task : t \in Int /\ (t < next' => t < next \/ t = next) /\ (t >= next' => t >= next /\ t # next)
    BY <2>1, SMT DEF Task
  <2>3. next >= next /\ next' \in 1..(N + 1)
    BY <2>1, ConfigAssumption, SMT
  <2> QED BY <2>1, <2>2, <2>3 DEF CollInv, Ended
<1>8. CASE Return
  <2>1. /\ UNCHANGED <<pc, outcome, cancelled, next>> /\ cpc = "check" /\ cpc' = "returned"
        /\ next = N + 1 /\ results' = [t \in Task |-> Filled(results[t])]
    BY <1>8, ConfigAssumption, SMT DEF Return, CollectedAll, taskVars, CollInv
  <2>2. \A t \in Task : t < next /\ ~(t >= next)
    BY <2>1, ConfigAssumption, SMT DEF Task
  <2>3. \A t \in Task : pc[t] = "done" => results[t] = outcome[t] /\ outcome[t] # "missing"
    BY <2>2 DEF CollInv, Decided
  <2>4. \A t \in Task : pc[t] = "done" => results'[t] = outcome[t]
    BY <2>1, <2>3 DEF Filled
  <2>5. \A t \in Task : pc[t] = "panicked" => results'[t] = Filled("missing")
    BY <2>1, <2>2 DEF CollInv
  <2>6. results' \in [Task -> ResultKinds]
    BY <2>1 DEF Filled, CollInv, ResultKinds
  <2> QED BY <2>1, <2>2, <2>4, <2>5, <2>6 DEF CollInv
<1>9. CASE Cancel
  BY <1>9 DEF Cancel, taskVars, collVars, CollInv
<1>10. CASE Finished \/ UNCHANGED vars
  BY <1>10 DEF Finished, vars, taskVars, collVars, CollInv
<1> QED
  BY <1>1, <1>2, <1>3, <1>4, <1>5, <1>6, <1>7, <1>8, <1>9, <1>10
     DEF Next, TaskStep, Collector, FinishProbe, AbortProbe, AbortReady

LEMMA CollectorKept == Safety => []CollInv
<1>1. PermitInv /\ CollInv /\ [Next]_vars => PermitInv' /\ CollInv'
  BY NextPermits, NextColl
<1> QED BY <1>1, InitPermits, InitColl, PTL DEF Safety

(* When the call returns no task still probes, holds a permit or waits for *)
(* one, cancelled or not: the collector awaits every handle.               *)
THEOREM NothingLeftBehind == Safety => []NothingOutlivesBatch
<1>1. CollInv => NothingOutlivesBatch
  BY ConfigAssumption, SMT DEF CollInv, NothingOutlivesBatch, Ended, Task
<1> QED BY <1>1, CollectorKept, PTL

(* The returned vector holds each surviving task's own outcome, a gap for  *)
(* a panicked one, and no cancellation the caller did not ask for.         *)
THEOREM ResultsAreFaithful == Safety => []ResultsFaithful
<1>1. CollInv => ResultsFaithful
  <2> SUFFICES ASSUME CollInv, cpc = "returned", NEW t \in Task
               PROVE  /\ pc[t] = "done" => results[t] = outcome[t] /\ results[t] # "none"
                      /\ pc[t] = "panicked" => results[t] = IF Cancellable THEN "gap" ELSE "missing"
                      /\ results[t] = "cancelled" => cancelled
    BY DEF ResultsFaithful
  <2>1. t < next
    BY ConfigAssumption, SMT DEF CollInv, Task
  <2>2. pc[t] = "done" => results[t] = outcome[t] /\ results[t] # "none"
    BY <2>1 DEF CollInv, Decided
  <2>3. pc[t] = "panicked" => results[t] = IF Cancellable THEN "gap" ELSE "missing"
    BY <2>1 DEF CollInv, Filled
  <2>4. pc[t] \in Ended
    BY <2>1 DEF CollInv
  <2> QED BY <2>2, <2>3, <2>4 DEF CollInv, Ended
<1> QED BY <1>1, CollectorKept, PTL

-----------------------------------------------------------------------------
(* Progress events: what they report was collected, and was reported once. *)

Reported(k) == \E i \in 1..Len(events) : events[i].completed = k

ProgInv ==
  /\ lastReported \in 0..N
  /\ events \in Seq(Event)
  /\ Len(events) > 0 => lastReported > 0 /\ events[Len(events)].completed = lastReported
  /\ lastReported > 0 => \E t \in Task : t < next /\ pc[t] = "done" /\ order[t] + 1 = lastReported
  /\ \A t \in Task : (t < next /\ pc[t] = "done" /\ order[t] + 1 = N) => Reported(N)

SnapInv == snap \in Snaps

LEMMA InitProg == Init => ProgInv /\ SnapInv
<1> SUFFICES ASSUME Init PROVE ProgInv /\ SnapInv
  OBVIOUS
<1>1. next = 1 /\ lastReported = 0 /\ lastReported \in 0..N /\ \A t \in Task : ~(t < next)
  BY ConfigAssumption, SMT DEF Init, Task
<1>2. events \in Seq(Event) /\ Len(events) = 0
  BY DEF Init
<1> QED BY <1>1, <1>2 DEF Init, ProgInv, SnapInv, Snaps

LEMMA NextSnap == PermitInv /\ SnapInv /\ [Next]_vars => SnapInv'
<1> SUFFICES ASSUME PermitInv, SnapInv, [Next]_vars PROVE SnapInv'
  OBVIOUS
<1>1. ASSUME NEW t \in Task, Resize(t) PROVE SnapInv'
  <2>1. PICK v \in Verdicts(Proposed) : snap' = v.why
    BY <1>1 DEF Resize
  <2>2. Proposed \in Nat
    BY ProposedType, MaxLimitType, SMT DEF PermitInv
  <2> QED BY <2>1, <2>2, VerdictType DEF SnapInv, Snaps
<1>2. ASSUME NEW t \in Task,
             \/ Acquire(t) \/ GiveUp(t) \/ StartProbe(t) \/ PanicProbe(t) \/ PushRecent(t)
             \/ Count(t) \/ PanicResize(t) \/ \E r : EndProbe(t, r)
      PROVE  UNCHANGED snap
  BY <1>2 DEF Acquire, GiveUp, StartProbe, PanicProbe, PushRecent, Count, PanicResize, EndProbe
<1>3. Collector \/ Cancel \/ Finished \/ UNCHANGED vars => UNCHANGED snap
  BY CollectorFrame
<1> QED BY <1>1, <1>2, <1>3 DEF SnapInv, Next, TaskStep, FinishProbe, AbortProbe

\* A step of one task leaves what was collected and reported.
LEMMA ProgTask ==
  ASSUME CollInv, ProgInv, NEW t \in Task, NEW from, NEW to, Moves(t, from, to),
         from \cap Ended = {}, UNCHANGED collVars,
         \A u \in Task \ {t} : order'[u] = order[u]
  PROVE  ProgInv'
<1>1. UNCHANGED <<next, lastReported, events>>
  BY DEF collVars
<1>2. ~(t < next)
  BY DEF CollInv, Moves
<1>3. \A u \in Task : u < next => pc'[u] = pc[u] /\ order'[u] = order[u]
  BY <1>2 DEF CollInv, Moves, Ended
<1> QED BY <1>1, <1>3 DEF ProgInv, Reported

\* Collecting a result, with or without an event.
LEMMA ProgCollect ==
  ASSUME NumInv, CollInv, ProgInv, SnapInv, CollectResult
  PROVE  /\ ProgInv'
         /\ Reports(DoneCount(next)) => events'[Len(events')].completed = DoneCount(next)
         /\ ~Reports(DoneCount(next)) => UNCHANGED events
<1> DEFINE d == DoneCount(next)
           e == [completed |-> d, throttledFd |-> snap \in {"fd", "errors"}, why |-> snap]
<1>1. /\ UNCHANGED <<pc, order>> /\ next' = next + 1 /\ pc[next] = "done"
      /\ next \in 1..N /\ next \in Task
  BY ConfigAssumption, SMT DEF CollectResult, taskVars, CollInv, Task
<1>2. d \in 1..N /\ d = order[next] + 1
  <2>1. order[next] \in 0..N /\ order[next] # N
    BY <1>1 DEF NumInv
  <2> QED BY <2>1, ConfigAssumption, SMT DEF DoneCount
<1>3. \A t \in Task : (t < next' <=> t < next \/ t = next)
  BY <1>1, SMT DEF Task
<1>4. CASE Reports(d)
  <2>1. lastReported' = d /\ events' = Append(events, e)
    BY <1>4 DEF CollectResult
  <2>2. e \in Event
    BY <1>2 DEF Event, SnapInv
  <2>3. events \in Seq(Event) /\ Len(events) \in Nat
    BY DEF ProgInv
  <2> HIDE DEF e, d
  <2>4. /\ events' \in Seq(Event) /\ Len(events') = Len(events) + 1
        /\ events'[Len(events')] = e
        /\ \A i \in 1..Len(events) : i \in 1..Len(events') /\ events'[i] = events[i]
    BY <2>1, <2>2, <2>3
  <2>5. e.completed = d
    BY DEF e
  <2>6. Len(events') \in 1..Len(events') /\ d > 0 /\ d \in 0..N
    BY <1>2, <2>3, <2>4, SMT
  <2>7. d = N => Reported(N)'
    BY <2>4, <2>5, <2>6 DEF Reported
  <2>8. Reported(N) => Reported(N)'
    BY <2>4 DEF Reported
  <2>9. \A t \in Task : (t < next' /\ pc'[t] = "done" /\ order'[t] + 1 = N) => Reported(N)'
    BY <1>1, <1>2, <1>3, <2>7, <2>8 DEF ProgInv
  <2>10. \E t \in Task : t < next' /\ pc'[t] = "done" /\ order'[t] + 1 = lastReported'
    BY <1>1, <1>2, <1>3, <2>1
  <2>11. ProgInv'
    BY <2>1, <2>4, <2>5, <2>6, <2>9, <2>10 DEF ProgInv
  <2> QED BY <1>4, <2>4, <2>5, <2>11 DEF d
<1>5. CASE ~Reports(d)
  <2>1. UNCHANGED <<lastReported, events>>
    BY <1>5 DEF CollectResult
  <2>2. d # N
    BY <1>5 DEF Reports
  <2> QED BY <1>1, <1>2, <1>3, <1>5, <2>1, <2>2 DEF ProgInv, Reported
<1> QED BY <1>4, <1>5

LEMMA NextProg ==
  PermitInv /\ NumInv /\ CollInv /\ ProgInv /\ SnapInv /\ [Next]_vars => ProgInv'
<1> SUFFICES ASSUME PermitInv, NumInv, CollInv, ProgInv, SnapInv, [Next]_vars PROVE ProgInv'
  OBVIOUS
<1>1. ASSUME NEW t \in Task,
             \/ Acquire(t) \/ GiveUp(t) \/ StartProbe(t) \/ PanicProbe(t) \/ PushRecent(t)
             \/ Count(t) \/ Resize(t) \/ PanicResize(t) \/ \E r : EndProbe(t, r)
      PROVE  ProgInv'
  <2>1. UNCHANGED collVars /\ \A u \in Task \ {t} : order'[u] = order[u]
    BY <1>1 DEF Acquire, GiveUp, StartProbe, PanicProbe, PushRecent, Count, Resize,
                PanicResize, EndProbe, NumInv
  <2>2. PICK from, to : Moves(t, from, to) /\ from \cap Ended = {}
    <3>1. \/ Moves(t, {"spawned"}, {"granted", "queued"})
          \/ Moves(t, {"spawned", "queued", "granted"}, {"done"})
          \/ Moves(t, {"granted"}, {"probing"}) \/ Moves(t, {"probing"}, {"released"})
          \/ Moves(t, {"probing"}, {"panicked"}) \/ Moves(t, {"released"}, {"pushed"})
          \/ Moves(t, {"pushed"}, {"counted", "done"})
          \/ Moves(t, {"counted"}, {"done"}) \/ Moves(t, {"counted"}, {"panicked"})
      BY <1>1, TaskMoves
    <3> QED BY <3>1 DEF Ended
  <2> QED BY <2>1, <2>2, ProgTask
<1>2. CASE CollectResult
  BY <1>2, ProgCollect
<1>3. CASE CollectPanic
  <2>1. /\ UNCHANGED <<pc, order, lastReported, events>> /\ next' = next + 1
        /\ pc[next] = "panicked" /\ next \in 1..(N + 1)
    BY <1>3 DEF CollectPanic, taskVars, CollInv
  <2>2. \A t \in Task : (t < next' <=> t < next \/ t = next)
    BY <2>1, SMT DEF Task
  <2> QED BY <2>1, <2>2 DEF ProgInv, Reported
<1>4. ASSUME UNCHANGED <<pc, order, next, lastReported, events>> PROVE ProgInv'
  BY <1>4 DEF ProgInv, Reported
<1>5. CollectorCheck \/ Return \/ Cancel \/ Finished \/ UNCHANGED vars
        => UNCHANGED <<pc, order, next, lastReported, events>>
  BY DEF CollectorCheck, Return, Cancel, Finished, vars, taskVars, collVars
<1> QED BY <1>1, <1>2, <1>3, <1>4, <1>5 DEF Next, TaskStep, Collector, FinishProbe, AbortProbe

AllInv == PermitInv /\ NumInv /\ CollInv /\ ProgInv /\ SnapInv

LEMMA AllKept == Safety => []AllInv
<1>1. Init => AllInv
  BY InitPermits, InitNum, InitColl, InitProg DEF AllInv
<1>2. AllInv /\ [Next]_vars => AllInv'
  BY NextPermits, NextNum, NextColl, NextSnap, NextProg DEF AllInv
<1> QED BY <1>1, <1>2, PTL DEF Safety

(* Until the collector has seen the token, each progress event shows more  *)
(* completed probes than the one before, whatever order the tasks finish.  *)
THEOREM ProgressIsMonotone == Safety => ProgressNeverRegresses
<1>1. AllInv /\ [Next]_vars => [ProgressGrows]_vars
  <2> SUFFICES ASSUME AllInv, Next, events' # events, ~cancelledRaised, Len(events) # 0
               PROVE  events'[Len(events')].completed > events[Len(events)].completed
    BY DEF ProgressGrows, vars, collVars
  <2>1. CollectResult
    BY DEF Next, TaskStep, FinishProbe, AbortProbe, Acquire, GiveUp, StartProbe, PanicProbe,
           PushRecent, Count, Resize, PanicResize, EndProbe, Collector, CollectorCheck,
           CollectPanic, Return, Cancel, Finished, vars, collVars
  <2>2. Reports(DoneCount(next)) /\ events'[Len(events')].completed = DoneCount(next)
    BY <2>1, ProgCollect DEF AllInv
  <2>3. events[Len(events)].completed = lastReported /\ lastReported \in 0..N /\ lastReported > 0
    <3>1. Len(events) > 0
      BY DEF AllInv, ProgInv
    <3> QED BY <3>1 DEF AllInv, ProgInv
  <2>4. PICK t \in Task : t < next /\ pc[t] = "done" /\ order[t] + 1 = lastReported
    BY <2>3 DEF AllInv, ProgInv
  <2>5. next \in Task /\ pc[next] = "done" /\ t # next
    BY <2>1, <2>4, ConfigAssumption, SMT DEF CollectResult, AllInv, CollInv, Task
  <2>6. order[t] # order[next] /\ order[t] \in 0..N /\ order[next] \in 0..N
    BY <2>4, <2>5 DEF AllInv, NumInv, OrdersDistinct
  <2>7. DoneCount(next) # lastReported /\ DoneCount(next) \in Nat
    BY <2>4, <2>6, ConfigAssumption, SMT DEF DoneCount
  <2>8. DoneCount(next) > lastReported \/ DoneCount(next) = N
    BY <2>2 DEF Reports
  <2> QED BY <2>2, <2>3, <2>7, <2>8, ConfigAssumption, SMT
<1> QED BY <1>1, AllKept, PTL DEF Safety, ProgressNeverRegresses

-----------------------------------------------------------------------------
(* The window of outcomes, and with it the types of everything.            *)

WindowInv ==
  /\ recent \in Seq(BOOLEAN) /\ Len(recent) <= Greatest(Window, 1)
  /\ cancelledRaised \in BOOLEAN

LEMMA InitWindow == Init => WindowInv
<1> SUFFICES ASSUME Init PROVE WindowInv
  OBVIOUS
<1>1. Greatest(Window, 1) \in Nat /\ Greatest(Window, 1) >= 1
  BY ConfigAssumption, SMT DEF Greatest
<1>2. recent = <<>> /\ cancelledRaised = FALSE
  BY DEF Init
<1>3. recent \in Seq(BOOLEAN) /\ Len(recent) = 0
  BY <1>2
<1>4. cancelledRaised \in BOOLEAN
  BY <1>2
<1> QED BY <1>1, <1>3, <1>4 DEF WindowInv

LEMMA PushKeepsWindow ==
  ASSUME WindowInv, NEW t \in Task, PushRecent(t)
  PROVE  recent' \in Seq(BOOLEAN) /\ Len(recent') <= Greatest(Window, 1)
<1> DEFINE r == Append(recent, outcome[t] = "ok")
           bound == Greatest(Window, 1)
<1>1. bound \in Nat /\ bound >= 1
  BY ConfigAssumption, SMT DEF Greatest
<1>2. recent' = IF Len(r) > bound THEN Tail(r) ELSE r
  BY DEF PushRecent
<1>3. r \in Seq(BOOLEAN) /\ Len(r) = Len(recent) + 1 /\ Len(recent) \in Nat /\ Len(recent) <= bound
  BY DEF WindowInv
<1> HIDE DEF r, bound
<1>4. CASE Len(r) > bound
  <2>1. Tail(r) \in Seq(BOOLEAN) /\ Len(Tail(r)) = Len(r) - 1
    BY <1>1, <1>3, <1>4
  <2> QED BY <1>1, <1>2, <1>3, <1>4, <2>1, SMT DEF bound
<1>5. CASE ~(Len(r) > bound)
  BY <1>1, <1>2, <1>3, <1>5, SMT DEF bound
<1> QED BY <1>4, <1>5

LEMMA NextWindow == CollInv /\ WindowInv /\ [Next]_vars => WindowInv'
<1> SUFFICES ASSUME CollInv, WindowInv, [Next]_vars PROVE WindowInv'
  OBVIOUS
<1>1. ASSUME NEW t \in Task, PushRecent(t) PROVE WindowInv'
  <2>1. UNCHANGED cancelledRaised
    BY <1>1 DEF PushRecent, collVars
  <2> QED BY <1>1, <2>1, PushKeepsWindow DEF WindowInv
<1>2. ASSUME NEW t \in Task,
             \/ Acquire(t) \/ GiveUp(t) \/ StartProbe(t) \/ PanicProbe(t)
             \/ Count(t) \/ Resize(t) \/ PanicResize(t) \/ \E r : EndProbe(t, r)
      PROVE  UNCHANGED <<recent, cancelledRaised>>
  BY <1>2 DEF Acquire, GiveUp, StartProbe, PanicProbe, Count, Resize, PanicResize,
              EndProbe, collVars
<1>3. CollectorCheck => UNCHANGED recent /\ cancelledRaised' \in BOOLEAN
  BY DEF CollectorCheck, CollInv, WindowInv
<1>4. CollectResult \/ CollectPanic \/ Return \/ Cancel \/ Finished \/ UNCHANGED vars
        => UNCHANGED <<recent, cancelledRaised>>
  BY DEF CollectResult, CollectPanic, Return, Cancel, Finished, vars, collVars
<1> QED BY <1>1, <1>2, <1>3, <1>4
        DEF WindowInv, Next, TaskStep, Collector, FinishProbe, AbortProbe

(* Every variable keeps its type; among others the semaphore never holds a *)
(* negative number of permits, and no event reports more than N targets.   *)
THEOREM TypesKept == Safety => []TypeOK
<1>1. Init => AllInv /\ WindowInv
  BY InitPermits, InitNum, InitColl, InitProg, InitWindow DEF AllInv
<1>2. AllInv /\ WindowInv /\ [Next]_vars => (AllInv /\ WindowInv)'
  BY NextPermits, NextNum, NextColl, NextSnap, NextProg, NextWindow DEF AllInv
<1>3. AllInv /\ WindowInv => TypeOK
  BY MaxLimitType, SMT DEF AllInv, WindowInv, PermitInv, NumInv, CollInv, ProgInv, SnapInv,
     TypeOK, TasksAt, ResultKinds
<1> QED BY <1>1, <1>2, <1>3, PTL DEF Safety

-----------------------------------------------------------------------------
(* When every task survives, N tasks hold N different numbers below N, so  *)
(* one of them holds the last: its event shows the batch complete.         *)

LEMMA LastNumberTaken ==
  ASSUME NumInv, \A t \in Task : order[t] # N
  PROVE  \E t \in Task : order[t] + 1 = N
<1>1. completed = N
  <2>1. Numbered = Task
    BY DEF Numbered
  <2> QED BY <2>1, TaskFinite DEF NumInv, OrdersDistinct, Numbered
<1>2. order \in Injection(Task, 0..(N - 1))
  <2>1. order \in [Task -> 0..(N - 1)]
    BY <1>1, ConfigAssumption, SMT DEF NumInv, OrdersDistinct
  <2>2. \A t, u \in Task : order[t] = order[u] => t = u
    BY DEF NumInv, OrdersDistinct
  <2> QED BY <2>1, <2>2 DEF Injection, IsInjective
<1>3. IsFiniteSet(0..(N - 1)) /\ Cardinality(0..(N - 1)) = N
  BY FS_Interval, ConfigAssumption, SMT
<1>4. order \in Surjection(Task, 0..(N - 1))
  BY <1>2, <1>3, TaskFinite, FS_Injection
<1>5. N - 1 \in 0..(N - 1)
  BY ConfigAssumption, SMT
<1>6. PICK t \in Task : order[t] = N - 1
  BY <1>4, <1>5 DEF Surjection
<1> QED BY <1>6, ConfigAssumption, SMT

(* A batch whose tasks all survive reports that all N are complete.        *)
THEOREM FullProgressIsReported == Safety => []ReachesFullProgress
<1>1. AllInv => ReachesFullProgress
  <2> SUFFICES ASSUME AllInv, cpc = "returned", \A t \in Task : pc[t] = "done"
               PROVE  Reported(N)
    BY DEF ReachesFullProgress, Reported
  <2>1. PICK t \in Task : order[t] + 1 = N
    BY LastNumberTaken DEF AllInv, NumInv
  <2>2. t < next
    BY ConfigAssumption, SMT DEF AllInv, CollInv, Task
  <2> QED BY <2>1, <2>2 DEF AllInv, ProgInv
<1> QED BY <1>1, AllKept, PTL

-----------------------------------------------------------------------------
(* With a fixed concurrency the engine implements its contract.            *)

\* What became of a task is unknown exactly until it leaves these states.
Waiting == {"spawned", "queued", "granted", "probing"}

AnswerInv ==
  \A t \in Task : outcome[t] = "none" <=> pc[t] \in Waiting

LEMMA InitAnswer == Init => AnswerInv
BY DEF Init, AnswerInv, Waiting

\* A step of t that decides it exactly when it takes it out of the waiting states.
LEMMA AnswerTask ==
  ASSUME AnswerInv, NEW t \in Task, NEW from, NEW to, Moves(t, from, to),
         \A u \in Task \ {t} : outcome'[u] = outcome[u],
         outcome'[t] = "none" <=> pc'[t] \in Waiting
  PROVE  AnswerInv'
BY DEF AnswerInv, Moves, Waiting

LEMMA NextAnswer == PermitInv /\ CollInv /\ AnswerInv /\ [Next]_vars => AnswerInv'
<1> SUFFICES ASSUME PermitInv, CollInv, AnswerInv, [Next]_vars PROVE AnswerInv'
  OBVIOUS
<1>0. outcome \in [Task -> Outcomes]
  BY DEF CollInv
<1>1. ASSUME NEW t \in Task, GiveUp(t) PROVE AnswerInv'
  <2>1. Moves(t, {"spawned", "queued", "granted"}, {"done"})
    BY <1>1, TaskMoves
  <2>2. outcome' = [outcome EXCEPT ![t] = "cancelled"]
    BY <1>1 DEF GiveUp
  <2> QED BY <1>0, <2>1, <2>2, AnswerTask DEF Moves, Waiting
<1>2. ASSUME NEW t \in Task, NEW r \in {"ok", "err", "cancelled"}, EndProbe(t, r)
      PROVE  AnswerInv'
  <2>1. Moves(t, {"probing"}, {"released"})
    BY <1>2, TaskMoves
  <2>2. outcome' = [outcome EXCEPT ![t] = r]
    BY <1>2 DEF EndProbe
  <2> QED BY <1>0, <2>1, <2>2, AnswerTask DEF Moves, Waiting
<1>3. ASSUME NEW t \in Task, PanicProbe(t) PROVE AnswerInv'
  <2>1. Moves(t, {"probing"}, {"panicked"})
    BY <1>3, TaskMoves
  <2>2. outcome' = [outcome EXCEPT ![t] = "lost"]
    BY <1>3 DEF PanicProbe
  <2> QED BY <1>0, <2>1, <2>2, AnswerTask DEF Moves, Waiting
<1>4. ASSUME NEW t \in Task,
             \/ Acquire(t) \/ StartProbe(t) \/ PushRecent(t) \/ Count(t)
             \/ Resize(t) \/ PanicResize(t)
      PROVE  AnswerInv'
  <2>1. outcome' = outcome
    BY <1>4 DEF Acquire, StartProbe, PushRecent, Count, Resize, PanicResize
  <2>2. PICK from, to : Moves(t, from, to) /\ (pc'[t] \in Waiting <=> pc[t] \in Waiting)
    <3>1. \/ Moves(t, {"spawned"}, {"granted", "queued"}) \/ Moves(t, {"granted"}, {"probing"})
          \/ Moves(t, {"released"}, {"pushed"}) \/ Moves(t, {"pushed"}, {"counted", "done"})
          \/ Moves(t, {"counted"}, {"done"}) \/ Moves(t, {"counted"}, {"panicked"})
      BY <1>4, TaskMoves
    <3> QED BY <3>1 DEF Moves, Waiting
  <2>3. outcome'[t] = "none" <=> pc'[t] \in Waiting
    BY <2>1, <2>2 DEF AnswerInv
  <2> QED BY <2>1, <2>2, <2>3, AnswerTask
<1>5. ASSUME Collector \/ Cancel \/ Finished \/ UNCHANGED vars PROVE AnswerInv'
  BY <1>5, CollectorFrame DEF AnswerInv
<1> QED
  BY <1>1, <1>2, <1>3, <1>4, <1>5
     DEF Next, TaskStep, FinishProbe, AbortProbe

-----------------------------------------------------------------------------
(* The mapped steps.                                                       *)

\* The instance's cardinality is the cardinality.
LEMMA SameCardinality == \A S : Contract!Cardinality(S) = Cardinality(S)
BY DEF Cardinality, Contract!Cardinality

\* A step that neither starts nor ends a probe keeps the running set.
LEMMA SameRunning ==
  ASSUME NEW t \in Task, NEW from, NEW to, Moves(t, from, to),
         "probing" \notin from, "probing" \notin to
  PROVE  Probing' = Probing
BY DEF Moves, Probing

LEMMA SameAnswerVars ==
  ASSUME UNCHANGED <<outcome, cancelled, cpc>>, Probing' = Probing
  PROVE  UNCHANGED Contract!vars
BY DEF Contract!vars

\* A granted task that is not yet probing leaves room below the ceiling.
LEMMA RoomForOne ==
  ASSUME PermitInv, NEW t \in Task, pc[t] = "granted"
  PROVE  Cardinality(Probing) < ProbeCeiling
<1>1. CASE FixedLimit
  <2>1. IsFiniteSet(Holders) /\ Cardinality(Holders) \in Nat
    BY HoldersFinite DEF Holders
  <2>2. t \in Holders /\ Probing \in SUBSET (Holders \ {t})
    BY DEF Holders, HoldersOf, Probing
  <2>3. IsFiniteSet(Holders \ {t}) /\ Cardinality(Holders \ {t}) = Cardinality(Holders) - 1
    BY <2>1, <2>2, FS_RemoveElement
  <2>4. Cardinality(Probing) \in Nat /\ Cardinality(Probing) <= Cardinality(Holders) - 1
    BY <2>2, <2>3, FS_Subset, FS_CardinalityType
  <2>5. avail \in Nat /\ limit \in 0..MaxLimit /\ avail + Cardinality(Holders) = limit
    BY <1>1 DEF PermitInv, Permits
  <2>6. ProbeCeiling = MaxLimit
    BY <1>1 DEF ProbeCeiling, FixedLimit
  <2> QED BY <2>1, <2>4, <2>5, <2>6, MaxLimitType, SMT
<1>2. CASE ~FixedLimit
  <2>1. IsFiniteSet(Task) /\ Cardinality(Task) = N
    BY TaskFinite
  <2>2. t \in Task /\ Probing \in SUBSET (Task \ {t})
    BY DEF Probing
  <2>3. IsFiniteSet(Task \ {t}) /\ Cardinality(Task \ {t}) = Cardinality(Task) - 1
    BY <2>1, <2>2, FS_RemoveElement
  <2>4. Cardinality(Probing) \in Nat /\ Cardinality(Probing) <= Cardinality(Task) - 1
    BY <2>2, <2>3, FS_Subset, FS_CardinalityType
  <2>5. ProbeCeiling = N /\ N \in Nat
    BY <1>2, ConfigAssumption DEF ProbeCeiling, FixedLimit
  <2> QED BY <2>1, <2>4, <2>5, SMT
<1> QED BY <1>1, <1>2

\* The end of a probe, with any of the answers it can have.
LEMMA EndsProbe ==
  ASSUME NEW t \in Task, NEW a \in Contract!Answer \ {"none"}, a = "cancelled" => cancelled,
         NEW x \in {"released", "panicked"}, Moves(t, {"probing"}, {x}),
         outcome' = [outcome EXCEPT ![t] = a], UNCHANGED <<cancelled, cpc>>
  PROVE  Contract!EndProbe(t, a)
<1>1. Probing' = Probing \ {t} /\ t \in Probing
  BY DEF Moves, Probing
<1> QED BY <1>1 DEF Contract!EndProbe

LEMMA StepImplements ==
  ASSUME PermitInv, CollInv, AnswerInv, [Next]_vars
  PROVE  [Contract!Next]_(Contract!vars)
<1>1. ASSUME NEW t \in Task, GiveUp(t) PROVE Contract!SkipProbe(t)
  <2>1. Moves(t, {"spawned", "queued", "granted"}, {"done"})
    BY <1>1, TaskMoves
  <2>2. /\ outcome' = [outcome EXCEPT ![t] = "cancelled"] /\ cancelled
        /\ UNCHANGED <<cancelled, cpc>> /\ t \notin Probing
    BY <1>1 DEF GiveUp, collVars, Probing
  <2>3. Probing' = Probing
    BY <2>1, SameRunning
  <2>4. outcome[t] = "none"
    BY <2>1 DEF AnswerInv, Moves, Waiting
  <2> QED BY <2>2, <2>3, <2>4 DEF Contract!SkipProbe
<1>2. ASSUME NEW t \in Task, StartProbe(t) PROVE Contract!StartProbe(t)
  <2>1. Moves(t, {"granted"}, {"probing"}) /\ pc[t] = "granted"
    BY <1>2, TaskMoves DEF Moves
  <2>2. ~cancelled /\ UNCHANGED <<outcome, cancelled, cpc>>
    BY <1>2 DEF StartProbe, MayStart, collVars
  <2>3. Probing' = Probing \cup {t} /\ t \notin Probing
    BY <2>1 DEF Moves, Probing
  <2>4. outcome[t] = "none" /\ Cardinality(Probing) < ProbeCeiling
    BY <2>1, RoomForOne DEF AnswerInv, Waiting
  <2> QED BY <2>2, <2>3, <2>4, SameCardinality DEF Contract!StartProbe
<1>3. ASSUME NEW t \in Task, NEW r \in {"ok", "err", "cancelled"}, EndProbe(t, r),
             r = "cancelled" => cancelled
      PROVE  \E a \in Contract!Answer : Contract!EndProbe(t, a)
  <2>1. Moves(t, {"probing"}, {"released"}) /\ r \in Contract!Answer \ {"none"}
    BY <1>3, TaskMoves DEF Contract!Answer
  <2>2. outcome' = [outcome EXCEPT ![t] = r] /\ UNCHANGED <<cancelled, cpc>>
    BY <1>3 DEF EndProbe, collVars
  <2> QED BY <1>3, <2>1, <2>2, EndsProbe
<1>4. ASSUME NEW t \in Task, PanicProbe(t)
      PROVE  \E a \in Contract!Answer : Contract!EndProbe(t, a)
  <2>1. Moves(t, {"probing"}, {"panicked"}) /\ "lost" \in Contract!Answer \ {"none"}
    BY <1>4, TaskMoves DEF Contract!Answer
  <2>2. outcome' = [outcome EXCEPT ![t] = "lost"] /\ UNCHANGED <<cancelled, cpc>>
    BY <1>4 DEF PanicProbe, collVars
  <2> QED BY <2>1, <2>2, EndsProbe
<1>5. ASSUME NEW t \in Task,
             \/ Acquire(t) \/ PushRecent(t) \/ Count(t) \/ Resize(t) \/ PanicResize(t)
      PROVE  UNCHANGED Contract!vars
  <2>1. UNCHANGED <<outcome, cancelled, cpc>>
    BY <1>5 DEF Acquire, PushRecent, Count, Resize, PanicResize, collVars
  <2>2. \/ Moves(t, {"spawned"}, {"granted", "queued"})
        \/ Moves(t, {"released"}, {"pushed"}) \/ Moves(t, {"pushed"}, {"counted", "done"})
        \/ Moves(t, {"counted"}, {"done"}) \/ Moves(t, {"counted"}, {"panicked"})
    BY <1>5, TaskMoves
  <2>3. Probing' = Probing
    BY <2>2, SameRunning
  <2> QED BY <2>1, <2>3, SameAnswerVars
<1>6. CASE CollectorCheck \/ CollectResult \/ CollectPanic
  <2>1. UNCHANGED <<pc, outcome, cancelled>> /\ cpc # "returned" /\ cpc' # "returned"
    BY <1>6 DEF CollectorCheck, CollectResult, CollectPanic, taskVars
  <2>2. (cpc = "returned")' = (cpc = "returned") /\ Probing' = Probing
    BY <2>1 DEF Probing
  <2>3. UNCHANGED Contract!vars
    BY <2>1, <2>2 DEF Contract!vars
  <2> QED BY <2>3
<1>7. CASE Return
  <2>1. UNCHANGED <<pc, outcome, cancelled>> /\ cpc # "returned" /\ cpc' = "returned"
    BY <1>7 DEF Return, taskVars
  <2>2. Probing' = Probing
    BY <2>1 DEF Probing
  <2>3. \A t \in Task : t < next
    BY <1>7, ConfigAssumption, SMT DEF Return, CollectedAll, CollInv, Task
  <2>4. \A t \in Task : outcome[t] # "none"
    BY <2>3 DEF CollInv, AnswerInv, Waiting, Ended
  <2>5. Contract!Return
    BY <2>1, <2>2, <2>4 DEF Contract!Return
  <2> QED BY <2>5 DEF Contract!Next
<1>8. CASE Cancel
  <2>1. ~cancelled /\ cancelled' = TRUE /\ cpc # "returned" /\ UNCHANGED <<pc, outcome, cpc>>
    BY <1>8 DEF Cancel, taskVars, collVars
  <2>2. Probing' = Probing
    BY <2>1 DEF Probing
  <2>3. Contract!Cancel
    BY <2>1, <2>2 DEF Contract!Cancel
  <2> QED BY <2>3 DEF Contract!Next
<1>9. CASE Finished \/ UNCHANGED vars
  <2>1. UNCHANGED <<pc, outcome, cancelled, cpc>>
    BY <1>9 DEF Finished, vars, taskVars, collVars
  <2>2. Probing' = Probing
    BY <2>1 DEF Probing
  <2> QED BY <2>1, <2>2, SameAnswerVars
<1> QED
  BY <1>1, <1>2, <1>3, <1>4, <1>5, <1>6, <1>7, <1>8, <1>9
     DEF Next, TaskStep, Collector, FinishProbe, AbortProbe, AbortReady, Contract!Next

(* In every configuration a batch starts no probe after cancellation,      *)
(* decides every target exactly once and returns only when all are decided *)
(* and no probe runs; with a fixed concurrency (no AIMD, no governor) it   *)
(* never runs more than max_concurrency probes (detect_batch_with_cancel   *)
(* and detect_batch_with_progress).                                        *)
THEOREM BatchImplementsContract == Safety => ImplementsContract
<1>1. Init => Contract!Init
  BY DEF Init, Contract!Init, Probing
<1>2. PermitInv /\ CollInv /\ AnswerInv /\ [Next]_vars => [Contract!Next]_(Contract!vars)
  BY StepImplements
<1>3. PermitInv /\ CollInv /\ AnswerInv /\ [Next]_vars => AnswerInv'
  BY NextAnswer
<1>4. PermitInv /\ CollInv /\ [Next]_vars => PermitInv' /\ CollInv'
  BY NextPermits, NextColl
<1> QED
  BY <1>1, <1>2, <1>3, <1>4, InitPermits, InitColl, InitAnswer, PTL
     DEF Safety, ImplementsContract, Contract!Spec
===============================================================================
