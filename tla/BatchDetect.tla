----------------------------- MODULE BatchDetect -----------------------------
(***************************************************************************)
(* The batch engine of the detector: Detector::detect_batch_with_cancel    *)
(* (Cancellable = TRUE) and its near copy detect_batch_with_progress       *)
(* (Cancellable = FALSE: no token, no gap fill).                           *)
(*                                                                         *)
(* One tokio task per target waits for a permit of a semaphore, probes,    *)
(* gives the permit back, pushes its outcome into the sliding window,      *)
(* takes its completion number, and resizes the semaphore (AIMD steering,  *)
(* then the resource governor).  The calling task, the collector, awaits   *)
(* the tasks in target order, emits progress events and builds the         *)
(* results.  Every critical section of a task is an action of its own;     *)
(* the resize block is one action because the code holds the lock of       *)
(* `recent` from its first line to its last.                               *)
(***************************************************************************)
EXTENDS Integers, Sequences, FiniteSets

CONSTANTS
  N,               \* number of targets in the batch
  MaxConcurrency,  \* DetectorConfig.max_concurrency
  BaseConcurrency, \* the concurrency the caller asks for (not adaptive)
  Adaptive,        \* AdaptiveConfig.enabled
  AdaptiveInitial, AdaptiveMin, AdaptiveMax, Window,
  Governed,        \* a resource governor is installed
  Cancellable,     \* the variant with a cancellation token
  ProbesMayPanic   \* a probe may panic (connector::decode_chunked can)

\* clamp(min, max) panics before any task exists when min > max, so a batch
\* that runs at all has AdaptiveMin <= AdaptiveMax; an empty batch returns at once.
ASSUME ConfigAssumption ==
  /\ N \in Nat \ {0}
  /\ MaxConcurrency \in Nat /\ BaseConcurrency \in Nat
  /\ AdaptiveInitial \in Nat /\ AdaptiveMin \in Nat /\ AdaptiveMax \in Nat
  /\ Window \in Nat
  /\ Adaptive \in BOOLEAN /\ Governed \in BOOLEAN
  /\ Cancellable \in BOOLEAN /\ ProbesMayPanic \in BOOLEAN
  /\ AdaptiveMin <= AdaptiveMax

VARIABLES
  pc,             \* where each task is
  outcome,        \* what each task's probe produced
  order,          \* the completion number a task took; N: none yet
  avail,          \* free permits of the semaphore
  limit,          \* current_limit
  recent,         \* sliding window of outcomes
  snap,           \* last_gov_snap: why the governor capped, if it did
  completed,      \* the shared completion counter
  cancelled,      \* the token fired
  cpc,            \* the collector: "check", "await" or "returned"
  next,           \* the task the collector awaits
  cancelledRaised,\* the collector saw the token
  lastReported,
  events,         \* progress events emitted so far
  results         \* result_by_idx, then the returned vector

taskVars == <<pc, outcome, order>>
semVars  == <<avail, limit>>
collVars == <<cpc, next, cancelledRaised, lastReported, events, results>>
vars == <<taskVars, semVars, recent, snap, completed, cancelled, collVars>>

Task == 1..N
Least(a, b) == IF a < b THEN a ELSE b
Greatest(a, b) == IF a > b THEN a ELSE b
Clamp(x, lo, hi) == Greatest(lo, Least(x, hi))
MaxLimit == Greatest(MaxConcurrency, 1)

Queued(p)  == {t \in Task : p[t] = "queued"}
HoldersOf(p) == {t \in Task : p[t] \in {"granted", "probing"}}
Holders == HoldersOf(pc)
Probing == {t \in Task : pc[t] = "probing"}
Permits == avail + Cardinality(Holders)

-----------------------------------------------------------------------------
(* The resource governor, by its contract, which Governor_proofs shows the *)
(* governor to keep.  Its user_max_concurrency is max_limit.               *)

Gov == INSTANCE GovernorContract WITH UserMax <- MaxLimit

Verdicts(p) ==
  IF Governed THEN Gov!Verdicts(p)
  ELSE {[cap |-> Gov!Unthrottled(p), why |-> "clear"]}

\* Mutant: the caller's concurrency is taken as it comes.
InitialUnclamped == IF Adaptive THEN AdaptiveInitial ELSE BaseConcurrency

InitialRaw ==
  IF Adaptive
  THEN Least(Clamp(AdaptiveInitial, AdaptiveMin, AdaptiveMax), MaxLimit)
  ELSE Clamp(BaseConcurrency, 1, MaxLimit)

\* Only a governor lifts an initial value of 0 to 1.
InitialLimits ==
  IF Governed THEN {v.cap : v \in Verdicts(InitialRaw)} ELSE {InitialRaw}

Init ==
  /\ pc = [t \in Task |-> "spawned"]
  /\ outcome = [t \in Task |-> "none"]
  /\ order = [t \in Task |-> N]
  /\ limit \in InitialLimits
  /\ avail = limit
  /\ recent = <<>>
  /\ snap = "none"
  /\ completed = 0
  /\ cancelled = FALSE
  /\ cpc = "check"
  /\ next = 1
  /\ cancelledRaised = FALSE
  /\ lastReported = 0
  /\ events = <<>>
  /\ results = [t \in Task |-> "missing"]

-----------------------------------------------------------------------------
(* The tokio semaphore.  Released permits go to queued tasks first; tokio  *)
(* serves them in queue order, the model lets any of them have the permit. *)

\* k permits come back while the tasks stand at p.
GivePermits(k, p) ==
  \E W \in SUBSET Queued(p) :
    /\ Cardinality(W) = Least(k, Cardinality(Queued(p)))
    /\ pc' = [t \in Task |-> IF t \in W THEN "granted" ELSE p[t]]
    /\ avail' = avail + k - Cardinality(W)

\* Mutant: the loop runs once too often.
ShrinkOneTooMany(k) == avail - Least(k + 1, avail)

\* The shrink loop tries to take and forget k permits and stops at the
\* first one it cannot get at once.
AvailAfterShrink(k) == avail - Least(k, avail)

Acquire(t) ==
  /\ pc[t] = "spawned"
  /\ IF avail > 0
     THEN /\ pc' = [pc EXCEPT ![t] = "granted"]
          /\ avail' = avail - 1
     ELSE /\ pc' = [pc EXCEPT ![t] = "queued"]
          /\ UNCHANGED avail
  /\ UNCHANGED <<outcome, order, limit, recent, snap, completed, cancelled, collVars>>

-----------------------------------------------------------------------------
(* A task.  The window keeps the last Greatest(Window, 1) outcomes.        *)

\* Mutant: a task that sees the token leaves without counting itself.
CountUnlessCancelled == IF cancelled THEN completed ELSE completed + 1

CountUp == completed + 1

\* The token fires before the probe starts: either branch of the select, or
\* the check after the permit arrived.  A permit already assigned goes back.
GiveUp(t) ==
  /\ cancelled
  /\ pc[t] \in {"spawned", "queued", "granted"}
  /\ outcome' = [outcome EXCEPT ![t] = "cancelled"]
  /\ order' = [order EXCEPT ![t] = completed]
  /\ completed' = CountUp
  /\ GivePermits(IF pc[t] = "granted" THEN 1 ELSE 0, [pc EXCEPT ![t] = "done"])
  /\ UNCHANGED <<limit, recent, snap, cancelled, collVars>>

\* Mutant: no look at the token once the permit is there.
StartAnyway == TRUE

MayStart == ~cancelled

StartProbe(t) ==
  /\ pc[t] = "granted"
  /\ MayStart
  /\ pc' = [pc EXCEPT ![t] = "probing"]
  /\ UNCHANGED <<outcome, order, semVars, recent, snap, completed, cancelled, collVars>>

\* Mutant: the permit is forgotten instead of dropped.
EndProbeForgetting(t, r) ==
  /\ pc[t] = "probing"
  /\ outcome' = [outcome EXCEPT ![t] = r]
  /\ pc' = [pc EXCEPT ![t] = "released"]
  /\ UNCHANGED <<order, semVars, recent, snap, completed, cancelled, collVars>>

\* The permit is dropped right after the probe; the governor records the
\* outcome in the same breath (it stays abstract here).
EndProbe(t, r) ==
  /\ pc[t] = "probing"
  /\ outcome' = [outcome EXCEPT ![t] = r]
  /\ GivePermits(1, [pc EXCEPT ![t] = "released"])
  /\ UNCHANGED <<order, limit, recent, snap, completed, cancelled, collVars>>

FinishProbe(t) == \E r \in {"ok", "err"} : EndProbe(t, r)

\* Mutant: the probe is awaited without the cancellation branch.
NeverAborts == FALSE

AbortReady == cancelled

\* The cancellation branch of the select around detect_impl.
AbortProbe(t) == AbortReady /\ EndProbe(t, "cancelled")

\* A panic unwinds the task: the permit goes back, nothing is counted.
PanicProbe(t) ==
  /\ ProbesMayPanic
  /\ pc[t] = "probing"
  /\ outcome' = [outcome EXCEPT ![t] = "lost"]
  /\ GivePermits(1, [pc EXCEPT ![t] = "panicked"])
  /\ UNCHANGED <<order, limit, recent, snap, completed, cancelled, collVars>>

PushRecent(t) ==
  /\ pc[t] = "released"
  /\ LET r == Append(recent, outcome[t] = "ok")
     IN  recent' = IF Len(r) > Greatest(Window, 1) THEN Tail(r) ELSE r
  /\ pc' = [pc EXCEPT ![t] = "pushed"]
  /\ UNCHANGED <<outcome, order, semVars, snap, completed, cancelled, collVars>>

Count(t) ==
  /\ pc[t] = "pushed"
  /\ order' = [order EXCEPT ![t] = completed]
  /\ completed' = CountUp
  /\ pc' = [pc EXCEPT ![t] = IF Adaptive \/ Governed THEN "counted" ELSE "done"]
  /\ UNCHANGED <<outcome, semVars, recent, snap, cancelled, collVars>>

-----------------------------------------------------------------------------
(* Resizing: AIMD steering on the success rate of the window (exact        *)
(* fractions: 0.85 and 0.35, times 1.25 rounded up, times 0.5 rounded      *)
(* down), then the governor, then the semaphore.                           *)

Successes == Cardinality({i \in 1..Len(recent) : recent[i]})

Steered ==
  IF 100 * Successes >= 85 * Len(recent) THEN (5 * limit + 3) \div 4
  ELSE IF 100 * Successes <= 35 * Len(recent) THEN limit \div 2
  ELSE limit

Steers == Adaptive /\ Len(recent) >= Least(Window, 3)
ClampLo == Greatest(AdaptiveMin, 1)
ClampHi == Least(AdaptiveMax, MaxLimit)

\* new_limit.clamp(clamp_lo, clamp_hi) asserts clamp_lo <= clamp_hi.
ResizePanics == Steers /\ ClampLo > ClampHi

Proposed ==
  IF Steers THEN Greatest(Clamp(Steered, ClampLo, ClampHi), 1)
  ELSE IF Adaptive THEN limit
  ELSE Clamp(limit, 1, MaxLimit)

\* The limit becomes the new value even when the shrink loop stopped early.
Resize(t) ==
  /\ pc[t] = "counted"
  /\ ~ResizePanics
  /\ \E v \in Verdicts(Proposed) :
       LET p == [pc EXCEPT ![t] = "done"]
       IN  /\ snap' = v.why
           /\ limit' = v.cap
           /\ IF v.cap >= limit
              THEN GivePermits(v.cap - limit, p)
              ELSE /\ avail' = AvailAfterShrink(limit - v.cap)
                   /\ pc' = p
  /\ UNCHANGED <<outcome, order, recent, completed, cancelled, collVars>>

\* The clamp assertion kills the task after it was counted: its result is gone.
PanicResize(t) ==
  /\ pc[t] = "counted"
  /\ ResizePanics
  /\ pc' = [pc EXCEPT ![t] = "panicked"]
  /\ UNCHANGED <<outcome, order, semVars, recent, snap, completed, cancelled, collVars>>

-----------------------------------------------------------------------------
(* The collector: for task in tasks { look at the token; await; report }.  *)

CollectorCheck ==
  /\ cpc = "check"
  /\ next <= N
  /\ cancelledRaised' = (cancelledRaised \/ cancelled)
  /\ cpc' = "await"
  /\ UNCHANGED <<taskVars, semVars, recent, snap, completed, cancelled,
                 next, lastReported, events, results>>

\* Mutant: the completion number is reported without the + 1.
DoneCountOffByOne(t) == order[t]

DoneCount(t) == order[t] + 1

\* Mutant: every collected result is reported, in collection order.
ReportsAlways(d) == TRUE

Reports(d) == d > lastReported \/ d = N \/ cancelledRaised

\* Mutant: a result collected after the token fired becomes a cancellation.
ResultUnlessCancelled(t) == IF cancelled THEN "cancelled" ELSE outcome[t]

ResultOf(t) == outcome[t]

CollectResult ==
  /\ cpc = "await"
  /\ pc[next] = "done"
  /\ results' = [results EXCEPT ![next] = ResultOf(next)]
  /\ IF Reports(DoneCount(next))
     THEN /\ lastReported' = DoneCount(next)
          /\ events' = Append(events, [completed |-> DoneCount(next),
                                       throttledFd |-> snap \in {"fd", "errors"},
                                       why |-> snap])
     ELSE UNCHANGED <<lastReported, events>>
  /\ next' = next + 1
  /\ cpc' = "check"
  /\ UNCHANGED <<taskVars, semVars, recent, snap, completed, cancelled, cancelledRaised>>

\* A JoinError is logged and otherwise ignored.
CollectPanic ==
  /\ cpc = "await"
  /\ pc[next] = "panicked"
  /\ next' = next + 1
  /\ cpc' = "check"
  /\ UNCHANGED <<taskVars, semVars, recent, snap, completed, cancelled,
                 cancelledRaised, lastReported, events, results>>

\* Mutant: the collector stops at the first sight of the token.
CollectedOrCancelled == next > N \/ cancelledRaised

CollectedAll == next > N

\* Only the cancellable variant fills the gaps of tasks that gave no result.
Filled(r) == IF Cancellable /\ r = "missing" THEN "gap" ELSE r

Return ==
  /\ cpc = "check"
  /\ CollectedAll
  /\ results' = [t \in Task |-> Filled(results[t])]
  /\ cpc' = "returned"
  /\ UNCHANGED <<taskVars, semVars, recent, snap, completed, cancelled,
                 next, cancelledRaised, lastReported, events>>

-----------------------------------------------------------------------------
(* The caller may fire the token at any time before the call returns.      *)
Cancel ==
  /\ Cancellable
  /\ ~cancelled
  /\ cpc # "returned"
  /\ cancelled' = TRUE
  /\ UNCHANGED <<taskVars, semVars, recent, snap, completed, collVars>>

Finished == cpc = "returned" /\ UNCHANGED vars

\* What a task does without waiting for the network.
TaskStep(t) ==
  \/ Acquire(t) \/ GiveUp(t) \/ StartProbe(t) \/ AbortProbe(t)
  \/ PushRecent(t) \/ Count(t) \/ Resize(t) \/ PanicResize(t)

Collector == CollectorCheck \/ CollectResult \/ CollectPanic \/ Return

Next ==
  \/ \E t \in Task : TaskStep(t) \/ FinishProbe(t) \/ PanicProbe(t)
  \/ Collector
  \/ Cancel
  \/ Finished

Safety == Init /\ [][Next]_vars

\* The runtime runs every ready task and the collector; a probe may hang.
Spec == Safety /\ WF_vars(Collector) /\ \A t \in Task : WF_vars(TaskStep(t))

-----------------------------------------------------------------------------
PcStates == {"spawned", "queued", "granted", "probing", "released", "pushed",
             "counted", "done", "panicked"}
Outcomes == {"none", "ok", "err", "cancelled", "lost"}
Snaps == {"none", "clear", "fd", "errors"}
Event == [completed : 1..N, throttledFd : BOOLEAN, why : Snaps]

(* Every variable keeps its type: in particular the semaphore never holds  *)
(* a negative number of permits and the window never outgrows its bound    *)
(* (detector.rs, the shrink loop and the push into `recent`).              *)
TypeOK ==
  /\ pc \in [Task -> PcStates]
  /\ outcome \in [Task -> Outcomes]
  /\ order \in [Task -> 0..N]
  /\ avail \in Nat
  /\ limit \in Nat
  /\ recent \in Seq(BOOLEAN) /\ Len(recent) <= Greatest(Window, 1)
  /\ snap \in Snaps
  /\ completed \in Nat
  /\ cancelled \in BOOLEAN
  /\ cpc \in {"check", "await", "returned"}
  /\ next \in 1..(N + 1)
  /\ cancelledRaised \in BOOLEAN
  /\ lastReported \in 0..N
  /\ events \in Seq(Event)
  /\ results \in [Task -> Outcomes \cup {"missing", "gap"}]

(* The semaphore never owns fewer permits than the limit it is meant to    *)
(* enforce, through any mix of shrinks, growths, aborts and panics: a      *)
(* batch never runs below the concurrency it reports.                      *)
PermitsCoverLimit == Permits >= limit

(* With a fixed concurrency (no AIMD, no governor) the probes in flight    *)
(* never exceed max_concurrency.                                           *)
FixedConcurrencyBound ==
  (~Adaptive /\ ~Governed) => Cardinality(Probing) <= MaxLimit

(* Whatever the steering, the panics and the governor do, the limit stays  *)
(* between 1 and max_concurrency.                                          *)
LimitInRange == limit \in 1..MaxLimit

(* Tasks that ended with a completion number hold pairwise different ones, *)
(* all below the shared counter: no completion is counted twice or lost.   *)
OrdersDistinct ==
  /\ \A t, u \in Task : (t # u /\ order[t] # N) => order[t] # order[u]
  /\ completed = Cardinality({t \in Task : order[t] # N})
  /\ \A t \in Task : order[t] # N => order[t] < completed

(* A batch whose tasks all survive ends with a progress event that shows   *)
(* every target completed, whatever order the tasks finished in.           *)
ReachesFullProgress ==
  (cpc = "returned" /\ \A t \in Task : pc[t] = "done")
     => \E i \in 1..Len(events) : events[i].completed = N

(* Until the collector has seen the token the progress it shows only       *)
(* grows, although tasks are awaited in target order and finish in any.    *)
ProgressGrows ==
  (events' # events /\ ~cancelledRaised)
     => Len(events) = 0 \/ events'[Len(events')].completed > events[Len(events)].completed
ProgressNeverRegresses == [][ProgressGrows]_vars

(* The returned vector tells the truth: a target whose task survived has   *)
(* that task's own outcome, one whose task panicked is a filled gap, and   *)
(* none is reported cancelled unless the token fired.                      *)
ResultsFaithful ==
  cpc = "returned" =>
    \A t \in Task :
      /\ pc[t] = "done" => results[t] = outcome[t] /\ results[t] # "none"
      /\ pc[t] = "panicked" => results[t] = IF Cancellable THEN "gap" ELSE "missing"
      /\ results[t] = "cancelled" => cancelled

(* Nothing outlives the call: when it returns no task still probes, holds  *)
(* a permit or waits for one, cancelled or not.                            *)
NothingOutlivesBatch ==
  cpc = "returned" => \A t \in Task : pc[t] \in {"done", "panicked"}

(* The token ends the batch although every probe hangs for ever.           *)
CancelEndsBatch == cancelled ~> (cpc = "returned")

(* When every probe ends - its connects, handshakes and reads carry        *)
(* timeouts - the batch returns: no queued task is starved of a permit by  *)
(* shrinks, aborts or panics.                                              *)
ProbesEnd == \A t \in Task : WF_vars(FinishProbe(t))
BatchReturns == ProbesEnd => <>(cpc = "returned")

(* Steering moves the limit but takes no permit from a running task, so    *)
(* only a fixed concurrency keeps the ceiling of the configuration.        *)
ProbeCeiling == IF Adaptive \/ Governed THEN N ELSE MaxLimit

(* The batch implements the contract; an answer is a task's outcome.       *)
Contract == INSTANCE BatchContract WITH
  Ceiling <- ProbeCeiling,
  running <- Probing,
  answer <- outcome,
  returned <- (cpc = "returned")
ImplementsContract == Contract!Spec

-----------------------------------------------------------------------------
(* What the documentation says and the code does not do.                   *)

(* "Maximum allowed concurrent probes (upper bound; adaptive stays <=      *)
(* this)", DetectorConfig.max_concurrency.                                 *)
InFlightWithinCeiling == Cardinality(Probing) <= MaxLimit
==============================================================================
