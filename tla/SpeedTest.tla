------------------------------- MODULE SpeedTest -------------------------------
(***************************************************************************)
(* A batch of speed tests: SpeedTester::test_batch and the pipeline's      *)
(* run_speedtest (caller "library"), or the command line's run_speedtests  *)
(* (caller "cli"), which warms a target up first and looks at a            *)
(* cancellation token before it begins one.  A bounded number of targets   *)
(* is tested at once, each by download workers that are tokio tasks of     *)
(* their own.  A test awaits its workers in order and gives the target up  *)
(* at the first that failed; the workers it has not awaited yet go on by   *)
(* themselves.                                                             *)
(***************************************************************************)
EXTENDS Integers, Sequences, FiniteSets

CONSTANTS
  N,            \* number of targets
  Threads,      \* threads_per_target
  Concurrency,  \* concurrency
  Callers       \* the callers considered

ASSUME SpeedAssumption ==
  /\ N \in Nat /\ Threads \in Nat /\ Concurrency \in Nat
  /\ Callers \subseteq {"library", "cli"}

VARIABLES
  caller,
  test,       \* each test: "waiting", "warming", "running", "some" or "none"
  worker,     \* each worker: "unborn", "running", "ok", "err" or "panic"
  awaited,    \* the worker each test awaits
  total,      \* downloads each test has added up
  collected,  \* the targets in the order their results arrived
  cancelled   \* the token fired

vars == <<caller, test, worker, awaited, total, collected, cancelled>>

AtLeastOne(n) == IF n > 1 THEN n ELSE 1

Target == 1..N
Worker == 1..AtLeastOne(Threads)

InProgress == {t \in Target : test[t] \in {"warming", "running"}}
Ended == \A t \in Target : test[t] \in {"some", "none"}

Init ==
  /\ caller \in Callers
  /\ test = [t \in Target |-> "waiting"]
  /\ worker = [t \in Target |-> [w \in Worker |-> "unborn"]]
  /\ awaited = [t \in Target |-> 1]
  /\ total = [t \in Target |-> 0]
  /\ collected = <<>>
  /\ cancelled = FALSE

-----------------------------------------------------------------------------

Spawn(t) ==
  /\ test' = [test EXCEPT ![t] = "running"]
  /\ worker' = [worker EXCEPT ![t] = [w \in Worker |-> "running"]]

Drop(t) == test' = [test EXCEPT ![t] = "none"]

\* Mutant: one test too many.
SlotFreeLate == Cardinality(InProgress) <= AtLeastOne(Concurrency)

SlotFree == Cardinality(InProgress) < AtLeastOne(Concurrency)

\* buffer_unordered takes the next target of the stream and polls its future.
Start(t) ==
  /\ test[t] = "waiting"
  /\ \A u \in 1..(t - 1) : test[u] # "waiting"
  /\ SlotFree
  /\ IF cancelled THEN Drop(t) /\ UNCHANGED worker
     ELSE IF caller = "cli" THEN test' = [test EXCEPT ![t] = "warming"] /\ UNCHANGED worker
     ELSE Spawn(t)
  /\ UNCHANGED <<caller, awaited, total, collected, cancelled>>

\* test_with_warmup: one download whose failure ends the test.
WarmUp(t) ==
  /\ test[t] = "warming"
  /\ \/ Spawn(t)
     \/ Drop(t) /\ UNCHANGED worker
  /\ UNCHANGED <<caller, awaited, total, collected, cancelled>>

\* A download ends, by its timeout if by nothing else.
WorkerEnds(t, w) ==
  /\ worker[t][w] = "running"
  /\ \E r \in {"ok", "err", "panic"} : worker' = [worker EXCEPT ![t][w] = r]
  /\ UNCHANGED <<caller, test, awaited, total, collected, cancelled>>

\* Mutants: a failed download is skipped; a JoinError is not looked at.
AddsUpAny(r) == r \in {"ok", "err"}
FailsByError(r) == r = "err"

AddsUp(r) == r = "ok"
Fails(r) == r \in {"err", "panic"}

Current(t) == worker[t][awaited[t]]

MoreToAwait(t) == awaited[t] < AtLeastOne(Threads)

\* Adds up the workers it may pass; the last one completes the result, which
\* the stream hands on at once.
AwaitWorker(t) ==
  /\ test[t] = "running"
  /\ AddsUp(Current(t))
  /\ total' = [total EXCEPT ![t] = @ + 1]
  /\ IF MoreToAwait(t)
     THEN /\ awaited' = [awaited EXCEPT ![t] = @ + 1]
          /\ UNCHANGED <<test, collected>>
     ELSE /\ test' = [test EXCEPT ![t] = "some"]
          /\ collected' = Append(collected, t)
          /\ UNCHANGED awaited
  /\ UNCHANGED <<caller, worker, cancelled>>

\* The failed target is filtered out; its other workers are left alone.
GiveUp(t) ==
  /\ test[t] = "running"
  /\ Fails(Current(t))
  /\ Drop(t)
  /\ UNCHANGED <<caller, worker, awaited, total, collected, cancelled>>

Cancel ==
  /\ caller = "cli" /\ ~cancelled /\ ~Ended
  /\ cancelled' = TRUE
  /\ UNCHANGED <<caller, test, worker, awaited, total, collected>>

TestStep(t) == Start(t) \/ WarmUp(t) \/ AwaitWorker(t) \/ GiveUp(t)

Next ==
  \/ \E t \in Target : TestStep(t)
  \/ \E t \in Target, w \in Worker : WorkerEnds(t, w)
  \/ Cancel

\* The runtime polls every ready future, and every download has a timeout.
Spec ==
  /\ Init /\ [][Next]_vars
  /\ \A t \in Target : WF_vars(TestStep(t))
  /\ \A t \in Target, w \in Worker : WF_vars(WorkerEnds(t, w))

-----------------------------------------------------------------------------
(* Properties.                                                             *)

\* Every variable keeps its type; no test awaits more workers than it spawned.
TypeOK ==
  /\ caller \in Callers
  /\ test \in [Target -> {"waiting", "warming", "running", "some", "none"}]
  /\ worker \in [Target -> [Worker -> {"unborn", "running", "ok", "err", "panic"}]]
  /\ awaited \in [Target -> Worker]
  /\ total \in [Target -> 0..AtLeastOne(Threads)]
  /\ collected \in Seq(Target)
  /\ cancelled \in BOOLEAN

Collected(t) == {i \in 1..Len(collected) : collected[i] = t}

\* test and test_batch: a target has one result if every one of its workers
\* came through, each of them counted once, and none otherwise; results
\* arrive in any order and no target's is lost or repeated.
ResultsComplete ==
  \A t \in Target :
    /\ Cardinality(Collected(t)) = IF test[t] = "some" THEN 1 ELSE 0
    /\ test[t] = "some" =>
         /\ \A w \in Worker : worker[t][w] = "ok"
         /\ total[t] = Cardinality(Worker)

Busy == {t \in Target : \E w \in Worker : worker[t][w] = "running"}

\* SpeedTestConfig.concurrency: beyond the targets being tested, only those
\* whose test was given up still have workers downloading.
StrayWorkersOnlyAfterFailure ==
  Cardinality(Busy) <= AtLeastOne(Concurrency) + Cardinality({t \in Busy : test[t] = "none"})

\* The batch ends and leaves no download behind for ever, with workers that
\* fail, panic or time out and a token that fires at any moment.
BatchEnds == <>[](Ended /\ Busy = {})
==============================================================================
