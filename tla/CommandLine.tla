------------------------------ MODULE CommandLine ------------------------------
(***************************************************************************)
(* The command line: a process merges its settings, runs one command and   *)
(* ends.  The scan commands run MasscanPipeline.  The detect command runs  *)
(* a batch, by its contract, under a token that a spawned watcher fires    *)
(* at the first signal it hears, then tests the speed of the edges under a *)
(* second token that nothing fires, and writes a record per target.  The   *)
(* speedtest command uses the watched token for its tests.  The disk, with *)
(* the configuration file and the output file, outlives the process.       *)
(*                                                                         *)
(* A signal meets one of three dispositions: "default" kills, "watched"    *)
(* reaches the watcher, "swallowed" goes to handlers nobody listens to any *)
(* more.  Crash is a signal under the default, or any other death.         *)
(***************************************************************************)
EXTENDS MasscanPipeline, ConfigMerge

CONSTANTS
  Addresses,  \* what a target list may name
  MaxItems,   \* bound: items per source of targets
  MaxCalls,   \* bound: processes
  Slots       \* max_concurrency, and the concurrency of the speed tests

ASSUME BoundsAssumption == MaxItems \in Nat /\ Slots \in Nat

VARIABLES
  conf,      \* disk: the configuration file, "none", "torn", "user" or "generated"
  out,       \* disk: the output file, Absent, Torn or rows
  calls,     \* history: processes begun
  cmd,       \* the command under way
  phase,     \* where it is
  setting,   \* the layers of one key, while they are merged
  speed,     \* cfg.speedtest
  targets,   \* the targets, in the order of their ids
  sig,       \* what a signal meets
  running,   \* batch: tasks whose probe is on the wire
  answer,    \* batch: what became of each task
  token,     \* the watched token
  returned,  \* batch: the call has returned
  edges,     \* tasks found to be edges
  test,      \* the speed test of each task
  outcome    \* history: how the last process ended

files == <<conf, out>>
batch == <<running, answer, token, returned>>
choice == <<cmd, setting, speed, targets>>
vars == <<pipeVars, files, calls, choice, phase, sig, batch, edges, test, outcome>>

\* Ids of targets; those beyond the list count as answered.
Slot == 1..(3 * MaxItems)
Ids == DOMAIN targets

Batch == INSTANCE BatchContract WITH Task <- Slot, Ceiling <- Slots, cancelled <- token

NoSetting == [key |-> "none"]
NoTests == [i \in Slot |-> "none"]
AllAnswered == [i \in Slot |-> "ok"]

Init ==
  /\ PipeInit
  /\ conf \in {"none", "user"} /\ out = Absent
  /\ calls = 0 /\ outcome = "none"
  /\ cmd = "none" /\ phase = "idle" /\ setting = NoSetting /\ speed = FALSE /\ targets = <<>>
  /\ sig = "default" /\ token = FALSE
  /\ running = {} /\ answer = AllAnswered /\ returned = FALSE
  /\ edges = {} /\ test = NoTests

\* The process is gone, and what is left of it is on the disk.
End(how) ==
  /\ cmd' = "none" /\ phase' = "idle" /\ setting' = NoSetting /\ speed' = FALSE /\ targets' = <<>>
  /\ sig' = "default" /\ token' = FALSE
  /\ running' = {} /\ answer' = AllAnswered /\ returned' = FALSE
  /\ edges' = {} /\ test' = NoTests
  /\ outcome' = how
  /\ UNCHANGED calls

NewProcess == phase = "idle" /\ stage = "idle" /\ calls < MaxCalls /\ calls' = calls + 1

-----------------------------------------------------------------------------
(* init, and the settings of the other commands.                           *)

\* run_init_command: a file that is there is kept unless --force is given.
InitConfig(force) ==
  /\ NewProcess
  /\ conf = "none" \/ force
  /\ conf' = "torn"
  /\ cmd' = "init" /\ phase' = "config"
  /\ UNCHANGED <<pipeVars, out, outcome, setting, speed, targets, sig, batch, edges, test>>

WriteConfig ==
  /\ phase = "config"
  /\ conf' = "generated"
  /\ End("emitted")
  /\ UNCHANGED <<pipeVars, out>>

\* merge_config, merge_speedtest_config or merge_scan_config, seen for one key.
\* A torn file parses as an empty one.
Merge(c, k) ==
  /\ NewProcess
  /\ cmd' = c /\ phase' = "merged"
  /\ \E g \in Settings(c, k, conf \in {"user", "generated"}) : setting' = [key |-> k, of |-> g]
  /\ UNCHANGED <<pipeVars, files, outcome, speed, targets, sig, batch, edges, test>>

Switched(k) == setting.key = k /\ On(cmd, k, setting.of)

\* What a command goes on as.
Turned ==
  CASE cmd = "detect" /\ (Switched("bench") \/ Switched("bench_quick")) -> "bench"
    [] cmd = "detect" /\ Switched("fast") -> "fast"
    [] OTHER -> cmd

Choose ==
  /\ phase = "merged"
  /\ cmd' = Turned /\ phase' = "chosen"
  /\ speed' = Switched("speedtest")
  /\ setting' = NoSetting
  /\ UNCHANGED <<pipeVars, files, calls, outcome, targets, sig, batch, edges, test>>

\* The benchmark and config show print and are done.
PrintOnly ==
  /\ phase = "chosen" /\ cmd \in {"bench", "show"}
  /\ End("printed")
  /\ UNCHANGED <<pipeVars, files>>

\* An error on the way to the command's work, or in it: a file that is missing,
\* a layer that does not parse, masscan missing, tables that cannot be loaded,
\* a connector that cannot be built, a one-shot detection or an output file
\* that fails.
Fallible == {"config", "merged", "chosen", "oneshot", "starting", "connecting", "emitting", "writing"}
Fails == phase \in Fallible /\ End("failed") /\ UNCHANGED <<pipeVars, files>>

-----------------------------------------------------------------------------
(* collect_targets_from_merged                                             *)

Items == Addresses \cup {"blank", "bad", "row"}
Lists == UNION {[1..n -> Items \ {"row"}] : n \in 0..MaxItems}
InputFiles == [kind : {"txt", "json", "csv"}, of : UNION {[1..n -> Items] : n \in 0..MaxItems}]

\* A csv row of the wrong shape is skipped and an empty text too; anything else
\* that is no address is an error.
Skipped(kind, x) == (x = "blank" /\ kind # "csv") \/ (x = "row" /\ kind = "csv")
Unreadable(kind, x) == x \notin Addresses /\ ~Skipped(kind, x)
Parsed(kind, xs) == Picked(xs, {i \in DOMAIN xs : ~Skipped(kind, xs[i])})

CollectTargets ==
  \E args, env \in Lists, file \in InputFiles :
    /\ \A x \in Range(args) \cup Range(env) : ~Unreadable("txt", x)
    /\ \A x \in Range(file.of) : ~Unreadable(file.kind, x)
    /\ targets' = Parsed("txt", args) \o Parsed("txt", env) \o Parsed(file.kind, file.of)

\* --fast takes exactly one target, the others at least one.
Enough == IF cmd = "fast" THEN Len(targets') = 1 ELSE targets' # <<>>

Collect ==
  /\ phase = "chosen" /\ cmd \in {"detect", "fast", "speedtest"}
  /\ CollectTargets /\ Enough
  /\ phase' = CASE cmd = "detect" -> "starting" [] cmd = "fast" -> "oneshot" [] OTHER -> "connecting"
  /\ answer' = [i \in Slot |-> IF cmd = "detect" /\ i <= Len(targets') THEN "none" ELSE "ok"]
  /\ test' = [i \in Slot |-> IF cmd = "speedtest" /\ i <= Len(targets') THEN "waiting" ELSE "none"]
  /\ UNCHANGED <<pipeVars, files, calls, outcome, cmd, setting, speed, sig, running, token,
                 returned, edges>>

-----------------------------------------------------------------------------
(* build_signals_token                                                     *)

\* The watcher is a task of its own: it hears nothing until it is polled.
WatcherSpawned ==
  \/ cmd = "detect" /\ phase \in {"starting", "detecting"}
  \/ cmd = "speedtest" /\ phase \in {"connecting", "testing"}

Listen ==
  /\ WatcherSpawned /\ sig = "default"
  /\ sig' = "watched"
  /\ UNCHANGED <<pipeVars, files, calls, choice, phase, batch, edges, test, outcome>>

\* The first signal fires the token; the watcher then sleeps for the grace
\* period and hears no other.
Signal ==
  /\ sig = "watched" /\ ~token
  /\ token' = TRUE
  /\ UNCHANGED <<pipeVars, files, calls, choice, phase, sig, running, answer, returned, edges, test,
                 outcome>>

\* signal_handle.abort(): the handlers stay.
AfterAbort == IF sig = "default" THEN "default" ELSE "swallowed"

-----------------------------------------------------------------------------
(* run_detect_command                                                      *)

StartBatch ==
  /\ phase = "starting"
  /\ phase' = "detecting"
  /\ UNCHANGED <<pipeVars, files, calls, choice, sig, batch, edges, test, outcome>>

BatchStep ==
  /\ phase = "detecting"
  /\ \E i \in Ids :
       \/ Batch!StartProbe(i) /\ UNCHANGED edges
       \/ Batch!SkipProbe(i) /\ UNCHANGED edges
       \/ \E a \in {"err", "cancelled"} : Batch!EndProbe(i, a) /\ UNCHANGED edges
       \/ Batch!EndProbe(i, "ok") /\ edges' \in {edges, edges \cup {i}}
  /\ UNCHANGED <<pipeVars, files, calls, choice, phase, sig, test, outcome>>

\* The second token is made here; its watcher is dropped unpolled.
TestsOf(is) == [i \in Slot |-> IF speed /\ i \in is THEN "waiting" ELSE "none"]
AfterDetection(is) ==
  /\ test' = TestsOf(is)
  /\ phase' = IF speed /\ is # {} THEN "connecting" ELSE "emitting"

BatchReturns ==
  /\ phase = "detecting"
  /\ Batch!Return
  /\ sig' = AfterAbort
  /\ AfterDetection(edges)
  /\ UNCHANGED <<pipeVars, files, calls, choice, edges, outcome>>

\* --fast tests the speed of its target, an edge or not, and watches nothing.
Oneshot ==
  /\ phase = "oneshot"
  /\ edges' \in {{}, {1}}
  /\ AfterDetection({1})
  /\ UNCHANGED <<pipeVars, files, calls, choice, sig, batch, outcome>>

-----------------------------------------------------------------------------
(* run_speedtests                                                          *)

Busy == {i \in Slot : test[i] = "busy"}
Waiting == {i \in Slot : test[i] = "waiting"}

\* Mutant: a test that was skipped keeps its place.
FreePlaceLost == Cardinality({i \in Slot : test[i] \in {"busy", "skipped"}}) < Slots

\* Mutant: a place more than there are.
FreePlaceLate == Cardinality(Busy) <= Slots

FreePlace == Cardinality(Busy) < Slots

\* Mutant: the speedtest command takes the token nothing fires too.
StoppedNever == FALSE

\* Looked at when a test begins and not after.
Stopped == cmd = "speedtest" /\ token

Connect ==
  /\ phase = "connecting"
  /\ phase' = "testing"
  /\ UNCHANGED <<pipeVars, files, calls, choice, sig, batch, edges, test, outcome>>

StartTest(i) ==
  /\ phase = "testing" /\ FreePlace
  /\ i \in Waiting /\ \A j \in Waiting : i <= j
  /\ test' = [test EXCEPT ![i] = IF Stopped THEN "skipped" ELSE "busy"]
  /\ UNCHANGED <<pipeVars, files, calls, choice, phase, sig, batch, edges, outcome>>

EndTest(i) ==
  /\ phase = "testing" /\ i \in Busy
  /\ \E how \in {"ok", "failed"} : test' = [test EXCEPT ![i] = how]
  /\ UNCHANGED <<pipeVars, files, calls, choice, phase, sig, batch, edges, outcome>>

\* Mutant: a speedtest that was stopped has nothing to write.
AfterTestsBailing == IF Stopped THEN "idle" ELSE "emitting"

AfterTests == "emitting"

TestsEnd ==
  /\ phase = "testing" /\ Busy = {} /\ Waiting = {}
  /\ phase' = AfterTests
  /\ sig' = AfterAbort
  /\ UNCHANGED <<pipeVars, files, calls, choice, batch, edges, test, outcome>>

-----------------------------------------------------------------------------
(* emit_records                                                            *)

\* Mutant: speeds are looked up in the order of the tests, not by target.
HasSpeedInOrder(i) == Cardinality({j \in Ids : test[j] = "ok"}) >= i

\* The speeds are a map by target: targets that are equal share one.
HasSpeed(i) == \E j \in Ids : targets[j] = targets[i] /\ test[j] = "ok"

Record(i) ==
  [target |-> targets[i], edge |-> i \in edges, speed |-> HasSpeed(i),
   error |-> IF cmd = "speedtest" THEN ~HasSpeed(i) ELSE answer[i] # "ok"]

CreateOutput ==
  /\ phase = "emitting"
  /\ out' = Torn
  /\ phase' = "writing"
  /\ UNCHANGED <<pipeVars, conf, calls, choice, sig, batch, edges, test, outcome>>

WriteOutput ==
  /\ phase = "writing"
  /\ out' = [file |-> "rows", of |-> [i \in Ids |-> Record(i)]]
  /\ phase' = "emitted"
  /\ UNCHANGED <<pipeVars, conf, calls, choice, sig, batch, edges, test, outcome>>

Exit == phase = "emitted" /\ End("emitted") /\ UNCHANGED <<pipeVars, files>>

-----------------------------------------------------------------------------
(* run_scan_command: no watcher, so a signal kills.                        *)

Scan ==
  /\ phase = "chosen" /\ cmd = "scan"
  /\ Call /\ withSpeed' = speed
  /\ phase' = "scanning"
  /\ UNCHANGED <<files, calls, choice, sig, batch, edges, test, outcome>>

ScanStep ==
  /\ phase = "scanning" /\ PipeStep
  /\ UNCHANGED <<files, calls, choice, phase, sig, batch, edges, test, outcome>>

EarlierScans ==
  /\ phase = "chosen" /\ cmd = "scan"
  /\ \E a \in Asns : EarlierScan(a)
  /\ UNCHANGED <<files, calls, choice, phase, sig, batch, edges, test, outcome>>

ScanClears ==
  /\ phase = "chosen" /\ cmd = "scan"
  /\ ClearCache
  /\ End("printed")
  /\ UNCHANGED files

ScanReturns ==
  /\ stage = "returned"
  /\ Leave
  /\ End("printed")
  /\ UNCHANGED files

-----------------------------------------------------------------------------

Crash == phase # "idle" /\ Leave /\ End("died") /\ UNCHANGED files

ProcessStep ==
  \/ WriteConfig \/ Choose \/ PrintOnly \/ Fails \/ Collect \/ Listen
  \/ StartBatch \/ BatchStep \/ BatchReturns \/ Oneshot
  \/ Connect \/ (\E i \in Slot : StartTest(i) \/ EndTest(i)) \/ TestsEnd
  \/ CreateOutput \/ WriteOutput \/ Exit
  \/ Scan \/ ScanStep \/ ScanClears \/ ScanReturns

Next ==
  \/ \E force \in BOOLEAN : InitConfig(force)
  \/ \E c \in Commands, k \in Keys : Merge(c, k)
  \/ ProcessStep \/ EarlierScans \/ Signal \/ Crash

\* A process that has begun goes on: probes and tests run under timeouts; masscan,
\* the page of an AS number and the user's disk have none and are taken to answer.
Spec == Init /\ [][Next]_vars /\ WF_vars(ProcessStep)

-----------------------------------------------------------------------------
(* Properties.                                                             *)

\* Types, of the disk, the scan and the command.
TypeOK ==
  /\ PipeTypeOK
  /\ conf \in {"none", "torn", "user", "generated"}
  /\ out \in {Absent, Torn} \/ out.file = "rows"
  /\ targets \in Seq(Addresses) /\ Len(targets) <= 3 * MaxItems
  /\ sig \in {"default", "watched", "swallowed"} /\ token \in BOOLEAN /\ speed \in BOOLEAN
  /\ running \subseteq Ids /\ edges \subseteq Ids
  /\ answer \in [Slot -> Batch!Answer]
  /\ test \in [Slot -> {"none", "waiting", "busy", "ok", "failed", "skipped"}]
  /\ Cardinality(Busy) <= Slots

\* emit_records: whatever was cancelled, failed or repeated, the output has a
\* record for each target, in the order of the ids, which calls it an edge only
\* if it was probed, and gives it a speed only if its address was tested with
\* success, in a batch as an edge.
RecordsTellTheRun ==
  phase = "emitted" =>
    /\ DOMAIN out.of = Ids
    /\ \A i \in Ids : LET r == out.of[i] IN
         /\ r.target = targets[i]
         /\ r.edge => answer[i] = "ok"
         /\ r.error => ~r.edge
         /\ r.speed =>
              \E j \in Ids :
                /\ targets[j] = r.target
                /\ test[j] = "ok"
                /\ cmd = "detect" => out.of[j].edge

\* build_signals_token: once the watcher has fired its token no probe begins
\* any more, and no test of the speedtest command.
SignalStopsNewWork ==
  [][token /\ (phase = "detecting" \/ cmd = "speedtest") =>
       running' \subseteq running /\ Busy' \subseteq Busy]_vars

\* run_detect_command and run_speedtest_command: after a signal that was heard
\* the command still writes its records, unless it fails or is killed.
SignalStillEmits == token ~> phase = "emitted" \/ outcome \in {"failed", "died"}

\* Every process that begins ends: no lock, place or token is waited for in vain.
EveryCommandEnds == phase # "idle" ~> phase = "idle"

\* The help of --config, and the file init writes: "CLI flags > CFRP_*
\* env > this file > compiled defaults": without a flag, the highest layer that
\* gives a value decides.
HighestLayerDecides == phase = "merged" => LayersDecide(cmd, setting.key, setting.of)
================================================================================
