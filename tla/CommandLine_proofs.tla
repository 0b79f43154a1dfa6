-------------------------- MODULE CommandLine_proofs --------------------------
(***************************************************************************)
(* The temporary files of a scan, and what a signal stops.                 *)
(***************************************************************************)
EXTENDS CommandLine, TLAPS

\* TempFilesHaveCause counts the scan's own files apart; to be inductive it
\* needs that they are there, and that a scan of one address, which has no
\* list, never comes to where lists are written.
TempInv ==
  /\ lists \in Nat /\ outs \in Nat /\ leaks \in Nat
  /\ OwnList <= lists /\ OwnOut <= outs
  /\ (lists - OwnList) + (outs - OwnOut) <= leaks
  /\ mode = "ip" => stage \notin {"fetch", "create", "store", "list"}

\* A task's end leaves the scan between tasks, where it owns no files.
LEMMA TaskEnds ==
  ASSUME NEW r, EndTask(r)
  PROVE  /\ stage' \in {"fetch", "returned"}
         /\ stage' = "fetch" => mode = "asns"
         /\ mode' = mode
  BY DEF EndTask, AfterTask, callVars

\* A scan that lets go of its files counts those that stay, whichever removals
\* fail.
LEMMA RemovalsKeepTemp ==
  ASSUME TempInv, NEW os \in 0..1, NEW lost \in 0..1, OwnOut = os + lost, RemoveTemp(os, lost),
         stage' \in {"fetch", "returned", "detect"}, mode' = mode, mode = "ip" => stage' # "fetch"
  PROVE  TempInv'
<1>1. PICK keptList \in Kept(OwnList), keptOut \in Kept(os) :
        /\ lists' = lists - OwnList + keptList
        /\ outs' = outs - os + keptOut
        /\ leaks' = leaks + keptList + keptOut + lost
  BY DEF RemoveTemp
<1>2. OwnList \in 0..1 /\ OwnOut \in 0..1 /\ OwnList' = 0 /\ OwnOut' = 0
  BY DEF OwnList, OwnOut
<1>3. keptList \in Nat /\ keptOut \in Nat
  BY <1>1, <1>2 DEF Kept
<1>4. /\ lists \in Nat /\ outs \in Nat /\ leaks \in Nat
      /\ OwnList <= lists /\ OwnOut <= outs
      /\ (lists - OwnList) + (outs - OwnOut) <= leaks
  BY DEF TempInv
<1>5. /\ lists' \in Nat /\ outs' \in Nat /\ leaks' \in Nat
      /\ 0 <= lists' /\ 0 <= outs' /\ (lists' - 0) + (outs' - 0) <= leaks'
  BY <1>1, <1>2, <1>3, <1>4
<1>6. mode' = "ip" => stage' \notin {"fetch", "create", "store", "list"}
  OBVIOUS
<1>7. OwnList' <= lists' /\ OwnOut' <= outs' /\ (lists' - OwnList') + (outs' - OwnOut') <= leaks'
  BY <1>2, <1>5, Zenon
<1>8. QED
  BY <1>5, <1>6, <1>7 DEF TempInv

LEMMA PipeStepKeepsTemp == TempInv /\ PipeStep => TempInv'
<1> SUFFICES ASSUME TempInv, PipeStep PROVE TempInv'
  OBVIOUS
<1>1. CASE FetchCached
  BY <1>1 DEF FetchCached, TempInv, OwnList, OwnOut, disk, pages, callVars, report, work
<1>2. CASE FetchPage
  BY <1>2 DEF FetchPage, TempInv, OwnList, OwnOut, disk, pages, callVars, report, work
<1>3. CASE FetchFails
  BY TaskEnds, <1>3 DEF FetchFails, Fail, TempInv, OwnList, OwnOut, disk, pages, callVars, report, work
<1>4. CASE CreateCidrFile
  BY <1>4 DEF CreateCidrFile, TempInv, OwnList, OwnOut, disk, pages, callVars, report, work
<1>5. CASE StoreCidrs
  BY <1>5 DEF StoreCidrs, TempInv, OwnList, OwnOut, disk, pages, callVars, report, work
<1>6. CASE StoreFails
  BY TaskEnds, <1>6 DEF StoreFails, Fail, TempInv, OwnList, OwnOut, disk, callVars, report, work
<1>7. CASE ScanNothing
  BY <1>7 DEF ScanNothing, TempInv, OwnList, OwnOut, disk, pages, callVars, report, work
<1>8. CASE WriteList
  BY <1>8 DEF WriteList, TempInv, OwnList, OwnOut, disk, pages, callVars, report, work
<1>9. CASE ListFails
  <2>1. PICK kept \in Kept(1) : lists' = lists + kept /\ leaks' = leaks + kept /\ outs' = outs
    BY <1>9 DEF ListFails
  <2>2. kept \in Nat
    BY <2>1 DEF Kept
  <2>3. OwnList = 0 /\ OwnOut = 0 /\ OwnList' = 0 /\ OwnOut' = 0
    BY <1>9, TaskEnds DEF ListFails, Fail, OwnList, OwnOut
  <2>4. QED
    BY <1>9, <2>1, <2>2, <2>3, TaskEnds DEF ListFails, Fail, TempInv
<1>10. CASE MasscanUnavailable
  <2>1. RemoveTemp(0, 0) /\ OwnOut = 0 + 0 /\ EndTask("failed")
    BY <1>10 DEF MasscanUnavailable, Fail, OwnOut
  <2>2. QED
    BY <2>1, RemovalsKeepTemp, TaskEnds
<1>11. CASE KeepOutput
  BY <1>11 DEF KeepOutput, TempInv, OwnList, OwnOut, disk, pages, callVars, report, work
<1>12. CASE SpawnFails
  <2>1. RemoveTemp(0, 1) /\ OwnOut = 0 + 1 /\ EndTask("failed")
    BY <1>12 DEF SpawnFails, Fail, OwnOut
  <2>2. QED
    BY <2>1, RemovalsKeepTemp, TaskEnds
<1>13. CASE MasscanFails
  <2>1. RemoveTemp(1, 0) /\ OwnOut = 1 + 0 /\ EndTask("failed")
    BY <1>13 DEF MasscanFails, AfterMasscanFails, Fail, OwnOut
  <2>2. QED
    BY <2>1, RemovalsKeepTemp, TaskEnds
<1>14. CASE MasscanEnds
  BY <1>14 DEF MasscanEnds, TempInv, OwnList, OwnOut, disk, pages, callVars, report, work
<1>15. CASE ParseOutput
  <2>1. RemoveTemp(1, 0) /\ OwnOut = 1 + 0 /\ stage' = "detect" /\ mode' = mode
    BY <1>15 DEF ParseOutput, OwnOut, callVars
  <2>2. QED
    BY <2>1, RemovalsKeepTemp
<1>16. CASE ParseFails
  <2>1. RemoveTemp(0, 1) /\ OwnOut = 0 + 1 /\ EndTask("failed")
    BY <1>16 DEF ParseFails, Fail, OwnOut
  <2>2. QED
    BY <2>1, RemovalsKeepTemp, TaskEnds
<1>17. CASE RunDetection
  BY <1>17 DEF RunDetection, TempInv, OwnList, OwnOut, disk, pages, callVars, report, work
<1>18. CASE DetectorFails
  BY TaskEnds, <1>18 DEF DetectorFails, Fail, TempInv, OwnList, OwnOut, disk, pages, callVars, report, work
<1>19. CASE RunSpeedtest
  BY <1>19 DEF RunSpeedtest, TempInv, OwnList, OwnOut, disk, pages, callVars, report, work
<1>20. CASE CreateCsv
  BY <1>20 DEF CreateCsv, TempInv, OwnList, OwnOut, disk, pages, callVars, report, work
<1>21. CASE WriteRows
  BY TaskEnds, <1>21 DEF WriteRows, TempInv, OwnList, OwnOut, disk, pages, callVars, report, work
<1>22. CASE CsvFails
  BY TaskEnds, <1>22 DEF CsvFails, Fail, TempInv, OwnList, OwnOut, disk, pages, callVars, report, work
<1>23. QED
  BY <1>1, <1>2, <1>3, <1>4, <1>5, <1>6, <1>7, <1>8, <1>9, <1>10, <1>11, <1>12, <1>13, <1>14, <1>15, <1>16, <1>17, <1>18, <1>19, <1>20, <1>21, <1>22 DEF PipeStep

\* A call begins where no file is owned.
LEMMA CallKeepsTemp == TempInv /\ Call => TempInv'
<1> SUFFICES ASSUME TempInv, Call PROVE TempInv'
  OBVIOUS
<1>1. ASSUME NEW m, NEW ts, NEW first \in {"fetch", "list", "masscan"}, NEW targets_,
             Begin(m, ts, first, targets_),
             first = "masscan" <=> m = "ip"
      PROVE  TempInv'
  BY <1>1 DEF Begin, TempInv, OwnList, OwnOut, disk
<1>2. ASSUME NEW l, RunSingleAsn(l) PROVE TempInv'
  BY <1>1, <1>2 DEF RunSingleAsn
<1>3. ASSUME NEW ls, RunBatchAsn(ls) PROVE TempInv'
  BY <1>1, <1>3 DEF RunBatchAsn
<1>4. ASSUME NEW ip, RunSingleIp(ip) PROVE TempInv'
  BY <1>1, <1>4 DEF RunSingleIp
<1>5. ASSUME NEW ls, RunBatchIp(ls) PROVE TempInv'
  BY <1>1, <1>5 DEF RunBatchIp
<1>6. QED
  BY <1>2, <1>3, <1>4, <1>5 DEF Call

\* A death turns the files the scan owned into leaks, one for one.
LEMMA LeaveKeepsTemp == TempInv /\ Leave => TempInv'
  BY DEF TempInv, Leave, OwnList, OwnOut, disk

LEMMA StayKeepsTemp ==
  TempInv /\ UNCHANGED <<lists, outs, leaks, mode, stage>> => TempInv'
  BY DEF TempInv, OwnList, OwnOut

LEMMA CacheKeepsTemp ==
  ASSUME TempInv, ClearCache \/ \E a \in Asns : EarlierScan(a)
  PROVE  TempInv'
  BY StayKeepsTemp DEF ClearCache, EarlierScan, callVars

\* Steps of the process that are none of the pipeline's.
Elsewhere ==
  \/ (\E force \in BOOLEAN : InitConfig(force)) \/ (\E c \in Commands, k \in Keys : Merge(c, k))
  \/ WriteConfig \/ Choose \/ PrintOnly \/ Fails \/ Collect \/ Listen
  \/ StartBatch \/ BatchStep \/ BatchReturns \/ Oneshot
  \/ Connect \/ (\E i \in Slot : StartTest(i) \/ EndTest(i)) \/ TestsEnd
  \/ CreateOutput \/ WriteOutput \/ Exit \/ Signal

LEMMA ElsewhereUnchanged == Elsewhere => UNCHANGED pipeVars
  BY DEF Elsewhere, InitConfig, Merge, WriteConfig, Choose, PrintOnly, Fails, Collect, Listen,
         StartBatch, BatchStep, BatchReturns, Oneshot, Connect, StartTest, EndTest, TestsEnd,
         CreateOutput, WriteOutput, Exit, Signal

LEMMA TempInvariant == Spec => []TempInv
<1>1. Init => TempInv
  BY DEF Init, PipeInit, TempInv, OwnList, OwnOut
<1>2. TempInv /\ [Next]_vars => TempInv'
  <2> SUFFICES ASSUME TempInv, [Next]_vars PROVE TempInv'
    OBVIOUS
  <2>1. CASE Elsewhere
    BY <2>1, ElsewhereUnchanged, StayKeepsTemp DEF pipeVars, disk, callVars
  <2>2. CASE Scan
    BY <2>2, CallKeepsTemp DEF Scan
  <2>3. CASE ScanStep
    BY <2>3, PipeStepKeepsTemp DEF ScanStep
  <2>4. CASE EarlierScans
    BY <2>4, CacheKeepsTemp DEF EarlierScans
  <2>5. CASE ScanClears
    BY <2>5, CacheKeepsTemp DEF ScanClears
  <2>6. CASE ScanReturns \/ Crash
    BY <2>6, LeaveKeepsTemp DEF ScanReturns, Crash
  <2>7. CASE UNCHANGED vars
    BY <2>7, StayKeepsTemp DEF vars, pipeVars, disk, callVars
  <2>8. QED
    BY <2>1, <2>2, <2>3, <2>4, <2>5, <2>6, <2>7 DEF Next, ProcessStep, Elsewhere
<1>3. QED
  BY <1>1, <1>2, PTL DEF Spec

\* run_masscan, scan_cidrs and scan_ips, over any number of processes and any
\* tasks: a temporary file that outlives its scan was left by a death, a failed
\* spawn, an unreadable output or a removal that failed, and each leaves no more
\* than its own.
THEOREM TemporaryFilesHaveCause == Spec => []TempFilesHaveCause
<1>1. TempInv => TempFilesHaveCause
  BY DEF TempInv, TempFilesHaveCause
<1>2. QED
  BY <1>1, TempInvariant, PTL

-----------------------------------------------------------------------------
(* Speeds.                                                                 *)

\* The speeds a scan is about to write belong to edges it has found.
SpeedInv ==
  /\ SpeedsBelongToEdges
  /\ stage \in {"csv", "rows"} => speeds \subseteq Edges

LEMMA StayKeepsSpeeds ==
  ASSUME SpeedInv, UNCHANGED csv,
         stage' \in {"csv", "rows"} => stage \in {"csv", "rows"} /\ UNCHANGED <<open, found, speeds>>
  PROVE  SpeedInv'
  BY DEF SpeedInv, SpeedsBelongToEdges, Edges

\* Steps of the pipeline before the speed test, and those that fail.
Before ==
  \/ FetchCached \/ FetchPage \/ FetchFails \/ CreateCidrFile \/ StoreCidrs \/ StoreFails
  \/ ScanNothing \/ WriteList \/ ListFails
  \/ MasscanUnavailable \/ KeepOutput \/ SpawnFails \/ MasscanFails \/ MasscanEnds
  \/ ParseOutput \/ ParseFails \/ RunDetection \/ DetectorFails \/ CsvFails

LEMMA BeforeKeepsCsv ==
  Before => UNCHANGED csv /\ stage' \notin {"csv", "rows"}
  BY TaskEnds DEF Before, FetchCached, FetchPage, FetchFails, CreateCidrFile, StoreCidrs, StoreFails, ScanNothing, WriteList, ListFails, MasscanUnavailable, KeepOutput, SpawnFails, MasscanFails, MasscanEnds, ParseOutput, ParseFails, RunDetection, DetectorFails, CsvFails, Fail, disk

LEMMA PipeStepKeepsSpeeds == SpeedInv /\ PipeStep => SpeedInv'
<1> SUFFICES ASSUME SpeedInv, PipeStep PROVE SpeedInv'
  OBVIOUS
<1>1. CASE Before
  BY <1>1, BeforeKeepsCsv, StayKeepsSpeeds
<1>2. CASE RunSpeedtest
  <2>1. speeds' \subseteq Edges'
    BY <1>2 DEF RunSpeedtest, SpeedTargets, Edges
  <2>2. QED
    BY <1>2, <2>1 DEF RunSpeedtest, SpeedInv, SpeedsBelongToEdges, disk
<1>3. CASE CreateCsv
  <2>1. speeds' \subseteq Edges'
    BY <1>3 DEF CreateCsv, SpeedInv, Edges, work
  <2>2. SpeedsBelongToEdges'
    BY <1>3 DEF CreateCsv, SpeedInv, SpeedsBelongToEdges, Torn
  <2>3. QED
    BY <2>1, <2>2 DEF SpeedInv
<1>4. CASE WriteRows
  <2>1. speeds \subseteq Edges
    BY <1>4 DEF WriteRows, SpeedInv
  <2>2. \A i \in DOMAIN Rows : Rows[i].speed => \E j \in DOMAIN Rows : Rows[j].ip = Rows[i].ip /\ Rows[j].edge
    BY <2>1 DEF Rows, Edges
  <2>3. stage' \notin {"csv", "rows"}
    BY <1>4, TaskEnds DEF WriteRows
  <2>4. \A n \in DOMAIN csv' : csv'[n] = csv[n] \/ csv'[n] = [file |-> "rows", of |-> Rows]
    BY <1>4 DEF WriteRows
  <2>5. DOMAIN csv' = DOMAIN csv
    BY <1>4 DEF WriteRows
  <2>6. SpeedsBelongToEdges'
    BY <2>2, <2>4, <2>5 DEF SpeedInv, SpeedsBelongToEdges
  <2>7. QED
    BY <2>3, <2>6 DEF SpeedInv
<1>5. QED
  BY <1>1, <1>2, <1>3, <1>4 DEF PipeStep, Before

\* write_csv_output: in every file a scan has ever written, a speed belongs to
\* an address that a row of the file calls an edge.
THEOREM SpeedsAreOfEdges == Spec => []SpeedsBelongToEdges
<1>1. Init => SpeedInv
  BY DEF Init, PipeInit, SpeedInv, SpeedsBelongToEdges
<1>2. SpeedInv /\ [Next]_vars => SpeedInv'
  <2> SUFFICES ASSUME SpeedInv, [Next]_vars PROVE SpeedInv'
    OBVIOUS
  <2>1. CASE Elsewhere
    BY <2>1, ElsewhereUnchanged, StayKeepsSpeeds DEF pipeVars, disk, work
  <2>2. CASE Scan
    <3>1. UNCHANGED csv /\ stage' \notin {"csv", "rows"}
      BY <2>2 DEF Scan, Call, RunSingleAsn, RunBatchAsn, RunSingleIp, RunBatchIp, Begin, disk
    <3>2. QED
      BY <3>1, StayKeepsSpeeds
  <2>3. CASE ScanStep
    BY <2>3, PipeStepKeepsSpeeds DEF ScanStep
  <2>4. CASE EarlierScans \/ ScanClears
    BY <2>4, StayKeepsSpeeds DEF EarlierScans, ScanClears, EarlierScan, ClearCache, work
  <2>5. CASE ScanReturns \/ Crash
    BY <2>5, StayKeepsSpeeds DEF ScanReturns, Crash, Leave, disk
  <2>6. CASE UNCHANGED vars
    BY <2>6, StayKeepsSpeeds DEF vars, pipeVars, disk, work
  <2>7. QED
    BY <2>1, <2>2, <2>3, <2>4, <2>5, <2>6 DEF Next, ProcessStep, Elsewhere
<1>3. SpeedInv => SpeedsBelongToEdges
  BY DEF SpeedInv
<1>4. QED
  BY <1>1, <1>2, <1>3, PTL DEF Spec

-----------------------------------------------------------------------------
(* Signals.                                                                *)

\* What SignalStopsNewWork says of a step.
NoNewWork ==
  token /\ (phase = "detecting" \/ cmd = "speedtest") => running' \subseteq running /\ Busy' \subseteq Busy

\* A test that begins under the fired token is skipped.
LEMMA StartsStopped ==
  ASSUME NEW i \in Slot, StartTest(i), token, cmd = "speedtest"
  PROVE  Busy' \subseteq Busy
  BY DEF StartTest, Stopped, Busy

LEMMA EndsShrink ==
  ASSUME NEW i \in Slot, EndTest(i)
  PROVE  Busy' \subseteq Busy
  BY DEF EndTest, Busy

\* build_signals_token: once its token has fired, the watcher's command begins
\* no probe and, as the speedtest command, no test, whatever is under way and
\* however many tasks wait for a place.
THEOREM SignalsStopNewWork == Spec => SignalStopsNewWork
<1>1. [Next]_vars => NoNewWork
  <2> SUFFICES ASSUME [Next]_vars, token, phase = "detecting" \/ cmd = "speedtest"
               PROVE  running' \subseteq running /\ Busy' \subseteq Busy
    BY DEF NoNewWork
  <2>1. CASE UNCHANGED <<running, test>>
    BY <2>1 DEF Busy
  <2>2. CASE running' = {} /\ test' = NoTests
    BY <2>2 DEF Busy, NoTests
  <2>3. CASE UNCHANGED running /\ \A i \in Slot : test'[i] # "busy"
    BY <2>3 DEF Busy
  <2>4. CASE BatchStep
    BY <2>4 DEF BatchStep, Batch!StartProbe, Batch!SkipProbe, Batch!EndProbe, Busy
  <2>5. CASE \E i \in Slot : StartTest(i)
    BY <2>5, StartsStopped DEF StartTest, batch
  <2>6. CASE \E i \in Slot : EndTest(i)
    BY <2>6, EndsShrink DEF EndTest, batch
  <2>7. CASE Collect
    BY <2>3, <2>7 DEF Collect
  <2>8. CASE BatchReturns \/ Oneshot
    BY <2>3, <2>8 DEF BatchReturns, Oneshot, AfterDetection, TestsOf, Batch!Return, batch
  <2>9. CASE WriteConfig \/ PrintOnly \/ Fails \/ Exit \/ ScanClears \/ ScanReturns \/ Crash
    BY <2>2, <2>9 DEF WriteConfig, PrintOnly, Fails, Exit, ScanClears, ScanReturns, Crash, End
  <2>10. CASE \/ (\E force \in BOOLEAN : InitConfig(force)) \/ (\E c \in Commands, k \in Keys : Merge(c, k))
              \/ Choose \/ Listen \/ StartBatch \/ Connect \/ TestsEnd
              \/ CreateOutput \/ WriteOutput \/ Signal
    BY <2>1, <2>10 DEF InitConfig, Merge, Choose, Listen, StartBatch, Connect, TestsEnd,
                       CreateOutput, WriteOutput, Signal, batch
  <2>11. CASE Scan \/ ScanStep \/ EarlierScans
    BY <2>1, <2>11 DEF Scan, ScanStep, EarlierScans, batch
  <2>12. CASE UNCHANGED vars
    BY <2>1, <2>12 DEF vars, batch
  <2>13. QED
    BY <2>4, <2>5, <2>6, <2>7, <2>8, <2>9, <2>10, <2>11, <2>12 DEF Next, ProcessStep
<1>2. QED
  BY <1>1, PTL DEF Spec, SignalStopsNewWork, NoNewWork
================================================================================
