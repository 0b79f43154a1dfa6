---------------------------- MODULE MasscanPipeline ----------------------------
(***************************************************************************)
(* MasscanPipeline and the MasscanScanner it drives, one call per process  *)
(* (CommandLine) on a disk that outlives the process: a cache file         *)
(* per AS number, temporary files for masscan's input and output, and a    *)
(* CSV file per task.  A scan resolves an AS number to prefixes, runs the  *)
(* masscan child on them, detects what answered, optionally tests the      *)
(* speed of the edges and writes the rows.  The process may die anywhere.  *)
(*                                                                         *)
(* A page may mention any prefix, whichever AS number it belongs to.  One  *)
(* address answers per prefix and stands for it.  What the detector and    *)
(* the speed test return is open, within what BatchContract and SpeedTest  *)
(* promise.                                                                *)
(***************************************************************************)
EXTENDS Naturals, Sequences, FiniteSets, SequencesExt

CONSTANTS
  Asns,       \* AS numbers
  Prefix,     \* prefixes that pages and lists may name
  TaskLines,  \* lines of a task file, each the sequence of its fields
  MaxLines,   \* bound: lines of a task file or of an address file
  MaxAnswers, \* bound: lines of masscan's output, one line in a batch of AS numbers
  MaxLeaks    \* bound: no removal fails any more when this many files are left

\* What masscan takes for ports: numbers, ranges and lists, without a slash.
ASSUME PortsAssumption ==
  \A l \in TaskLines : Len(l) >= 3 =>
    l[2] \in Seq(STRING) /\ \A i \in DOMAIN l[2] : l[2][i] \notin {"/", "to"}

ASSUME LinesAssumption == MaxLines \in Nat /\ MaxAnswers \in Nat /\ MaxLeaks \in Nat

VARIABLES
  asnFile,  \* disk: the prefixes in the cache file of an AS number, or Absent
  csv,      \* disk: the content of each CSV file, or Absent or Torn
  lists,    \* disk: temporary address lists
  outs,     \* disk: temporary masscan output files
  leaks,    \* history: deaths, failed spawns, unreadable outputs, failed removals
  gave,     \* history: what the page of each AS number last gave
  cut,      \* history: AS numbers whose cache file was begun and not wholly written
  mode,     \* the operation called
  withSpeed,\* PipelineOptions.speedtest
  tasks,    \* the tasks of the call
  at,       \* the task under way
  stage,    \* what the call does next
  cidrs,    \* what masscan is to scan
  open,     \* open_ports
  found,    \* detection_results: which are edges
  speeds,   \* addresses with a measured speed
  outputs,  \* PipelineResult.outputs
  ended     \* history: how each task ended

disk == <<asnFile, csv, lists, outs>>
work == <<cidrs, open, found, speeds>>
callVars == <<mode, withSpeed, tasks>>
report == <<at, outputs, ended>>
pages == <<gave, cut>>
pipeVars == <<disk, leaks, pages, callVars, report, stage, work>>

Absent == [file |-> "absent"]
Torn == [file |-> "torn"]
Cached(ps) == [file |-> "list", of |-> ps]

-----------------------------------------------------------------------------
(* Input files, names and output lines.                                    *)

TrueWords == {"1", "true", "yes", "y"}

\* AsnTask::parse_line on a line split at colons; fields after the third are
\* dropped.
ValidLine(l) == Len(l) >= 3 /\ l[1] \in Asns
ParseLine(l) == [label |-> [kind |-> "AS", of |-> l[1]], ports |-> l[2], tls |-> l[3] \in TrueWords]

\* What a filter leaves of s: the elements at the positions I, in their order.
Rank(I, i) == Cardinality({j \in I : j <= i})
Picked(s, I) == [k \in 1..Cardinality(I) |-> s[CHOOSE i \in I : Rank(I, i) = k]]

\* read_asn_task_file skips the lines it cannot parse.
ReadAsnTaskFile(ls) ==
  LET good == Picked(ls, {i \in DOMAIN ls : ValidLine(ls[i])})
  IN  [i \in DOMAIN good |-> ParseLine(good[i])]

\* read_ip_list_file fails on the first line that is no address.
ReadableIpList(ls) == \A i \in DOMAIN ls : ls[i] \in Prefix

\* Mutant: ranges and lists become the same name.
SafePortsMerged(p) == [i \in DOMAIN p |-> IF p[i] \in {"-", ","} THEN "-" ELSE p[i]]

\* build_output_filename: the characters of a port string that it replaces.
SafePorts(p) ==
  [i \in DOMAIN p |-> CASE p[i] \in {"-", "/"} -> "to" [] p[i] = "," -> "-" [] OTHER -> p[i]]
FileName(t) == <<t.label, t.tls, SafePorts(t.ports)>>

\* parse_ipip_asn_html: the prefixes linked under the AS number, or, if there
\* are none, whatever looks like a prefix anywhere on the page.
ParsedCidrs(page) == IF page.links # {} THEN page.links ELSE page.text
Pages == [links : SUBSET Prefix, text : SUBSET Prefix]

\* parse_masscan_output keeps the "open tcp" lines it can read.
Readable(l) == l \in Prefix
ParseMasscanOutput(ls) == Picked(ls, {i \in DOMAIN ls : Readable(ls[i])})

Task == tasks[at]
Edges == {open[i] : i \in {j \in DOMAIN found : found[j]}}

\* write_csv_output: one row per result, the speed looked up by address.
Rows == [i \in DOMAIN found |-> [ip |-> open[i], edge |-> found[i], speed |-> open[i] \in speeds]]
Output == [task |-> Task, open_ports_count |-> Len(open), detection_results_count |-> Len(found),
           cloudflare_edges_count |-> Cardinality({i \in DOMAIN found : found[i]})]

-----------------------------------------------------------------------------
(* Calls.                                                                  *)

PipeInit ==
  /\ asnFile = [a \in Asns |-> Absent]
  /\ csv = << >>
  /\ lists = 0 /\ outs = 0 /\ leaks = 0
  /\ gave = [a \in Asns |-> {}] /\ cut = {}
  /\ mode = "none" /\ withSpeed = FALSE /\ tasks = <<>>
  /\ at = 1 /\ outputs = <<>> /\ ended = <<>>
  /\ stage = "idle"
  /\ cidrs = {} /\ open = <<>> /\ found = <<>> /\ speeds = {}

Forget == cidrs' = {} /\ open' = <<>> /\ found' = <<>> /\ speeds' = {}

Begin(m, ts, first, targets) ==
  /\ stage = "idle"
  /\ mode' = m /\ tasks' = ts
  /\ withSpeed' \in BOOLEAN
  /\ at' = 1 /\ outputs' = <<>> /\ ended' = [i \in DOMAIN ts |-> "pending"]
  /\ stage' = first
  /\ cidrs' = targets /\ open' = <<>> /\ found' = <<>> /\ speeds' = {}
  /\ UNCHANGED <<disk, leaks, pages>>

RunSingleAsn(l) == ValidLine(l) /\ Begin("asn", <<ParseLine(l)>>, "fetch", {})

RunBatchAsn(ls) ==
  LET ts == ReadAsnTaskFile(ls)
  IN  ts # <<>> /\ Begin("asns", ts, "fetch", {})

IpTask(kind, of) == [label |-> [kind |-> kind, of |-> of], ports |-> <<"443">>, tls |-> TRUE]

RunSingleIp(ip) == Begin("ip", <<IpTask("IP", ip)>>, "masscan", {ip})

\* The label of an address list is its length.
RunBatchIp(ls) ==
  /\ ls # <<>> /\ ReadableIpList(ls)
  /\ Begin("ips", <<IpTask("IPbatch", Len(ls))>>, "list", Range(ls))

\* Mutant: the error of a task ends the batch.
AfterTaskStopping(result) ==
  IF mode = "asns" /\ at < Len(tasks) /\ result = "ok" THEN "fetch" ELSE "returned"

AfterTask(result) == IF mode = "asns" /\ at < Len(tasks) THEN "fetch" ELSE "returned"

\* run_batch_asn goes on with the next task whatever became of this one; the
\* other operations return.
EndTask(result) ==
  /\ ended' = [ended EXCEPT ![at] = result]
  /\ stage' = AfterTask(result)
  /\ at' = IF stage' = "fetch" THEN at + 1 ELSE at
  /\ Forget
  /\ UNCHANGED callVars

Fail == EndTask("failed") /\ UNCHANGED outputs

-----------------------------------------------------------------------------
(* fetch_asn_cidrs                                                         *)

Asn == Task.label.of

FetchCached ==
  /\ stage = "fetch"
  /\ asnFile[Asn] # Absent
  /\ cidrs' = asnFile[Asn].of
  /\ stage' = "list"
  /\ UNCHANGED <<disk, leaks, pages, callVars, report, open, found, speeds>>

\* Neither the status nor the kind of the page is looked at.
FetchPage ==
  /\ stage = "fetch"
  /\ asnFile[Asn] = Absent
  /\ \E page \in Pages :
       /\ cidrs' = ParsedCidrs(page)
       /\ gave' = [gave EXCEPT ![Asn] = ParsedCidrs(page)]
  /\ stage' = "create"
  /\ UNCHANGED <<disk, leaks, cut, callVars, report, open, found, speeds>>

\* A page whose prefixes did not get into a file is forgotten.
ForgetPage == gave' = [gave EXCEPT ![Asn] = {}]

\* The directory, the file or the network fails.
FetchFails ==
  /\ \/ stage = "fetch" /\ UNCHANGED gave
     \/ stage = "create" /\ ForgetPage
  /\ Fail
  /\ UNCHANGED <<disk, leaks, cut>>

CreateCidrFile ==
  /\ stage = "create"
  /\ asnFile' = [asnFile EXCEPT ![Asn] = Cached({})]
  /\ cut' = cut \cup {Asn}
  /\ stage' = "store"
  /\ UNCHANGED <<csv, lists, outs, leaks, gave, callVars, report, work>>

\* Mutant: the prefixes are stored under the AS number of the first task.
StoredElsewhere == [asnFile EXCEPT ![tasks[1].label.of] = Cached(cidrs)]

Stored == [asnFile EXCEPT ![Asn] = Cached(cidrs)]

StoreCidrs ==
  /\ stage = "store"
  /\ asnFile' = Stored
  /\ cut' = cut \ {Asn}
  /\ stage' = "list"
  /\ UNCHANGED <<csv, lists, outs, leaks, gave, callVars, report, work>>

\* What a write that comes to no end may leave of the text of ps.  A line cut in
\* its length names a wider network, which may hold any other.
Beginnings(ps) == IF ps = {} THEN {{}} ELSE SUBSET Prefix

StoredInPart == \E part \in Beginnings(cidrs) : asnFile' = [asnFile EXCEPT ![Asn] = Cached(part)]

StoreFails ==
  /\ stage = "store"
  /\ StoredInPart
  /\ ForgetPage
  /\ Fail
  /\ UNCHANGED <<csv, lists, outs, leaks, cut>>

-----------------------------------------------------------------------------
(* scan_cidrs, scan_ips, scan_single_ip and run_masscan                    *)

ScanNothing ==
  /\ stage = "list" /\ cidrs = {}
  /\ stage' = "detect"
  /\ UNCHANGED <<disk, leaks, pages, callVars, report, work>>

WriteList ==
  /\ stage = "list" /\ cidrs # {}
  /\ lists' = lists + 1
  /\ stage' = "masscan"
  /\ UNCHANGED <<asnFile, csv, outs, leaks, pages, callVars, report, work>>

\* The list is deleted when its handle goes, on every way out of the scan.
OwnList == IF mode # "ip" /\ stage \in {"masscan", "running", "parse"} THEN 1 ELSE 0
OwnOut == IF stage \in {"running", "parse"} THEN 1 ELSE 0

\* The files that removals of n files may leave: an error is ignored.
Kept(n) == {k \in 0..n : k = 0 \/ leaks + k <= MaxLeaks}

\* The scan lets go of its list, removes os outputs and leaves lost others.
RemoveTemp(os, lost) ==
  \E keptList \in Kept(OwnList), keptOut \in Kept(os) :
    /\ lists' = lists - OwnList + keptList
    /\ outs' = outs - os + keptOut
    /\ leaks' = leaks + keptList + keptOut + lost

\* No temporary file, or one that cannot be written and then goes, or not.
ListFails ==
  /\ stage = "list" /\ cidrs # {}
  /\ \E kept \in Kept(1) : lists' = lists + kept /\ leaks' = leaks + kept
  /\ Fail
  /\ UNCHANGED <<asnFile, csv, outs, pages>>

\* No binary, no or several interfaces, no temporary file.
MasscanUnavailable ==
  /\ stage = "masscan"
  /\ RemoveTemp(0, 0)
  /\ Fail
  /\ UNCHANGED <<asnFile, csv, pages>>

\* The output file is kept: from here on only remove_file deletes it.
KeepOutput ==
  /\ stage = "masscan"
  /\ outs' = outs + 1
  /\ stage' = "running"
  /\ UNCHANGED <<asnFile, csv, lists, leaks, pages, callVars, report, work>>

SpawnFails ==
  /\ stage = "running"
  /\ RemoveTemp(0, 1)
  /\ Fail
  /\ UNCHANGED <<asnFile, csv, pages>>

\* Mutant: a failed masscan leaves its output.
AfterMasscanFailsKept == RemoveTemp(0, 0)

AfterMasscanFails == RemoveTemp(1, 0)

MasscanFails ==
  /\ stage = "running"
  /\ AfterMasscanFails
  /\ Fail
  /\ UNCHANGED <<asnFile, csv, pages>>

MasscanEnds ==
  /\ stage = "running"
  /\ stage' = "parse"
  /\ UNCHANGED <<disk, leaks, pages, callVars, report, work>>

\* Lines about the prefixes scanned, and lines about anything else.
OutputLines ==
  UNION {[1..n -> cidrs \cup {"noise"}] : n \in 0..(IF mode = "asns" THEN 1 ELSE MaxAnswers)}

ParseOutput ==
  /\ stage = "parse"
  /\ \E ls \in OutputLines : open' = ParseMasscanOutput(ls)
  /\ RemoveTemp(1, 0)
  /\ stage' = "detect"
  /\ cidrs' = {}
  /\ UNCHANGED <<asnFile, csv, pages, callVars, report, found, speeds>>

ParseFails ==
  /\ stage = "parse"
  /\ RemoveTemp(0, 1)
  /\ Fail
  /\ UNCHANGED <<asnFile, csv, pages>>

-----------------------------------------------------------------------------
(* process_open_ports                                                      *)

\* run_detection: a result per open port, in their order; the token given to
\* the batch never fires.
RunDetection ==
  /\ stage = "detect"
  /\ found' \in [DOMAIN open -> BOOLEAN]
  /\ stage' = "speed"
  /\ UNCHANGED <<disk, leaks, pages, callVars, report, cidrs, open, speeds>>

\* Detector::new cannot load its tables, or the connector of the speed test
\* cannot be built.
DetectorFails ==
  /\ \/ stage = "detect" /\ open # <<>>
     \/ stage = "speed" /\ withSpeed /\ Edges # {}
  /\ Fail
  /\ UNCHANGED <<disk, leaks, pages>>

\* Mutant: every address is tested.
SpeedTargetsAll == Range(open)

SpeedTargets == IF withSpeed THEN Edges ELSE {}

RunSpeedtest ==
  /\ stage = "speed"
  /\ speeds' \in SUBSET SpeedTargets
  /\ stage' = "csv"
  /\ UNCHANGED <<disk, leaks, pages, callVars, report, cidrs, open, found>>

CreateCsv ==
  /\ stage = "csv"
  /\ csv' = [n \in DOMAIN csv \cup {FileName(Task)} |->
               IF n = FileName(Task) THEN Torn ELSE csv[n]]
  /\ stage' = "rows"
  /\ UNCHANGED <<asnFile, lists, outs, leaks, pages, callVars, report, work>>

WriteRows ==
  /\ stage = "rows"
  /\ csv' = [csv EXCEPT ![FileName(Task)] = [file |-> "rows", of |-> Rows]]
  /\ outputs' = Append(outputs, Output)
  /\ EndTask("ok")
  /\ UNCHANGED <<asnFile, lists, outs, leaks, pages>>

CsvFails == stage \in {"csv", "rows"} /\ Fail /\ UNCHANGED <<disk, leaks, pages>>

-----------------------------------------------------------------------------

\* The process ends, by itself when the call has returned or by a death, which
\* leaves its list, its kept output and what it was writing where they are.
Leave ==
  /\ leaks' = leaks + OwnOut + OwnList
  /\ IF stage = "store" THEN StoredInPart ELSE UNCHANGED asnFile
  /\ stage' = "idle"
  /\ mode' = "none" /\ withSpeed' = FALSE /\ tasks' = <<>>
  /\ at' = 1 /\ outputs' = <<>> /\ ended' = <<>>
  /\ Forget
  /\ UNCHANGED <<csv, lists, outs, pages>>

\* clear_cache: the cache directory goes with its files, those that can be
\* removed; errors are ignored.
ClearCache ==
  /\ stage = "idle"
  /\ \E gone \in SUBSET Asns :
       /\ asnFile' = [a \in Asns |-> IF a \in gone THEN Absent ELSE asnFile[a]]
       /\ cut' = cut \ gone
  /\ UNCHANGED <<csv, lists, outs, leaks, gave, callVars, report, stage, work>>

\* What an earlier process may have left in the cache file of an AS number (of
\* one: a bound): what its page gave.  Files cut short come of the deaths and
\* failures of the processes themselves.
EarlierScan(a) ==
  /\ stage = "idle" /\ \A b \in Asns : asnFile[b] = Absent
  /\ \E ps \in SUBSET Prefix :
       /\ asnFile' = [asnFile EXCEPT ![a] = Cached(ps)]
       /\ gave' = [gave EXCEPT ![a] = ps]
  /\ cut' = cut \ {a}
  /\ UNCHANGED <<csv, lists, outs, leaks, callVars, report, stage, work>>

TaskFiles == UNION {[1..n -> TaskLines] : n \in 1..MaxLines}
IpFiles == UNION {[1..n -> Prefix \cup {"bad"}] : n \in 1..MaxLines}

Call ==
  \/ \E l \in TaskLines : RunSingleAsn(l)
  \/ \E ls \in TaskFiles : RunBatchAsn(ls)
  \/ \E ip \in Prefix : RunSingleIp(ip)
  \/ \E ls \in IpFiles : RunBatchIp(ls)

PipeStep ==
  \/ FetchCached \/ FetchPage \/ FetchFails \/ CreateCidrFile \/ StoreCidrs \/ StoreFails
  \/ ScanNothing \/ WriteList \/ ListFails
  \/ MasscanUnavailable \/ KeepOutput \/ SpawnFails \/ MasscanFails \/ MasscanEnds
  \/ ParseOutput \/ ParseFails
  \/ RunDetection \/ DetectorFails \/ RunSpeedtest \/ CreateCsv \/ WriteRows \/ CsvFails

-----------------------------------------------------------------------------
(* Properties.                                                             *)

PipeTypeOK ==
  /\ asnFile \in [Asns -> {Absent} \cup {Cached(ps) : ps \in SUBSET Prefix}]
  /\ lists \in Nat /\ outs \in Nat /\ leaks \in Nat
  /\ gave \in [Asns -> SUBSET Prefix] /\ cut \in SUBSET Asns
  /\ mode \in {"none", "asn", "asns", "ip", "ips"} /\ withSpeed \in BOOLEAN
  /\ at \in 1..(Len(tasks) + 1)
  /\ stage \in {"idle", "fetch", "create", "store", "list", "masscan", "running", "parse",
                "detect", "speed", "csv", "rows", "returned"}
  /\ cidrs \subseteq Prefix /\ speeds \subseteq Prefix
  /\ Len(outputs) <= Len(tasks) /\ DOMAIN ended = DOMAIN tasks

\* run_batch_asn: a task that fails takes no other task with it: when the call
\* returns every task has ended, and the reports are those of the tasks that
\* came through, in their order.
FailuresStayLocal ==
  stage = "returned" =>
    /\ \A i \in DOMAIN ended : ended[i] # "pending"
    /\ LET ok == {i \in DOMAIN ended : ended[i] = "ok"}
       IN  /\ Len(outputs) = Cardinality(ok)
           /\ \A i \in ok :
                outputs[Cardinality({j \in ok : j <= i})].task = tasks[i]

\* PipelineOutput.output_path names the task's detail file: after the call it
\* is whole and has the rows the report counts, unless the same task came
\* again later in the batch.
ReportsHaveTheirRows ==
  stage = "returned" =>
    \A k \in DOMAIN outputs :
      (\A j \in (k + 1)..Len(outputs) : outputs[j].task # outputs[k].task)
      /\ (\A i \in DOMAIN tasks : ended[i] = "failed" => tasks[i] # outputs[k].task) =>
        LET f == csv[FileName(outputs[k].task)]
        IN  /\ f.file = "rows"
            /\ Len(f.of) = outputs[k].detection_results_count
            /\ Len(f.of) = outputs[k].open_ports_count
            /\ Cardinality({i \in DOMAIN f.of : f.of[i].edge}) = outputs[k].cloudflare_edges_count

\* run_masscan, scan_cidrs and scan_ips: beyond the scan under way, temporary
\* files are left only by a death, a failed spawn, an unreadable output or a
\* removal that failed; a removal leaves its own file, the others no more than
\* the scan had.
TempFilesHaveCause == (lists - OwnList) + (outs - OwnOut) <= leaks

\* write_csv_output: a speed in a row belongs to an address that some row of
\* the same file calls an edge.
SpeedsBelongToEdges ==
  \A n \in DOMAIN csv :
    csv[n].file = "rows" =>
      \A i \in DOMAIN csv[n].of :
        csv[n].of[i].speed =>
          \E j \in DOMAIN csv[n].of : csv[n].of[j].ip = csv[n].of[i].ip /\ csv[n].of[j].edge

\* fetch_asn_cidrs: whatever tasks of a batch fail, and whatever earlier
\* processes left, a cache file that was wholly written holds what the page of
\* its own AS number last gave, and so does every scan of an AS number whose
\* file was not cut short.
ScansAsPublished ==
  /\ \A a \in Asns \ cut : asnFile[a] # Absent => asnFile[a].of = gave[a]
  /\ mode \in {"asn", "asns"} =>
       /\ stage \in {"create", "store"} => cidrs = gave[Asn]
       /\ stage \in {"list", "masscan", "running", "parse"} /\ Asn \notin cut => cidrs = gave[Asn]
==============================================================================
