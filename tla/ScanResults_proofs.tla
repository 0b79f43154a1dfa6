-------------------------- MODULE ScanResults_proofs --------------------------
(***************************************************************************)
(* What a process leaves when it has run: the cache files of AS numbers,   *)
(* the reports of a batch of them and the files they name, the records of  *)
(* the detect and speedtest commands, and the types of it all.             *)
(***************************************************************************)
EXTENDS CommandLine_proofs, FiniteSetTheorems, SequenceTheorems

-----------------------------------------------------------------------------
(* Filtered sequences.                                                     *)

\* The rank of a position counts up to the number of positions, and no two
\* positions share one.
LEMMA RankInjective ==
  ASSUME NEW n \in Nat, NEW I \in SUBSET (1..n)
  PROVE  /\ IsFiniteSet(I)
         /\ Cardinality(I) \in 0..n
         /\ [i \in I |-> Rank(I, i)] \in Injection(I, 1..Cardinality(I))
<1>1. IsFiniteSet(1..n) /\ Cardinality(1..n) = n
  BY FS_Interval
<1>2. IsFiniteSet(I) /\ Cardinality(I) <= n
  BY <1>1, FS_Subset
<1>3. Cardinality(I) \in 0..n
  BY <1>2, FS_CardinalityType
<1>4. ASSUME NEW i \in I
      PROVE  /\ IsFiniteSet({j \in I : j <= i})
             /\ Rank(I, i) \in 1..Cardinality(I)
  <2> DEFINE D == {j \in I : j <= i}
  <2>1. IsFiniteSet(D) /\ Cardinality(D) <= Cardinality(I)
    BY <1>2, FS_Subset, D \in SUBSET I
  <2>2. Cardinality(D) \in Nat
    BY <2>1, FS_CardinalityType
  <2>3. Cardinality(D) # 0
    BY <2>1, FS_EmptySet, i \in D
  <2>4. QED
    BY <1>3, <2>1, <2>2, <2>3 DEF Rank
<1>5. ASSUME NEW i \in I, NEW k \in I, i < k
      PROVE  Rank(I, i) # Rank(I, k)
  <2> DEFINE D(x) == {j \in I : j <= x}
  <2>1. D(i) \in SUBSET D(k) /\ k \in D(k) /\ k \notin D(i)
    <3>1. i \in 1..n /\ k \in 1..n /\ i < k /\ \A j \in I : j \in 1..n
      BY <1>5
    <3>2. \A j \in I : j <= i => j <= k
      BY <3>1
    <3>3. ~ (k <= i) /\ k <= k
      BY <3>1
    <3>4. QED
      BY <3>2, <3>3
  <2>2. IsFiniteSet(D(k))
    BY <1>4
  <2>3. Cardinality(D(i)) # Cardinality(D(k))
    <3> HIDE DEF D
    <3> QED BY <2>1, <2>2, FS_Subset
  <2>4. QED
    BY <2>3 DEF Rank
<1>6. \A i, k \in I : i # k => Rank(I, i) # Rank(I, k)
  BY <1>5
<1>7. QED
  BY <1>2, <1>3, <1>4, <1>6 DEF Injection, IsInjective

\* A filter leaves elements of the sequence, and no more than it had.
LEMMA PickedProperties ==
  ASSUME NEW S, NEW s \in Seq(S), NEW I \in SUBSET DOMAIN s
  PROVE  /\ Picked(s, I) \in Seq(S)
         /\ DOMAIN Picked(s, I) = 1..Cardinality(I)
         /\ Len(Picked(s, I)) = Cardinality(I)
         /\ Cardinality(I) \in 0..Len(s)
         /\ \A k \in DOMAIN Picked(s, I) : \E i \in I : Picked(s, I)[k] = s[i]
<1> DEFINE c == Cardinality(I)
           rank == [i \in I |-> Rank(I, i)]
<1>1. Len(s) \in Nat /\ DOMAIN s = 1..Len(s) /\ s \in [1..Len(s) -> S]
  BY LenProperties
<1>2. IsFiniteSet(I) /\ c \in 0..Len(s) /\ rank \in Injection(I, 1..c)
  BY <1>1, RankInjective
<1>3. IsFiniteSet(1..c) /\ Cardinality(1..c) = c
  BY <1>2, FS_Interval
<1>4. rank \in Surjection(I, 1..c)
  <2> HIDE DEF rank
  <2> QED BY <1>2, <1>3, FS_Injection
<1>5. \A k \in 1..c : \E i \in I : Rank(I, i) = k
  BY <1>4 DEF Surjection
<1>6. DOMAIN Picked(s, I) = 1..c
  BY DEF Picked
<1>7. \A k \in 1..c : \E i \in I : Picked(s, I)[k] = s[i]
  BY <1>5 DEF Picked
<1>8. \A k \in 1..c : Picked(s, I)[k] \in S
  BY <1>1, <1>7
<1>9. Picked(s, I) \in [1..c -> S]
  BY <1>8 DEF Picked
<1>10. Picked(s, I) \in Seq(S)
  BY <1>2, <1>9, SeqDef
<1>11. Len(Picked(s, I)) = c
  BY <1>2, <1>6, <1>10, LenProperties
<1>12. QED
  BY <1>2, <1>6, <1>7, <1>10, <1>11

-----------------------------------------------------------------------------
(* The call under way.                                                     *)

AsnTask == {ParseLine(l) : l \in {x \in TaskLines : ValidLine(x)}}
AddressTask ==
  {IpTask("IP", ip) : ip \in Prefix} \cup {IpTask("IPbatch", n) : n \in 1..MaxLines}
AnyTask == AsnTask \cup AddressTask

\* What a call is at any stage: its tasks, and which of them is under way.
CallInv ==
  /\ mode \in {"none", "asn", "asns", "ip", "ips"}
  /\ mode = "none" <=> stage = "idle"
  /\ tasks \in Seq(AnyTask)
  /\ mode \in {"asn", "asns"} => tasks \in Seq(AsnTask)
  /\ mode \in {"asn", "ip", "ips"} => Len(tasks) = 1
  /\ mode # "none" => at \in DOMAIN tasks
  /\ mode \notin {"asn", "asns"} => stage \notin {"fetch", "create", "store"}
  /\ stage = "returned" => at = Len(tasks)

\* read_asn_task_file makes tasks of AS numbers.
LEMMA TaskFilesHaveTasks ==
  ASSUME NEW ls \in TaskFiles
  PROVE  ReadAsnTaskFile(ls) \in Seq(AsnTask)
<1> DEFINE I == {i \in DOMAIN ls : ValidLine(ls[i])}
           good == Picked(ls, I)
<1>1. ls \in Seq(TaskLines)
  BY LinesAssumption, SeqDef DEF TaskFiles
<1>2. /\ DOMAIN good = 1..Cardinality(I)
      /\ Cardinality(I) \in Nat
      /\ \A k \in DOMAIN good : \E i \in I : good[k] = ls[i]
  <2>1. Len(ls) \in Nat
    BY <1>1, LenProperties
  <2>2. I \in SUBSET DOMAIN ls
    OBVIOUS
  <2>3. QED
    <3> HIDE DEF I
    <3> QED BY <1>1, <2>1, <2>2, PickedProperties
<1>3. \A i \in I : ls[i] \in TaskLines /\ ValidLine(ls[i])
  BY <1>1, LenProperties
<1>4. \A k \in 1..Cardinality(I) : ParseLine(good[k]) \in AsnTask
  BY <1>2, <1>3 DEF AsnTask
<1>5. ReadAsnTaskFile(ls) = [k \in 1..Cardinality(I) |-> ParseLine(good[k])]
  BY <1>2 DEF ReadAsnTaskFile
<1>6. ReadAsnTaskFile(ls) \in [1..Cardinality(I) -> AsnTask]
  BY <1>4, <1>5
<1>7. QED
  <2> HIDE DEF I, good
  <2> QED BY <1>2, <1>6, SeqDef

\* What Call lets begin.
Begins(m, ts, first, targets_) ==
  /\ m \in {"asn", "asns", "ip", "ips"}
  /\ ts \in Seq(AnyTask) /\ ts # <<>>
  /\ first \in {"fetch", "list", "masscan"}
  /\ targets_ \in SUBSET Prefix
  /\ Begin(m, ts, first, targets_)
  /\ m \in {"asn", "asns"} => ts \in Seq(AsnTask) /\ first = "fetch" /\ targets_ = {}
  /\ m \in {"ip", "ips"} => first # "fetch"
  /\ m # "asns" => Len(ts) = 1

LEMMA CallBegins ==
  ASSUME Call
  PROVE  \E m, ts, first, targets_ : Begins(m, ts, first, targets_)
<1>1. ASSUME NEW l \in TaskLines, RunSingleAsn(l)
      PROVE  Begins("asn", <<ParseLine(l)>>, "fetch", {})
  <2>1. ParseLine(l) \in AsnTask
    BY <1>1 DEF RunSingleAsn, AsnTask
  <2>2. QED
    BY <1>1, <2>1 DEF RunSingleAsn, AnyTask, Begins
<1>2. ASSUME NEW ls \in TaskFiles, RunBatchAsn(ls)
      PROVE  Begins("asns", ReadAsnTaskFile(ls), "fetch", {})
  <2>1. ReadAsnTaskFile(ls) \in Seq(AsnTask)
    BY TaskFilesHaveTasks
  <2>2. ReadAsnTaskFile(ls) \in Seq(AnyTask)
    BY <2>1, SeqMonotonic, AsnTask \subseteq AnyTask DEF AnyTask
  <2>3. QED
    BY <1>2, <2>1, <2>2 DEF RunBatchAsn, Begins
<1>3. ASSUME NEW ip \in Prefix, RunSingleIp(ip)
      PROVE  Begins("ip", <<IpTask("IP", ip)>>, "masscan", {ip})
  <2>1. IpTask("IP", ip) \in AnyTask
    BY DEF AnyTask, AddressTask
  <2>2. QED
    BY <1>3, <2>1 DEF RunSingleIp, Begins
<1>4. ASSUME NEW ls \in IpFiles, RunBatchIp(ls)
      PROVE  Begins("ips", <<IpTask("IPbatch", Len(ls))>>, "list", Range(ls))
  <2>1. Len(ls) \in 1..MaxLines
    BY LinesAssumption DEF IpFiles
  <2>2. IpTask("IPbatch", Len(ls)) \in AnyTask
    BY <2>1 DEF AnyTask, AddressTask
  <2>3. Range(ls) \in SUBSET Prefix
    BY <1>4 DEF RunBatchIp, ReadableIpList, Range
  <2>4. QED
    BY <1>4, <2>2, <2>3 DEF RunBatchIp, Begins
<1>5. QED
  BY <1>1, <1>2, <1>3, <1>4 DEF Call

\* Steps of a task that goes on, and those that end it.
Within ==
  \/ FetchCached \/ FetchPage \/ CreateCidrFile \/ StoreCidrs \/ ScanNothing \/ WriteList
  \/ KeepOutput \/ MasscanEnds \/ ParseOutput \/ RunDetection \/ RunSpeedtest \/ CreateCsv
Failing ==
  \/ FetchFails \/ StoreFails \/ ListFails \/ MasscanUnavailable \/ SpawnFails \/ MasscanFails
  \/ ParseFails \/ DetectorFails \/ CsvFails

Working == {"fetch", "create", "store", "list", "masscan", "running", "parse", "detect", "speed", "csv", "rows"}

LEMMA WithinStays ==
  ASSUME Within
  PROVE  /\ UNCHANGED <<callVars, report>>
         /\ stage \in Working /\ stage' \in Working
         /\ stage' \in {"fetch", "create", "store"} => stage \in {"fetch", "create", "store"}
  BY DEF Within, Working, FetchCached, FetchPage, CreateCidrFile, StoreCidrs, ScanNothing, WriteList,
         KeepOutput, MasscanEnds, ParseOutput, RunDetection, RunSpeedtest, CreateCsv

LEMMA FailingEnds ==
  ASSUME Failing
  PROVE  EndTask("failed") /\ UNCHANGED <<outputs, csv>> /\ stage \in Working
  BY DEF Failing, Working, Fail, disk, FetchFails, StoreFails, ListFails, MasscanUnavailable, SpawnFails,
         MasscanFails, ParseFails, DetectorFails, CsvFails

LEMMA PipeStepKinds == PipeStep <=> Within \/ Failing \/ WriteRows
  BY DEF PipeStep, Within, Failing

LEMMA EndTaskKeepsCall ==
  ASSUME CallInv, NEW r, EndTask(r), stage \in Working
  PROVE  CallInv'
<1>1. UNCHANGED <<mode, tasks>>
  BY DEF EndTask, callVars
<1>2. mode # "none" /\ at \in 1..Len(tasks) /\ Len(tasks) \in Nat
  BY LenProperties DEF CallInv, Working
<1>3. CASE mode = "asns" /\ at < Len(tasks)
  <2>1. stage' = "fetch" /\ at' = at + 1 /\ at' \in 1..Len(tasks)
    BY <1>2, <1>3 DEF EndTask, AfterTask
  <2>2. at' \in DOMAIN tasks'
    BY <1>1, <2>1, LenProperties DEF CallInv
  <2>3. QED
    BY <1>1, <1>2, <1>3, <2>1, <2>2 DEF CallInv
<1>4. CASE ~ (mode = "asns" /\ at < Len(tasks))
  <2>1. stage' = "returned" /\ at' = at /\ at = Len(tasks)
    <3>1. stage' = "returned" /\ at' = at
      BY <1>4 DEF EndTask, AfterTask
    <3>2. mode # "asns" => Len(tasks) = 1
      BY <1>2 DEF CallInv
    <3>3. ~ (at < Len(tasks))
      <4>1. CASE mode = "asns"
        BY <1>4, <4>1
      <4>2. CASE mode # "asns"
        BY <1>2, <3>2, <4>2
      <4>3. QED
        BY <4>1, <4>2
    <3>4. QED
      BY <1>2, <3>1, <3>3
  <2>2. QED
    BY <1>1, <1>2, <2>1 DEF CallInv
<1>5. QED
  BY <1>3, <1>4

LEMMA PipeStepKeepsCall ==
  ASSUME CallInv, PipeStep
  PROVE  CallInv'
<1>1. CASE Within
  BY <1>1, WithinStays DEF CallInv, Working, callVars, report
<1>2. CASE Failing
  BY <1>2, FailingEnds, EndTaskKeepsCall
<1>3. CASE WriteRows
  BY <1>3, EndTaskKeepsCall DEF WriteRows, Working
<1>4. QED
  BY <1>1, <1>2, <1>3, PipeStepKinds

LEMMA CallKeepsCall ==
  ASSUME Call
  PROVE  CallInv'
<1>1. PICK m, ts, first, targets_ : Begins(m, ts, first, targets_)
  BY CallBegins
<1>2. Len(ts) \in Nat \ {0} /\ DOMAIN ts = 1..Len(ts)
  BY <1>1, EmptySeq, LenProperties DEF Begins
<1>3. mode' = m /\ tasks' = ts /\ stage' = first /\ at' = 1
  BY <1>1 DEF Begins, Begin
<1>4. QED
  BY <1>1, <1>2, <1>3 DEF Begins, CallInv

LEMMA LeaveKeepsCall ==
  ASSUME Leave
  PROVE  CallInv'
  BY DEF CallInv, Leave

\* Steps that leave the pipeline's variables but for the disk, in so far as the
\* call goes.
LEMMA StayKeepsCall ==
  ASSUME CallInv, UNCHANGED <<mode, tasks, at, stage>>
  PROVE  CallInv'
  BY DEF CallInv

\* Every step of the process, as the scan sees it.
LEMMA NextKinds ==
  ASSUME [Next]_vars
  PROVE  \/ UNCHANGED pipeVars
         \/ Scan
         \/ ScanStep
         \/ EarlierScans \/ ScanClears
         \/ ScanReturns \/ Crash
<1>1. CASE Elsewhere
  BY <1>1, ElsewhereUnchanged
<1>2. CASE UNCHANGED vars
  BY <1>2 DEF vars
<1>3. QED
  BY <1>1, <1>2 DEF Next, ProcessStep, Elsewhere

LEMMA CacheStays ==
  ASSUME EarlierScans \/ ScanClears
  PROVE  UNCHANGED <<csv, callVars, report, stage, work>> /\ stage = "idle"
  BY DEF EarlierScans, ScanClears, EarlierScan, ClearCache

LEMMA CallInvariant == Spec => []CallInv
<1>1. Init => CallInv
  BY DEF Init, PipeInit, CallInv
<1>2. CallInv /\ [Next]_vars => CallInv'
  <2> SUFFICES ASSUME CallInv, [Next]_vars PROVE CallInv'
    OBVIOUS
  <2>1. CASE UNCHANGED pipeVars
    BY <2>1, StayKeepsCall DEF pipeVars, callVars, report
  <2>2. CASE Scan
    BY <2>2, CallKeepsCall DEF Scan
  <2>3. CASE ScanStep
    BY <2>3, PipeStepKeepsCall DEF ScanStep
  <2>4. CASE EarlierScans \/ ScanClears
    BY <2>4, CacheStays, StayKeepsCall DEF callVars, report
  <2>5. CASE ScanReturns \/ Crash
    BY <2>5, LeaveKeepsCall DEF ScanReturns, Crash
  <2>6. QED
    BY <2>1, <2>2, <2>3, <2>4, <2>5, NextKinds
<1>3. QED
  BY <1>1, <1>2, PTL DEF Spec

-----------------------------------------------------------------------------
(* Cache files.                                                            *)

\* ScansAsPublished with what the files are, and how far the file of the AS
\* number under way has come.
ScanInv ==
  /\ asnFile \in [Asns -> {Absent} \cup {Cached(ps) : ps \in SUBSET Prefix}]
  /\ gave \in [Asns -> SUBSET Prefix] /\ cut \in SUBSET Asns
  /\ mode \in {"asn", "asns"} =>
       /\ stage = "create" => asnFile[Asn] = Absent
       /\ stage = "store" => Asn \in cut
  /\ ScansAsPublished

\* Prefixes written under an AS number whose file counts as cut short, or that
\* are what its page gave; the page of an AS number is forgotten while it has
\* no file, or one that counts as cut short.
LEMMA StoringKeepsFiles ==
  ASSUME ScanInv, NEW a \in Asns, NEW ps \in SUBSET Prefix,
         asnFile' = [asnFile EXCEPT ![a] = Cached(ps)],
         \/ a \in cut' /\ cut' = cut \cup {a} /\ gave' \in {gave, [gave EXCEPT ![a] = {}]}
         \/ cut' = cut \ {a} /\ ps = gave'[a] /\ gave' \in {gave, [gave EXCEPT ![a] = ps]}
  PROVE  /\ asnFile' \in [Asns -> {Absent} \cup {Cached(qs) : qs \in SUBSET Prefix}]
         /\ gave' \in [Asns -> SUBSET Prefix] /\ cut' \in SUBSET Asns
         /\ \A b \in Asns \ cut' : asnFile'[b] # Absent => asnFile'[b].of = gave'[b]
<1>1. Cached(ps).of = ps
  BY DEF Cached
<1>2. asnFile' \in [Asns -> {Absent} \cup {Cached(qs) : qs \in SUBSET Prefix}]
  BY DEF ScanInv
<1>3. gave' \in [Asns -> SUBSET Prefix] /\ cut' \in SUBSET Asns
  BY DEF ScanInv
<1>4. asnFile'[a] = Cached(ps) /\ \A b \in Asns \ {a} : asnFile'[b] = asnFile[b] /\ gave'[b] = gave[b]
  BY DEF ScanInv
<1>5. \A b \in Asns \ {a} : b \in cut' <=> b \in cut
  OBVIOUS
<1>6. ASSUME NEW b \in Asns \ cut', asnFile'[b] # Absent
      PROVE  asnFile'[b].of = gave'[b]
  <2>1. CASE b = a
    BY <1>1, <1>4, <1>6, <2>1
  <2>2. CASE b # a
    BY <1>4, <1>5, <1>6, <2>2 DEF ScanInv, ScansAsPublished
  <2>3. QED
    BY <2>1, <2>2
<1>7. QED
  BY <1>2, <1>3, <1>6

LEMMA TaskHasAsn ==
  ASSUME CallInv, mode \in {"asn", "asns"}
  PROVE  Asn \in Asns
<1>1. tasks[at] \in AsnTask
  BY LenProperties, ElementOfSeq DEF CallInv
<1>2. QED
  BY <1>1 DEF Asn, Task, AsnTask, ParseLine, ValidLine

\* Steps that leave the cache files alone.
LEMMA StayKeepsScan ==
  ASSUME ScanInv, UNCHANGED <<asnFile, pages>>,
         \/ UNCHANGED <<mode, tasks, at, cidrs>> /\ stage' = stage
         \/ /\ UNCHANGED <<mode, tasks, at, cidrs>>
            /\ stage \in {"list", "masscan", "running", "parse"}
            /\ stage' \in {"list", "masscan", "running", "parse"}
         \/ stage' \notin {"create", "store", "list", "masscan", "running", "parse"}
         \/ mode' \notin {"asn", "asns"}
  PROVE  ScanInv'
  BY DEF ScanInv, ScansAsPublished, Asn, Task, pages

LEMMA WithinKeepsScan ==
  ASSUME CallInv, ScanInv, Within
  PROVE  ScanInv'
<1>1. UNCHANGED <<callVars, report>>
  BY WithinStays
<1>2. mode \in {"asn", "asns"} => Asn \in Asns
  BY TaskHasAsn
<1>3. Asn' = Asn
  BY <1>1 DEF Asn, Task, callVars, report
<1>4. CASE FetchCached
  <2>1. /\ mode \in {"asn", "asns"} /\ cidrs' = asnFile[Asn].of /\ asnFile[Asn] # Absent
        /\ stage' = "list" /\ UNCHANGED <<asnFile, gave, cut>>
    BY <1>4 DEF FetchCached, CallInv, disk, pages
  <2>2. Asn \notin cut => cidrs' = gave[Asn]
    BY <1>2, <2>1 DEF ScanInv, ScansAsPublished
  <2>3. QED
    BY <1>3, <2>1, <2>2 DEF ScanInv, ScansAsPublished
<1>5. CASE FetchPage
  <2>1. mode \in {"asn", "asns"} /\ UNCHANGED <<asnFile, cut>> /\ asnFile[Asn] = Absent /\ stage' = "create"
    BY <1>5 DEF FetchPage, CallInv, disk
  <2>2. PICK page \in Pages :
          cidrs' = ParsedCidrs(page) /\ gave' = [gave EXCEPT ![Asn] = ParsedCidrs(page)]
    BY <1>5 DEF FetchPage
  <2>3. ParsedCidrs(page) \in SUBSET Prefix
    BY <2>2 DEF Pages, ParsedCidrs
  <2>4. gave' \in [Asns -> SUBSET Prefix] /\ cidrs' = gave'[Asn]
    BY <1>2, <2>1, <2>2, <2>3 DEF ScanInv
  <2>5. \A b \in Asns \ cut : asnFile[b] # Absent => asnFile[b].of = gave'[b]
    BY <1>2, <2>1, <2>2 DEF ScanInv, ScansAsPublished
  <2>6. QED
    BY <1>3, <2>1, <2>4, <2>5 DEF ScanInv, ScansAsPublished
<1>6. CASE CreateCidrFile
  <2>1. /\ mode \in {"asn", "asns"} /\ stage = "create" /\ stage' = "store" /\ UNCHANGED <<cidrs, gave>>
        /\ asnFile' = [asnFile EXCEPT ![Asn] = Cached({})] /\ cut' = cut \cup {Asn}
    BY <1>6 DEF CreateCidrFile, CallInv, work
  <2>2. /\ asnFile' \in [Asns -> {Absent} \cup {Cached(qs) : qs \in SUBSET Prefix}]
        /\ gave' \in [Asns -> SUBSET Prefix] /\ cut' \in SUBSET Asns
        /\ \A b \in Asns \ cut' : asnFile'[b] # Absent => asnFile'[b].of = gave'[b]
    <3> DEFINE a == Asn
               none == {}
    <3>1. /\ a \in Asns /\ none \in SUBSET Prefix /\ asnFile' = [asnFile EXCEPT ![a] = Cached(none)]
          /\ a \in cut' /\ cut' = cut \cup {a} /\ gave' \in {gave, [gave EXCEPT ![a] = {}]}
      BY <1>2, <2>1
    <3>2. QED
      <4> HIDE DEF a, none
      <4> QED BY <3>1, StoringKeepsFiles
  <2>3. cidrs = gave[Asn]
    BY <2>1 DEF ScanInv, ScansAsPublished
  <2>4. QED
    BY <1>3, <2>1, <2>2, <2>3 DEF ScanInv, ScansAsPublished
<1>7. CASE StoreCidrs
  <2>1. /\ mode \in {"asn", "asns"} /\ stage = "store" /\ stage' = "list" /\ UNCHANGED <<cidrs, gave>>
        /\ asnFile' = [asnFile EXCEPT ![Asn] = Cached(cidrs)] /\ cut' = cut \ {Asn}
    BY <1>7 DEF StoreCidrs, Stored, CallInv, work
  <2>2. cidrs = gave[Asn] /\ cidrs \in SUBSET Prefix
    BY <1>2, <2>1 DEF ScanInv, ScansAsPublished
  <2>3. /\ asnFile' \in [Asns -> {Absent} \cup {Cached(qs) : qs \in SUBSET Prefix}]
        /\ gave' \in [Asns -> SUBSET Prefix] /\ cut' \in SUBSET Asns
        /\ \A b \in Asns \ cut' : asnFile'[b] # Absent => asnFile'[b].of = gave'[b]
    BY <1>2, <2>1, <2>2, StoringKeepsFiles
  <2>4. QED
    BY <1>3, <2>1, <2>2, <2>3 DEF ScanInv, ScansAsPublished
<1>8. CASE ScanNothing \/ ParseOutput \/ RunDetection \/ RunSpeedtest \/ CreateCsv
  <2>1. UNCHANGED <<asnFile, pages>> /\ stage' \in {"detect", "speed", "csv", "rows"}
    BY <1>8 DEF ScanNothing, ParseOutput, RunDetection, RunSpeedtest, CreateCsv, disk
  <2>2. QED
    BY <2>1, StayKeepsScan
<1>9. CASE WriteList \/ KeepOutput \/ MasscanEnds
  <2>1. /\ UNCHANGED <<asnFile, pages, cidrs>>
        /\ stage \in {"list", "masscan", "running", "parse"}
        /\ stage' \in {"list", "masscan", "running", "parse"}
    BY <1>9 DEF WriteList, KeepOutput, MasscanEnds, disk, work
  <2>2. QED
    BY <1>1, <2>1, StayKeepsScan DEF callVars, report
<1>10. QED
  BY <1>4, <1>5, <1>6, <1>7, <1>8, <1>9 DEF Within

\* A write that fails or is cut off, and the page forgotten with it.
LEMMA StoringInPart ==
  ASSUME CallInv, ScanInv, stage = "store", StoredInPart, cut' = cut,
         gave' \in {gave, [gave EXCEPT ![Asn] = {}]},
         stage' \notin {"create", "store", "list", "masscan", "running", "parse"}
  PROVE  ScanInv'
<1>1. Asn \in Asns /\ Asn \in cut
  BY TaskHasAsn DEF CallInv, ScanInv
<1>2. PICK part \in Beginnings(cidrs) : asnFile' = [asnFile EXCEPT ![Asn] = Cached(part)]
  BY DEF StoredInPart
<1>3. part \in SUBSET Prefix
  BY <1>2 DEF Beginnings
<1>4. cut' = cut \cup {Asn} /\ Asn \in cut'
  BY <1>1
<1>5. /\ asnFile' \in [Asns -> {Absent} \cup {Cached(qs) : qs \in SUBSET Prefix}]
      /\ gave' \in [Asns -> SUBSET Prefix] /\ cut' \in SUBSET Asns
      /\ \A b \in Asns \ cut' : asnFile'[b] # Absent => asnFile'[b].of = gave'[b]
  <2> DEFINE a == Asn
  <2>1. /\ a \in Asns /\ a \in cut' /\ cut' = cut \cup {a} /\ gave' \in {gave, [gave EXCEPT ![a] = {}]}
        /\ asnFile' = [asnFile EXCEPT ![a] = Cached(part)]
    BY <1>1, <1>2, <1>4
  <2>2. QED
    <3> HIDE DEF a
    <3> QED BY <1>3, <2>1, StoringKeepsFiles
<1>6. QED
  BY <1>5 DEF ScanInv, ScansAsPublished

LEMMA PipeStepKeepsScan ==
  ASSUME CallInv, ScanInv, PipeStep
  PROVE  ScanInv'
<1>1. CASE Within
  BY <1>1, WithinKeepsScan
<1>2. CASE StoreFails
  BY <1>2, TaskEnds, StoringInPart DEF StoreFails, ForgetPage, Fail
<1>3. CASE FetchFails
  <2>1. UNCHANGED <<asnFile, cut>> /\ stage' \in {"fetch", "returned"}
    BY <1>3, TaskEnds DEF FetchFails, Fail, disk
  <2>2. CASE UNCHANGED gave
    BY <2>1, <2>2, StayKeepsScan DEF pages
  <2>3. CASE stage = "create" /\ ForgetPage
    <3>1. Asn \in Asns /\ asnFile[Asn] = Absent
      BY <2>3, TaskHasAsn DEF ScanInv, CallInv
    <3>2. gave' \in [Asns -> SUBSET Prefix] /\ \A b \in Asns \ {Asn} : gave'[b] = gave[b]
      BY <2>3, <3>1 DEF ForgetPage, ScanInv
    <3>3. \A b \in Asns \ cut : asnFile[b] # Absent => asnFile[b].of = gave'[b]
      BY <3>1, <3>2 DEF ScanInv, ScansAsPublished
    <3>4. QED
      BY <2>1, <3>2, <3>3 DEF ScanInv, ScansAsPublished
  <2>4. QED
    BY <1>3, <2>2, <2>3 DEF FetchFails
<1>4. CASE (Failing /\ ~StoreFails /\ ~FetchFails) \/ WriteRows
  <2>1. UNCHANGED <<asnFile, pages>> /\ \E r : EndTask(r)
    BY <1>4 DEF Failing, Fail, disk, WriteRows, FetchFails, StoreFails, ListFails,
                MasscanUnavailable, SpawnFails, MasscanFails, ParseFails, DetectorFails, CsvFails
  <2>2. stage' \in {"fetch", "returned"}
    BY <2>1, TaskEnds
  <2>3. QED
    BY <2>1, <2>2, StayKeepsScan
<1>5. QED
  BY <1>1, <1>2, <1>3, <1>4, PipeStepKinds DEF Failing

LEMMA CacheKeepsScan ==
  ASSUME ScanInv, EarlierScans \/ ScanClears, CallInv
  PROVE  ScanInv'
<1>1. UNCHANGED <<mode, tasks, at, cidrs, stage>> /\ stage = "idle" /\ mode \notin {"asn", "asns"}
  BY CacheStays DEF callVars, report, work, CallInv
<1>2. CASE EarlierScans
  <2>1. PICK a \in Asns : EarlierScan(a)
    BY <1>2 DEF EarlierScans
  <2>2. PICK ps \in SUBSET Prefix :
          asnFile' = [asnFile EXCEPT ![a] = Cached(ps)] /\ gave' = [gave EXCEPT ![a] = ps]
    BY <2>1 DEF EarlierScan
  <2>3. cut' = cut \ {a}
    BY <2>1 DEF EarlierScan
  <2>4. ps = gave'[a]
    BY <2>2 DEF ScanInv
  <2>5. QED
    BY <1>1, <2>2, <2>3, <2>4, StoringKeepsFiles DEF ScanInv, ScansAsPublished
<1>3. CASE ScanClears
  <2>1. PICK gone \in SUBSET Asns :
          /\ asnFile' = [a \in Asns |-> IF a \in gone THEN Absent ELSE asnFile[a]]
          /\ cut' = cut \ gone
    BY <1>3 DEF ScanClears, ClearCache
  <2>2. UNCHANGED gave
    BY <1>3 DEF ScanClears, ClearCache
  <2>3. QED
    BY <1>1, <2>1, <2>2 DEF ScanInv, ScansAsPublished
<1>4. QED
  BY <1>2, <1>3

LEMMA InitScan == Init => ScanInv
  BY DEF Init, PipeInit, ScanInv, ScansAsPublished

LEMMA NextKeepsScan == CallInv /\ ScanInv /\ [Next]_vars => ScanInv'
<1> SUFFICES ASSUME CallInv, ScanInv, [Next]_vars PROVE ScanInv'
  OBVIOUS
<1>1. CASE UNCHANGED pipeVars
  BY <1>1, StayKeepsScan DEF pipeVars, disk, callVars, report, work
<1>2. CASE Scan
  <2>1. PICK m, ts, first, targets_ : Begins(m, ts, first, targets_)
    BY <1>2, CallBegins DEF Scan
  <2>2. UNCHANGED <<asnFile, pages>> /\ mode' = m /\ stage' = first
    BY <2>1 DEF Begins, Begin, disk
  <2>3. stage' = "fetch" \/ mode' \notin {"asn", "asns"}
    BY <2>1, <2>2 DEF Begins
  <2>4. QED
    BY <2>2, <2>3, StayKeepsScan
<1>3. CASE ScanStep
  BY <1>3, PipeStepKeepsScan DEF ScanStep
<1>4. CASE EarlierScans \/ ScanClears
  BY <1>4, CacheKeepsScan
<1>5. CASE ScanReturns \/ Crash
  <2>1. Leave
    BY <1>5 DEF ScanReturns, Crash
  <2>2. CASE stage = "store"
    BY <2>1, <2>2, StoringInPart DEF Leave, pages
  <2>3. CASE stage # "store"
    BY <2>1, <2>3, StayKeepsScan DEF Leave
  <2>4. QED
    BY <2>2, <2>3
<1>6. QED
  BY <1>1, <1>2, <1>3, <1>4, <1>5, NextKinds

\* fetch_asn_cidrs, over any number of processes, deaths, failed writes and
\* cleared caches: a cache file that was wholly written holds what the page of
\* its own AS number last gave, never what another task's page did, and a scan
\* takes that and nothing else.
THEOREM ScansTakeWhatThePageGave == Spec => []ScansAsPublished
<1>1. ScanInv => ScansAsPublished
  BY DEF ScanInv
<1>2. QED
  BY <1>1, InitScan, NextKeepsScan, CallInvariant, PTL DEF Spec

-----------------------------------------------------------------------------
(* What a task finds.                                                      *)

DataInv ==
  /\ cidrs \in SUBSET Prefix
  /\ open \in Seq(Prefix)
  /\ found \in Seq(BOOLEAN)
  /\ speeds \in SUBSET Prefix
  /\ stage \in {"speed", "csv", "rows"} => Len(found) = Len(open)

\* parse_masscan_output returns prefixes, however many.
LEMMA OutputIsRead ==
  ASSUME NEW ls \in OutputLines
  PROVE  ParseMasscanOutput(ls) \in Seq(Prefix)
<1> DEFINE I == {i \in DOMAIN ls : Readable(ls[i])}
           S == cidrs \cup {"noise"}
<1>1. ls \in Seq(S)
  <2>1. PICK n \in 0..(IF mode = "asns" THEN 1 ELSE MaxAnswers) : ls \in [1..n -> S]
    BY DEF OutputLines
  <2>2. n \in Nat
    BY LinesAssumption
  <2>3. QED
    BY <2>1, <2>2, SeqDef
<1>2. /\ Picked(ls, I) \in Seq(S)
      /\ \A k \in DOMAIN Picked(ls, I) : \E i \in I : Picked(ls, I)[k] = ls[i]
  <2>1. I \in SUBSET DOMAIN ls
    OBVIOUS
  <2>2. QED
    <3> HIDE DEF I, S
    <3> QED BY <1>1, <2>1, PickedProperties
<1>3. \A k \in DOMAIN Picked(ls, I) : Picked(ls, I)[k] \in Prefix
  BY <1>2 DEF Readable
<1>4. /\ Len(Picked(ls, I)) \in Nat
      /\ Picked(ls, I) \in [1..Len(Picked(ls, I)) -> S]
  BY <1>2, LenProperties
<1>5. Picked(ls, I) \in [1..Len(Picked(ls, I)) -> Prefix]
  BY <1>3, <1>4
<1>6. Picked(ls, I) \in Seq(Prefix)
  BY <1>4, <1>5, SeqDef
<1>7. QED
  BY <1>6 DEF ParseMasscanOutput

LEMMA ForgetKeepsData ==
  ASSUME Forget, stage' \notin {"speed", "csv", "rows"}
  PROVE  DataInv'
  BY EmptySeq DEF Forget, DataInv

LEMMA StayKeepsData ==
  ASSUME DataInv, UNCHANGED work,
         stage' \in {"speed", "csv", "rows"} => stage \in {"speed", "csv", "rows"}
  PROVE  DataInv'
  BY DEF DataInv, work

LEMMA WithinKeepsData ==
  ASSUME CallInv, ScanInv, DataInv, Within
  PROVE  DataInv'
<1>1. CASE FetchCached
  <2>1. cidrs' \in SUBSET Prefix
    <3>1. mode \in {"asn", "asns"} /\ asnFile[Asn] # Absent /\ cidrs' = asnFile[Asn].of
      BY <1>1 DEF FetchCached, CallInv
    <3>2. Asn \in Asns
      BY <3>1, TaskHasAsn
    <3>3. QED
      BY <3>1, <3>2 DEF ScanInv, Cached
  <2>2. QED
    BY <1>1, <2>1 DEF FetchCached, DataInv
<1>2. CASE FetchPage
  <2>1. cidrs' \in SUBSET Prefix
    BY <1>2 DEF FetchPage, Pages, ParsedCidrs
  <2>2. QED
    BY <1>2, <2>1 DEF FetchPage, DataInv
<1>3. CASE CreateCidrFile \/ StoreCidrs \/ ScanNothing \/ WriteList \/ KeepOutput \/ MasscanEnds \/ CreateCsv
  BY <1>3, StayKeepsData
     DEF CreateCidrFile, StoreCidrs, ScanNothing, WriteList, KeepOutput, MasscanEnds, CreateCsv
<1>4. CASE ParseOutput
  BY <1>4, OutputIsRead DEF ParseOutput, DataInv
<1>5. CASE RunDetection
  <2>1. DOMAIN open = 1..Len(open) /\ Len(open) \in Nat
    BY LenProperties DEF DataInv
  <2>2. found' \in [1..Len(open) -> BOOLEAN] /\ UNCHANGED <<cidrs, open, speeds>>
    BY <1>5, <2>1 DEF RunDetection
  <2>3. found' \in Seq(BOOLEAN) /\ Len(found') = Len(open)
    <3>1. found' \in Seq(BOOLEAN)
      BY <2>1, <2>2, SeqDef
    <3>2. DOMAIN found' = 1..Len(found') /\ Len(found') \in Nat
      BY <3>1, LenProperties
    <3>3. QED
      BY <2>1, <2>2, <3>1, <3>2
  <2>4. QED
    BY <2>2, <2>3 DEF DataInv
<1>6. CASE RunSpeedtest
  <2>1. DOMAIN found = DOMAIN open /\ open \in [DOMAIN open -> Prefix]
    BY <1>6, LenProperties DEF RunSpeedtest, DataInv
  <2>2. SpeedTargets \in SUBSET Prefix
    BY <2>1 DEF SpeedTargets, Edges
  <2>3. UNCHANGED <<cidrs, open, found>> /\ speeds' \in SUBSET Prefix /\ stage = "speed"
    BY <1>6, <2>2 DEF RunSpeedtest
  <2>4. QED
    BY <2>3 DEF DataInv
<1>7. QED
  BY <1>1, <1>2, <1>3, <1>4, <1>5, <1>6 DEF Within

LEMMA PipeStepKeepsData ==
  ASSUME CallInv, ScanInv, DataInv, PipeStep
  PROVE  DataInv'
<1>1. CASE Within
  BY <1>1, WithinKeepsData
<1>2. CASE \E r : EndTask(r)
  BY <1>2, TaskEnds, ForgetKeepsData DEF EndTask
<1>3. QED
  BY <1>1, <1>2, PipeStepKinds, FailingEnds DEF WriteRows

LEMMA ScanInvariant == Spec => [](CallInv /\ ScanInv /\ DataInv)
<1>1. Init => CallInv /\ ScanInv /\ DataInv
  BY EmptySeq DEF Init, PipeInit, CallInv, ScanInv, ScansAsPublished, DataInv
<1>2. CallInv /\ ScanInv /\ DataInv /\ [Next]_vars => DataInv'
  <2> SUFFICES ASSUME CallInv, ScanInv, DataInv, [Next]_vars PROVE DataInv'
    OBVIOUS
  <2>1. CASE UNCHANGED pipeVars
    BY <2>1, StayKeepsData DEF pipeVars
  <2>2. CASE Scan
    <3>1. PICK m, ts, first, targets_ : Begins(m, ts, first, targets_)
      BY <2>2, CallBegins DEF Scan
    <3>2. cidrs' \in SUBSET Prefix /\ open' = <<>> /\ found' = <<>> /\ speeds' = {} /\ stage' = first
      BY <3>1 DEF Begins, Begin
    <3>3. QED
      BY <3>1, <3>2, EmptySeq DEF Begins, DataInv
  <2>3. CASE ScanStep
    BY <2>3, PipeStepKeepsData DEF ScanStep
  <2>4. CASE EarlierScans \/ ScanClears
    BY <2>4, CacheStays, StayKeepsData
  <2>5. CASE ScanReturns \/ Crash
    BY <2>5, ForgetKeepsData DEF ScanReturns, Crash, Leave
  <2>6. QED
    BY <2>1, <2>2, <2>3, <2>4, <2>5, NextKinds
<1>3. QED
  BY <1>1, <1>2, NextKeepsScan, CallInvariant, PTL DEF Spec

-----------------------------------------------------------------------------
(* Reports.                                                                *)

Ok == {i \in DOMAIN ended : ended[i] = "ok"}
OutputRec ==
  [task : AnyTask, open_ports_count : Nat, detection_results_count : Nat, cloudflare_edges_count : Nat]

\* FailuresStayLocal at any stage of the call: the tasks before the one under
\* way have ended, and each that came through has the report of its rank.
EndInv ==
  mode # "none" =>
    /\ ended \in [DOMAIN tasks -> {"pending", "ok", "failed"}]
    /\ \A i \in DOMAIN tasks : ended[i] = "pending" <=> i > at \/ (i = at /\ stage # "returned")
    /\ outputs \in Seq(OutputRec)
    /\ Len(outputs) = Cardinality(Ok)
    /\ \A i \in Ok : outputs[Rank(Ok, i)].task = tasks[i]

\* A position after all others has the last rank and changes no other.
LEMMA RankAppends ==
  ASSUME NEW n \in Nat, NEW I \in SUBSET (1..n), NEW a \in 1..n, \A i \in I : i < a
  PROVE  /\ Cardinality(I \cup {a}) = Cardinality(I) + 1
         /\ Rank(I \cup {a}, a) = Cardinality(I) + 1
         /\ \A i \in I : Rank(I \cup {a}, i) = Rank(I, i)
<1> DEFINE J == I \cup {a}
<1>1. IsFiniteSet(I) /\ a \notin I
  <2>1. \A i \in I : i \in 1..n /\ i # a
    OBVIOUS
  <2>2. QED
    BY <2>1, RankInjective
<1>2. Cardinality(J) = Cardinality(I) + 1
  BY <1>1, FS_AddElement
<1>3. {j \in J : j <= a} = J
  <2>1. \A i \in J : i \in 1..n /\ i <= a
    OBVIOUS
  <2>2. QED
    BY <2>1
<1>4. Rank(J, a) = Cardinality(J)
  BY <1>3 DEF Rank
<1>5. ASSUME NEW i \in I
      PROVE  Rank(J, i) = Rank(I, i)
  <2>1. {j \in J : j <= i} = {j \in I : j <= i}
    OBVIOUS
  <2>2. QED
    BY <2>1 DEF Rank
<1>6. QED
  BY <1>2, <1>4, <1>5

\* What the end of a task does to the account of the tasks.
LEMMA TaskEndsOne ==
  ASSUME CallInv, EndInv, stage \in Working, NEW r \in {"ok", "failed"}, EndTask(r)
  PROVE  /\ mode # "none" /\ mode' # "none" /\ UNCHANGED tasks
         /\ Len(tasks) \in Nat /\ DOMAIN tasks = 1..Len(tasks) /\ at \in DOMAIN tasks
         /\ ended' \in [DOMAIN tasks' -> {"pending", "ok", "failed"}]
         /\ \A i \in DOMAIN tasks : ended'[i] = "pending" <=> i > at' \/ (i = at' /\ stage' # "returned")
         /\ Ok \in SUBSET (1..Len(tasks)) /\ \A i \in Ok : i < at
         /\ Ok' = IF r = "ok" THEN Ok \cup {at} ELSE Ok
<1>1. mode # "none" /\ mode' = mode /\ tasks' = tasks /\ ended' = [ended EXCEPT ![at] = r]
  BY DEF CallInv, Working, EndTask, callVars
<1>2. Len(tasks) \in Nat /\ DOMAIN tasks = 1..Len(tasks) /\ at \in DOMAIN tasks
  BY <1>1, LenProperties DEF CallInv
<1>3. /\ ended \in [1..Len(tasks) -> {"pending", "ok", "failed"}]
      /\ \A i \in 1..Len(tasks) : ended[i] = "pending" <=> i >= at
  BY <1>1, <1>2 DEF EndInv, Working
<1>4. ended' \in [1..Len(tasks) -> {"pending", "ok", "failed"}]
  BY <1>1, <1>3
<1>5. \/ stage' = "fetch" /\ at' = at + 1
      \/ stage' = "returned" /\ at' = at
  BY DEF EndTask, AfterTask
<1>6. \A i \in 1..Len(tasks) : ended'[i] = "pending" <=> i > at
  BY <1>1, <1>2, <1>3
<1>7. \A i \in 1..Len(tasks) : ended'[i] = "pending" <=> i > at' \/ (i = at' /\ stage' # "returned")
  BY <1>2, <1>5, <1>6
<1>8. Ok \in SUBSET (1..Len(tasks)) /\ \A i \in Ok : i < at
  BY <1>2, <1>3 DEF Ok
<1>9. Ok' = IF r = "ok" THEN Ok \cup {at} ELSE Ok
  BY <1>1, <1>2, <1>3 DEF Ok
<1>10. QED
  BY <1>1, <1>2, <1>4, <1>7, <1>8, <1>9

LEMMA FailingKeepsEnd ==
  ASSUME CallInv, EndInv, Failing
  PROVE  EndInv'
<1>1. EndTask("failed") /\ UNCHANGED outputs /\ stage \in Working
  BY FailingEnds
<1>2. Ok' = Ok
  BY <1>1, TaskEndsOne
<1>3. \A i \in Ok : Rank(Ok', i) = Rank(Ok, i)
  BY <1>2
<1>4. QED
  BY <1>1, <1>2, <1>3, TaskEndsOne DEF EndInv

LEMMA OutputIsRecord ==
  ASSUME CallInv, DataInv, mode # "none"
  PROVE  Output \in OutputRec /\ Output.task = tasks[at]
<1>1. Task \in AnyTask
  BY LenProperties, ElementOfSeq DEF CallInv, Task
<1>2. Len(open) \in Nat /\ Len(found) \in Nat /\ DOMAIN found = 1..Len(found)
  BY LenProperties DEF DataInv
<1>3. Cardinality({i \in DOMAIN found : found[i]}) \in Nat
  <2> DEFINE F == {i \in DOMAIN found : found[i]}
  <2>1. F \in SUBSET (1..Len(found))
    BY <1>2
  <2>2. Cardinality(F) \in 0..Len(found)
    <3> HIDE DEF F
    <3> QED BY <1>2, <2>1, RankInjective
  <2>3. QED
    BY <1>2, <2>2
<1>4. QED
  BY <1>1, <1>2, <1>3 DEF Output, OutputRec, Task

LEMMA WriteRowsKeepsEnd ==
  ASSUME CallInv, EndInv, DataInv, WriteRows
  PROVE  EndInv'
<1>1. stage \in Working /\ EndTask("ok") /\ outputs' = Append(outputs, Output)
  BY DEF WriteRows, Working
<1>2. /\ mode # "none" /\ mode' # "none" /\ tasks' = tasks
      /\ Len(tasks) \in Nat /\ DOMAIN tasks = 1..Len(tasks) /\ at \in DOMAIN tasks
      /\ ended' \in [DOMAIN tasks' -> {"pending", "ok", "failed"}]
      /\ \A i \in DOMAIN tasks : ended'[i] = "pending" <=> i > at' \/ (i = at' /\ stage' # "returned")
      /\ Ok \in SUBSET (1..Len(tasks)) /\ \A i \in Ok : i < at
      /\ Ok' = Ok \cup {at}
  BY <1>1, TaskEndsOne
<1>3. Output \in OutputRec /\ Output.task = tasks[at]
  BY <1>2, OutputIsRecord
<1>4. /\ outputs \in Seq(OutputRec) /\ Len(outputs) = Cardinality(Ok)
      /\ \A i \in Ok : outputs[Rank(Ok, i)].task = tasks[i]
  BY <1>2 DEF EndInv
<1>5. /\ Cardinality(Ok') = Cardinality(Ok) + 1
      /\ Rank(Ok', at) = Cardinality(Ok) + 1
      /\ \A i \in Ok : Rank(Ok', i) = Rank(Ok, i)
  <2>1. /\ Cardinality(Ok \cup {at}) = Cardinality(Ok) + 1
        /\ Rank(Ok \cup {at}, at) = Cardinality(Ok) + 1
        /\ \A i \in Ok : Rank(Ok \cup {at}, i) = Rank(Ok, i)
    <3>1. /\ Len(tasks) \in Nat /\ at \in 1..Len(tasks)
          /\ Ok \in SUBSET (1..Len(tasks)) /\ \A i \in Ok : i < at
      BY <1>2
    <3>2. QED
      BY <3>1, RankAppends
  <2>2. QED
    BY <1>2, <2>1
<1>6. /\ outputs' \in Seq(OutputRec)
      /\ Len(outputs') = Len(outputs) + 1
      /\ \A k \in 1..Len(outputs) : outputs'[k] = outputs[k]
      /\ outputs'[Len(outputs) + 1] = Output
  BY <1>1, <1>3, <1>4, AppendProperties
<1>7. \A i \in Ok : Rank(Ok, i) \in 1..Len(outputs)
  BY <1>2, <1>4, RankInjective DEF Injection
<1>8. \A i \in Ok' : outputs'[Rank(Ok', i)].task = tasks[i]
  BY <1>2, <1>3, <1>4, <1>5, <1>6, <1>7
<1>9. QED
  BY <1>2, <1>4, <1>5, <1>6, <1>8 DEF EndInv

LEMMA StayKeepsEnd ==
  ASSUME EndInv, UNCHANGED <<callVars, report>>, stage' = "returned" <=> stage = "returned"
  PROVE  EndInv'
<1>1. Ok' = Ok
  BY DEF Ok, report
<1>2. QED
  BY <1>1 DEF EndInv, callVars, report

LEMMA PipeStepKeepsEnd ==
  ASSUME CallInv, DataInv, EndInv, PipeStep
  PROVE  EndInv'
<1>1. CASE Within
  BY <1>1, WithinStays, StayKeepsEnd DEF Working
<1>2. QED
  BY <1>1, FailingKeepsEnd, WriteRowsKeepsEnd, PipeStepKinds

\* A call begins with every task pending and no report.
LEMMA CallKeepsEnd ==
  ASSUME Call
  PROVE  EndInv'
<1>1. PICK m, ts, first, targets_ : Begins(m, ts, first, targets_)
  BY CallBegins
<1>2. Len(ts) \in Nat \ {0} /\ DOMAIN ts = 1..Len(ts)
  BY <1>1, EmptySeq, LenProperties DEF Begins
<1>3. /\ tasks' = ts /\ at' = 1 /\ stage' = first /\ first # "returned"
      /\ outputs' = <<>> /\ ended' = [i \in DOMAIN ts |-> "pending"]
  BY <1>1 DEF Begins, Begin
<1>4. Ok' = {}
  BY <1>3 DEF Ok
<1>5. Len(outputs') = Cardinality(Ok')
  BY <1>3, <1>4, FS_EmptySet
<1>6. QED
  BY <1>2, <1>3, <1>4, <1>5, EmptySeq DEF EndInv

LEMMA NextKeepsEnd == CallInv /\ DataInv /\ EndInv /\ [Next]_vars => EndInv'
<1> SUFFICES ASSUME CallInv, DataInv, EndInv, [Next]_vars PROVE EndInv'
  OBVIOUS
<1>1. CASE UNCHANGED pipeVars
  BY <1>1, StayKeepsEnd DEF pipeVars
<1>2. CASE Scan
  BY <1>2, CallKeepsEnd DEF Scan
<1>3. CASE ScanStep
  BY <1>3, PipeStepKeepsEnd DEF ScanStep
<1>4. CASE EarlierScans \/ ScanClears
  BY <1>4, CacheStays, StayKeepsEnd
<1>5. CASE ScanReturns \/ Crash
  BY <1>5 DEF ScanReturns, Crash, Leave, EndInv
<1>6. QED
  BY <1>1, <1>2, <1>3, <1>4, <1>5, NextKinds

\* run_batch_asn: in a batch of any length, with any tasks failing at any point
\* of theirs, every task is tried, and the reports are those of the tasks that
\* came through, in their order.
THEOREM BatchGoesOn == Spec => []FailuresStayLocal
<1>1. Init => EndInv
  BY DEF Init, PipeInit, EndInv
<1>2. CallInv /\ EndInv => FailuresStayLocal
  <2> SUFFICES ASSUME CallInv, EndInv, stage = "returned"
               PROVE  /\ \A i \in DOMAIN ended : ended[i] # "pending"
                      /\ Len(outputs) = Cardinality(Ok)
                      /\ \A i \in Ok : outputs[Rank(Ok, i)].task = tasks[i]
    BY DEF FailuresStayLocal, Ok, Rank
  <2>1. mode # "none" /\ at = Len(tasks) /\ DOMAIN tasks = 1..Len(tasks) /\ Len(tasks) \in Nat
    BY LenProperties DEF CallInv
  <2>2. \A i \in DOMAIN ended : ended[i] # "pending"
    BY <2>1 DEF EndInv
  <2>3. QED
    BY <2>1, <2>2 DEF EndInv
<1>3. QED
  BY <1>1, <1>2, NextKeepsEnd, ScanInvariant, PTL DEF Spec

-----------------------------------------------------------------------------
(* The files that the reports name.                                        *)

\* build_output_filename keeps port strings that masscan takes apart.
LEMMA PortsStayApart ==
  ASSUME NEW t \in AsnTask, NEW u \in AsnTask, FileName(t) = FileName(u)
  PROVE  t = u
<1>1. PICK k \in TaskLines : ValidLine(k) /\ t = ParseLine(k)
  BY DEF AsnTask
<1>2. PICK l \in TaskLines : ValidLine(l) /\ u = ParseLine(l)
  BY DEF AsnTask
<1>3. /\ k[2] \in Seq(STRING) /\ \A i \in DOMAIN k[2] : k[2][i] \notin {"/", "to"}
      /\ l[2] \in Seq(STRING) /\ \A i \in DOMAIN l[2] : l[2][i] \notin {"/", "to"}
  BY <1>1, <1>2, PortsAssumption DEF ValidLine
<1>4. SafePorts(k[2]) = SafePorts(l[2]) /\ t.label = u.label /\ t.tls = u.tls
  BY <1>1, <1>2 DEF FileName, ParseLine
<1>5. DOMAIN k[2] = DOMAIN l[2]
  BY <1>4 DEF SafePorts
<1>6. ASSUME NEW i \in DOMAIN k[2]
      PROVE  k[2][i] = l[2][i]
  <2>1. SafePorts(k[2])[i] = SafePorts(l[2])[i]
    BY <1>4
  <2>2. k[2][i] \notin {"/", "to"} /\ l[2][i] \notin {"/", "to"}
    BY <1>3, <1>5
  <2>3. QED
    BY <1>5, <2>1, <2>2 DEF SafePorts
<1>7. k[2] = l[2]
  BY <1>3, <1>5, <1>6, LenProperties
<1>8. QED
  BY <1>1, <1>2, <1>4, <1>7 DEF ParseLine

\* Different tasks of a call have different files.
LEMMA TasksHaveTheirFiles ==
  ASSUME CallInv, mode # "none",
         NEW i \in DOMAIN tasks, NEW j \in DOMAIN tasks, FileName(tasks[i]) = FileName(tasks[j])
  PROVE  tasks[i] = tasks[j]
<1>1. DOMAIN tasks = 1..Len(tasks)
  BY LenProperties DEF CallInv
<1>2. CASE Len(tasks) = 1
  BY <1>1, <1>2
<1>3. CASE Len(tasks) # 1
  <2>1. tasks \in Seq(AsnTask)
    BY <1>3 DEF CallInv
  <2>2. tasks[i] \in AsnTask /\ tasks[j] \in AsnTask
    BY <1>1, <2>1, ElementOfSeq
  <2>3. QED
    BY <2>2, PortsStayApart
<1>4. QED
  BY <1>2, <1>3

\* The file of a report is whole and has what the report counts.
Whole(o) ==
  LET f == csv[FileName(o.task)]
  IN  /\ FileName(o.task) \in DOMAIN csv
      /\ f.file = "rows"
      /\ Len(f.of) = o.detection_results_count
      /\ Len(f.of) = o.open_ports_count
      /\ Cardinality({i \in DOMAIN f.of : f.of[i].edge}) = o.cloudflare_edges_count

\* The file of a report is not of a task that reported again, that failed, or
\* that is writing it.
Lasting(k) ==
  /\ \A j \in (k + 1)..Len(outputs) : outputs[j].task # outputs[k].task
  /\ \A i \in DOMAIN tasks : ended[i] = "failed" => tasks[i] # outputs[k].task
  /\ stage = "rows" => Task # outputs[k].task

\* ReportsHaveTheirRows at any stage of the call.
ReportInv ==
  mode # "none" =>
    /\ stage = "rows" => FileName(Task) \in DOMAIN csv
    /\ \A k \in DOMAIN outputs :
         /\ \E i \in DOMAIN tasks : outputs[k].task = tasks[i]
         /\ Lasting(k) => Whole(outputs[k])

LEMMA StayKeepsReport ==
  ASSUME ReportInv, UNCHANGED <<csv, callVars, report>>, stage' = "rows" <=> stage = "rows"
  PROVE  ReportInv'
<1>1. Task' = Task
  BY DEF Task, callVars, report
<1>2. \A k : Lasting(k)' <=> Lasting(k)
  BY <1>1 DEF Lasting, callVars, report
<1>3. \A k : Whole(outputs[k])' <=> Whole(outputs[k])
  BY DEF Whole, report
<1>4. QED
  BY <1>1, <1>2, <1>3 DEF ReportInv, callVars, report

\* While another task's file is written, a report's file stays.
LEMMA OthersStayWhole ==
  ASSUME CallInv, ReportInv, mode # "none", NEW k \in DOMAIN outputs,
         Whole(outputs[k]), Task # outputs[k].task,
         DOMAIN csv \subseteq DOMAIN csv',
         \A n \in DOMAIN csv : n # FileName(Task) => csv'[n] = csv[n]
  PROVE  /\ FileName(outputs[k].task) \in DOMAIN csv'
         /\ csv'[FileName(outputs[k].task)] = csv[FileName(outputs[k].task)]
<1>1. PICK i \in DOMAIN tasks : outputs[k].task = tasks[i]
  BY DEF ReportInv
<1>2. at \in DOMAIN tasks
  BY DEF CallInv
<1>3. FileName(tasks[i]) # FileName(tasks[at])
  BY <1>1, <1>2, TasksHaveTheirFiles DEF Task
<1>4. QED
  BY <1>1, <1>3 DEF Whole, Task

LEMMA CreateCsvKeepsReport ==
  ASSUME CallInv, ReportInv, CreateCsv
  PROVE  ReportInv'
<1>1. /\ mode # "none" /\ UNCHANGED <<mode, tasks, outputs, ended, at>>
      /\ stage = "csv" /\ stage' = "rows"
  BY DEF CreateCsv, CallInv, callVars, report
<1>2. Task' = Task
  BY <1>1 DEF Task
<1>3. /\ DOMAIN csv' = DOMAIN csv \cup {FileName(Task)}
      /\ \A n \in DOMAIN csv : n # FileName(Task) => csv'[n] = csv[n]
  BY DEF CreateCsv
<1>4. ASSUME NEW k \in DOMAIN outputs, Lasting(k)'
      PROVE  Whole(outputs[k])'
  <2>1. Lasting(k) /\ Task # outputs[k].task
    BY <1>1, <1>2, <1>4 DEF Lasting
  <2>2. Whole(outputs[k])
    BY <1>1, <2>1 DEF ReportInv
  <2>3. /\ FileName(outputs[k].task) \in DOMAIN csv'
        /\ csv'[FileName(outputs[k].task)] = csv[FileName(outputs[k].task)]
    BY <1>1, <1>3, <2>1, <2>2, OthersStayWhole
  <2>4. QED
    BY <1>1, <2>2, <2>3 DEF Whole
<1>5. (FileName(Task) \in DOMAIN csv)'
  BY <1>2, <1>3
<1>6. QED
  BY <1>1, <1>4, <1>5 DEF ReportInv

LEMMA FailingKeepsReport ==
  ASSUME CallInv, EndInv, ReportInv, Failing
  PROVE  ReportInv'
<1>1. /\ mode # "none" /\ UNCHANGED <<mode, tasks, outputs, csv>>
      /\ ended' = [ended EXCEPT ![at] = "failed"]
      /\ stage' \in {"fetch", "returned"}
      /\ ended \in [DOMAIN tasks -> {"pending", "ok", "failed"}] /\ at \in DOMAIN tasks
  BY FailingEnds, TaskEnds DEF EndTask, callVars, CallInv, EndInv, Working
<1>2. ASSUME NEW k \in DOMAIN outputs, Lasting(k)'
      PROVE  Lasting(k)
  <2>1. \A i \in DOMAIN tasks : ended[i] = "failed" => ended'[i] = "failed"
    BY <1>1
  <2>2. ended'[at] = "failed"
    BY <1>1
  <2>3. QED
    BY <1>1, <1>2, <2>1, <2>2 DEF Lasting, Task
<1>3. \A k : Whole(outputs[k])' <=> Whole(outputs[k])
  BY <1>1 DEF Whole
<1>4. QED
  BY <1>1, <1>2, <1>3 DEF ReportInv

\* The report of a task counts the rows of its file.
LEMMA RowsAreCounted ==
  ASSUME DataInv, stage = "rows"
  PROVE  /\ Len(Rows) = Output.detection_results_count
         /\ Len(Rows) = Output.open_ports_count
         /\ Cardinality({i \in DOMAIN Rows : Rows[i].edge}) = Output.cloudflare_edges_count
<1>1. Len(found) = Len(open) /\ Len(found) \in Nat /\ DOMAIN found = 1..Len(found)
  BY LenProperties DEF DataInv
<1>2. DOMAIN Rows = 1..Len(found) /\ \A i \in 1..Len(found) : Rows[i].edge = found[i]
  BY <1>1 DEF Rows
<1>3. Rows \in Seq({Rows[i] : i \in 1..Len(found)})
  <2> DEFINE S == {Rows[i] : i \in 1..Len(found)}
  <2>1. Rows \in [1..Len(found) -> S]
    BY <1>1 DEF Rows
  <2>2. QED
    <3> HIDE DEF S
    <3> QED BY <1>1, <2>1, SeqDef
<1>4. Len(Rows) = Len(found)
  <2>1. DOMAIN Rows = 1..Len(Rows) /\ Len(Rows) \in Nat
    BY <1>3, LenProperties
  <2>2. QED
    BY <1>1, <1>2, <2>1
<1>5. {i \in DOMAIN Rows : Rows[i].edge} = {i \in DOMAIN found : found[i]}
  BY <1>1, <1>2
<1>6. QED
  BY <1>1, <1>4, <1>5 DEF Output

LEMMA WriteRowsKeepsReport ==
  ASSUME CallInv, DataInv, EndInv, ReportInv, WriteRows
  PROVE  ReportInv'
<1>1. /\ mode # "none" /\ UNCHANGED <<mode, tasks>>
      /\ ended' = [ended EXCEPT ![at] = "ok"]
      /\ stage = "rows" /\ stage' \in {"fetch", "returned"}
      /\ ended \in [DOMAIN tasks -> {"pending", "ok", "failed"}] /\ at \in DOMAIN tasks
      /\ ended[at] = "pending"
      /\ outputs \in Seq(OutputRec)
  BY TaskEnds DEF WriteRows, EndTask, callVars, CallInv, EndInv
<1>2. /\ FileName(Task) \in DOMAIN csv
      /\ csv' = [csv EXCEPT ![FileName(Task)] = [file |-> "rows", of |-> Rows]]
      /\ outputs' = Append(outputs, Output)
  BY <1>1 DEF WriteRows, ReportInv
<1>3. Output \in OutputRec /\ Output.task = Task
  BY <1>1, OutputIsRecord DEF Task
<1>4. /\ Len(outputs) \in Nat /\ DOMAIN outputs = 1..Len(outputs)
      /\ Len(outputs') = Len(outputs) + 1 /\ DOMAIN outputs' = 1..(Len(outputs) + 1)
      /\ \A k \in 1..Len(outputs) : outputs'[k] = outputs[k]
      /\ outputs'[Len(outputs) + 1] = Output
  BY <1>1, <1>2, <1>3, AppendProperties, LenProperties
<1>5. ASSUME NEW k \in DOMAIN outputs, Lasting(k)'
      PROVE  Whole(outputs[k])'
  <2>1. outputs'[Len(outputs) + 1].task # outputs[k].task
    BY <1>4, <1>5 DEF Lasting
  <2>2. Task # outputs[k].task
    BY <1>3, <1>4, <2>1
  <2>3. \A i \in DOMAIN tasks : ended[i] = "failed" => ended'[i] = "failed"
    BY <1>1
  <2>4. \A j \in (k + 1)..Len(outputs) : outputs[j].task # outputs[k].task
    BY <1>4, <1>5 DEF Lasting
  <2>5. Lasting(k)
    BY <1>1, <1>4, <1>5, <2>2, <2>3, <2>4 DEF Lasting
  <2>6. Whole(outputs[k])
    BY <1>1, <2>5 DEF ReportInv
  <2>7. /\ FileName(outputs[k].task) \in DOMAIN csv'
        /\ csv'[FileName(outputs[k].task)] = csv[FileName(outputs[k].task)]
    BY <1>1, <1>2, <2>2, <2>6, OthersStayWhole
  <2>8. QED
    BY <1>4, <2>6, <2>7 DEF Whole
<1>6. ASSUME NEW o, o = Output
      PROVE  Whole(o)'
  <2>1. csv'[FileName(Task)] = [file |-> "rows", of |-> Rows] /\ FileName(Task) \in DOMAIN csv'
    BY <1>2
  <2>2. QED
    <3> DEFINE f == csv'[FileName(o.task)]
    <3>1. FileName(o.task) \in DOMAIN csv' /\ f.file = "rows" /\ f.of = Rows
      BY <1>3, <1>6, <2>1
    <3>2. /\ Len(f.of) = o.detection_results_count
          /\ Len(f.of) = o.open_ports_count
          /\ Cardinality({i \in DOMAIN f.of : f.of[i].edge}) = o.cloudflare_edges_count
      BY <1>1, <1>6, <3>1, RowsAreCounted
    <3>3. QED
      BY <3>1, <3>2 DEF Whole
<1>7. \A k \in DOMAIN outputs' : \E i \in DOMAIN tasks : outputs'[k].task = tasks[i]
  BY <1>1, <1>3, <1>4 DEF ReportInv, Task
<1>8. ASSUME NEW k \in DOMAIN outputs', Lasting(k)'
      PROVE  Whole(outputs[k])'
  <2>1. CASE k \in DOMAIN outputs
    BY <1>5, <1>8, <2>1
  <2>2. CASE k = Len(outputs) + 1
    <3>1. outputs'[k] = Output
      BY <1>4, <2>2
    <3>2. QED
      BY <1>6, <3>1 DEF Whole
  <2>3. QED
    BY <1>4, <2>1, <2>2
<1>9. QED
  BY <1>1, <1>7, <1>8 DEF ReportInv

LEMMA NextKeepsReport == CallInv /\ DataInv /\ EndInv /\ ReportInv /\ [Next]_vars => ReportInv'
<1> SUFFICES ASSUME CallInv, DataInv, EndInv, ReportInv, [Next]_vars PROVE ReportInv'
  OBVIOUS
<1>1. CASE UNCHANGED pipeVars
  BY <1>1, StayKeepsReport DEF pipeVars, disk
<1>2. CASE Scan
  <2>1. stage' # "rows" /\ outputs' = <<>>
    BY <1>2, CallBegins DEF Scan, Begins, Begin
  <2>2. DOMAIN outputs' = {}
    BY <2>1
  <2>3. QED
    BY <2>1, <2>2 DEF ReportInv
<1>3. CASE ScanStep
  <2>1. CASE Within /\ ~CreateCsv
    <3>1. UNCHANGED csv /\ stage # "rows" /\ stage' # "rows"
      BY <2>1 DEF Within, disk, FetchCached, FetchPage, CreateCidrFile, StoreCidrs, ScanNothing, WriteList,
                  KeepOutput, MasscanEnds, ParseOutput, RunDetection, RunSpeedtest
    <3>2. QED
      BY <2>1, <3>1, WithinStays, StayKeepsReport
  <2>2. QED
    BY <1>3, <2>1, CreateCsvKeepsReport, FailingKeepsReport, WriteRowsKeepsReport, PipeStepKinds DEF ScanStep, Within
<1>4. CASE EarlierScans \/ ScanClears
  BY <1>4, CacheStays, StayKeepsReport
<1>5. CASE ScanReturns \/ Crash
  BY <1>5 DEF ScanReturns, Crash, Leave, ReportInv
<1>6. QED
  BY <1>1, <1>2, <1>3, <1>4, <1>5, NextKinds

\* write_csv_output and PipelineOutput: over any batch, with tasks that come
\* again and tasks that fail in between, the file a report names holds the rows
\* the report counts, for as long as no run of the same task has torn it since.
THEOREM ReportsNameWholeFiles == Spec => []ReportsHaveTheirRows
<1>1. Init => EndInv /\ ReportInv
  BY DEF Init, PipeInit, EndInv, ReportInv
<1>2. CallInv /\ ReportInv => ReportsHaveTheirRows
  <2>1. stage = "returned" /\ CallInv => mode # "none"
    BY DEF CallInv
  <2>2. QED
    BY <2>1 DEF ReportInv, ReportsHaveTheirRows, Lasting, Whole
<1>3. QED
  BY <1>1, <1>2, NextKeepsEnd, NextKeepsReport, ScanInvariant, PTL DEF Spec

-----------------------------------------------------------------------------
(* Targets, probes, speed tests and records.                               *)

TestStates == {"none", "waiting", "busy", "ok", "failed", "skipped"}

\* What a command has in its hands, and what it may have by its phase.
HandInv ==
  /\ targets \in Seq(Addresses) /\ Len(targets) <= 3 * MaxItems
  /\ answer \in [Slot -> Batch!Answer] /\ test \in [Slot -> TestStates]
  /\ running \subseteq Ids /\ edges \subseteq Ids
  /\ phase \in {"idle", "config", "merged", "chosen"} =>
       targets = <<>> /\ running = {} /\ edges = {} /\ test = NoTests
  /\ phase \in {"oneshot", "starting", "detecting"} => test = NoTests
  /\ phase \in {"starting", "detecting"} => cmd = "detect"
  /\ phase = "oneshot" => cmd = "fast" /\ Len(targets) = 1 /\ answer = AllAnswered
  /\ Cardinality(Busy) <= Slots

\* Only a probe that was answered makes an edge, and a batch tests edges only.
EdgeInv ==
  /\ \A i \in running : answer[i] = "none"
  /\ \A i \in edges : answer[i] = "ok"
  /\ cmd \notin {"detect", "fast"} => edges = {}
  /\ cmd = "detect" => \A i \in Slot : test[i] # "none" => i \in edges
  /\ phase = "emitted" => out.of = [i \in Ids |-> Record(i)]

RecordInv == HandInv /\ EdgeInv

LEMMA IdsAreSlots ==
  ASSUME HandInv
  PROVE  Len(targets) \in Nat /\ Ids = 1..Len(targets) /\ Ids \subseteq Slot
<1>1. Len(targets) \in Nat /\ Ids = 1..Len(targets) /\ Len(targets) <= 3 * MaxItems
  BY LenProperties DEF HandInv, Ids
<1>2. QED
  BY <1>1, BoundsAssumption DEF Slot

LEMMA NoTestsRun ==
  /\ NoTests \in [Slot -> TestStates]
  /\ AllAnswered \in [Slot -> Batch!Answer]
  /\ \A i \in Slot : NoTests[i] = "none"
  BY DEF NoTests, AllAnswered, TestStates, Batch!Answer

LEMMA NoneBusy ==
  ASSUME \A i \in Slot : test'[i] # "busy"
  PROVE  Cardinality(Busy') <= Slots
<1>1. Busy' = {}
  BY DEF Busy
<1>2. QED
  BY <1>1, FS_EmptySet, BoundsAssumption

\* The end of a process leaves nothing.
LEMMA EndKeepsRecord ==
  ASSUME NEW how, End(how)
  PROVE  RecordInv'
<1>1. /\ cmd' = "none" /\ phase' = "idle" /\ targets' = <<>> /\ running' = {} /\ edges' = {}
      /\ answer' = AllAnswered /\ test' = NoTests
  BY DEF End
<1>2. Cardinality(Busy') <= Slots
  BY <1>1, NoTestsRun, NoneBusy
<1>3. targets' \in Seq(Addresses) /\ Len(targets') <= 3 * MaxItems
  BY <1>1, EmptySeq, BoundsAssumption
<1>4. HandInv'
  BY <1>1, <1>2, <1>3, NoTestsRun DEF HandInv
<1>5. EdgeInv'
  BY <1>1, NoTestsRun DEF EdgeInv
<1>6. QED
  BY <1>4, <1>5 DEF RecordInv

\* Steps that come before the targets, or that only move the phase on.
LEMMA MovingKeepsRecord ==
  ASSUME RecordInv, UNCHANGED <<targets, running, answer, edges, test>>,
         \/ cmd' = cmd
         \/ phase \in {"idle", "merged"} /\ phase' \in {"config", "merged", "chosen"},
         \/ phase' = phase /\ (UNCHANGED out \/ phase # "emitted")
         \/ phase' \notin {"idle", "config", "merged", "chosen", "oneshot", "starting", "detecting", "emitted"}
         \/ phase' = "detecting" /\ phase = "starting"
         \/ phase' \in {"config", "merged", "chosen"} /\ phase \in {"idle", "merged"}
  PROVE  RecordInv'
<1>1. Busy' = Busy
  BY DEF Busy
<1>2. Ids' = Ids
  BY DEF Ids
<1>3. HandInv'
  BY <1>1, <1>2 DEF RecordInv, HandInv
<1>4. phase' = "emitted" => phase = "emitted" /\ UNCHANGED <<out, cmd>>
  OBVIOUS
<1>5. EdgeInv'
  <2>1. CASE cmd' = cmd
    <3>1. \A i : Record(i)' = Record(i)
      BY <2>1, <1>2 DEF Record, HasSpeed
    <3>2. QED
      BY <2>1, <1>2, <1>4, <3>1 DEF RecordInv, EdgeInv
  <2>2. CASE phase \in {"idle", "merged"} /\ phase' \in {"config", "merged", "chosen"}
    BY <2>2, NoTestsRun DEF RecordInv, EdgeInv, HandInv
  <2>3. QED
    BY <2>1, <2>2
<1>6. QED
  BY <1>3, <1>5 DEF RecordInv

\* What a source of targets gives when nothing in it is an error.
LEMMA ParsedAreAddresses ==
  ASSUME NEW kind, NEW n \in 0..MaxItems, NEW xs \in [1..n -> Items],
         \A x \in Range(xs) : ~Unreadable(kind, x)
  PROVE  Parsed(kind, xs) \in Seq(Addresses) /\ Len(Parsed(kind, xs)) \in 0..MaxItems
<1> DEFINE I == {i \in DOMAIN xs : ~Skipped(kind, xs[i])}
           ys == Picked(xs, I)
<1>1. n \in Nat /\ xs \in Seq(Items) /\ Len(xs) = n
  <2>1. n \in Nat
    BY BoundsAssumption
  <2>2. xs \in Seq(Items)
    BY <2>1, SeqDef
  <2>3. QED
    BY <2>1, <2>2, LenProperties
<1>2. /\ ys \in Seq(Items) /\ Len(ys) \in 0..Len(xs)
      /\ \A k \in DOMAIN ys : \E i \in I : ys[k] = xs[i]
  <2>1. I \in SUBSET DOMAIN xs
    OBVIOUS
  <2>2. QED
    <3> HIDE DEF I
    <3> QED BY <1>1, <2>1, PickedProperties
<1>3. \A i \in I : xs[i] \in Addresses
  BY DEF Unreadable, Range
<1>4. ys \in [1..Len(ys) -> Addresses] /\ Len(ys) \in Nat
  BY <1>1, <1>2, <1>3, LenProperties
<1>5. ys \in Seq(Addresses)
  <2> HIDE DEF ys
  <2> QED BY <1>4, SeqDef
<1>6. QED
  BY <1>1, <1>2, <1>5, BoundsAssumption DEF Parsed

LEMMA CollectedAreAddresses ==
  ASSUME CollectTargets
  PROVE  targets' \in Seq(Addresses) /\ Len(targets') <= 3 * MaxItems
<1>1. PICK args \in Lists, env \in Lists, file \in InputFiles :
        /\ \A x \in Range(args) \cup Range(env) : ~Unreadable("txt", x)
        /\ \A x \in Range(file.of) : ~Unreadable(file.kind, x)
        /\ targets' = Parsed("txt", args) \o Parsed("txt", env) \o Parsed(file.kind, file.of)
  BY DEF CollectTargets
<1>2. ASSUME NEW xs \in Lists
      PROVE  \E n \in 0..MaxItems : xs \in [1..n -> Items]
  BY DEF Lists
<1>3. \E n \in 0..MaxItems : file.of \in [1..n -> Items]
  BY DEF InputFiles
<1>4. /\ Parsed("txt", args) \in Seq(Addresses) /\ Len(Parsed("txt", args)) \in 0..MaxItems
      /\ Parsed("txt", env) \in Seq(Addresses) /\ Len(Parsed("txt", env)) \in 0..MaxItems
      /\ Parsed(file.kind, file.of) \in Seq(Addresses) /\ Len(Parsed(file.kind, file.of)) \in 0..MaxItems
  BY <1>1, <1>2, <1>3, ParsedAreAddresses
<1>5. ASSUME NEW s \in Seq(Addresses), NEW t \in Seq(Addresses), NEW u \in Seq(Addresses),
             Len(s) \in 0..MaxItems, Len(t) \in 0..MaxItems, Len(u) \in 0..MaxItems
      PROVE  s \o t \o u \in Seq(Addresses) /\ Len(s \o t \o u) <= 3 * MaxItems
  <2>1. s \o t \in Seq(Addresses) /\ Len(s \o t) = Len(s) + Len(t)
    BY ConcatProperties
  <2>2. s \o t \o u \in Seq(Addresses) /\ Len(s \o t \o u) = Len(s) + Len(t) + Len(u)
    BY <2>1, ConcatProperties
  <2>3. QED
    BY <1>5, <2>2, BoundsAssumption
<1>6. QED
  BY <1>1, <1>4, <1>5

LEMMA CollectKeepsRecord ==
  ASSUME RecordInv, Collect
  PROVE  RecordInv'
<1>1. /\ phase = "chosen" /\ cmd \in {"detect", "fast", "speedtest"} /\ cmd' = cmd
      /\ running' = {} /\ edges' = {}
      /\ answer' = [i \in Slot |-> IF cmd = "detect" /\ i <= Len(targets') THEN "none" ELSE "ok"]
      /\ test' = [i \in Slot |-> IF cmd = "speedtest" /\ i <= Len(targets') THEN "waiting" ELSE "none"]
      /\ phase' = CASE cmd = "detect" -> "starting" [] cmd = "fast" -> "oneshot" [] OTHER -> "connecting"
      /\ cmd = "fast" => Len(targets') = 1
  BY DEF Collect, Enough, RecordInv, HandInv
<1>2. targets' \in Seq(Addresses) /\ Len(targets') <= 3 * MaxItems
  BY CollectedAreAddresses DEF Collect
<1>3. Cardinality(Busy') <= Slots
  BY <1>1, NoneBusy
<1>4. HandInv'
  <2>1. answer' \in [Slot -> Batch!Answer] /\ test' \in [Slot -> TestStates]
    BY <1>1 DEF TestStates, Batch!Answer
  <2>2. cmd # "speedtest" => test' = NoTests
    BY <1>1 DEF NoTests
  <2>3. cmd # "detect" => answer' = AllAnswered
    BY <1>1 DEF AllAnswered
  <2>4. QED
    BY <1>1, <1>2, <1>3, <2>1, <2>2, <2>3 DEF HandInv
<1>5. EdgeInv'
  BY <1>1 DEF EdgeInv
<1>6. QED
  BY <1>4, <1>5 DEF RecordInv

LEMMA BatchStepKeepsRecord ==
  ASSUME RecordInv, BatchStep
  PROVE  RecordInv'
<1>1. UNCHANGED <<targets, cmd, phase, test>> /\ phase = "detecting" /\ test = NoTests /\ cmd = "detect"
  BY DEF BatchStep, choice, RecordInv, HandInv
<1>2. Ids' = Ids /\ Busy' = Busy /\ Ids \subseteq Slot
  BY <1>1, IdsAreSlots DEF Ids, Busy, RecordInv
<1>3. PICK i \in Ids :
        \/ Batch!StartProbe(i) /\ UNCHANGED edges
        \/ Batch!SkipProbe(i) /\ UNCHANGED edges
        \/ (\E a \in {"err", "cancelled"} : Batch!EndProbe(i, a)) /\ UNCHANGED edges
        \/ Batch!EndProbe(i, "ok") /\ edges' \in {edges, edges \cup {i}}
  BY DEF BatchStep
<1>4. answer \in [Slot -> Batch!Answer] /\ i \in Slot /\ running \subseteq Ids /\ edges \subseteq Ids
  BY <1>2 DEF RecordInv, HandInv
<1>5. /\ \A j \in running : answer[j] = "none"
      /\ \A j \in edges : answer[j] = "ok"
  BY DEF RecordInv, EdgeInv
<1>6. CASE Batch!StartProbe(i) /\ UNCHANGED edges
  <2>1. running' = running \cup {i} /\ answer' = answer /\ answer[i] = "none"
    BY <1>6 DEF Batch!StartProbe
  <2>2. QED
    BY <1>1, <1>2, <1>4, <1>5, <1>6, <2>1, NoTestsRun DEF RecordInv, HandInv, EdgeInv
<1>7. CASE Batch!SkipProbe(i) /\ UNCHANGED edges
  <2>1. running' = running /\ i \notin running /\ answer[i] = "none" /\ answer' = [answer EXCEPT ![i] = "cancelled"]
    BY <1>7 DEF Batch!SkipProbe
  <2>2. answer' \in [Slot -> Batch!Answer] /\ i \notin edges
    BY <1>4, <1>5, <2>1 DEF Batch!Answer
  <2>3. QED
    BY <1>1, <1>2, <1>4, <1>5, <1>7, <2>1, <2>2, NoTestsRun DEF RecordInv, HandInv, EdgeInv
<1>8. ASSUME NEW a \in {"ok", "err", "cancelled"}, Batch!EndProbe(i, a),
             edges' = edges \/ (a = "ok" /\ edges' = edges \cup {i})
      PROVE  RecordInv'
  <2>1. running' = running \ {i} /\ i \in running /\ answer' = [answer EXCEPT ![i] = a]
    BY <1>8 DEF Batch!EndProbe
  <2>2. answer' \in [Slot -> Batch!Answer] /\ i \notin edges
    BY <1>4, <1>5, <2>1 DEF Batch!Answer
  <2>3. QED
    BY <1>1, <1>2, <1>4, <1>5, <1>8, <2>1, <2>2, NoTestsRun DEF RecordInv, HandInv, EdgeInv
<1>9. QED
  BY <1>3, <1>6, <1>7, <1>8

\* The speed tests that follow a detection are those of its targets.
LEMMA DetectionKeepsRecord ==
  ASSUME RecordInv, BatchReturns \/ Oneshot
  PROVE  RecordInv'
<1>1. /\ UNCHANGED <<targets, cmd, running, answer>>
      /\ phase' \in {"connecting", "emitting"}
      /\ \/ cmd = "detect" /\ edges' = edges /\ test' = TestsOf(edges)
         \/ cmd = "fast" /\ Len(targets) = 1 /\ answer = AllAnswered /\ edges' \in {{}, {1}} /\ test' = TestsOf({1})
  BY DEF BatchReturns, Oneshot, AfterDetection, Batch!Return, batch, choice, RecordInv, HandInv
<1>2. /\ Ids' = Ids /\ Ids = 1..Len(targets) /\ Ids \subseteq Slot /\ Len(targets) \in Nat
      /\ edges \subseteq Ids
  BY <1>1, IdsAreSlots DEF Ids, RecordInv, HandInv
<1>3. edges' \subseteq Ids /\ \A i \in edges' : answer'[i] = "ok"
  <2>1. CASE cmd = "detect" /\ edges' = edges
    BY <1>1, <1>2, <2>1 DEF RecordInv, EdgeInv
  <2>2. CASE Len(targets) = 1 /\ answer = AllAnswered /\ edges' \in {{}, {1}}
    BY <1>1, <1>2, <2>2 DEF AllAnswered
  <2>3. QED
    BY <1>1, <2>1, <2>2
<1>4. \A is : TestsOf(is) \in [Slot -> TestStates] /\ \A i \in Slot : TestsOf(is)[i] \in {"none", "waiting"}
  BY DEF TestsOf, TestStates
<1>5. Cardinality(Busy') <= Slots
  BY <1>1, <1>4, NoneBusy
<1>6. HandInv'
  BY <1>1, <1>2, <1>3, <1>4, <1>5 DEF RecordInv, HandInv
<1>7. EdgeInv'
  <2>1. cmd = "detect" => \A i \in Slot : test'[i] # "none" => i \in edges'
    BY <1>1 DEF TestsOf
  <2>2. QED
    BY <1>1, <1>3, <2>1 DEF RecordInv, EdgeInv
<1>8. QED
  BY <1>6, <1>7 DEF RecordInv

LEMMA TestKeepsRecord ==
  ASSUME RecordInv, NEW i \in Slot, StartTest(i) \/ EndTest(i)
  PROVE  RecordInv'
<1>1. /\ UNCHANGED <<targets, cmd, running, answer, edges, phase>> /\ phase = "testing"
      /\ test[i] # "none"
      /\ \E how \in TestStates : test' = [test EXCEPT ![i] = how]
  BY DEF StartTest, EndTest, Waiting, Busy, batch, choice, TestStates
<1>2. Ids' = Ids
  BY <1>1 DEF Ids
<1>3. Cardinality(Busy') <= Slots
  <2>1. test \in [Slot -> TestStates] /\ Cardinality(Busy) <= Slots
    BY DEF RecordInv, HandInv
  <2>2. IsFiniteSet(Slot) /\ IsFiniteSet(Busy) /\ Cardinality(Busy) \in Nat
    <3>1. IsFiniteSet(Slot)
      BY BoundsAssumption, FS_Interval DEF Slot
    <3>2. QED
      BY <3>1, FS_Subset, FS_CardinalityType, Busy \in SUBSET Slot DEF Busy
  <2>3. CASE Busy' \subseteq Busy
    <3>1. Cardinality(Busy') <= Cardinality(Busy) /\ Cardinality(Busy') \in Nat
      BY <2>2, <2>3, FS_Subset, FS_CardinalityType
    <3>2. QED
      BY <2>1, <2>2, <3>1, BoundsAssumption
  <2>4. CASE StartTest(i) /\ ~Stopped
    <3>1. Busy' = Busy \cup {i} /\ Cardinality(Busy) < Slots /\ i \notin Busy
      BY <1>1, <2>1, <2>4 DEF StartTest, Waiting, Busy, FreePlace
    <3>2. Cardinality(Busy') = Cardinality(Busy) + 1
      BY <2>2, <3>1, FS_AddElement
    <3>3. QED
      BY <2>2, <3>1, <3>2, BoundsAssumption
  <2>5. (StartTest(i) /\ Stopped) \/ EndTest(i) => Busy' \subseteq Busy
    BY <2>1 DEF StartTest, EndTest, Busy
  <2>6. QED
    BY <2>3, <2>4, <2>5
<1>4. HandInv'
  BY <1>1, <1>2, <1>3 DEF RecordInv, HandInv
<1>5. EdgeInv'
  BY <1>1 DEF RecordInv, EdgeInv, HandInv
<1>6. QED
  BY <1>4, <1>5 DEF RecordInv

LEMMA WriteOutputKeepsRecord ==
  ASSUME RecordInv, WriteOutput
  PROVE  RecordInv'
<1>1. /\ UNCHANGED <<targets, cmd, running, answer, edges, test>>
      /\ phase' = "emitted" /\ out'.of = [i \in Ids |-> Record(i)]
  BY DEF WriteOutput, batch, choice
<1>2. Ids' = Ids /\ Busy' = Busy
  BY <1>1 DEF Ids, Busy
<1>3. \A i : Record(i)' = Record(i)
  BY <1>1, <1>2 DEF Record, HasSpeed
<1>4. HandInv'
  BY <1>1, <1>2 DEF RecordInv, HandInv
<1>5. EdgeInv'
  BY <1>1, <1>2, <1>3 DEF RecordInv, EdgeInv
<1>6. QED
  BY <1>4, <1>5 DEF RecordInv

LEMMA NextKeepsRecord == RecordInv /\ [Next]_vars => RecordInv'
<1> SUFFICES ASSUME RecordInv, [Next]_vars PROVE RecordInv'
  OBVIOUS
<1>1. CASE \/ (\E force \in BOOLEAN : InitConfig(force)) \/ (\E c \in Commands, k \in Keys : Merge(c, k))
           \/ Choose
  BY <1>1, MovingKeepsRecord DEF InitConfig, Merge, Choose, NewProcess, batch
<1>2. CASE WriteConfig \/ PrintOnly \/ Fails \/ Exit \/ ScanClears \/ ScanReturns \/ Crash
  BY <1>2, EndKeepsRecord DEF WriteConfig, PrintOnly, Fails, Exit, ScanClears, ScanReturns, Crash
<1>3. CASE \/ Listen \/ StartBatch \/ Connect \/ TestsEnd \/ CreateOutput \/ Signal
           \/ Scan \/ ScanStep \/ EarlierScans \/ UNCHANGED vars
  BY <1>3, MovingKeepsRecord
     DEF Listen, StartBatch, Connect, TestsEnd, AfterTests, CreateOutput, Signal, Scan, ScanStep, EarlierScans,
         vars, batch, choice, files
<1>4. CASE Collect
  BY <1>4, CollectKeepsRecord
<1>5. CASE BatchStep
  BY <1>5, BatchStepKeepsRecord
<1>6. CASE BatchReturns \/ Oneshot
  BY <1>6, DetectionKeepsRecord
<1>7. CASE \E i \in Slot : StartTest(i) \/ EndTest(i)
  BY <1>7, TestKeepsRecord
<1>8. CASE WriteOutput
  BY <1>8, WriteOutputKeepsRecord
<1>9. QED
  BY <1>1, <1>2, <1>3, <1>4, <1>5, <1>6, <1>7, <1>8 DEF Next, ProcessStep

LEMMA InitRecord == Init => RecordInv
<1> SUFFICES ASSUME Init PROVE RecordInv
  OBVIOUS
<1>1. /\ cmd = "none" /\ phase = "idle" /\ targets = <<>> /\ running = {} /\ edges = {}
      /\ answer = AllAnswered /\ test = NoTests
  BY DEF Init
<1>2. Busy = {}
  BY <1>1, NoTestsRun DEF Busy
<1>3. Cardinality(Busy) <= Slots
  BY <1>2, FS_EmptySet, BoundsAssumption
<1>4. targets \in Seq(Addresses) /\ Len(targets) <= 3 * MaxItems
  BY <1>1, EmptySeq, BoundsAssumption
<1>5. QED
  BY <1>1, <1>3, <1>4, NoTestsRun DEF RecordInv, HandInv, EdgeInv

\* emit_records: whatever was cancelled, skipped, failed or repeated, the output
\* has the record of every target in its place, and a record says of its target
\* only what a probe or a test of its address found.
THEOREM RecordsAlwaysTellTheRun == Spec => []RecordsTellTheRun
<1>1. RecordInv => RecordsTellTheRun
  <2> SUFFICES ASSUME RecordInv, phase = "emitted"
               PROVE  /\ DOMAIN out.of = Ids
                      /\ \A i \in Ids : LET r == out.of[i] IN
                           /\ r.target = targets[i]
                           /\ r.edge => answer[i] = "ok"
                           /\ r.error => ~r.edge
                           /\ r.speed => \E j \in Ids : /\ targets[j] = r.target
                                                        /\ test[j] = "ok"
                                                        /\ cmd = "detect" => out.of[j].edge
    BY DEF RecordsTellTheRun
  <2>1. out.of = [i \in Ids |-> Record(i)] /\ Ids \subseteq Slot
    BY IdsAreSlots DEF RecordInv, EdgeInv
  <2>2. ASSUME NEW i \in Ids
        PROVE  /\ Record(i).edge => answer[i] = "ok"
               /\ Record(i).error => ~Record(i).edge
    BY <2>2 DEF Record, RecordInv, EdgeInv
  <2>3. ASSUME NEW i \in Ids, Record(i).speed
        PROVE  \E j \in Ids : targets[j] = targets[i] /\ test[j] = "ok" /\ (cmd = "detect" => Record(j).edge)
    <3>1. PICK j \in Ids : targets[j] = targets[i] /\ test[j] = "ok"
      BY <2>3 DEF Record, HasSpeed
    <3>2. cmd = "detect" => j \in edges
      BY <2>1, <3>1 DEF RecordInv, EdgeInv
    <3>3. QED
      BY <3>1, <3>2 DEF Record
  <2>4. QED
    BY <2>1, <2>2, <2>3 DEF Record
<1>2. QED
  BY <1>1, InitRecord, NextKeepsRecord, PTL DEF Spec

-----------------------------------------------------------------------------
(* Types.                                                                  *)

\* What no invariant above says of the scan, and that between calls nothing is
\* left of the last one.
PipeRest ==
  /\ withSpeed \in BOOLEAN
  /\ stage \in Working \cup {"idle", "returned"}
  /\ mode = "none" => tasks = <<>> /\ at = 1 /\ outputs = <<>> /\ ended = <<>>

LEMMA PipeStepKeepsRest ==
  ASSUME PipeRest, CallInv, PipeStep
  PROVE  PipeRest'
<1>1. CASE Within
  BY <1>1, WithinStays DEF PipeRest, callVars, report
<1>2. CASE \E r : EndTask(r) /\ mode # "none"
  BY <1>2, TaskEnds DEF PipeRest, Working, EndTask, callVars
<1>3. stage # "idle" => mode # "none"
  BY DEF CallInv
<1>4. QED
  BY <1>1, <1>2, <1>3, PipeStepKinds, FailingEnds DEF WriteRows, Working

LEMMA NextKeepsPipeRest == PipeRest /\ CallInv /\ [Next]_vars => PipeRest'
<1> SUFFICES ASSUME PipeRest, CallInv, [Next]_vars PROVE PipeRest'
  OBVIOUS
<1>1. CASE UNCHANGED pipeVars
  BY <1>1 DEF pipeVars, callVars, report, PipeRest
<1>2. CASE Scan
  <2>1. PICK m, ts, first, targets_ : Begins(m, ts, first, targets_)
    BY <1>2, CallBegins DEF Scan
  <2>2. QED
    BY <2>1 DEF Begins, Begin, PipeRest, Working
<1>3. CASE ScanStep
  BY <1>3, PipeStepKeepsRest DEF ScanStep
<1>4. CASE EarlierScans \/ ScanClears
  BY <1>4, CacheStays DEF callVars, report, PipeRest
<1>5. CASE ScanReturns \/ Crash
  BY <1>5 DEF ScanReturns, Crash, Leave, PipeRest
<1>6. QED
  BY <1>1, <1>2, <1>3, <1>4, <1>5, NextKinds

\* What no invariant above says of the command.
CommandRest ==
  /\ conf \in {"none", "torn", "user", "generated"}
  /\ out \in {Absent, Torn} \/ out.file = "rows"
  /\ sig \in {"default", "watched", "swallowed"} /\ token \in BOOLEAN /\ speed \in BOOLEAN

LEMMA NextKeepsCommandRest == CommandRest /\ [Next]_vars => CommandRest'
<1> SUFFICES ASSUME CommandRest, [Next]_vars PROVE CommandRest'
  OBVIOUS
<1>1. CASE \E force \in BOOLEAN : InitConfig(force)
  BY <1>1 DEF InitConfig, batch, CommandRest
<1>2. CASE \E c \in Commands, k \in Keys : Merge(c, k)
  BY <1>2 DEF Merge, batch, files, CommandRest
<1>3. CASE WriteConfig \/ PrintOnly \/ Fails \/ Exit \/ ScanClears \/ ScanReturns \/ Crash
  BY <1>3 DEF WriteConfig, PrintOnly, Fails, Exit, ScanClears, ScanReturns, Crash, End, files, CommandRest
<1>4. CASE Choose
  <2>1. speed' \in BOOLEAN
    BY <1>4 DEF Choose, Switched
  <2>2. QED
    BY <1>4, <2>1 DEF Choose, batch, files, CommandRest
<1>5. CASE Collect \/ Listen \/ Signal \/ StartBatch \/ Connect
  BY <1>5 DEF Collect, Listen, Signal, StartBatch, Connect, batch, files, choice, CommandRest
<1>6. CASE BatchStep \/ BatchReturns \/ Oneshot \/ TestsEnd
  BY <1>6 DEF BatchStep, BatchReturns, Oneshot, TestsEnd, AfterAbort, Batch!StartProbe, Batch!SkipProbe,
              Batch!EndProbe, Batch!Return, batch, files, choice, CommandRest
<1>7. CASE \E i \in Slot : StartTest(i) \/ EndTest(i)
  BY <1>7 DEF StartTest, EndTest, batch, files, choice, CommandRest
<1>8. CASE CreateOutput \/ WriteOutput
  BY <1>8 DEF CreateOutput, WriteOutput, batch, choice, CommandRest
<1>9. CASE Scan \/ ScanStep \/ EarlierScans \/ UNCHANGED vars
  BY <1>9 DEF Scan, ScanStep, EarlierScans, vars, batch, choice, files, CommandRest
<1>10. QED
  BY <1>1, <1>2, <1>3, <1>4, <1>5, <1>6, <1>7, <1>8, <1>9 DEF Next, ProcessStep

LEMMA InitRest == Init => PipeRest /\ CommandRest
  BY DEF Init, PipeInit, PipeRest, CommandRest

\* The types of the disk, the scan and the command, with at most one speed test
\* per place.
THEOREM TypeCorrect == Spec => []TypeOK
<1>1. CallInv /\ EndInv /\ PipeRest => Len(outputs) <= Len(tasks) /\ DOMAIN ended = DOMAIN tasks /\ at \in 1..(Len(tasks) + 1)
  <2> SUFFICES ASSUME CallInv, EndInv, PipeRest
               PROVE  Len(outputs) <= Len(tasks) /\ DOMAIN ended = DOMAIN tasks /\ at \in 1..(Len(tasks) + 1)
    OBVIOUS
  <2>1. CASE mode = "none"
    BY <2>1 DEF PipeRest
  <2>2. CASE mode # "none"
    <3>1. Len(tasks) \in Nat /\ DOMAIN tasks = 1..Len(tasks) /\ DOMAIN ended = DOMAIN tasks
      BY <2>2, LenProperties DEF CallInv, EndInv
    <3>2. Ok \in SUBSET (1..Len(tasks))
      BY <3>1 DEF Ok
    <3>3. Cardinality(Ok) \in 0..Len(tasks)
      BY <3>1, <3>2, RankInjective
    <3>4. QED
      BY <2>2, <3>1, <3>3 DEF CallInv, EndInv
  <2>3. QED
    BY <2>1, <2>2
<1>2. CallInv /\ ScanInv /\ DataInv /\ EndInv /\ PipeRest /\ TempInv => PipeTypeOK
  BY <1>1 DEF CallInv, ScanInv, DataInv, PipeRest, TempInv, PipeTypeOK, Working
<1>3. RecordInv /\ CommandRest /\ PipeTypeOK => TypeOK
  BY DEF RecordInv, HandInv, CommandRest, TypeOK, TestStates
<1>4. Init => EndInv
  BY DEF Init, PipeInit, EndInv
<1>5. QED
  BY <1>2, <1>3, <1>4, InitRest, InitRecord, ScanInvariant, TempInvariant, NextKeepsEnd, NextKeepsPipeRest,
     NextKeepsCommandRest, NextKeepsRecord, PTL DEF Spec
===============================================================================
