# cfrp-detector in TLA+

TLA+ modules, TLC configurations and TLAPS proofs about `cfrp-detector-rs`: a
library and a command line that decide whether an `ip:port` is a Cloudflare
edge, test the speed of those that are, and scan whole address ranges with
masscan. Paths below are relative to `src/crates/cfrp-detector/src/` unless
they name another crate; `main.rs` is the one of `cfrp-detector-cli`.

The interesting part of the program is not the probing of one address but the
machinery around it: many tokio tasks that share a semaphore, a window of
outcomes and a counter; a concurrency limit that moves while probes are in
flight; a token that can fire at any await; a cache directory shared by
processes without a lock.

## 1. The system

| Component | State | Operations | Talks to |
| --- | --- | --- | --- |
| batch engine (`detector.rs`) | semaphore, `current_limit`, `recent` window, `last_gov_snap`, completion counter, results by index | `detect_batch`, `detect_batch_with_progress`, `detect_batch_with_cancel` | spawns one task per target, asks the governor, calls `detect_impl`, calls the progress callback |
| resource governor (`governor.rs`) | cached descriptor count, window of resource errors | `cap_concurrency`, `fd_budget`, `record_outcome` | reads the descriptor count of the process |
| single-target detection (`detector.rs`) | the `DetectionResult` under construction | `detect`, `detect_impl`, `fetch_edge_info` | probe engine, ranges, locations |
| probe engine (`probe.rs`) | none between calls | `tls_probe`, `http_probe` | connector |
| pinned connector (`connector.rs`) | the read buffer of one response | `http_get`, `https_get`, downloads, `with_retry`, `read_http_response` | network |
| file cache (`cache.rs`) | one file per resource and day in a directory | `load_or_fetch` (`find_fresh`, `fetch_with_retry`, `cleanup`) | file system shared with other processes, network |
| errors (`error.rs`) | none | `is_retryable_error`, `RetryConfig` | both retry loops |
| ranges and locations (`cidr.rs`, `location.rs`) | read-only tables after the load | `contains`, `lookup` | file cache |
| speed test (`speedtest.rs`) | a stream of tests, worker tasks | `test`, `test_with_warmup`, `test_batch` | connector |
| masscan driver (`masscan.rs`) | ASN cache files, a temporary output file, a child process | `fetch_asn_cidrs`, `scan_cidrs` | file system, network, child |
| masscan pipeline (`masscan_pipeline.rs`) | one output per task | `run_batch_asn`, `process_open_ports` | masscan driver, a detector per task, speed test |
| command line (`main.rs`) | the shutdown token, merged configuration | `detect`, `speedtest`, `scan` commands, `build_signals_token`, `merge_config` | everything above |

Behaviours that are hard, and what must hold:

- **Batch engine.** Tasks interleave at every await; a shrink of the limit
  competes with tasks for free permits; tasks leave by five exits (result,
  error, token before the probe, token during it, panic). No permit may be
  lost, every completion must be counted once, the progress must grow to the
  total, the results must be the tasks' own, and the call must return.
- **Governor.** Five caps are applied one after the other, some on a cached
  count and some on a live one. The answer must stay in range, must say why it
  is low, and must recover.
- **Detection.** Three stages with retries, each of which may fail. A returned
  verdict must rest on answers that came, requests must follow the SNI that
  worked, and the number of attempts must be bounded and told truthfully.
- **File cache.** Loads by several processes interleave file-system calls.
  What is served must be fresh, old files must go although removals fail
  unnoticed, and a load must end.
- **Pinned connector.** The end of a response has to be found in bytes that
  arrive in any pieces, by a test on the end of the buffer. A body must not
  depend on the pieces, and a request must end.
- **Ranges.** A list that another process is writing, or that was cut, parses
  without an error. No address may count as Cloudflare's that is not.
- **Speed test.** Worker tasks outlive a test that was given up. A result must
  be complete, and everything must come to an end.
- **Masscan pipeline.** Tasks fail in any phase, a process dies in any of them,
  and files outlive both. A failure must stay with its task, reports must match
  their files, and a scan must take what the page of its AS number gave.
- **Command line.** Signals reach a watcher that may not listen yet, or no
  more; settings come from four layers by five ways of merging; speeds are
  joined to results by the text of a target. Work must stop, records must be
  written and be the run's own, and the layers must have one order.

## 2. Modules

| Module | Models | Proofs |
| --- | --- | --- |
| `BatchContract` | what a batch promises, whatever its concurrency control | implemented in `BatchDetect_proofs` |
| `GovernorContract` | what the governor promises whoever asks | kept in `Governor_proofs` |
| `BatchDetect` | the batch engine, every critical section an action | `BatchDetect_proofs` |
| `Governor` | the resource governor | `Governor_proofs` |
| `FileCache` | `load_or_fetch` by several processes on one directory | `FileCache_proofs` |
| `DetectPipeline` | one detection: probe engine, retries, verdict | `DetectPipeline_proofs` |
| `Tables` | the ranges made of a cached list; extends `FileCache` | `FileCache_proofs` |
| `PinnedRequest` | one request: attempts, framing, decoder | `PinnedRequest_proofs` |
| `SpeedTest` | a batch of speed tests and its callers | `SpeedTest_proofs` |
| `MasscanPipeline` | masscan driver and pipeline, with their files | `CommandLine_proofs`, `ScanResults_proofs` |
| `ConfigMerge` | merging of settings, one key under all layers | none |
| `CommandLine` | the process: `MasscanPipeline`, `ConfigMerge` and, by `BatchContract`, the batch, composed | `CommandLine_proofs`, `ScanResults_proofs` |

`MCTables`, `MCPinnedRequest` and `MCCommandLine` only give constants their
values; the other components need none that a `.cfg` cannot write.

### BatchDetect

| Code (`detector.rs`) | Model |
| --- | --- |
| the tasks spawned at 460 | `pc[t]`: spawned, queued, granted, probing, released, pushed, counted, done, panicked |
| `sem` | `avail`, tasks at `queued` and `granted`; `Acquire`, `GivePermits` |
| `current_limit` (438-443, 596) | `limit` |
| `recent` (537-543) | `recent`, `PushRecent` |
| completion counter (544-549) | `completed`, `order[t]`, `Count` |
| AIMD and governor block (550-599) | `Resize`, with `Steered`, `Proposed`, `AvailAfterShrink` |
| `new_limit.clamp(lo, hi)` (565) | `PanicResize`: the assertion of `clamp` |
| `select!` on the token (483-536) | `GiveUp`, `AbortProbe`, `StartProbe` |
| the loop over the tasks (606-668) | `CollectorCheck`, `CollectResult`, `CollectPanic` |
| gap fill and return (669-694) | `Return` |

`Cancellable = FALSE` gives `detect_batch_with_progress`, the near copy without
a token and without the gap fill; `detect_batch` is that with an empty callback.

Abstractions. What a probe finds is an outcome (`ok`, `err`, `cancelled`,
`lost`). Rates are exact fractions instead of `f64`. Tokio serves a semaphore's
queue in order; the model lets any queued task have a released permit, which
allows more. The resize block is one action because the code holds the lock of
`recent` from its first line to its last, and every other use of the limit is
inside that block. `StartProbe` joins the look at the token at 507 to the first
poll of `select!`, between which the task does not wait: a token that fires
there is one that fires before it, or one that aborts the probe. The collector reads the limit and the snapshot in one step.
The governor answers by `GovernorContract`, any of the answers it allows at any
time; that `Governor` gives no other is proved (`AnswersKeepContract`). Panics of a probe are real in builds that
unwind (`decode_chunked` slices out of range on a malformed chunk); the release
profile sets `panic = "abort"` and then the process ends instead.

### BatchContract

The promise without the mechanism: at most `Ceiling` probes run at once, no
probe starts once the token has fired, each target has one final answer, and
the call returns when every target has one and nothing runs. `BatchDetect`
implements it in every configuration: `running` is the set of probing tasks,
`answer` the tasks' outcomes, `returned` the collector's end. The ceiling is
`max_concurrency` if the concurrency is fixed. A steered batch keeps no ceiling
but the number of its targets (run `doc_ceiling` says why), so its contract is
the rest of the promise. `CommandLine` uses the contract with any `Slots` as the
ceiling; for an adaptive command that is a bound of the model, which in the code
the limit may exceed up to the number of targets.

### GovernorContract

An answer grants the proposal within the user's ceiling and 1, or it is lower
than the proposal, within the ceiling, and names a reason. `BatchDetect`
instantiates it with `max_concurrency`, floored at 1, as the user's ceiling,
which is what both constructors of the detector set. `Governor` keeps it for
every ceiling of at least 1; at a ceiling of 0 it answers 1 and raises a flag
even for a proposal of 1.

### Governor

`cap_concurrency` is the composition `AfterFds` (descriptor budget, hard ratio,
soft ratio), `AfterErrors` and `Capped`, on the live count `used`, the cached
count `sample` and the error `window`. `FdsMove` is the rest of the process
opening and closing descriptors, `SampleExpires` the passing of
`resource_sample_interval`. Ratios are exact fractions in hundredths; `f64`
rounding can lower a scaled value by one more, which stays above the floor.

### FileCache

Each file-system call is a step, because the code awaits between them and takes
no lock: `ListDirectory`, `StatEntry` (an entry that vanished since the listing
fails the load, as `entry.metadata().await?` does), `ChooseFile`, `ReadFile`,
`FetchOk` and `FetchFails`, `CreateFile` (truncates in place), `WriteFile`,
`ListOutdated`, `RemoveFile`, `ReturnFetched`. Any call of the load itself may
fail and end it (`CallFails`). The cleanup ignores every error: a listing that
fails ends where it is (`ListingFails`), and a removal may do nothing
(`RemovalFails`); `spared` remembers which files were missed that way since they
were created. `linked[p]` says whether the file
process `p` has open is still the one of its name: another process's cleanup
may have removed the name, and then the bytes go with it. `Midnight` moves the
clock, in days; `Crash` and `WriteFails` are counted in `faults`. Files are
torn or whole, failures transient or permanent, backoff delays are left out and
the clock does not run backwards. The ordering of two modification times of the
same day is left to the order of the listing.

### Tables

`CloudflareRanges::load` reads what a load of `FileCache` returned: `got[p]`.
`Texts` says which texts a file may hold: the list; nothing yet, while its one
write is under way; any beginning of the list once a write has failed or a
writer has died. `Masked` and `RangesContain` are `load_one` and `contains`;
`Official` is the reference, bit by bit. One family stands for both, and
networks of the other are in the list and never match. A list cut within a
prefix length (`/10` read as `/1`) is a wider network, which the property's
first part excludes by `faults = 0`.

### DetectPipeline

One variable per stage of `detect_impl`. `Retry` is one failed attempt inside
`with_retry`; `TlsAnswers` and `TlsFails` end a candidate of `tls_probe`;
`RootAnswers` is `http_probe` with `analyze_headers` and the verdict table;
`TraceAnswers` and `RequestFails` end the detection. A response is what its
caller looks at: status class, the two headers, the kind of colo. `log` is the
history of attempts the properties refer to. The empty SNI at the end of
`unique_snis` connects with the default again, so a target that speaks no TLS
is tried twice with the default.

### PinnedRequest

| Code (`connector.rs`) | Model |
| --- | --- |
| `http_get`, `https_get`, `http_download`, `https_download` | `call`: with or without TLS, with or without `with_retry` |
| `connect_tcp`, `connect_tls`, `write_all` | `Connect`, `Handshake`, `SendRequest` |
| `with_retry` | `Fails`, `Retries`, `Backoff` |
| `read_http_response` | `Read` (any number of the bytes that are there), `ReadEof`, `Timeout`, `Complete`, `Finish` |
| `decode_chunked` | `DecodeChunked`, a recursive function |

The wire is a sequence of symbols, so that line ends, size lines and the last
chunk are really looked for; a head is its last bytes only, because only these
can look like framing. Bodies are chosen to look like framing. A size line is
read as the code reads it: up to a semicolon, trimmed, with a sign, any number
of hexadecimal digits, and no size at all beyond `MaxUsize` (`SizeOf`). What
follows the chunks may be anything: the last chunk with or without a trailer,
nothing, a line that is no size, or a size the data do not come up to. The last
kind can panic the decoder on an uncut response, in a slice out of range or by
the overflow of `start + chunk_size` (`connector.rs:794`); the run reaches it,
and `BodyIsWhole` is stated of the responses without it (`WellSent`).
`RequestAssumption` says of the chunks before only that each line gives the
length of its data, and of heads that they end with their first empty line.
`DetectPipeline` sees the same requests as outcomes per attempt.

### SpeedTest

`Start` is `buffer_unordered` taking the next target, `WarmUp` the command
line's extra download, `WorkerEnds` a download task, `AwaitWorker` and `GiveUp`
the loop over the join handles. The library's and the pipeline's callers never
cancel; `run_speedtests` looks at the token when a test begins and not after.

### MasscanPipeline

| Code | Model |
| --- | --- |
| `run_single_asn`, `run_batch_asn`, `run_single_ip`, `run_batch_ip` | `RunSingleAsn`, `RunBatchAsn`, `RunSingleIp`, `RunBatchIp`, on lines of task and address files |
| `fetch_asn_cidrs` | `FetchCached`, `FetchPage`, `CreateCidrFile`, `StoreCidrs` and their failures |
| `scan_cidrs`, `scan_ips`, `scan_single_ip` | `WriteList`, `ScanNothing` |
| `run_masscan` | `MasscanUnavailable` to `ParseFails`; the output file is kept at `KeepOutput` and removed by name |
| `process_open_ports` | `RunDetection`, `RunSpeedtest`, `CreateCsv`, `WriteRows` |
| the loop over tasks | `EndTask`, `AfterTask` |

A page may mention any prefixes, in links and in its text, those of other AS
numbers of the batch included: `regex_fallback` takes whatever looks like a
prefix. `gave` remembers what each page last gave, `cut` the AS numbers whose
cache file was begun and not wholly written. A write that fails or is cut by a
death may leave any prefixes (`Beginnings`), for a line cut in its length names
a wider network; the file stays and is used by every later scan. One address
answers per prefix. What the detector and the speed tester find is open. Every
`let _ = remove_file` may fail (`Kept`, `RemoveTemp`), and so may the removal
that a dropped `NamedTempFile` does; `leaks` counts the failed removals, deaths,
failed spawns and unreadable outputs that excuse a temporary file.

### ConfigMerge

`Effective` names, for a command, a key and what each layer gives, the layer
the value in force comes from: keys whose flag is always taken (`Forced`),
options with `Option` flags, keys looked for among the arguments (`Seen`), and
the speed test's concurrency that falls back on the general one, and the scan's
concurrency, which `build_pipeline_options` takes for not given when it is 10
and raises to 100 (`ScanFloor`). `EnvKeys` are
the variables that get through `Env::prefixed("CFRP_").split("_")` and the
filter behind it. Keys are merged one by one, so one key under all layers is
the whole function.

### CommandLine

A process begins with `InitConfig` or `Merge`, goes through `Choose`,
`Collect` (three sources of targets, each with what it skips and refuses) and
its command's phases, and ends by `End`: emitted, printed, failed or died. The
batch is the instance `Batch` of `BatchContract`, so that `BatchStep` and
`BatchReturns` are what `BatchDetect` is shown to promise. `sig` is what a
signal meets: the default action before the watcher is polled, the watcher, or
handlers nobody listens to any more (tokio keeps them when the watcher is
aborted). A scan always ends by printing, and the two JSON formats of the output
are one. `run_speedtests` is a stream of `Slots` places here; its workers are
`SpeedTest`'s. `Crash` is a signal under the default, or any death.

## 3. Runs

| Run | Question | Bounds |
| --- | --- | --- |
| `batch_fixed` | Does a batch of fixed concurrency implement `BatchContract`, and are the returned results the tasks' own, with cancellation at any moment and panicking probes? | 4 targets, ceiling 2, asked for 3: two tasks always queue and the clamp matters |
| `batch_adaptive` | Are permits preserved by shrinks and growths, does the limit stay in range, does the progress grow to the total? | 4 targets, limit 1 to 3 from a start of 4, window 2: every branch of the steering is taken, with shrinks that find no free permit |
| `batch_governed` | Does the batch return, do completion numbers stay distinct and does a steered batch keep its contract when everything goes wrong at once? | 3 targets, governor, AIMD floor 3 above `max_concurrency` 2, so that every steering resize panics; hanging and panicking probes, token |
| `governor` | Do answers keep the contract, are they monotone, and does throttling end? | 8 descriptors, both ratio caps, proposals up to 5, window 3: every cap binds somewhere |
| `cache` | Is what the cache serves fresh, do torn and stale files go, does every load end, are the ranges made of it official? | 2 processes, 3 days, `max_age` 1 day, 2 attempts, 1 fault: a file can be fresh, stale, removed and recreated within a load; 12-bit addresses at the edges of networks of length 10 and 2, a line of no valid length, one of the other family |
| `detect` | Do verdicts rest on answers, do requests follow the probe, are retries honest and bounded? | all four kinds of domain, in and out of range, 2 attempts |
| `speedtest` | Are results complete, how far does concurrency leak, does everything end? | 3 targets, 2 slots, 2 workers, both callers: a target waits, a stray worker overlaps its successor |
| `http` | Is a body that is taken for complete the whole body, and does every request end? | all four operations, 2 attempts, 2 heads, 6 bodies of up to two chunks with sizes in every form, 8 endings of which 4 announce data that are not there, 3 framings, reads of every size, a cut at every byte; `MaxUsize` is 255, so that two digits overflow it |
| `cli` | Do failures stay local, do files and reports agree, is every temporary file left over accounted for, do scans take what their AS number's page gave, do signals stop work but not the records, does every process end? | one process of any command; every key under every layer; 2 AS numbers, 2 prefixes of which any page may mention any; up to 3 targets of 2 addresses; 2 places; task files of 2 lines out of 4; 2 lines of masscan output; an earlier scan's cache file; a death at any moment; one file may be left by failing removals |

Larger instances add no new kind of step: four targets suffice for two probing,
one queued and one finished; two processes and three days for every order of
two stores across midnight and an expired file. One process is enough for
`cli` because what a process leaves for the next is its cache file, which
`EarlierScans` puts there (one AS number's, as a bound), its output files, which
the next only overwrites, and its configuration, which `Init` starts with or
without. A cache file that a failed write has cut is used by the next task of
the same AS number in the batch; such files and temporary files across several
processes are covered by the proofs.

Three runs show where a document of the repository and the code disagree; each
checks the sentence and TLC gives the counterexample:

| Run | What is written | What the code does |
| --- | --- | --- |
| `doc_ceiling` | "Maximum allowed concurrent probes (upper bound; adaptive stays ≤ this)" (`detector.rs:102`) | a shrink that finds no free permit stops but lowers the limit; the next growth adds permits to a semaphore that never shrank, and more probes run than allowed |
| `doc_cache_crash` | "Returns cached bytes if a fresh file exists, otherwise fetches" (`cache.rs:57`) | a death between create and write leaves an empty file that is served as fresh for `max_age`; for the CIDR lists it reads as no ranges |
| `doc_precedence` | "CLI flags > CFRP_* env > this file > compiled defaults" (`main.rs:1390`, and the help at 216) | keys assigned unconditionally (`main.rs:2250`) take clap's default over the environment and the file; variables with an underscore in their names never pass the filter (2171) |

Other disagreements met on the way, without a run:

- Batch. "Hard floor for concurrency (≥1)" (`detector.rs:72`): min = initial = 0
  without a governor starts with no permits. "Every entry contains either a
  successful result or an error" (382): without the gap fill a panicked probe
  leaves the vector one short. Progress events are skipped for completions that
  arrive out of order (41 against 639); after the token is seen the reported
  count may fall (45); `throttled_due_to_fd` covers resource errors too (55
  against 645), and the governor sets its descriptor flag for the user's ceiling
  (`governor.rs:286`).
- Detection. "No Cloudflare-specific features detected" (`model.rs:127`): the
  TLS probe's Server header is a reason but does not count for the confidence.
  `tls_probe` returns `None` not only "if the port speaks no TLS" but also if
  every candidate answered with 400 or more (`probe.rs:152`).
- Connector. "Raw HTTP response body" (`connector.rs:337`): a chunked body whose
  data looks like the last chunk ends early when a read stops there, and a body
  cut short is returned as a success. "Transient I/O hiccups" (`error.rs:88`): a
  reset within the handshake is a TLS error whose text is not matched, so it is
  not retried. 0-RTT is never enabled and the handshake type is always the full
  one (472); ALPN offers `h2` first (159) to a client that speaks HTTP/1.1.
- Cache and ranges. `RetriesExceeded` names `max_attempts` even if one permanent
  failure ended the load (`error.rs:84` against `cache.rs:108`). "And no cached
  fallback is available" (`detector.rs:159`): an expired file is never one. A
  CIDR list cut within a prefix length reads as a wider network.
- Masscan. The AS cache's "1 day TTL" (`masscan.rs:87`): a file never expires.
  Ports like `U:53` (38) cannot survive the split at colons. `open_ports_count`
  is not of "unique" pairs (`masscan_pipeline.rs:85`). `outputs` has "one entry
  per input" (95) only without failures. Two address lists of one length write
  the same file.
- Command line. `-t4` and `-C16`, values glued to short flags, are not seen by
  the search through the arguments; the scan's `-c` "与 detect 语义相同", means
  what detect's does (`src/README.md:339`), but a value of 10, the flag's default,
  counts as not given and becomes 100 (`main.rs:2577`);
  the speed test's concurrency gives way to the general one when it equals its
  default (2318), whoever set it; `config show` names sources without asking the
  merge. The grace period is slept by the watcher and enforced by nobody; after
  a signal the speed phase of `detect -s` still begins, under a token that
  nothing fires, and later signals are swallowed; `scan` installs no handler;
  a connector that cannot be built for the speed phase discards the detection's
  results.

## 4. Fairness

- `BatchDetect`: weak fairness of every task's own steps and of the collector,
  because tokio polls every woken task. Nothing makes a probe end: that probes
  end is the antecedent `ProbesEnd` of `BatchReturns` only, and rests on the
  timeouts of connects, handshakes and reads. `CancelEndsBatch` needs no such
  assumption. The token never has to fire.
- `FileCache`: weak fairness of each load's steps: file-system calls return and
  the HTTP client has a request timeout (`Detector::new`). Nobody has to begin a
  load, and the day need not change.
- `SpeedTest`: weak fairness of every test and every worker: a download runs
  inside `tokio::time::timeout`.
- `PinnedRequest`: weak fairness of the client's own steps alone: its timers
  fire, and a request that fits the socket's buffer is written (`write_all` has
  no timeout). The server owes nothing, not even a byte.
- `CommandLine`: weak fairness of the running process. Probes and speed tests
  run under timeouts; masscan, the page of an AS number (its client has no
  timeout) and the user's disk have none, and are taken to answer. No signal and
  no death has to come, and no process has to begin.
- `Governor` and `DetectPipeline` state safety only; `DetectionBounded` bounds
  the number of steps instead.

## 5. Proofs

All for every value of the constants that meets the module's `ASSUME`.

`BatchDetect_proofs` — permits. `PermitInv` says where every permit is: the
free ones and those held by tasks are at least `limit`, a free permit means that
nobody queues, and (fixed concurrency) they are exactly `limit`.
`PermitsCoverLimit` alone is not inductive: a shrink takes only what is free, so
the sum of free and held must be related to the limit before and after.

- `NoPermitIsLost`: `PermitsCoverLimit`.
- `FixedConcurrencyHolds`: `FixedConcurrencyBound`.
- `LimitStaysInRange`: `LimitInRange`, for a batch that starts with at least 1.

Counting and collecting, in the same module. `NumInv` ties every completion
number to the counter (the counter is the cardinality of the numbered tasks);
`CollInv` says that what the collector has passed has ended and that its results
are the tasks' outcomes; `ProgInv` and `SnapInv` relate events and the last
reported count to the numbers already collected; `WindowInv` bounds the window
of outcomes, which completes the types.

- `CompletionNumbers`: `OrdersDistinct`. `TypesKept`: `TypeOK`.
- `NothingLeftBehind`: `NothingOutlivesBatch`. `ResultsAreFaithful`:
  `ResultsFaithful`.
- `ProgressIsMonotone`: `ProgressNeverRegresses`. `FullProgressIsReported`:
  `ReachesFullProgress`, by a pigeonhole: numbers below `N`, distinct, `N` of
  them, so one of them is `N - 1`.

The contract. `BatchImplementsContract`, in every configuration: initial states
map to initial states and every step to a step of `BatchContract` or a stutter,
from the invariants above and `AnswerInv`: a task's outcome is unknown exactly
until it leaves its waiting states. A probe that starts finds room below the
ceiling (`RoomForOne`): with a fixed concurrency because permits and limit are
equal, otherwise because the task that starts is not yet among those probing.

`Governor_proofs` — `IInv` joins the types, the range of the answer, the flags
that explain it, the quiet of a governor that is off or asked for nothing
(`QuietWhenOff`) and `CleanSuffix`: the last `clean` outcomes of the window are
no errors. `TypeCorrect`, `AnswersInRange`, `ErrorsAreForgotten` (the window
holds at most `Cap` outcomes). `AnswersKeepContract` follows from
the three about answers: with a flag the answer is below the proposal, without
one it is all that the ceiling grants. Each cap of the composition is shown to
lower its argument and to stay at 1 or above. `AnswersAreMonotone`
(`CapMonotone`) composes too: each cap is monotone in the proposal and antitone
in the descriptors in use, which for the scaled ones is monotony of integer
division (`DivMonotone`).

`FileCache_proofs` — for any number of processes and days. `CacheTypes` needs
`AttemptInv`: a load that may fetch has attempts left. `CacheServesFresh` rests
on `FreshInv`: no time is ahead of the clock (`TimesPast`); a chosen file was
fresh when the load looked at the clock, which was after it began
(`ChoiceIsFresh`); and between the look and the read other processes can only
make the file younger or remove it (`SeenStands`). `TornFilesAreFaults` is
inductive with the types: only a fault takes a writer from its file.
`OneFileIsLeft` (`OneFileAtRest`) counts for every finite set of loads the files
that nobody outside the set is about to remove: at most one, one more for each
fault, and one for each load of the set that is storing (`LeftInv`); files a cleanup
failed on are set aside until they are created anew. With
nobody under way this is the property. It has to be said of every set, because
a load may die at any step with the removals it had undertaken: then the set
grows by one and so does `faults`. `LinkInv` says that what a writer has open is
there.

`OfficialAddressesOnly` is about the tables: for every width, every list and
every number of processes. Addresses masked to a prefix length are equal
exactly if they agree bit by bit so far (`MatchesMeanBits`, by induction on the
length), and so a list takes the addresses that its own networks contain
(`ListMeansOfficial`). Arithmetic with `2^n` rests on counting subsets, for the
provers know no powers (`PowerDoubles`). What a load returned is one of the
texts a file may hold.

`DetectPipeline_proofs` — for every retry policy, no attempts included.
`RequestsFollow` rests on `ProbeInv`: while the probe goes on, the tried and the
remaining candidates are all of them, and none has worked; afterwards the host
is decided by how it ended. `VerdictsAreGrounded` adds `EvidenceInv`, which says
what holds of the result at each stage. `DetectionsEnd` counts attempts per
request used up (`BoundInv`). `RetriesTellTheTruth` relates the retry counter
to the history (`RetryInv`): the last attempt belongs to the request under way
only if it failed transiently, and candidates next to each other differ.

`SpeedTest_proofs` — for any number of targets, workers and slots, from one
invariant: `PassedInv` (a test has counted exactly the workers before the one
it awaits, and all came through), `ArrivedInv` (each result arrived once),
`SlotInv`. `SpeedTypes`, `ResultsAreComplete`, `StraysComeFromFailures`.

`CommandLine_proofs` — for any number of AS numbers, lines, targets, places and
processes. `TemporaryFilesHaveCause` rests on `TempInv`: the temporary files
are exactly those of the scan under way and at most one for each cause; a
removal that fails moves its file from the first to the second.
`SpeedsAreOfEdges` rests on `SpeedInv`: the speeds of the task under way are of
its edges, and so are those of every file written before.
`SignalsStopNewWork` needs no invariant: once the token has fired, no action
lets a probe or a test of the speedtest command begin.

`ScanResults_proofs` — what a process leaves when it has run; it builds on
`CommandLine_proofs`. Two facts about sequences carry it: a filtered sequence
puts the element of a position at that position's rank, and ranks are
distinct. `CallInv` says what a call is at any stage.

- `ScansTakeWhatThePageGave` (`ScansAsPublished`), with `ScanInv`: a cache file
  is only written from the page of its own AS number, whatever other tasks of
  the batch do or fail to do meanwhile, and one that was begun is marked until
  it is whole. Of a marked file nothing is claimed: the code uses it unchecked.
- `BatchGoesOn` (`FailuresStayLocal`), with `EndInv`: the tasks before the one
  under way have ended, and the report of one that came through stands at its
  rank among those.
- `ReportsNameWholeFiles` (`ReportsHaveTheirRows`), with `ReportInv`: a report
  that lasts keeps its file whole, because the task under way either is the
  same or writes a file of another name. Names of different tasks differ as
  ports hold neither a slash nor the separator (`PortsAssumption`).
- `RecordsAlwaysTellTheRun` (`RecordsTellTheRun`), with `HandInv` (what a
  command has by its phase) and `EdgeInv` (an edge was answered, and a batch
  tests edges only).
- `TypeCorrect`: `TypeOK`, with at most one test under way per place.

`PinnedRequest_proofs` — for any heads, any bodies of chunks with sizes in any
form, any endings and any width of `usize`. The decoder is
a recursive function on a buffer; that it exists, and what it gives, is shown by
induction over the chunks. `Layout` fixes where each chunk begins on the wire
and in the body; `RoundAt` gives one round of the decoder there; `Decoding`
composes the rounds from the last chunk backwards; `ClosingRound` is that an
ending that announces no chunk ends the decoding wherever it is cut. `HeadFound` is that the first
empty line ends the head, and `Outcome` what a buffer of any length is taken
for. From these, `BodiesAreWhole` (`BodyIsWhole`) in `WholeInv`: the buffer is a
beginning of the wire; what it decodes to is the body or a beginning of it; and
the slice is out of range only when the buffer ends between the two bytes of a
line end, which a complete response does not. `TypeCorrect`: `TypeOK`.

Assumptions are those the modules state, and TLC evaluates each in a run. All
safety invariants and action properties of the passing runs are theorems. Only
model-checked is liveness, which with `ENABLED` is outside TLAPS's reach here:
`CancelEndsBatch`, `BatchReturns`, `LoadEnds`, `BatchEnds`, `RequestEnds`,
`SignalStillEmits`, `EveryCommandEnds`. No module declares a `RECURSIVE`
operator. The library's induction theorems take an operator, which no backend
here can instantiate; where induction is needed (`PinnedRequest_proofs`,
`FileCache_proofs`) it is for a set of numbers, and that (`NatSetInduction`)
follows from the finiteness of intervals.

## 6. Not modelled

- The location store: a map loaded once through the file cache and only read.
- Clap's parsing, `config show` and `config get` beyond that they print and end,
  the benchmark (it measures itself), output formats, logging, and the texts of
  reasons and errors. `classify_resource_error` and `is_retryable_error` only
  match texts: they appear as kinds of outcome.
- TLS, masscan, the operating system and the servers: they do what they like, at
  the places where the code meets them.
- Throughput arithmetic, latencies and the counters of the session cache.
- `save_interface_setting`, which nothing calls; the facade; benches and
  examples.

Four hazards have no property. A configuration with neither a floor nor a start
of 1 starts no task (`detector.rs:434`): `LimitInRange` takes one of them for
granted. Reasons and verdict may disagree (1006), as the list in section 3 says.
A malformed chunk size can panic the decoder (`connector.rs:794`): no document
says what such a response should give. Without AIMD a
throttled limit never grows again (`detector.rs:567`), because the proposal is the limit
itself and the governor only lowers it: that is plain from the code, and nothing
says whether recovery is intended.

## 7. Plan

All components of section 1 with state of their own are modelled, and every
safety property is a theorem. What is left:

1. `Governor` composed with `BatchDetect`: its answers keep the contract, but
   how a changing number of descriptors moves a whole batch is not modelled.
2. `SpeedTest` in place of the stream of tests in `CommandLine`, and two
   processes that scan on one disk at the same time.
