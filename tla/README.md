# TLA+ models of the CWF agentic-AI benchmark harness

The repository runs agentic benchmarks (webarena, appworld, osworld, swe-bench,
t-bench) on a server and measures it while they run: EMON hardware counters,
perf, RAPL power, temperature. Around the runs there are set-up scripts, a cache of
downloaded assets and an analysis of the results. The Python code is mostly sequential, and its
hard parts are not: threads and a signal handler drive the collectors
without a lock, several threads and processes write the same files, and scripts
are killed half-way and run again on what they left.

## Inventory

| Component | State | Operations | Talks to | Hard behaviour | Correct when |
|---|---|---|---|---|---|
| `EmonCollector` (`common/telemetry/emon.py`) | status, process, output file, auto-stop thread | start, stop, driver reload, EDP post-processing | `emon`, `mpp.py`, the SEP drivers | stop from several threads; hanging `emon -stop`; retry after a reload | STOPPED means no live process; a bounded collection ends by itself |
| `TelemetryManager` (`manager.py`) | `_active`, results of each collector | start, stop | all collectors; two warm-up threads | warm-up threads against stop(); one collector of several failing | what is up is listed; stop() leaves nothing behind; EDP reads a settled file |
| Runner life cycle (`benchmarks/*/run.py` main, signal handler) | `_TELEMETRY_MANAGER`, `_CLEANUP_CALLED` | start, run_evaluation, stop, report; handler | manager; the evaluation's process | a signal at any point, twice | the handler stops telemetry; the run ends |
| WebArena task tracking and per-task EMON (`webarena/run.py:587-883`) | open task, current collector and its index, timer, record cache, live rows | a callback per output line; Timer, `_edp` threads | EmonCollector, live CSV files, proxy | shared variables without a lock; callbacks in an order nobody planned | a record in one place, a row at most once, every row in the end |
| `PerfTopCollector`, RAPL, temperature, SSMON, PTAT | process or polling thread, samples | start, stop, report | manager | counter wrap; two polling threads | means over well-formed samples |
| `OllamaMetricsProxy` (`webarena/lib/ollama_metrics.py`) | current task, records | serve a request and tag it; set, clear, read | the evaluation's client, the reader of its output | a request in flight over a task change; a reader that lags | a request counts for its own task, a task's figures are final |
| CSV and JSON writers (`csv_writer.py`, `json_results.py`) | files | append a row, write a document | live rows, runners | threads appending to a new file | every row under a header of its width |
| AgentSysPerf (`common/agentsysperf/`) | a sweep's points, a campaign's summaries | measure, aggregate, detect capacity; emit, merge | runners' reports | boundaries, ties, missing figures, a merge during the campaign | agrees with its definition |
| `run_cmd` (`run_generic.py`), `cli_utils.py` | attempt counter; tee'd streams | retry; tee set-up and tear-down | `run_cmd` is called from nowhere | - | not modelled |
| Prefetch (`scripts/prefetch_assets.py`) | manifest, cache directory, local images | pull, push, import, `--dry-run` | registry, network, other invocations | partial files, a kill between steps, two invocations | a file with a checksum is complete; the manifest loads and keeps its entries |
| Set-up scripts (`scripts/setup.py`, `setup/setup_emon.py`, `setup/setup_kernel_devel.py`, `misc/check_emon_setup.py`) | what is on the host: packages, conda, SEP archives, drivers | one step after another, each of which may fail | package repositories, Artifactory, each other | killed runs, unreachable servers, a second run on the remains | a run builds on what is there and undoes nothing |
| Inference launchers, system metadata | none | exec, reads of /proc | the operating system | - | not modelled: I/O and command lines |

`PROJECT.json` lists the same components with their status, and under
`hazards` each thing that can go wrong and is hard to test, at its line.

## Modules

**EmonCollector** is `start_collection` and `stop_collection` as small steps of
the thread that executes them. `call[t]` is that thread's program counter: the
place it is at and the collector it is in. A step ends where the code starts or
waits for a subprocess, or returns, because that is where another thread gets
to run. The module has no `Next` of its own: a module that extends it says which
threads call what, through `Invoke`, `Returns` and `Unwind`.

| Step | Code | Outcomes modelled |
|---|---|---|
| `StartCheck` | emon.py:160-170 | already running; not available (writes ERROR); a driver check that raises |
| `Launch` | 184-208 | process up; Popen fails and is retried after a reload; Popen fails |
| `AutoWake` | 194-200 | stops only a collector that is RUNNING |
| `StopCheck` | 212-213 | the guard any number of threads may pass |
| `EmonStop` | 214-227, 238-240 | ends the process (and perhaps others': `emon -stop` addresses the driver), times out, cannot be run |
| `Reap` | 228-236 | SIGTERM works, or the process outlives the wait and is given up on |

`unstopped` is a history variable: collectors a stop attempt ran for without
bringing them down. The properties that promise "down" exempt them.

**TelemetryRun** composes one collector with the manager's `start` and `stop`, the
runner's main thread, the EMON and perf-top warm-up threads, the auto-stop
thread and the signal handler. `runner` is chosen at the start: `webarena`
(warm-up 180 s, duration 300 s, the manager registered for the handler) or
`plain` (the other four: EMON at once, no duration, nothing registered).
Collectors other than EMON are a member of `live` while they run.
`raced` records what came up out of stop()'s sight, `stopped` that a stop() ended.

**PerTaskEmon** is `--emon` in webarena/run.py. The main thread reads the evaluation's
output and runs the callbacks; thread `t` of `Task` is task t's Timer and
collector `t` what it starts; `edp[c]` is the daemon thread that processes collector
c's file. The loads and stores of `_current_emon`, `_current_emon_idx`,
`_pending_timer` and `_task_record_cache` that a thread may fall between are
steps of their own. A signal raises SystemExit in the main thread wherever it
is, and the `finally` of the reader finishes the open task.

The code counts on timing it does not enforce: a Timer that fires has registered its
collector before the evaluation's next line, and EDP takes longer than the
callbacks behind it. `pace` says which of the two hold in a run; safety is
checked for all three values, and the properties that need an assumption name it.

**LiveRows** is what the live files promise their reader: a row per task at most once
and only after the task finished. PerTaskEmon implements it with `finished` the
tasks that have a record. One exception is explicit: `torn`, the one task a signal
caught between its append and `_cur.clear()`, which the `finally` clause records again.

**RunOutputs** is what a WebArena run puts out as it goes on, from three modules that share no
variable; `shown` says which one a behaviour is about, as their product shows nothing more.

- **RaplPolling**: the polling thread and start_polling and stop_polling. `energy` is what the domain used, the
  counter shows it modulo `Turn`. A time and the reading behind it are two steps (`FirstTime` and `FirstRead`, `Wake` and `Sample`), so
  that a reading may stall; `prevAt`, `prevRead` and `currAt`, and with them a sample's `Truth`, are history.
- **CsvWriter**: `write_csv_row` in four steps: look, read the last header, open, write at close.
- **OllamaProxy**: the evaluation prints lines (`output`) and sends requests (`queue`); the reader
  takes the lines at its own pace and sets, clears and reads; the proxy's thread tags a request
  when it completes. `late` is history: the reader was behind, or the client had given up.

**Prefetch** has one process per invocation of prefetch_assets.py. `run[p]` is its program
counter, the assets it still has to handle, its own copy of the manifest (`mem`) and what its open
file has become (`fd`: a rename by another process moves it). `Kill` ends a process anywhere.
`stale`, `clash` and `met` are history: a save behind a process's back, two saves that overlapped,
a file that two processes fetched together. A dry run's `download_file` returns True, so its entry says "downloaded" with size 0
(`sized` is FALSE), whatever is at the destination. `Fetched` says what a downloader that exits with 0
may leave. **MCPrefetch** adds the symmetry of the processes.

**KernelDevel**, **SepInstall** and **HostSetup** are the three layers of set-up scripts, each
calling the next. KernelDevel is without variables: the search of an Artifactory tree for a kernel-devel
package (two levels below each work week, `scan` being a recursive function; of two work weeks `ScannedFirst` says which
comes first) and what a run may end with. A package has a name, a version and a release; `Pairs` are the version-release pairs that can be read
from its name or from `uname -r`, where the words of a BKC kernel spell a second pair (`Bkc`). `Matches`, by which the search takes an RPM, and
`Present`, by which a run finds it installed, are different rules, as they are in the code. SepInstall has one action per step of setup_emon.py, HostSetup one per step
of setup.py; `at` is the step, and runs follow each other on the same host. A command whose
exit code is not looked at is a choice between its effect and none (`Does`). `LookUp` runs the
kernel-devel script alone, on any site; `SetupSites` bounds the sites that a whole set-up run meets. **MCHostSetup** has the sites.

**RunKpi**, **SweepCapacity** and **AgentSysPerf**: the figures of one run and its SLO verdict;
saturation and recommendation along a sweep, a recursive function with the loop's body as `Step`; and
the two jobs that use them, a sweep over levels and repetitions, and a campaign whose folders are
merged at any time. A merge (`merge`) walks the tree, then reads one file after another, then writes (`BeginMerge`, `EndWalk`, `ReadSummary`, `WriteMerge`), while
runs open their summaries (torn) and complete them. Fractions are integers: percentiles in hundredths,
rates in percent, so that comparisons are exact. **Orders** is Python's stable
`sorted()`, by which percentiles and sweeps are ordered. **MCAgentSysPerf** has the values.

**MCPerTaskEmon** adds the symmetry of the tasks. Definitions whose comment has "with a bug"
(`ReapWithoutKill`, ...) are variants of the definition after them
which some property must reject; no behaviour uses them.

## Runs

| Run | Instance | Result |
|---|---|---|
| `telemetry_run` | one collector, its three threads, one reload, both runners; `FairSpec` | 149,672 states; all properties hold |
| `warmup_race` | the same | `StopDuringWarmupIsSafe` is violated |
| `signal_plain` | the same | `HandlerStopsEmon` is violated |
| `per_task_emon` | two tasks, no reload, all paces, symmetry | 6,183,526 states; all hold |
| `per_task_row` | two tasks | `EveryTaskHasARow` is violated |
| `per_task_live` | one task, one reload; `FairSpec` | 32,008 states; both hold |
| `prefetch` | one image, one file with a checksum, two processes, three invocations, symmetry | 5,034,232 states; all hold |
| `prefetch_resume` | one process, two invocations, a file without a checksum | `PartialIsSafe` is violated |
| `host_setup` | two set-up runs; 870 site trees with four outages | 6,394,491 states; all hold |
| `agentsysperf` | sweeps of up to three levels, a campaign of three folders | 584,633 states; all hold |
| `run_outputs` | four samples, three writers and four rows, three tasks and four requests | 4,485,069 states; all hold |
| `csv_header` | two writers, three rows | `HeaderOnlyWhenNeeded` is violated |

What they show:

- `StoppedIsDown`, `StopLeavesNothing`, `EdpReadsSettledFile`, `UpIsBooked`: with up to three
  threads in the collector and a signal anywhere, the only things a completed
  stop() leaves running are those the property names.
- `AutoStopFires`: a bounded EMON comes down even if the evaluation hangs forever
  and even if its launch was retried. `RunEnds`: only the evaluation can keep a run from ending.
- `RecordInOnePlace`, `ImplementsLiveRows`, `EdpAfterStop`: hold for every interleaving, without the timing assumptions.
- `TimelyRunIsComplete`: with prompt timers an uninterrupted run records every task
  once, leaves no EMON behind and gives every view to its own task; if EDP is slow as well, every task has its row, unless EDP crashed or
  the write failed with a warning.
- `TimelyRowArrives`: under both assumptions the row of a finished task is written, with the same exceptions.

- `ChecksumIsKept`, `SaveIsAtomic`, `EntriesSurvive`: kills, resumed downloads and overlapping invocations do
  not make the manifest vouch for an incomplete file, unless two invocations fetched it together. The entry of a dry run is exempt: on a fresh host
  `--dry-run pull` records every file as "downloaded", with `size_bytes` 0. The manifest stays
  loadable until two saves overlap (both use the name manifest.tmp), and a save loses only
  entries saved behind its back. `DryRunOnlyPrints`: a dry run touches neither files nor images (but the manifest, as said).
- `PackagesIndependent`, `CondaBeforeEnv`, `RunsOnlyAdd`, `ArchiveIsChecked`, `NoDowngrade`: what a second set-up run finds after
  a killed or failed one is either finished or refused, and not replaced.
- `FoundIfPublished`, `HintThenLatest`, `InstalledIsRecognised`: the kernel-devel search, with any listing failing, agrees with a definition by reachability and order, and
  what a run installs is what the next run takes for installed, with three exceptions, all RPMs that `rpm_matches_kernel` accepts (443-471) and
  `is_kernel_devel_installed_rhel` does not know (192-236): `LongerVersion` (6.14.10.50 for 6.14.10.5), `SharesStart` (a release that shares the first 15 characters
  of that of `uname -r`), and `OtherRelease`: for a BKC kernel, another release of the version under a name other than kernel-dmr-bkc-devel, such as
  kernel-debug-devel. Such a package is installed again on every run.
- `PercentilesSplit`, `SaturationIsFirst`, `RecommendedSafe`, `PassedIsEarned`: the analysis agrees with definitions by counting. One verdict is exempt from
  `PassedIsEarned`: a run with `runtime_s == 0` costs 0.0 (cost.py:21, 57) and so passes any limit on the cost per task. docs/agentsysperf.md says of such a field that it
  "is `null`, never a fabricated zero" (67-68), and that a missing figure is not "an automatic pass" (76): here code and document disagree.
- `MergedIsDensest`: a merge in the middle of a campaign takes only complete summaries, and of those that were complete when it began none that met its SLO is
  denser than the row. Of a summary that is completed behind the reading it promises nothing: a sparser one read later may be the row.
- `SampleIsTrue`: a sample has the energy used between the two times it is divided by, plus what was used while the second reading stalled, less
  what was used while the first did (the code takes each time before its reading); or 0 at a wrap whose range could not be read. `StopIsFinal`: nothing is sampled behind
  a stop that joined its thread, and at most one sample behind one that timed out.
- `EveryRowHasHeader`, `NearestHeaderFits`: racing writers may repeat a header but never leave a row
  without one; without a race the nearest header fits.
- `FiguresAreFinal`, `CountedForItsTask`: a task's record has all that is ever tagged with the task, and a request is counted
  for another task only if the reader was behind the output (as it is while on_result stops EMON) or the client had given up.

The five violations are disagreements between the code and what the repository says
of it; `findings` in PROJECT.json quotes the lines. In short: the warm-up check of
`_active` is not atomic with the start it guards; the plain runners install a
signal handler that finds no manager to stop; an `_edp` thread that finishes before
the record is cached leaves the task without a live row; a file without a checksum is
never resumed, a part of it counts as downloaded; and two threads that start a live file each
write its header.

Smaller things met while modelling, which no property is about: `WW2401`, listed by
sort_ww_dirs's docstring (356), is read as year 0, week 0; download_sep returns the staged archive of the
requested version unseen, so a git-lfs pointer there fails every run and the git-lfs repair behind the
download is not reached; `setup_emon.py --dry-run` deletes a corrupt cached archive; a killed Miniconda
installer leaves a directory that no later run can install into; setup/README.md:59 mentions options that setup.py does not have; import-tar
never unpacks the bundle of files; percentiles.py calls "nearest-rank" what interpolates; capacity.py's comment
(93) admits the saturation point itself and its code does not; a run that completed nothing has one latency sample, its runtime.

Bounds. `MaxReload` bounds how often a failing launch is retried. The code has no
bound: if reload_drivers keeps succeeding and Popen keeps failing it recurses until
Python stops it, so `RunEnds` and `AutoStopFires` hold for launches that fail finitely
often. One reload is enough to reach the retried launch, and the safety theorems
hold for every bound. Two tasks are enough for a Timer or `_edp` thread of one task to
meet the callbacks of the next, and for two `_edp` threads to compete for the cache;
the theorems hold for any set of tasks. `per_task_emon` has no reload since a retry
is only a longer stay in `start_collection`, and `per_task_live` has one.
Each task's lines occur once in the output, as the evaluation prints them.

In `prefetch`, two processes overlap in every way and the third invocation starts on what they
left; images are handled apart from files, so that one of each is enough. In `host_setup`
the first run makes every kind of remains and the second meets them; a site has two work weeks so that
order matters, RPMs down to the level the search does not reach, and of the packages one for each way to be recognised
or not; a whole set-up run meets the exact one, an unrecognised one or none, as only the exit code of the search matters to it. Three levels are the fewest at which a gain can collapse, and 22 latencies the fewest whose p99 can be
1.5 times their p95; a campaign has no threshold, each alone, or all, and results on both sides of each. The counter turns over twice in `run_outputs`; a polling interval,
stalls of its readings included, is shorter than a turn (seconds against minutes). Three writers are enough for one to write between another's look and its write while a third reads.
Four requests in three tasks let two be in flight over one change of task.

Fairness. Every thread that can take a step takes one: the operating system schedules
them and every subprocess they wait for has a timeout or ends. The one that this
takes on trust is `mpp.py`: `process_emon_with_edp` reads its output to the end before
it waits with a timeout (emon.py:432-434), so the 600 s do not bound it. Nothing is assumed of
signals or of EMON ending by itself. In TelemetryRun the evaluation need not
return; in PerTaskEmon its output ends, since `RunEnds` there is about the `_edp` threads.

## Proofs

Every invariant and action property of the passing runs is a theorem: TLC shows it on the run's
instance, the theorem for every value of the constants. (`TypeOK` of AgentSysPerf and RunOutputs is not among the
runs' properties; the invariants named below contain the types those proofs need.)

| Module | Theorems | States |
|---|---|---|
| `PerTaskEmon_proofs` | `Invariance` | `Spec => []IInv` |
| | `TypeCorrect`, `RecordSafe`, `EdpComesAfterStop`, `TimelyRunCompletes` | `[]TypeOK`, `[]RecordInOnePlace`, `[]EdpAfterStop`, `[]TimelyRunIsComplete` |
| | `Refinement` | `Spec => ImplementsLiveRows` |
| `TelemetryRun_proofs` | `RunTypeCorrect`, `RunStoppedIsDown` | `[]TypeOK`, `[]StoppedIsDown` |
| | `RunIsListed` | `Spec => []Listed` |
| | `RunUpIsBooked`, `RunStopLeavesNothing`, `RunEdpReadsSettledFile` | `[]UpIsBooked`, `[]StopLeavesNothing`, `[]EdpReadsSettledFile` |
| | `RunAutoStopAttends` | `Spec => []Attended` |
| `RunOutputs_proofs` | `PowerSamplesAreTrue`, `StoppedPollingIsFinal` | `[]SampleIsTrue`, `[]StopIsFinal` |
| | `RowsHaveHeaders`, `RowsFitNearestHeader` | `[]EveryRowHasHeader`, `[]NearestHeaderFits` |
| | `TaskFiguresAreFinal`, `RequestsCountForTheirTask` | `[]FiguresAreFinal`, `[]CountedForItsTask` |
| `Prefetch_proofs` | `PrefetchInvariance`, `PrefetchTypeCorrect` | `[]IInv`, `[]TypeOK` |
| | `ChecksumSafe`, `ManifestLoads`, `EntriesKept`, `DryRunsPrint` | `[]ChecksumIsKept`, `[]SaveIsAtomic`, `EntriesSurvive`, `DryRunOnlyPrints` |
| `HostSetup_proofs` | `SetupInvariance`, `SetupTypeCorrect` | `[]HInv`, `[]TypeOK` |
| | `CondaSafe`, `ArchiveSafe`, `PackagesSafe`, `RunsAdd`, `SepStays` | `[]CondaBeforeEnv`, `[]ArchiveIsChecked`, `[]PackagesIndependent`, `RunsOnlyAdd`, `NoDowngrade` |
| | `SearchIsComplete`, `LatestIsTaken`, `SuccessIsRecognised` | `[]FoundIfPublished`, `[]HintThenLatest`, `[]InstalledIsRecognised` |
| `AgentSysPerf_proofs` | `AgentSysPerfInvariance` | `[](SweepInv /\ Emitted /\ Merging)` |
| | `PercentilesRight`, `SaturationRight`, `RecommendationSafe` | `[]PercentilesSplit`, `[]SaturationIsFirst`, `[]RecommendedSafe` |
| | `PassesAreEarned`, `MergesAreDensest` | `PassedIsEarned`, `MergedIsDensest` |

Assumptions. They say that a value meant to be none of the others is none of them (`CollectorAssumption`,
`TaskAssumption`, `RunAssumption`, `PrefetchAssumption`, `ProxyAssumption`, `NoneAssumption`, `KernelDevelAssumption`,
`NoRpmAssumption`), that bounds are numbers (`HostSetupAssumption`) and a counter's turn is positive (`RaplAssumption`), and what
inputs look like: in `KernelDevelAssumption` the BKC words and the packages, in `SepInstallAssumption` directory listings, and year 0 for a work week named without a year; in
`AgentSysPerfAssumption` numbers of tasks, times and prices that are not negative, at least one repetition of each level
(sweep.py:51 takes the maximum with 1), and thresholds that are numbers or not set. TLC evaluates each in a run.

**PerTaskEmon.** `RecordInOnePlace` is not inductive: a step may only move a record from its place to
the next, and for that the place it moves to must be known to be empty. `IInv` adds

- `Control`: which task the main thread has open in each place of its code, and what
  a signal leaves of that (so `_on_task_done` is called for an open, recorded task);
- `Ownership`: a collector goes from its Timer to `_current_emon`, to the main thread's
  local `ec` and to its `_edp` thread, once (so no `_edp` thread is started twice);
- `Recorded`: a task has no record before it is closed, and no record is anywhere
  before the task has one in `per_task_results`;
- `OneHand`: the pop from the cache gives a record to one `_edp` thread only.

The proof has a lemma for each conjunct. `OtherStepsMoveNoRecord` shows that all but five
actions leave every record where it is, so the lemmas about records
treat `Record`, `TaskDone`, `EdpLookup`, `EdpWrite` and `Interrupt` only. The refinement uses
the same five: the first is `LiveRows!Finish` (or, for the torn task, a stutter), the
second and fourth are `Persist` or a stutter, the last is `Tear` or a stutter.

`EdpAfterStop` needs `Settled`: only the Timer of a task and the main thread in `stopping` are inside its
collector, a collector is started once, and when the stop call has come back the process is down or given up. `TimelyRunIsComplete` needs
`Timely` (under prompt timers and without a signal every collector, view and record belongs to the task that is open; if EDP is slow
as well, a cached record has an `_edp` thread that will come for it) and `Joined` (main() returns after it joined those threads).

**TelemetryRun.** `StoppedIsDown` is inductive with `TypeOK`. The other three need `Listed`: which
threads may be inside the collector in each place of main(), that EMON is started by one of them, that a running collector is in `active`
until stop() has handled it or came up out of its sight (`raced`), and the order in which stop() goes through them.
`Attended`, the safety half of `AutoStopFires`, says that a bounded EMON that is up has an auto-stop thread, asleep or in stop_collection;
it needs `UpIsRunning`, which lets that thread past its two checks of the status. `EmonCollector_proofs` has what a collector's step does to its own state and to the others' (`Effects`), which both proofs cite.

**RunOutputs.** `RaplInv`: the last reading is the counter at its time, less than a turn ago (`Polled`); a thread that ended, was joined or was given up on adds
no sample, or one (`Stopped`, `Returned`). `Turns` is the arithmetic of a counter that turned over at most once. `CsvInv` relates what each writer saw to the file now, which only grows: what had a header when it looked
still has it, and a writer that works alone knows the last header. `ProxyInv` orders the lines not yet read: the line that closes a task
is behind those of its requests, so figures are taken when nothing will be tagged with the task any more.

**Prefetch.** `ChecksumIsKept` speaks of the manifest and is not inductive: a process may save what it learned long
before. `Checked` says the same of every copy (the manifest, the file being saved, each process's), and
`CompleteStays` that a complete file stays complete. `Saves` says whose manifest.tmp is until two saves
overlap, and `Fresh` that a process behind whose back nobody saved knows what the manifest does; from the two
`EntriesSurvive` follows. `DryRunOnlyPrints` needs `FetchIsReal`: what fetches is never a dry run.

**HostSetup.** `NoDowngrade` needs `ArchiveRemains`: once the requested version is installed,
the cache or assets/installers still has an archive of it, so that no run reaches the fallback. `PackagesIndependent` needs `Tried` (those no longer left
to try are installed or not on offer), `RunsOnlyAdd` needs `PipInEnv` (pip packages are there with the environment only, so its creation
takes nothing away). The three about the kernel-devel search rest on `FindIs`, what the search returns in any tree: `ScanIs` goes through the two levels below a work
week, `ScannedFirstExists` shows that hint and dates give a first work week. `LookedUp` carries it to the state.

**AgentSysPerf.** `Orders_proofs` has the lemmas about sorting, least elements and loops: `SortOrderSorts` (the sorted order lists every
position once and in order), `FirstExists` (a total order has a first element), `LoopEnds` (a recursive function over the items of a loop exists).
`PercentileSplits` counts the positions on either side of the two ranks; `StepTracks` says what the loop of detect_capacity knows after each point, from which
`SaturationIs` follows; `DetectIsSafe` that the recommended level is short of the first that missed its SLO; `VerdictIsEarned` turns percentages
back into counts. `SweepInv` says that the points taken so far and the levels missed belong together, `Emitted` that a summary has the figures of its run, `Merging` that of the
summaries complete when a merge began each is still to be read or among its rows.

The library's induction theorems take an operator, which the provers cannot instantiate. `Induct` is the same for a set of numbers
that has 0 and with each number the next one; with it, what a recursive function computes can be proved, one lemma per function.
Each inductive invariant was model-checked with the instance of its run before it was proved.

Only model-checked: the liveness properties `AutoStopFires`, `RunEnds` (of TelemetryRun and of PerTaskEmon) and `TimelyRowArrives`, as fairness and ENABLED are outside
the prover. The five violations are TLC's counterexamples.

## Not modelled

- What EDP computes, CSV and JSON layout, system metadata, argument parsing and
  preflights: formatting and I/O. `process_emon_with_edp` is one step that yields views, none, or an exception
  (emon.py:320, 347 and 373 are outside its try), which ends the `_edp` thread or main().
- A live row is written or fails as a whole, though `_on_task_row` appends to up to
  five files: the concurrent append to one file is CsvWriter's subject.
- In CsvWriter header and row go out in one write, which holds for rows that fit the file's buffer (8 kB),
  and rows start with a number, as the live rows do (a row that starts with a word could be taken for a header).
- A kernel whose `uname -r` has no release word; a `conda env list` that fails beside an existing environment (setup.py:467); a package installer that
  fails half-way through its list.
- RAPL's snapshot calls start() and stop(), which TelemetryManager does not use.
- agentsysperf: phases.py, queue_stats.py, token figures, and the wording of reports.
- Prefetch: export-tar, list, the local registry's container, and the wording of commands. Set-up: `--sep-installer`, `--skip-kernel-devel`, `--skip-tmc`,
  `--skip-install`, `--verify-only` and `check_emon_setup --load-drivers`.
- `run_cmd` (no caller), cli_utils, inference launchers, cpu_info, os_info, platform_info, system_metadata: parsing and I/O.
- Collectors other than EMON have no inner steps in TelemetryRun; a perf-top, RAPL or
  temperature stop always succeeds there.
- Real time: a sleep ends at any moment. The 5 s and 120 s timeouts are outcomes.

## Plan

The modules of the plan are written, and every safety property of the runs is proved. What is left: the parts of setup_emon.py
and prefetch_assets.py that `Not modelled` lists, if they come to matter (`--verify-only`, export-tar), and for PerTaskEmon what `Attended`
is for TelemetryRun, the safety half of `TimelyRowArrives`.
