# Cooperative Bug Isolation: models, checks and proofs

CBI samples what deployed programs do. An *instrumentor* (OCaml, on CIL) puts
sampling sites into a C program and transforms it so that sites which are not
due cost little; a *runtime library* (C) counts down to the next sample, keeps
the counters and writes a report when the process ends; a *launcher* (Python)
runs on the user's desktop, asks for consent and uploads reports; *offline
analyses* (C++, Perl) rank predicates. Below, paths are relative to
`src/sampler-1.6.2` unless they say otherwise, and `guide` is
`doc/sampler-guide/C/sampler-guide.xml`.

## 1. Inventory

| Component | State | Operations | Interacts with |
|---|---|---|---|
| Sampling transformation (`instrumentor/transformer.ml`, `countdown.ml`, `weightyCalls.ml`, `functionEntry.ml`, `returns.ml`, `forwardJumps.ml`, `backwardJumps.ml`, `sites.ml`, `duplicate.ml`) | of the transformed program: the thread's countdown `cbi_nextEventCountdown`, its cached copy in each activation, which copy of the body runs | import at entry, threshold check at region headers, site in either copy, export/import around weighty calls, export at return | asks the runtime for fresh countdowns; relies on the analyses below |
| Weightiness analysis (`weighty.ml`, `dynamic.ml`, `ocaml/fixpoint.ml`) | the collection of weighty functions | visit a function, start another pass | decides which calls the transformation brackets |
| Control-flow preparation (`cfgUtils.ml`, `removeLoops.ml`, `classifyJumps.ml`, `balance.ml`) | the body's statements and their links, statements seen, splits and fallthroughs | link statements, loops to gotos, tell backward jumps, add default cases, elaborate fallthroughs, insert counterweights | gives the headers and the graph to the weigher, and takes its weights |
| Region weights (`weighPaths.ml`, `weight.ml`) | memo of weights per statement | weigh a header, recur into successors | gives the thresholds and the counterweights |
| Countdown sources (`lib/threads/random-{fixed,offline,online}.c`, `countdown.c`, `once.c`, `yes/hijack.c`) | the process's period, scale, table or entropy stream; a generator or a slot per thread; exit handlers | initialise process, thread and forked child; draw; finalise | called by every sampled site, from every thread |
| Registry and report (`lib/threads/registry.c`, `report.c`, `wrap_fork.c`, `lib/unit.h`) | list and count of units, `cbi_reportFile` and its buffer, two locks, signal dispositions | register/unregister a unit, exit, fatal signal, fork | one process, many threads; the launcher reads the pipe |
| Report pipe (`launcher/wrapper/SampledLauncher.py`, `ReportsReader.py`, `lib/threads/report.c`, `wrap_fork.c`) | who holds which end, which ends are close-on-exec, what is in the pipe, the reports sorted so far | create, spawn, close, mark, write, read to the end of file, fork, exec, die | between launcher and runtime, over all descendants of the application |
| Timestamps (`lib/threads/timestamps-set.c`) | one clock, first/last per site | set first, last, both | the registry prints them |
| Scheme sections (`lib/schemes`) | counters of a unit | print | called back by the registry |
| Schemes and site finders (`instrumentor/*Finder.ml`, `*Scheme.ml`) | list of sites | walk expressions | the transformation |
| Launcher (`launcher/wrapper`, `tray`, `first-time`, `preferences`) | GConf settings, tray clients, report pipe, one wrapper and one upload process per run | read settings, spawn, drain, reap, upload, activate, quit | D-Bus, GConf, the application, the server |
| Corrective ranking (`src/cbiexp-0.6/src/corrective-ranking`) | candidates with two run sets each, the failures left, the static counts of the estimates, the winners | pick a winner, search for a better combination, dilute, rescore, zoom | reads the tables that the filters before it wrote |
| Collection server (`www/cgi-bin`), report tools (`tools`), driver (`driver`), fuzzing, mining, the other offline analyses (`src/cbiexp-0.6`) | files | filters and scripts | |

What is hard about them, and what makes them correct:

* **Transformation.** A countdown is a variable of which there must be exactly
  one live copy, through recursion, calls that are not bracketed, and functions
  that are not transformed. The fast copy of the code may only run where no
  sample can fall due. Then the transformed program samples exactly where a
  naive check at every site would. No test sees a sample that was *not* taken.
* **Analyses.** They are sound if whatever reaches a site is weighty, every
  cycle runs through a header and weights bound every path; they are useful if
  nothing more is weighty and no weight is larger. The graph is built once and
  read while the program it describes is rewritten; counterweights of one split
  change the weights of all that leads to it.
* **Countdown sources.** What is decided once per process, kept per thread and
  inherited over a fork is easily confused; exit takes tables and streams away
  while other threads run. Each thread must draw its own stream in order, and a
  process that was not asked to sample, or a child, must not.
* **Registry and report.** Loading, unloading, exiting and crashing threads meet
  in two locks, one list and one stream, and the reporting code runs in signal
  handlers. The reader must get a well-formed report with each load of each
  unit once; the process must still end.
* **Report pipe.** The reader stops at end of file, which comes when the *last*
  descendant of the application has lost its copy of the write end, by fork,
  exec, exit or crash. It must not come early, and not never.
* **Launcher.** Settings are read one by one from another process while the
  user changes them, and again after the run; several wrappers share a tray
  process that quits when the last one leaves; a pipe must be drained before
  the child is waited for. Consent must cover what is sampled and what is sent.
* **Ranking.** A run set keeps its bits and a count beside them; a long sequence
  of discounts by winners that overlap must keep the two in step. A search is
  pruned by bounds that depend on a number computed at the first call.

`PROJECT.json` lists the hazards at their lines, with the properties that cover
them or the reason why none does.

## 2. Modules

| Module | Models | Uses |
|---|---|---|
| `Program` | the transformed program's text: control-flow graphs, sites, calls, and what the analyses say of them, as constants with assumptions | |
| `NaiveSampling` | abstract specification: one countdown, a check at every site | `Program` |
| `Transformed` | a thread running transformed code; refines `NaiveSampling` | `Program` |
| `ControlFlow` | links between structured statements, removal of loops, classification of jumps | |
| `WeighPaths` | the weigher, as a recursive function | |
| `Balance` | `--balance-paths`: `prepatch` and `patch` | `ControlFlow`, `WeighPaths` |
| `Weighty` | the weightiness fixpoint, over any call graph | |
| `Countdowns` | randomizers, threads, fork and exit | |
| `Reporting` | registry, report, signals, fork, locks | |
| `ReportChannel` | abstract specification: what is sent is received, and the end of it is seen once nobody can send | |
| `ReportPipe` | descriptors, pipe and reader; refines `ReportChannel` | |
| `Launcher` | wrappers, uploads, tray, settings, user | |
| `Ranking` | the corrective ranking, over any data and any statistics | |
| `Bodies` | what the proofs say of bodies: the inductive invariant of the writing of one, and how the passes relate bodies | `MCWeighPaths` |
| `TransformedProofs`, `WeightyProofs`, `FlowProofs`, `LauncherProofs`, `ReportPipeProofs`, `RankingProofs`, `CountdownsProofs`, `ReportingProofs` | theorems and their proofs | the above |
| `MC*` | small instances | the above |

`Transformed` composes with the analyses: `Program` *assumes* the closure of
the weighty functions (`WeightyAssumption`) and that weights cover their paths
(`WeightAssumption`). `MCTransformed` takes the weights from the weigher itself
(`MCWeightIsWeighed`, which TLC evaluates). The theorem `AnalysisIsClosed`
discharges the first assumption for every call graph, and the theorem `Coverage`
the second for every function body without structured exceptions.
`ReportPipe` composes the launcher's side of a report with the runtime's, with
the insides of each reduced to what the other can see of it.

### Program, NaiveSampling, Transformed

A statement is a site, a call, a backward goto, a return or something else. One
action is one statement of the output of `transformer.ml` that touches the
countdown: `Import` is the load and the choice at a function's entry
(`functionEntry.ml`) and after a weighty call (`weightyCalls.ml` 47-59);
`BackJump` the choice that replaces a backward goto; `OriginalSite` and
`InstrumentedSite` a site in the two copies (`sites.ml`, `countdown.ml` 90-97);
`Call` with its export; `Return` with its export; `Plain` all that only moves
control. Each is guarded by the copy (`mode`) that runs. The options are
constants: `CacheCountdown`, `SpecializeEmpty`, `SpecializeSingleton`,
`BalancePaths`. The arithmetic is modular, and the comparison with zero signed
or unsigned as the type of the variable makes it. The source of countdowns is
the set `Fresh`: any value, any time (`Countdowns` says which).

Everything belongs to one thread (`cbi_nextEventCountdown` is thread-local), so
one thread is the whole model. Abstracted: what a site records; the predicate of
a site with several counters. Left out: functions that do not return, `longjmp`
over activations, signal handlers of the application, points-to analysis.
Of `--balance-paths` only the statements `checkThreshold` prepends are modelled
here, with counterweights given in the program.

### ControlFlow, WeighPaths, Balance

A function body is a sequence of items: the statements in the order in which
`NumberStatements` visits them, with an "end" behind a compound statement and an
"else" between two branches. `build` gives each its successors, as
`CfgUtils.build` does with a context of where control falls, breaks and
continues to; `RemoveLoops` turns loops into blocks that end in a goto and
breaks and continues into gotos, reading the links of the *old* body as the code
does; `Backward` is `ClassifyJumps`. `WeighPaths.weigh` is the memoised
recursion of `weighPaths.ml` as a function, with the two components of a weight
maximised separately as `weight.ml` does.

`Balance` rewrites a body with `Splice`, which replaces each item by a piece and
moves the destinations of gotos with it. `prepatch` gives every switch a default
(`addDefaultCases`), makes room at the head of branches and makes a goto of
every fallthrough into a case; `patch` puts counterweights there. Where the
code gives up with an internal error, the model says so: `SplitsLost` (a case that
falls through is itself a split, whose statement has been replaced in the
list) and `JumpsLost` (a case that is itself a goto). `BalancedPathsAgree` exempts
these bodies.

Left out: a goto whose destination is itself (see Findings); labels other than
those that gotos use; `elaborateIfs` and `isolateInstructions`, which prepare
sites, and statements with exceptions.

### Weighty

`Weighty.VisitFunction` is one step of the pass over the file, `EndPass` the
test of `Fixpoint.compute`. `Init` takes every call graph over the given names.
What is assumed of functions defined elsewhere follows `weighty.ml` 74-88 in its
order. `isWeightyLibrary` is the constant FALSE because its pattern escapes
nothing (see Findings).

### Countdowns

One process. `env` is what it was built with (one of three randomizers) and
called with: variable unset, bad, set, or set so high that an exponential draw
can exceed an int; a seed given or not; a report wanted or not. The actions follow
`initializeOnce` (randomizer, first thread, report), `__wrap_pthread_create`
and `cbi_initialize_thread` in each further thread, a draw wherever a countdown
has run down, `__wrap_fork` followed into the child, and `exit`, whose handlers run
one by one while the other threads go on. A countdown is not a number but what
was drawn, from which stream and as which item of it, so that a property can say that
threads do not draw from each other's. The entropy stream, closed but
not yet forgotten, and the table, unmapped but not yet forgotten, are states of
their own: another thread can meet them. A draw is one step, since all it writes is
thread-local. Left out: failing calls of the C library, and the
unthreaded build.

### Reporting

One process. A thread has a stack of frames, because `cbi_unregisterUnit` runs
inside the reporting code and a signal interrupts both. One action is one
access to shared state: taking a lock, a test of `cbi_reportFile`, a write to
the stream, the three steps of closing it. Both builds are there: `Locks`
chooses the headers of `lib/threads/yes` or `no`. `Register` is one action,
since nothing can interrupt it that matters (the linker's lock is held). The
unit lock is recursive, the report lock is not. A forked child is what it can
do to the parent: it has a copy of the buffer and shares the descriptor, and it
hangs if the report lock was held. The state begins after `cbi_initialize`.
Left out: the counters in a section; stdio flushing a full buffer by itself;
handlers that the application had installed before (the prior action ends the
process); library destructors at exit, which find their units unregistered.

### ReportChannel, ReportPipe

Processes hold ends of one pipe and inherit them over fork, and over exec unless
marked. `spawn` is `Popen` without `close_fds`: the application gets *both*
ends, and only the write end is marked by `openReportFile`. The wrapper closes
its write end and marks its read end after the spawn, each a step that the
application may overtake. `ReadLine` sorts one token into the report that its
start tag opened, as `ReportsReader` does; `EndOfFile` needs an empty pipe and no
writer. The application writes its tag, buffers a section when a plugin is
unloaded, writes the rest at exit or in a fatal signal's handler, and may be killed
or exec another program at any time. Children are forked by the wrapped `fork`
(which closes the stream, after flushing the inherited copy) or by one inside a
library, which is not wrapped. `Channel` maps all this to `ReportChannel`:
received is what has left the pipe, the channel is open while anyone holds a
write end.

### Launcher

One action is one call that leaves the wrapper: each `get_bool` of
`UserConfig.enabled` and the `get_int` of `sparsity` is a call to the GConf
server, and the user may act between any two. `pc` follows `Main2.main`:
launch decision, `Spawn`, first-time dialog, tray icon, `activate`, then
`SampledLauncher.wait`, which drains the pipe (`ReadReports`), reaps, reads the
settings again (`EndEnabled`), and forks the upload (`StartUpload`). The upload
applies the server's redirect and sparsity. `Activate`, `ClientLeft`,
`StrangerLeft` and `MonitorExit` are the tray's `Server`. The history variables
`agreed` and `steady` watch when consent was seen and whether it was ever
withdrawn. Left out: contents of reports, the exit status, Ctrl-C, the order in
which the server answers two uploads, widgets.

### Ranking

`buildView` as a state machine: in each step the candidates are sorted by score,
`combine` searches all pairs for a conjunction or disjunction that scores
better (`Consider` is one pair, with its estimate and the pruning), the winner
is printed, what it explains is discounted from the failures first and then
from all candidates, and those whose lower bound is gone are dropped. `exact`
dilution removes runs from bit vectors *and* from counts, `approximate` only
lowers counts. The zooms at the end start from the data as loaded. The
statistics are floating point in the code; here they are operator constants of the
four counts they are computed from, of which only `BoundAssumption` and
`ScoreAssumption` are used; `MCRanking` gives integer versions of the real
formulas. Any data that the prefilter can leave is an initial state; ties are
broken in any way. Left out: `adaptive-sampled`, which dilutes by a second data set;
restricting pairs by a file; the text of the views.

## 3. Runs

All bounds are named constants. Deadlock is checked in `countdowns`,
`countdowns_unset` and `ranking`, which have an action for having ended, and not
where a program may simply be finished: no root is obliged to be invoked
again, analyses and processes end. Liveness properties take its place there.

| Run | States | Shows |
|---|---|---|
| `transformed` | 1 067 | default options: one holder of the countdown, fast path covered, refinement of naive sampling, sampling goes on |
| `transformed_uncached` | 320 | countdown in the global, heavy sites, no specialised regions: refinement |
| `balanced` (violation) | | `--balance-paths` lets the countdown run past zero |
| `weigh_paths` | 344 656 | on all bodies of six items: removing loops keeps the flow, every cycle has a header, weights equal those of the most expensive paths, balanced paths agree |
| `weighty` | 398 848 | on all call graphs: the analysis ends, its result is closed, sound and minimal |
| `countdowns` | 42 899 | in every environment: each thread draws its own stream in order, seeded as documented, children stop, exit's faults come after the report, every thread gets to sample |
| `countdowns_unset` (violation) | | a thread of a program that was not asked to sample samples at every site |
| `reporting` | 575 542 | two threads, two units, crashes, exits and a forked child: one complete, well-formed report, exact registry, everything ends |
| `reporting_duplicated` (violation) | | a child's `fclose` delivers a section twice |
| `report_pipe` | 640 347 | application, two children, wrapper: the pipe is a channel, the reader has all of the report, and both sides end |
| `launcher` | 225 453 | two runs, user, tray, uploads: consent, participation, tray, drained pipes, everything ends |
| `ranking` | 185 290 | three failing and two passing runs, three predicates, all data: counts exact, approximation one-sided, all failures explained, pruning loses nothing |

Each state machine has one type invariant. Those of `Transformed` and `Launcher` are
proved as such; the others are checked, and proved, together with a property
that depends on them (`RegistryIsExact`, `ResultIsExact`, `StreamsInOrder`,
`DescriptorsKept`, `DilutionIsExact`).

Why the bounds are enough:

* `MCTransformed` has one of everything: a branch with different weights, a loop
  with a branch in it, regions with no site and with one, a weightless call, a
  weighty call through a pointer, and mutual recursion through a function
  without sites. `MaxDepth = 4` reaches a transformed activation above an
  untransformed one above a transformed one, and one more. `Fresh = {1,2,3,5}`
  lies below, at and above every threshold of the program (0 to 4). `Modulus =
  16` leaves room above and below for a wrap to be seen. The theorems take all
  of them away.
* `Size = 6` items suffice for an `if` with a statement in each branch and one
  behind it, a loop around a branch, a switch with two cases and a fallthrough,
  or a switch in a loop; `MaxGotos = 1` puts a jump into or out of each
  of these. Scales 1, 3, 1, 1, 0, 2 let one heavy site outweigh two light ones,
  so that the two maxima of a weight lie on different paths.
* `Defs` has two functions, because the second can be visited before what it
  calls is collected; every kind of function defined elsewhere occurs once.
* `Countdowns`: two threads are what sharing and races need; `BankSize = 2` and
  `MaxDraws = 3` wrap the table once.
* `Reporting`: two threads are the pairs that races need (two reporters, a
  reporter and an unloader); a third only waits. `MaxLoads = 2` lets a unit come
  back. Two signals let a handler run inside another thread's handler.
* `ReportPipe`: `Capacity = 2` is less than the tags and two sections of a report,
  so that writers block; two children, forked before and after a section was
  buffered, can interleave copies of it.
* Two wrappers, one with a report longer than the pipe, meet in the tray in
  every way that clients can come and go; `MaxChanges = 1` lets the user change
  his mind between any two reads. The safety properties were also checked with
  `MaxChanges = 2`, in three minutes; the proofs have no bounds.
* `Ranking`: three predicates give up to three winners whose runs overlap, and
  pairs that a winner has diluted. Three failures let scores differ (recall is zero
  up to one failure), and two successes are the fewest with which a predicate
  that was true in one of them can still predict failure. Runs of an outcome,
  and predicates, are interchangeable in every definition, which the symmetry
  uses; no liveness is checked.

**Fairness.** `Transformed`: a thread that can run does (`WF(Next)`); used for
"a program that keeps reaching sites keeps being sampled". `Weighty`: the
analysis is one loop. `Countdowns`: initialisation, exit handlers and threads
that are starting run on; the application creates, forks, samples and exits as it
likes. `Reporting`: only the runtime's own steps are weakly fair,
per thread, as the operating system schedules threads; nothing obliges the
application to load, crash, fork or exit. Locks get no fairness of their own.
`ReportPipe`: the wrapper, a report once begun to be finished, and a child still in
the runtime go on (a child that the application forked through the wrapper
sooner or later execs or ends). `Launcher`: each process
(wrapper, upload, tray, an application that is writing its report) runs on; the
user, strangers on the bus and the end of an application are left to themselves.

### Findings

1. **`--balance-paths` stops sampling** (`balanced`). The prepayment of a
   backward jump is prepended to the loop head, where the path from the entry,
   which has paid, pays again; the unsigned countdown wraps. The counterweights
   themselves are right (`BalancedPathsAgree`).
2. **A fork delivers sections twice** (`reporting_duplicated`). Unregistering does not
   flush, and the child closes the stream it inherited.
3. **Threads sample though nothing asks for it** (`countdowns_unset`). With
   `$SAMPLER_SPARSITY` unset only the first thread's generator is stopped;
   `cbi_initialize_thread` starts it in every other, with a scale of zero, so
   that every draw is 1. The guide (723-725) promises that sampling is disabled.

Further behaviours were met while modelling. They are hazards in `PROJECT.json`
or exemptions named in a property, and have no run of their own:

* `--no-cache-countdown` with a table of -1 (no countdowns file) samples at every
  one-site region: the global is an `int`, and `countdown <= 0` is signed
  (`countdown.ml` 95; the guide, 696-698, promises UINT_MAX).
* `isWeightyLibrary` matches nothing: `weighty.ml` 62 leaves `(`, `|`, `)`
  unescaped, which OCaml's `Str` takes literally; a caller of `qsort` is weightless.
* A second fault on the same signal kills the process before the report, because
  `handleSignal` restores the prior action first (`Recurring = TRUE`); the guide
  (1510-1512) promises a backtrace.
* A library loaded when the registry is drained writes after the end tag
  (`LateLoads = TRUE`). Signals inside the runtime's own code (`Reentrant =
  TRUE`) can tear a section and, in the threaded build, make a thread wait for a
  lock it holds itself.
* `for (;;);` reduced to a goto to itself is not a backward jump for
  `classifyJumps.ml` 32, and the weigher does not end.
* `--balance-paths` fails with an internal error where a case that is reached by
  falling through is an `if` or `switch` (`SplitsLost`), or a case is a goto (`JumpsLost`).
* With approximate dilution *and* complex predicates the ranking prints the same
  conjunction again and again: only counts are diluted, but a conjunction is
  built from the bits (`main.cc` 80 announces "one by one"; 133). With
  `--begin-runs` above zero, the failures counted and the runs counted differ,
  and the estimates are no bounds (`HeldOut`).
* A child that waits for a lost lock, or one that `daemon()` made inside the C
  library, keeps the pipe open and its launcher waiting; `WrapperFollows`
  exempts both.

Smaller ones, of code that is modelled only in part or not at all: the report reads 64-bit
timestamps without the clock's lock (`timestamps.c` 25);
`__wrap_pthread_create` leaks its closure when thread creation fails (`yes/hijack.c`
45); `report.c` 23 takes the descriptor of a stream that `fdopen` may have
failed to make; a failed upload is not tried again (`sampler-upload` 29).

## 4. Proofs

All are checked by TLAPS, for every value of the constants that meets the named
assumptions of the modules the proofs extend.

| Theorem | States | Further hypotheses |
|---|---|---|
| `TransformedProofs!CountdownHasOneHolder`, `FastPathSafe` | `OneHolder`; `TypeOK` and `FastPathCovered` | `~BalancePaths` (the default) |
| `TransformedProofs!Refinement` | `SamplesOnSchedule`: the transformed program implements `NaiveSampling` | in addition `CountdownsFit`: with the countdown in a local every site weighs one, as without `--load-scales`; in the global, fresh countdowns and weights are less than half the range of the word, as far as an `int` can tell |
| `WeightyProofs!AnalysisIsClosed`, `AnalysisIsExact` | `ResultIsClosed`, `ResultIsExact` | |
| `FlowProofs!Flows`, `Cycles`, `Weighing` | `FlowIsKept`, `CyclesAreCut`, `WeightIsTight` | |
| `FlowProofs!Redirection`, `Balancing` | `CasesAreRedirected`, `BalancedPathsAgree` | |
| `FlowProofs!Coverage` | what `WeightAssumption` asks of weights | |
| `CountdownsProofs!Streams`, `Seeding`, `Stopping`, `Faults` | `StreamsInOrder`, `SeededAsTold`, `ChildStops`, `FaultsAfterReport` | |
| `ReportingProofs!Exactness`, `Grammar` | `RegistryIsExact`, `ReportWellFormed` | undisturbed: the threaded build (`Locks`), no handler inside the runtime's own code (`~Reentrant`), no load after the registry was drained (`~LateLoads`) |
| `ReportingProofs!Completeness`, `Delivery`, `Backtrace` | `ReportIsComplete`, `EveryLoadDelivered`, `CrashLeavesBacktrace` | in addition no signal strikes twice (`~Recurring`) |
| `ReportingProofs!OnceUnlessForked` | `EachLoadReportedOnce` | undisturbed, and the process does not fork |
| `ReportPipeProofs!Descriptors`, `Whole` | `DescriptorsKept`, `WholeReport` | |
| `ReportPipeProofs!Refinement` | `PipeIsChannel`: the pipe implements `ReportChannel` | |
| `LauncherProofs!Types`, `SamplingConsent`, `UploadConsent`, `Participation`, `Tray` | `TypeOK`, `ConsentBeforeSampling`, `ConsentBeforeUpload`, `ParticipantsReport`, `TrayKnowsItsClients` | |
| `RankingProofs!Dilution`, `Approximation`, `Explanation` | `DilutionIsExact`, `NeverOverestimated`, `ExplainsAll` | |
| `RankingProofs!Progress`, `Termination` | `EachWinnerExplains`; no more winners than failing runs | complex predicates only under exact dilution |
| `RankingProofs!Estimates` | `EstimatesBound` | no failing run held out |
| `RankingProofs!Search` | `CombineFindsBest` | in addition `MonotoneStatistics` |

The hypotheses are conditions that runs meet, and behind most of them stands a
behaviour listed under Findings: balanced paths, heavy sites with a cached countdown, handlers inside the
runtime, late loads, second faults, forked children, approximate dilution of
complex predicates, held out failures. `MonotoneStatistics` says that evidence which is as good in each of the four counts does not score
less. It is what the pruning presumes of the statistics, and it is true of the
formulas of the code without their error terms (a confidence of zero, as in
`MCRanking`); with error terms a larger count can widen an interval.

*CountdownHasOneHolder, FastPathSafe.* `OneHolder` alone is not inductive: when a holder calls a
function without exporting, the callee must itself never call anything that
reaches a site. The invariant therefore says that above a holder only functions
outside `Weighty` run (`WeightlessAbove`), which `WeightyAssumption` makes
inductive; per frame (`FrameOK`) it says that a live countdown is positive, that
what is plain is untransformed, that "import" only stands at a header, and that
in the original copy the countdown exceeds the rest of the region. The last is
established by the threshold check (`ChoiceCovers`) and preserved by a site
because weights decrease along a path by at least the site's scale
(`SiteWeight`). So no decrement on the fast path ever wraps.

*Refinement of naive sampling.* Needs to know which local is live after each step (`LiveTop`,
`LiveImport`, `LiveSame`), from uniqueness of the holder; then each action maps
to the naive one: both sites to `Site`, moves to `Move`, `Call` and `Return` to
themselves. With the countdown in a local, sites of weight one are needed because
in the instrumented copy the local is unsigned and a heavier site may pass zero
without meeting it (see the hazard at `countdown.ml` 95). In the global it is an
`int`: after a site it is due exactly if read as a signed number it is not
positive (`DueIsDue`), which a heavy site cannot miss as long as what is drawn and
what is taken away are numbers an `int` can hold, as both come to the generated
code (`random-online.c` 111). Between statements the global is therefore a
positive signed number (`SignedInv`).

*Weightiness.* Closed: if no progress was made in this pass, the functions visited
so far are settled: they are collected if one of their calls is weighty with
respect to the *present* collection. At the end of such a pass that is all of
them. Exact: nothing is collected in vain because a collected function has a
chain of calls, no longer than the collection, to a site or out of sight
(`ExactInv`, which TLC checks on all states of the run); nothing is missed
because the last function on a chain that is not collected would have a weighty
call.

*FlowProofs* (with the definitions in *Bodies*). While a body is written it stays
`Written`: its parents form a tree (`Tree`), no goto leads to itself, what breaks
or continues is in something to break or continue: the guards of all writing
actions are gathered in one fact about the item (`Fits`, `NextWrites`). A complete
body is `Closed`, because as many ends as compound statements, no two of which end
the same one, end all of them. Two facts about the tree carry the rest: behind the
end of a statement nothing is in it (`BehindTheEnd`), and control falls ahead or
back to a loop around (`FallIs`). So in a body without loops every link but a
backward goto leads to a later item (`LinksForward`): the last item of a cycle is a
backward goto. `LinksKept` compares the links of the two bodies kind by kind.
Because links lead forwards, the memo of `weigh` exists and satisfies its recursion
(`WeighStep`), from the last item on; a weight is then an upper bound of each
neighbour's plus its own, and reached at one of them (`WeighBounds`); and what
bounds neighbours tightly bounds paths tightly, for any measure that adds up
(`Tight`), of which there are two, the sum of the scales and the number of sites.
`RoomInv` says that what is written and still has to be closed fits into `Size`,
where `Weights` is defined.

`Splice` is met once, for all its uses (`SpliceRewrites`): a piece of items before
and a piece behind each item give offsets that are sums of lengths, the rewritten
body is what `Layout` says item by item, and its tree is the old one with the
blocks put in (`NewParent`). `LayoutFall` carries `Fall` from one body to the
other, so a rewritten body is again `Finished`, and where control comes from is
known (`Came`): an item is fallen into by what stands before it or by what is
closed there. `DefaultsFinished` and `Prepatched` apply this to the two halves of
`prepatch`; `CaseLinks` then goes through the kinds of statement that may link to
a case. The invariant that is needed besides (`PlainInv`) says what a body that is
written has in it: only gotos have destinations, and an `if` has one `else`.

`Balancing` weighs the body that `patch` makes. What `prepatch` and `RemoveLoops`
leave is `Prepared`: links lead ahead, branches begin with an instruction of their
own, every switch has a default, and only a switch and gotos lead to a case. No
successor of a split then outweighs it (`WeightsDescend`, what
`prependCounterweights` asserts), and `Patched` says, item by item, what stands where.
`Expected` is what each statement of the new body should weigh: what it
weighed before, a case's block as much as its switch, and a counterweight one more
than what follows it. With these weights every statement is `Even` (`AllEven`,
statement by statement): it weighs its site and its heaviest successor, and its
successors weigh the same. Along links that lead ahead only one function bounds
neighbours tightly (`BoundsAgree`), so these are the weights that `weigh` finds in
the new body (`PatchWeighs`), and the heaviest is what it was (`SameHeaviest`). The
invariant gains `LabelInv`: cases are in a switch, and no call is one. The proof
needs neither a split in the body nor that `prepatch` keeps its list of splits;
`BalancedPathsAgree` states these because without them the code does not get as far.

*Countdowns.* Five parts over the types: a thread's generator stands where its
draws have left it (`DrawsInv`); two threads have no seed in common but zero and
the one that was told, and no generator is used before it was seeded (`SeedsInv`);
what a child has of its parent is worth one sample (`ChildInv`); before `main` there
is one thread, and nothing is set until its first call (`StartInv`); while the
report is open the exit handler that closes it comes first, and the table and the
entropy stream are there (`ReportInv`).

*Reporting.* Undisturbed, a thread's stack is an unregistration, a report, or an
unregistration that a report which drains the registry has called; so the program
counters say who holds which lock, and how often (`StackInv`, `LockInv`). One
destructor runs at a time (`LinkerInv`); what is linked or being written is mapped
(`RegistryInv`); `unitCount` lags behind the list by one while a unit is written
(`CountInv`); the file is open until the registry is empty (`FileInv`). On these
rest what is in the stream: how far a parser has come follows from who is
writing (`GrammarInv`), and each load of a unit is in the stream, linked, or on its
way there (`DeliveryInv`). TLC agrees with all ten parts on the states of the run
`reporting`.

*ReportPipe.* Whoever may still write holds the write end (`WritersInv`); what is
in the pipe is the end of what was sent (`PipeInv`); and the reader's state is a
function of how far it has read (`ReaderInv`), so that at end of file it is a
function of all that was sent. Each step then maps to a send, a receive, the
closing of the channel or a stutter.

*Launcher.* Four invariants of a single run (`ConsentInv`, `LifeInv`, `TrayInv`,
`SteadyInv`), each inductive given the types; a step of another run or of the
user is one more case. The key to both consents is that `asked` is never withdrawn,
so a switch read as on *after* `asked` was on together with it.

*Ranking.* What dilution has left of a run set (`Left`, in `RankingInv`) is, when it
is exact, the runs that no winner explains with their counts, and when it is
approximate the bits as loaded with counts that are no larger; the failures are
discounted first, from the winner's own bits. Each winner explains a failure, since
its lower bound is positive only with a failure left. The estimates follow from
counting unions and intersections of run sets, given that the static count of
successes covers the passing runs (`SuccessesInv`). For the search the invariant
says that the best so far is at least as good as each pair considered: a pair
is skipped only if its estimate, hence by `MonotoneStatistics` its score, is no
better.

*Recursive functions and sums.* The library's induction theorems cannot be used
here, so a statement about all numbers up to a bound, all items of a body or
all subsets is proved from the least (or largest) one that breaks it
(`LeastNumber`, `LargestNumber`, themselves from `NatLessThanWellFounded`). In
this way recursive functions are shown to exist and to satisfy their equations
(`ClimbExists`, `ParentIs`, `WeighStep`), and the library's sum over a set to be
one (`TotalIs`).

Only model-checked:

* liveness, which is out of this prover's reach: `SitesAreSampled`, `AnalysisEnds`,
  `ThreadsSample`, `ReportingEnds`, `WrapperFollows`, `ReportIsTaken`, `EverythingEnds`;
* the refutations, which are counterexamples.

## 5. Not modelled

See `PROJECT.json` for the reason of each: timestamps (planned below), schemes and
site finders, the sections' printing, `loopless` and the embedded data, driver,
tools, server, fuzzing and mining, the offline analyses but the ranking,
vendored `boost_1_39_0` and `cil`, demonstrations and packaging. By far the
most lines of the repository are vendored libraries, converters from one file
format to another, and syntax-directed walks; what has state of its own, or
processes that meet, is modelled or named below.

## 6. Plan

In this order:

1. *Abstract report*: a specification of what the reader of the descriptor may
   get (a set of pending loads, a set delivered, complete or not), implemented by
   `Reporting`; it takes over `ReportIsComplete`.
2. *Timestamps*: one clock, first and last of a site, read at the report.
3. *TaskRunner* (a pool of forked jobs) and *loopless* (a fixpoint like
   `Weighty`).
