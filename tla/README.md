# application-profiler: a TLA+ model of the profiling agent

The repository builds one program, an agent that runs beside a container, finds
the processes in it, profiles them with the tool of their language, and leaves
the results in its tmp directory for a client that reads its events from
standard output. This directory models the agent: what it tells the client,
what it leaves on disk and in the target, and how it ends.

## 1. The system

| component | source | state | operations | made correct by |
|---|---|---|---|---|
| job configuration | `action/profile/profile.go`, `api/*.go`, `util/flamegraph/factory.go` | the tables of languages, tools, outputs; the job | `NewAction`, `getProfilingJob`, `GetProfilingTool` | every accepted job has a code path, a positive number of iterations, a chunk size where it needs one |
| agent process | `cmd/agent/main.go` | the globals `p` and `profilingJob`, the done channel, the grace timer | `main`, `runApp`, `handleSignals`, `handleForDone`, `handleForEnding` | announced files stay for the grace period, nothing that can be removed stays after it, SIGTERM ends it (but for jcmd, whose two overlapping `CleanUp`s can block: `jcmd_auto_deleted`) |
| profiling run | `action/profile/profile.go` | `job.Iteration` | `Run` | one closing event; Ended only with a result per iteration |
| fan-out | `profiler/common/pids.go` | one error slot per PID, a WaitGroup | `ProfilePIDs` | verdict and notice agree with what was published; a barrier |
| candidate PIDs | `util/container.go`, `util/runtime/` | none of its own; the target's process tree | `GetCandidatePIDs`, `fillWithChildrenPIDs`, `filterPIDsToProfile`, `GetFirstCandidatePID`, the runtimes' `PID` | no process twice, the leaves of what did not change as far as pgrep answers, it ends |
| tools | `profiler/{bpf,perf,python,python_austin,ruby,go_pprof}.go`, `profiler/jvm/async_profiler.go` | files in the agent's tmp directory, or in the target's behind a link | `SetUp`, `Invoke`, `invoke`, `handleFlamegraph`, `findListeningPortForPID`, `CleanUp` | nil exactly when a result was announced; the result is whole and of this run; CleanUp leaves nothing that it can remove |
| jcmd | `profiler/jvm/jcmd.go` | the channel `recordingPIDs`, recordings in the JVM | `Invoke`, `handleJcmdRecording`, `CleanUp` | whole recordings, none left running, no CleanUp that blocks |
| Node.js snapshots | `profiler/node_dummy.go` | snapshot files in the target's directory | `SetUp`, `Invoke` | the snapshot that was asked for, complete; it gives up in the end |
| publisher | `util/publish/publisher.go`, `pkg/util/file/file.go`, `pkg/util/compressor/` | result files, events | `Do`, `DoWithNativeGzipAndSplit` | the event describes the files that are there |

How they interact. `main` starts two goroutines (signals, done), then calls
`runApp`: it builds the job, assigns the globals and calls `Run`, which calls
`SetUp` once and `Invoke` once per iteration. `SetUp` takes the PIDs from
`GetCandidatePIDs`; `Invoke` hands them to `ProfilePIDs`, which runs one
goroutine per PID; each runs the tool's `invoke` and ends in the publisher.
When `Run` is over, with or without an error, `main` waits for the grace period
and calls `CleanUp`; the SIGTERM handler calls `CleanUp` at any time.

What is hard here: `CleanUp` has two callers that may overlap each other and the
goroutines of `Invoke`; jcmd's stop requests go through one shared buffered
channel; the target is another program that forks, exits, writes and hangs
while the agent looks at it; every tool is a pipeline of commands each of which
may fail, or succeed and write nothing; a removal that fails is logged and no
more (`file.go:54-57`), a pgrep that fails is read as "no children"; an agent that is killed leaves files in
the target that the next one finds; hand-kept tables must agree.
`PROJECT.json` lists each hazard at its line.

## 2. The modules

| module | models | theorems |
|---|---|---|
| `PidOutcome` | what `ProfilePIDs` promises: PIDs publish, one step decides | |
| `ProfilePIDs` | the loop, the goroutines, error slots and WaitGroup; implements `PidOutcome` | `ProfilePIDsProofs` |
| `AgentLifecycle` | main, the run, the grace timer, the signal and done goroutines; uses `Invoke` through `PidOutcome`, and the goroutine of a PID as in `PidWorker` | `AgentLifecycleProofs` |
| `PidWorker` | what a profiler promises for one PID: write, compress and announce once, or fail without an event | |
| `JcmdRecording` | recordings, watchers, `recordingPIDs`, `CleanUp` and its two callers | `JcmdRecordingProofs` |
| `NodeHeapSnapshot` | signal, polls, copy, removal, publish, against the Node process | `NodeHeapSnapshotProofs` |
| `JobConfig` | flags to job, with the tables | `JobConfigProofs` |
| `Publisher` | the steps of the publisher over the files of one PID | |
| `TargetTmp` | the steps of `SetUp` of async-profiler and jcmd, over what a killed agent left; extends `Publisher` | |
| `PprofPort` | the choice of the port to scrape from the lines of ss | |
| `ToolPipelines` | `SetUp`, `invoke` and `CleanUp` of the tools, composed of the steps of `TargetTmp`, `PprofPort` and `Publisher`; implements `PidWorker` | `ToolPipelinesProofs` |
| `CandidatePIDs` | the walk and the filter against a changing process tree | `CandidatePIDsProofs` |

Each `MC*` module gives a module its bounds, and each `*Proofs` module holds the
theorems about a module, for any bounds. Definitions named in comments as *Mutant* are wrong
versions of the definition that follows them; no specification uses them, they
show that a property can fail.

### How state and actions correspond to the code

* **ProfilePIDs.** `errs`, `wg` and the loop index are the code's. `Publish` and
  `Return` are two steps, so that a goroutine that has printed its result and
  not yet returned is a state. `PidOutcome` is the same call without slots or
  WaitGroup, and `AgentLifecycle` instantiates that instead of the goroutines.
* **AgentLifecycle.** One action per step of `main` between which another
  goroutine can be seen to act. `p` and `profilingJob` are assigned without a
  lock, so `AssignProfiler` and `AssignJob` come in either order and the signal
  handler may find one without the other; a `CleanUp` that reads the nil job
  panics, which ends the process. The count of iterations is a float quotient
  converted to `int64`: +Inf (zero interval) is no iteration on amd64 and very
  many on arm64, and the images are built for both, so both outcomes are
  allowed; a negative interval gives a negative count and a loop that is not
  entered. `RemoveAll` is a listing and one step per file, in the order of
  `filepath.Glob`; a removal may fail (`RemoveFails`), is warned about, and the
  file stays (`stuck`).
* **JcmdRecording.** `chan` is the buffered channel with capacity N and `closed`
  its state; a send blocks (is not enabled) when it is full and panics when it
  is closed. A watcher takes whatever value comes first. `JFR.start`,
  `JFR.check` and `JFR.stop` may fail. Waiting times are left to the
  interleaving. One iteration.
* **NodeHeapSnapshot.** The locals of the poll loop keep their names. A *steady*
  target writes between any two polls and never shows a file of less than two
  bytes; only for it does an unchanged size mean a complete file (a file seen
  with 0 bytes, or with 1 at the first poll, compares equal to an initial
  value). `Returns` speaks of all targets. The signal may also go to a process
  that writes nothing (`SignalMisses`): the first candidate is the root unless
  it has exactly one child, and a PID that is not a number is sent to 0.
* **JobConfig.** One step, from a command line to a job or a refusal. The tables
  are copied row by row.
* **ToolPipelines.** `Steps` is the order of a tool's steps, those of `SetUp`
  first; a step succeeds with anything the command may leave (a missing, empty,
  short, binary or header-only file) or ends `SetUp` or `invoke` with an error
  and a partial file. Names hold the PID and the iteration, so that goroutines share no file and one is
  enough. A file that `CleanUp` cannot remove stays (`CleanUpSpares`, `spared`),
  and so may austin's copies, whose deferred removal drops its error. `CleanUp`
  may start at any step; properties about what it leaves and
  what an event says hold for one that does not race (`racing`). Node's poll
  and jcmd's recordings are left to their own modules; what comes after them,
  the publish, is here too.
* **TargetTmp.** `tmp` says where the agent's tmp directory leads; until the
  link is made, a `CleanUp` finds nothing. `files` are those of the target for
  these two tools, and begin with any set of names that an agent killed at some
  step can have left (`stale`); those that `SetUp` cannot remove stay, and it
  goes on (`refused`). A target may have the loaders of both C
  libraries; the JVM runs on one of them, the agent only sees the loaders.
* **PprofPort.** A line of ss is one of five kinds: a listener of the PID, one
  of another process whose line happens to contain the PID's digits, one with
  the digits and without a numeric port, which is skipped, one without the
  digits, and a socket that does not listen.
* **Publisher.** A codec either makes one write, whose error it returns, or
  writes a stream whose end is written by a `Close` with its error dropped: the
  second may leave a `cut` file and report success. The `gz` file may stay after
  its chunks are made: the error of its removal is dropped.
* **CandidatePIDs.** The recursion as the sequence of PIDs still to visit, in
  the order the calls are made; `Listed` is the answer of pgrep, all the children
  in the order of their PIDs. A pgrep that fails (is not started, is killed, or
  exits with 2 or 3) is read as one that found nothing: `VisitFails` makes the
  process a candidate, and what is below it is not visited (`misread`). The tree
  changes between any two commands; `Line`
  is a process with its ancestors, as the least set closed under `parent`, and
  `Still` says that none of them has changed.
  A process that has gone has no children and no command line; the exit status
  of `contrib/get-ps-command.sh` is that of its last command, so a gone process
  is filtered out and not an error. The PID of a stopped container is the old
  one in containerd's file and 0 in the state of CRI-O (`StoppedIsZero`), from
  where the walk goes over the node's processes, which are all one here.

## 3. What the runs check

Passing runs.

| run | instance | distinct states |
|---|---|---|
| `fan_out` | up to 4 PIDs | 3 500 |
| `agent_lifecycle` | 2 PIDs, 2 iterations, durations -1..2, one removal that fails | 546 000 |
| `jcmd_recordings` | 2 PIDs, jfr and raw | 43 000 |
| `node_snapshot` | 2 iterations, 4 retries, 4 bytes | 53 000 |
| `job_config` | every language, tool and output, all pairs of six durations | 43 000 |
| `tool_pipelines` | every tool and kind of output, a codec of each kind, up to 3 chunks and 2 lines of ss | 625 000 |
| `candidate_pids` | every tree of up to 4 processes, and none | 711 000 |

Every run but `job_config` also checks the inductive invariant `IInv` of its
module, which contains the type invariant and which section 5 proves.

* `fan_out`: the call succeeds exactly when a PID published (`VerdictSound`),
  the notice names exactly the skipped PIDs (`NoticeNamesSkipped`), nothing is
  published or stored after the join (`NothingAfterReturn`), the call returns
  (`Termination`), and the whole implements `PidOutcome`
  (`ImplementsOutcome`). Four PIDs are enough for one not started, one running,
  one failed and one published at the same time.
* `agent_lifecycle`: a file named by an event is there until SIGTERM or the end
  of the grace period (`AnnouncedFilesStay`); after Ended or the error event
  the stream is closed (`EventStreamCloses`); Ended means a result in every
  iteration counted (`EndedHasEveryIteration`); neither the end of the grace
  period nor a SIGTERM within it leaves a file but one whose removal failed
  (`GraceExitIsClean`, `SigTermInGraceIsClean`), although both `CleanUp`s may run
  at once; a `CleanUp` that panics on the nil job does so before the run has begun, with nothing
  written or announced (`PanicLosesNothing`); SIGTERM
  and the end of the run end the process (`SigTermEnds`, `EndingEnds`). Two
  iterations are the fewest with an earlier result to lose, two PIDs the fewest
  with one that writes while another has published. One failing removal in all
  is enough for it to fall to either `CleanUp`, with the other's still to come.
* `jcmd_recordings`: a `CleanUp` that is the only one never blocks and never
  panics (`SoleCleanUpIsFree`); without SIGTERM and with working checks only
  whole recordings are published (`PublishesWholeRecordings`); the grace
  period's end leaves no recording running that a stop command could stop
  (`GraceExitStopsRecordings`); the agent ends (`EndsWithoutSigTerm`,
  `SigTermEndsAlone`). With two PIDs a stop request can reach the wrong
  watcher; three PIDs (1 500 000 states, three minutes) show nothing new.
* `node_snapshot`: an iteration publishes its own snapshot if no signal so far
  found another in the way (`PublishesOwnSnapshot`), a complete one if the
  target is steady (`PublishesWholeSnapshot`), and the run ends (`Returns`).
* `job_config`: tool and output of an accepted job are known to all tables
  (`JobFitsTables`), jobs published in chunks have a chunk size and a positive
  interval means at least one iteration (`JobCanRun`).
* `tool_pipelines`: every tool implements `PidWorker`, which is what
  `AgentLifecycle` takes it for: nil exactly when one result was announced, none
  from a PID that fails (`ImplementsWorker`); what it announced is there, text, and all its chunks
  with their size, beside none but previous ones that `SetUp` could not remove,
  and cut only by a codec that streams, which the default gzip is
  (`AnnouncedIsWhole`); a flame graph was drawn from stacks (`DrawnFromStacks`);
  a result that a killed agent left in the target is announced only if `SetUp`
  could not remove it (`AnnouncesOwnRun`); the JVM gets the library of its libc,
  but for a glibc JVM beside a musl loader (`LibraryFits`); `CleanUp` leaves no
  file that can be removed but perf's raw profile and jcmd's settings, whichever
  step of `SetUp` or `invoke` failed (`CleanUpRemovesAll`). Three
  chunks are the fewest with a longer and a shorter dump of more than one; two
  lines of ss have a lookalike before or after the PID's own.
* `candidate_pids`: no process is listed twice however the tree changes
  (`NoDuplicates`), a process that did not change, nor any of its
  ancestors, is listed exactly when it has no children or its own pgrep failed,
  and none of its ancestors' did (`CandidatesAreLeaves`), and the walk ends
  (`WalkEndsAtLast`). Four processes allow a
  chain, brothers, and a fork or an exit ahead of, at and behind the walk.

Violating runs: each states what a line of the repository says, and the run
shows that the code does otherwise.

| run | what is said | what happens |
|---|---|---|
| `agent_ended_has_result` | a run without a result must not succeed (`pids.go:27`) | a zero or negative interval runs no iteration and prints Ended |
| `jcmd_auto_deleted` | after the grace period the agent is auto-deleted (`main.go:247`) | a SIGTERM during the last `CleanUp`: two loops fill a channel nobody reads, both block |
| `jcmd_stopped_is_ignored` | a stopped recording is ignored (`jcmd.go:226`) | its stop request is sent while the watcher runs JFR.check and is never read; the check shows the recording stopped, the watcher ends with done, and it is published |
| `pprof_own_port` | the line of ss belongs to the PID (`go_pprof.go:247`) | a line with the PID's digits in a longer PID or a port is taken, and another process is scraped |
| `job_defaults` | without a tool, an output is made by the default tool of its language (`README.md:57-64` of the repository) | jcmd records Java's jfr, not async-profiler; bpf takes Go's heapdump and raw and Node's flame graph; Rust's flame graph has no script to draw it |

## 4. Fairness

* `ProfilePIDs`: the caller and every goroutine, since Go schedules what is
  runnable and the tools are started with a duration; publishing itself is not
  assumed.
* `AgentLifecycle`: only the ending part of main, the timer, the signal and the
  done goroutine. The steps of the run are not fair: a tool may hang, and
  `SigTermEnds` holds all the same. A SIGTERM need not come.
* `JcmdRecording`: every goroutine, jcmd's commands, and the end of a recording
  after its duration. A SIGTERM need not come.
* `NodeHeapSnapshot`, `CandidatePIDs`: the agent's own steps. The target owes
  nothing.

## 5. What is proved

For every value of the constants, with TLAPS: every safety property that a
passing run checks, invariant, action property or refinement. Each module has
its inductive invariant `IInv` in a section of its own behind the properties, as
a conjunction of named parts; TLC checks it in the runs, and `InvariantHolds` is
`Spec => []IInv`. The properties follow from it.

* `ProfilePIDsProofs` (assuming only that the bound on PIDs is a natural
  number). The verdict is computed from the error slots, but what it should say
  is about the published results, so neither `VerdictSound` nor the barrier is
  inductive. `IInv` adds what connects them: the WaitGroup counts exactly the
  launched goroutines that may still act (`Counted`), a goroutine that has
  exited has either its result or its error (`Slots`), and each stage of the
  caller fixes how far the others are (`Stages`). The lemma
  `FailedIsUnpublished` is the heart: after the join, failed slots are exactly
  the PIDs without a result. From it `VerdictCorrect`, `NoticeCorrect`,
  `BarrierHolds` and, step by step, `FanOutImplementsOutcome`, which is why
  `AgentLifecycle` may use `PidOutcome` in its place.
* `AgentLifecycleProofs` (any number of PIDs and iterations, any set of integer
  durations, any bound on failing removals, and both kinds of `CleanUp`). What has to be added is that no
  goroutine of `Invoke` outlives `Invoke` (`Joined`), so that nothing is written
  or printed when the run is over; that a panic can only fall into the window
  of the two assignments (`Assigned`); that each iteration left behind has a
  result (`Progress`); the order of the closing events, the timer, the handler
  and the two `CleanUp`s (`Ending`); and that no file appears after the listing
  of the last `CleanUp`, so that what is left is what it could not remove
  (`Swept`). Then `FilesStay`, `EndedIsComplete`,
  `GraceExitCleans`, `PanicIsHarmless`, and `StreamCloses` for the events.
  `SigTermInGraceCleans` is about the rest of a behaviour from the first state
  of the grace period on: a second invariant, `GraceSwept`, holds there because
  the handler has not begun, and every later step keeps it.
* `JcmdRecordingProofs` (any number of PIDs). `SoleCleanUpIsFree` needs that the
  channel never holds more than the `CleanUp`s have sent, that a `CleanUp` about
  to send has a PID left, and that the channel is closed only by a `CleanUp`
  that has finished (`Backlog`): the one `CleanUp` has sent fewer than N, so
  there is room (`SoleCleanUpNeverBlocks`). For `RecordingsAreWhole` and
  `GraceExitStops`, goroutines record only while main is in the run (`InRun`),
  only a SIGTERM stops a recording before that (`Recorded`), and main's
  `CleanUp` leaves none running behind the PID it is at (`StoppedBehind`).
* `NodeHeapSnapshotProofs` (any number of retries, at least one iteration, any
  size). While no signal has found a file, the target can only be writing, and
  the poll only finding, the file of the last signal (`OnlyOwn`): `OwnSnapshot`.
  The size seen at the last poll is smaller than that of a file that has grown
  since (`SizesTell`), so equal sizes mean a complete file: `WholeSnapshot`.
* `JobConfigProofs` (any set of command lines over the tables, any durations).
  An accepted job is the one of its arguments (`JobIsOfArgs`); what is left is
  about the tables, case by case, and about the order of duration and interval:
  `TablesAgree`, `AcceptedCanRun`.
* `ToolPipelinesProofs` (any non-empty sequence of chunk suffixes whose names are not
  names of other files, any number of lines of ss). The steps of a tool are a
  sequence, so what is true at a step is what the steps before it have done.
  `IInv` says so file by file: the raw profile and the output (`RawHolds`,
  `OutHolds`), the compressed file and the chunks (`Encoded`, `Chunked`), the
  library (`Loaded`); a previous agent's files are gone, or were refused to be
  removed, before a result is written (`Fresh`, `Linked`), and an old result in
  an event comes from one that was refused (`Traced`); whatever a tool writes is
  of a name that its `CleanUp` matches or is known to miss (`Owned`), and the
  names behind a `CleanUp` are gone or spared (`Removed`). A lemma on the order of the steps of
  each tool (`StepOrder`) tells which step comes next. Then `WholeResult`,
  `GraphOfStacks`, `OwnRun`, `FittingLibrary`, `CleanUpIsComplete`,
  and `WorkerIsImplemented`: each step of a tool is a step of `PidWorker` or
  none, which is what `AgentLifecycle` takes a goroutine for.
* `CandidatePIDsProofs` (any positive number of processes). That a list has no
  duplicates says nothing of what the walk will still meet. `Once` adds, for each
  PID to visit, a set that contains all that is below it, is closed under
  children and was not met: a fork extends it, an exit hands processes out of it
  to the root, which is not visited again, and a visit takes the new PIDs
  out of the others' sets, whose processes are not their parent. It needs that
  the processes are a tree at any time (`Tree`: a living process leads up to the
  root). From it `NoneTwice`. For `LeavesOfWhatStood`, a step of the target leaves
  the line of a process that stands still after it as it was (`StillStood`;
  `Mourned` says why a reaping cannot make the root a leaf unnoticed), and the
  walk is on that line until it has come to the process (`Walked`), or ended at
  an ancestor whose pgrep failed, below which nothing was met (`Missed`).

Only model-checked: the liveness properties (`Termination`, `SigTermEnds`,
`EndingEnds`, `EndsWithoutSigTerm`, `SigTermEndsAlone`, `Returns`,
`WalkEndsAtLast`) and the fairness in `ImplementsOutcome`, whose safety part is
proved, since fairness and ENABLED are out of the prover's reach; and the
violating runs, which are counterexamples.

## 6. Known disagreements without a run

* A SIGTERM during the run: `CleanUp` misses the files that the goroutines of
  `Invoke` write after its listing, and the process exits with them on disk.
* A SIGTERM between the two assignments of `p, profilingJob`: `CleanUp` gets a
  nil job and perf, async-profiler and jcmd panic (nothing is lost by it, see
  `PanicLosesNothing`).
* A SIGTERM's `CleanUp` of jcmd stops no recording of a raw job, and none that
  starts after its stop request.
* Node's `SetUp` means to remove "previous files from a previous profiling"
  (`node_dummy.go:60`); the path it gives lacks the target's root, and they stay.
* The runtime is not required (`main.go:80`); a blank one gets its default and
  is then refused (`profile.go:113-119`).
* A removal that fails is a warning in the log: the next run's `SetUp` may find
  the file, and a chunk or a result that it cannot remove either is announced
  as its own.
* A pgrep that fails is read as a process without children
  (`container.go:125-130`): that process is profiled in place of its leaves.
* perf's `CleanUp` removes the files of the job's output type, and leaves the
  raw profile from which a flame graph was drawn; jcmd's leaves the recording
  settings in the target's tmp directory.
* gzip and zstd drop the error of `Close`: a disk that fills up at the end of
  the stream gives a cut file that is announced.
* A stopped container of CRI-O has the PID 0, and the processes of the node are
  its candidates: the model stops at that, all of them being one leaf there.
* A child that exits between two pgrep calls takes its subtree out of the walk:
  its children now belong to the root, which has been visited.

## 7. Not modelled

The JSON of events and the log, with the PID legend that is added to a flame
graph; the bytes a codec makes, and `Decode`, which the agent never calls; the
options of flamegraph.pl and of the tools' command lines; the parsing of the
runtimes' state files and of the output of ps and wget; the unused helper for
Kubernetes exec and the unused helpers of `file.go`; fakes and mocks, which
only the tests use; images and scripts. These are text or calls of libraries
without a state of their own. `AdditionalArguments` is read by the flame
grapher and set nowhere in the agent. jcmd's channel is modelled over one
iteration: it is empty between two of them unless a SIGTERM has come, after
which the process exits. A recording whose JFR.check failed may outlive its
iteration, and `CleanUp` names only that of the last one (`jcmd.go:60-63`). The
reason for each part is in `PROJECT.json`.

## 8. Plan

Order of the work: the fan-out, the agent's life over it, jcmd's channel, Node's
poll, the configuration, the pipelines and the walk; then `SetUp` of the JVM
tools, the port of pprof, the codecs, and `PidWorker` between the pipelines and
the agent's life; then the proofs, module by module (all done). What is left:

1. The composition the proofs suggest: `AgentLifecycle` takes `ProfilePIDs` and
   a tool for `PidOutcome` and `PidWorker`, each shown to implement it;
   a statement of both in one specification is not made.
2. The safety part of what liveness rests on: the bound on the polls of
   `NodeHeapSnapshot`, a measure that each visit of `CandidatePIDs` decreases
   while the tree stands still.
