------------------------------ MODULE JobConfig ------------------------------
(***************************************************************************)
(* From the agent's flags to its profiling job: getProfilingJob and        *)
(* NewAction (action/profile/profile.go), the tables of api/ they consult, *)
(* profiler.Get and flamegraph.Get.  Each table is written by hand in a    *)
(* file of its own, and a job is only runnable if they agree.              *)
(*                                                                         *)
(* Blank stands for a blank string and Other for one no table knows; bad   *)
(* names the first other argument that does not parse or is not known.     *)
(* Durations are whole seconds; the identifiers, the file name and the     *)
(* signal number are copied unchanged by the code and left out, the fakes  *)
(* kept for tests too.                                                     *)
(***************************************************************************)
EXTENDS Integers

CONSTANTS
    DurationArgs,     \* values of --duration and --interval: {} blank, {k} k seconds
    CommandLines      \* the command lines tried, some of Args

Blank == "blank"
Other == "other"

Languages == {"java", "go", "python", "ruby", "node", "clang", "clang++", "rust"}

\* The first tool of a language is its default.
ToolsByLanguage == [
    java    |-> <<"jcmd", "async-profiler">>,
    python  |-> <<"pyspy", "austin">>,
    go      |-> <<"bpf", "pprof">>,
    node    |-> <<"bpf", "perf", "node-dummy">>,
    ruby    |-> <<"rbspy">>,
    rust    |-> <<"bpf", "perf">>]

\* TLA+ has no field named clang++; the two rows are the same in the code.
ToolsOf(l) ==
    IF l \in {"clang", "clang++"} THEN <<"bpf", "perf">> ELSE ToolsByLanguage[l]

Tools == {"async-profiler", "jcmd", "pyspy", "bpf", "perf", "rbspy", "austin", "pprof",
          "node-dummy"}

\* The first output of a tool is its default.
OutputsOf(t) ==
    CASE t = "async-profiler" ->
           <<"flamegraph", "jfr", "flat", "traces", "collapsed", "tree", "raw">>
      [] t = "jcmd"           -> <<"jfr", "threaddump", "heapdump", "heaphistogram", "raw">>
      [] t = "pyspy"          -> <<"flamegraph", "speedscope", "threaddump", "raw">>
      [] t = "rbspy"          ->
           <<"flamegraph", "speedscope", "callgrind", "summary", "summary-by-line">>
      [] t = "node-dummy"     -> <<"heapsnapshot", "heapdump">>
      [] t = "pprof"          -> <<"pprof", "heapdump", "raw">>
      [] OTHER                -> <<"flamegraph", "raw">>     \* bpf, perf, austin

\* supportedOutputTypes: every output but pprof.
SupportedOutputs ==
    {"flamegraph", "speedscope", "jfr", "threaddump", "heapdump", "heaphistogram", "flat",
     "traces", "collapsed", "tree", "callgrind", "raw", "summary", "summary-by-line",
     "heapsnapshot"}

Outputs == SupportedOutputs \cup {"pprof"}

In(x, s) == \E k \in DOMAIN s : s[k] = x

-----------------------------------------------------------------------------
(* The tool and the output.                                                *)

\* api.GetProfilingTool: the tool when none is given.  Every other case of
\* its switch names the default of the language.
GetProfilingTool(l, o) ==
    CASE l = "java" /\ o \in {"flamegraph", "flat", "traces", "collapsed", "tree", "raw"}
           -> "async-profiler"
      [] l = "go" /\ o = "pprof" -> "pprof"
      [] l = "node" /\ o \in {"heapsnapshot", "heapdump"} -> "node-dummy"
      [] OTHER -> ToolsOf(l)[1]

\* validateProfilingTool: an unknown tool, or one of another language, is
\* replaced by the default, with a warning.
ToolFor(l, t, o) ==
    CASE t = Blank -> GetProfilingTool(l, o)
      [] t \in Tools /\ In(t, ToolsOf(l)) -> t
      [] OTHER -> ToolsOf(l)[1]

\* Mutant: an output that is known is kept, whatever the tool.
OutputUnchecked(t, o) == IF o \in SupportedOutputs THEN o ELSE OutputsOf(t)[1]

\* validateOutputType: likewise for the output of the chosen tool.
OutputFor(t, o) ==
    IF o \in SupportedOutputs /\ In(o, OutputsOf(t)) THEN o ELSE OutputsOf(t)[1]

\* Mutant: the chunk size is given for heap dumps only.
ChunkSizeForDumps(o, arg) ==
    IF o # "heapdump" THEN Blank ELSE IF arg = Blank THEN "50M" ELSE arg

\* setHeapDumpSplitChunkSize.
ChunkSize(o, arg) ==
    IF o \notin {"heapdump", "heapsnapshot"} THEN Blank
    ELSE IF arg = Blank THEN "50M" ELSE arg

-----------------------------------------------------------------------------
(* The other arguments: each may refuse the job.                           *)

DefaultDuration == 60

DurationOf(a) ==
    IF a.duration = {} THEN DefaultDuration ELSE CHOOSE k \in a.duration : TRUE

IntervalOf(a) ==
    IF a.interval = {} THEN DurationOf(a) ELSE CHOOSE k \in a.interval : TRUE

\* Mutant: an interval may exceed the duration.
DurationsParse(a) == a.bad # "duration"

DurationsFit(a) == a.bad # "duration" /\ IntervalOf(a) <= DurationOf(a)

\* A blank runtime gets the default, and is then refused as unsupported.
RuntimeFits(a) == a.runtime \in {"crio", "containerd"}

NamesFit(a) == a.lang # Other /\ a.bad \notin {"event", "compressor"}

-----------------------------------------------------------------------------
(* NewAction, once, on the arguments of the command line.                  *)

Args == [lang : Languages \cup {Other}, tool : Tools \cup {Blank, Other},
         output : Outputs \cup {Blank, Other},
         duration : DurationArgs, interval : DurationArgs,
         runtime : {Blank, "containerd", Other}, chunk : {Blank, "10M"},
         bad : {"none", "duration", "event", "compressor"}]

ASSUME CommandLinesAssumption == CommandLines \subseteq Args

ASSUME DurationsAssumption ==
    \A d \in DurationArgs : d = {} \/ \E k \in d : d = {k} /\ k \in Int

VARIABLES
    args,     \* the map main.go's toArgs builds
    job,      \* the fields of the job that the properties are about
    status    \* "new", "accepted", "refused"

vars == <<args, job, status>>

NoJob == [tool |-> Blank, output |-> Blank, chunk |-> Blank, duration |-> 0, interval |-> 0]

Init == args \in CommandLines /\ job = NoJob /\ status = "new"

Accepted(a) == DurationsFit(a) /\ RuntimeFits(a) /\ NamesFit(a)

JobFor(a) ==
    LET t == ToolFor(a.lang, a.tool, a.output)
        o == OutputFor(t, a.output)
    IN  [tool |-> t, output |-> o, chunk |-> ChunkSize(o, a.chunk),
         duration |-> DurationOf(a), interval |-> IntervalOf(a)]

Accept ==
    /\ status = "new"
    /\ Accepted(args)
    /\ job' = JobFor(args)
    /\ status' = "accepted"
    /\ UNCHANGED args

Refuse ==
    /\ status = "new"
    /\ ~Accepted(args)
    /\ status' = "refused"
    /\ UNCHANGED <<args, job>>

Next == Accept \/ Refuse

Spec == Init /\ [][Next]_vars

\* flamegraph.Get: the languages with a script to draw a flame graph; any
\* other gets the fake that always fails.
HasFlameGrapher(l) == l \in {"python", "go", "node", "clang", "clang++"}

\* The tools whose invoke converts raw stacks with flamegraph.Get.
UsesFlameGrapher(t) == t \in {"bpf", "perf", "pyspy", "austin"}

\* The results published with DoWithNativeGzipAndSplit, which refuses a
\* blank chunk size: jcmd's heap dumps and everything of node-dummy.
PublishesInChunks(t, o) == t = "node-dummy" \/ (t = "jcmd" /\ o = "heapdump")

-----------------------------------------------------------------------------
(* What makes a job runnable.                                              *)

(***************************************************************************)
(* The tool of an accepted job is one of its language and the output one   *)
(* of its tool: the switch of GetProfilingTool agrees with the tables, and *)
(* what was asked for is kept whenever the tables allow it.                *)
(***************************************************************************)
JobFitsTables ==
    status = "accepted" =>
        /\ In(job.tool, ToolsOf(args.lang))
        /\ In(job.output, OutputsOf(job.tool))
        /\ In(args.tool, ToolsOf(args.lang)) => job.tool = args.tool
        /\ In(args.output, OutputsOf(job.tool)) => job.output = args.output

(***************************************************************************)
(* An accepted job has what its run needs: a chunk size if its result is   *)
(* published in chunks, and no interval longer than its duration, so that  *)
(* Run never divides positive durations down to no iteration.              *)
(***************************************************************************)
JobCanRun ==
    status = "accepted" =>
        /\ PublishesInChunks(job.tool, job.output) => job.chunk # Blank
        /\ job.interval > 0 => job.duration \div job.interval >= 1

-----------------------------------------------------------------------------
(***************************************************************************)
(* What the README says of the tools, and the code does not do.            *)
(***************************************************************************)

\* The table "Supported languages and tools": the outputs of a language,
Documented(l) ==
    CASE l = "java"   -> {"flamegraph", "jfr", "threaddump", "heapdump", "heaphistogram"}
      [] l = "python" -> {"flamegraph", "raw", "threaddump", "speedscope"}
      [] l = "go"     -> {"pprof", "heapdump", "raw"}
      [] l = "ruby"   -> {"flamegraph"}
      [] l = "node"   -> {"flamegraph", "heapdump"}
      [] OTHER        -> {"flamegraph"}

\* and its column "Default tool".
DocumentedTools(l) ==
    CASE l = "java"   -> {"async-profiler"}
      [] l = "python" -> {"pyspy"}
      [] l = "go"     -> {"pprof"}
      [] l = "ruby"   -> {"rbspy"}
      [] l = "node"   -> {"perf"}
      [] OTHER        -> {"bpf", "perf"}

(***************************************************************************)
(* With no tool given, a documented output is produced by the documented   *)
(* default tool, whenever that tool can produce it, and a flame graph by   *)
(* one whose script the language has.                                      *)
(***************************************************************************)
DefaultsAreDocumented ==
    status = "accepted" /\ args.tool = Blank /\ args.output \in Documented(args.lang) =>
        /\ (\E t \in DocumentedTools(args.lang) : In(args.output, OutputsOf(t)))
              => job.tool \in DocumentedTools(args.lang)
        /\ job.output = args.output
        /\ job.output = "flamegraph" /\ UsesFlameGrapher(job.tool)
              => HasFlameGrapher(args.lang)
=============================================================================
