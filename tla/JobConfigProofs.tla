--------------------------- MODULE JobConfigProofs ---------------------------
(***************************************************************************)
(* Proofs about the job configuration, for every command line: the tables  *)
(* of tools and outputs agree, so that an accepted job can be run.         *)
(***************************************************************************)
EXTENDS JobConfig, TLAPS

(***************************************************************************)
(* The rows of the two tables, as sets.                                    *)
(***************************************************************************)
LEMMA ToolRows ==
  ASSUME NEW t
  PROVE  /\ In(t, ToolsOf("java")) <=> t \in {"jcmd", "async-profiler"}
         /\ In(t, ToolsOf("python")) <=> t \in {"pyspy", "austin"}
         /\ In(t, ToolsOf("go")) <=> t \in {"bpf", "pprof"}
         /\ In(t, ToolsOf("node")) <=> t \in {"bpf", "perf", "node-dummy"}
         /\ In(t, ToolsOf("ruby")) <=> t = "rbspy"
         /\ \A l \in {"rust", "clang", "clang++"} : In(t, ToolsOf(l)) <=> t \in {"bpf", "perf"}
BY DEF In, ToolsOf, ToolsByLanguage

\* The same for the table of outputs.
LEMMA OutputRows ==
  ASSUME NEW o
  PROVE  /\ In(o, OutputsOf("async-profiler")) <=>
              o \in {"flamegraph", "jfr", "flat", "traces", "collapsed", "tree", "raw"}
         /\ In(o, OutputsOf("jcmd")) <=>
              o \in {"jfr", "threaddump", "heapdump", "heaphistogram", "raw"}
         /\ In(o, OutputsOf("pyspy")) <=>
              o \in {"flamegraph", "speedscope", "threaddump", "raw"}
         /\ In(o, OutputsOf("rbspy")) <=>
              o \in {"flamegraph", "speedscope", "callgrind", "summary", "summary-by-line"}
         /\ In(o, OutputsOf("node-dummy")) <=> o \in {"heapsnapshot", "heapdump"}
         /\ In(o, OutputsOf("pprof")) <=> o \in {"pprof", "heapdump", "raw"}
         /\ \A t \in {"bpf", "perf", "austin"} :
              In(o, OutputsOf(t)) <=> o \in {"flamegraph", "raw"}
BY DEF In, OutputsOf

\* The first of a row is in it, and every row names known tools and outputs.
LEMMA DefaultTool ==
  ASSUME NEW l \in Languages
  PROVE  In(ToolsOf(l)[1], ToolsOf(l)) /\ \A t : In(t, ToolsOf(l)) => t \in Tools
<1>1. In(ToolsOf(l)[1], ToolsOf(l))
  BY DEF Languages, In, ToolsOf, ToolsByLanguage
<1>2. \A t : In(t, ToolsOf(l)) => t \in Tools
  BY ToolRows DEF Languages, Tools
<1>q. QED
  BY <1>1, <1>2

\* The same for the default output.
LEMMA DefaultOutput ==
  ASSUME NEW t \in Tools
  PROVE  In(OutputsOf(t)[1], OutputsOf(t)) /\ \A o : In(o, OutputsOf(t)) => o \in Outputs
<1>1. In(OutputsOf(t)[1], OutputsOf(t))
  BY DEF Tools, In, OutputsOf
<1>2. \A o : In(o, OutputsOf(t)) => o \in Outputs
  BY OutputRows DEF Tools, Outputs, SupportedOutputs
<1>q. QED
  BY <1>1, <1>2

\* The switch of GetProfilingTool agrees with the row of the language.
LEMMA ToolForFits ==
  ASSUME NEW l \in Languages, NEW t, NEW o
  PROVE  /\ In(ToolFor(l, t, o), ToolsOf(l))
         /\ In(t, ToolsOf(l)) => ToolFor(l, t, o) = t
<1>1. In(GetProfilingTool(l, o), ToolsOf(l))
  BY ToolRows, DefaultTool DEF GetProfilingTool
<1>2. In(t, ToolsOf(l)) => t \in Tools /\ t # Blank
  BY DefaultTool DEF Tools, Blank
<1>q. QED
  BY <1>1, <1>2, DefaultTool DEF ToolFor

(***************************************************************************)
(* validateOutputType keeps what the tool's row has.  The row of pprof     *)
(* names an output that supportedOutputTypes lacks, but it is the default. *)
(***************************************************************************)
LEMMA OutputForFits ==
  ASSUME NEW t \in Tools, NEW o
  PROVE  /\ In(OutputFor(t, o), OutputsOf(t))
         /\ In(o, OutputsOf(t)) => OutputFor(t, o) = o
<1>1. In(OutputFor(t, o), OutputsOf(t))
  BY DefaultOutput DEF OutputFor
<1>2. ASSUME In(o, OutputsOf(t)) PROVE OutputFor(t, o) = o
  <2>1. CASE o \in SupportedOutputs
    BY <1>2, <2>1 DEF OutputFor
  <2>2. CASE o \notin SupportedOutputs
    <3>1. o = "pprof"
      BY <1>2, <2>2, DefaultOutput DEF Outputs
    <3>2. t = "pprof"
      BY <1>2, <3>1, OutputRows DEF Tools
    <3>q. QED
      BY <3>1, <3>2, <2>2 DEF OutputFor, OutputsOf
  <2>q. QED
    BY <2>1, <2>2
<1>q. QED
  BY <1>1, <1>2

-----------------------------------------------------------------------------

(***************************************************************************)
(* An accepted job is the one of its arguments, which passed the checks.   *)
(***************************************************************************)
JobIsOfArgs ==
    /\ args \in Args
    /\ status = "accepted" => Accepted(args) /\ job = JobFor(args)

\* A job is made of the command line it was read from.
LEMMA JobIsOfArgsHolds == Spec => []JobIsOfArgs
<1>1. Init => JobIsOfArgs
  BY CommandLinesAssumption DEF Init, JobIsOfArgs
<1>2. JobIsOfArgs /\ [Next]_vars => JobIsOfArgs'
  BY DEF JobIsOfArgs, Next, Accept, Refuse, vars
<1>q. QED
  BY <1>1, <1>2, PTL DEF Spec

\* The fields of an accepted job.
LEMMA AcceptedJob ==
  ASSUME JobIsOfArgs, status = "accepted"
  PROVE  /\ args.lang \in Languages
         /\ job.tool = ToolFor(args.lang, args.tool, args.output)
         /\ job.tool \in Tools
         /\ job.output = OutputFor(job.tool, args.output)
         /\ job.chunk = ChunkSize(job.output, args.chunk)
         /\ job.duration = DurationOf(args) /\ job.interval = IntervalOf(args)
<1>1. args.lang \in Languages
  BY DEF JobIsOfArgs, Args, Accepted, NamesFit
<1>2. job = JobFor(args)
  BY DEF JobIsOfArgs
<1>3. ToolFor(args.lang, args.tool, args.output) \in Tools
  BY <1>1, ToolForFits, DefaultTool
<1>q. QED
  BY <1>1, <1>2, <1>3 DEF JobFor

(***************************************************************************)
(* Whatever the command line, tool and output of an accepted job fit the   *)
(* tables, and what was asked for is kept when it fits.                    *)
(***************************************************************************)
THEOREM TablesAgree == Spec => []JobFitsTables
<1>1. JobIsOfArgs => JobFitsTables
  BY AcceptedJob, ToolForFits, OutputForFits DEF JobFitsTables
<1>q. QED
  BY <1>1, JobIsOfArgsHolds, PTL

(***************************************************************************)
(* Whatever the command line, an accepted job has a chunk size if it needs *)
(* one, and a positive interval fits into its duration.                    *)
(***************************************************************************)
THEOREM AcceptedCanRun == Spec => []JobCanRun
<1>1. JobIsOfArgs => JobCanRun
  <2> SUFFICES ASSUME JobIsOfArgs, status = "accepted"
               PROVE  /\ PublishesInChunks(job.tool, job.output) => job.chunk # Blank
                      /\ job.interval > 0 => job.duration \div job.interval >= 1
    BY DEF JobCanRun
  <2>1. PublishesInChunks(job.tool, job.output) => job.output \in {"heapdump", "heapsnapshot"}
    BY AcceptedJob, OutputForFits, OutputRows DEF PublishesInChunks
  <2>2. PublishesInChunks(job.tool, job.output) => job.chunk # Blank
    BY <2>1, AcceptedJob DEF ChunkSize, Blank
  <2>3. args.duration \in DurationArgs /\ args.interval \in DurationArgs
    BY DEF JobIsOfArgs, Args
  <2>4. DurationOf(args) \in Int /\ IntervalOf(args) \in Int
    BY <2>3, DurationsAssumption DEF DurationOf, IntervalOf, DefaultDuration
  <2>5. job.interval <= job.duration /\ job.interval \in Int /\ job.duration \in Int
    BY <2>4, AcceptedJob DEF JobIsOfArgs, Accepted, DurationsFit
  <2>6. job.interval > 0 => job.duration \div job.interval >= 1
    BY <2>5, Z3
  <2>q. QED
    BY <2>2, <2>6
<1>q. QED
  BY <1>1, JobIsOfArgsHolds, PTL
=============================================================================
