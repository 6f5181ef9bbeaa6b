------------------------- MODULE ToolPipelinesProofs -------------------------
(***************************************************************************)
(* The proofs that ToolPipelines keeps its invariant and implements        *)
(* PidWorker, for every tool and output, any number of chunks and any      *)
(* length of the output of ss.                                             *)
(*                                                                         *)
(* The lemmas come in this order: what the step sequences of the tools     *)
(* have in common, so that no later proof looks at them again; which       *)
(* names a tool writes; what every step that goes on, and every step that  *)
(* fails, preserves; one lemma per group of actions; the theorems.         *)
(***************************************************************************)
EXTENDS ToolPipelines, TLAPS

(***************************************************************************)
(* The order of the steps.                                                 *)
(***************************************************************************)

\* The steps that come before the publisher.
Work == {"removeTmp", "removePrevious", "link", "lookUp", "copy", "select", "port",
         "record", "script", "cpu", "readCPU", "heap", "readHeap", "collect", "convert",
         "inspect", "draw"}

\* The jobs whose flame graph the agent draws.
Rendered(t, o) == o = "flamegraph" /\ t \in {"bpf", "perf", "pyspy", "austin"}

\* What is known of the step with index i, and of the one that follows it.
Ordered(t, o, i) ==
    LET S == Steps(t, o)
        Leads(s) == i + 1 \in DOMAIN S /\ S[i + 1] = s
    IN  /\ S[i] \in Work \cup {"pack", "announce", "gzip", "split", "measure",
                               "announceChunks"}
        /\ S[i] \notin {"announce", "announceChunks"} => i + 1 \in DOMAIN S
        /\ S[i] \in Work => S[i + 1] \in Work \cup {"pack", "gzip"}
        /\ S[i] = "pack" => S[i + 1] = "announce"
        /\ S[i] = "gzip" => S[i + 1] = "split"
        /\ S[i] = "split" => S[i + 1] = "measure"
        /\ S[i] = "measure" => S[i + 1] = "announceChunks"
        /\ t \in JvmTools => /\ i = 1 => S[i] = "removeTmp"
                             /\ i = 2 => S[i] = "removePrevious"
                             /\ i = 3 => S[i] = "link"
        /\ S[i] = "removeTmp" => t \in JvmTools /\ i = 1
        /\ S[i] = "removePrevious" => t \in JvmTools /\ i = 2
        /\ S[i] = "link" => t \in JvmTools /\ i = 3
        /\ S[i] = "copy" => t \in JvmTools
        /\ S[i] = "select" => t = "async-profiler"
        /\ t = "async-profiler" => /\ Leads("select") => S[i] = "copy"
                                   /\ Leads("collect") => S[i] = "select"
        /\ S[i] \in {"record", "script"} => t = "perf"
        /\ S[i] \in {"port", "cpu", "readCPU", "heap", "readHeap"} => t = "pprof"
        /\ S[i] = "convert" => t = "austin" /\ S[i + 1] = "inspect"
        /\ S[i] = "inspect" => t = "austin"
        /\ t = "austin" /\ S[i] = "collect" => S[i + 1] = "convert"
        /\ Leads("convert") => S[i] = "collect"
        /\ Leads("inspect") => S[i] = "convert"
        /\ S[i] = "draw" => Rendered(t, o)
        /\ S[i] = "announceChunks" => ~Rendered(t, o)
        /\ Rendered(t, o) /\ Leads("pack") => S[i] = "draw"

InOrder(t, o) ==
    LET S == Steps(t, o)
    IN  /\ 1 \in DOMAIN S /\ S[1] \in Work
        /\ \A i \in DOMAIN S : i \in Nat \ {0} /\ Ordered(t, o, i)
        /\ Rendered(t, o) => \E i \in DOMAIN S : S[i] = "draw"

\* bpf: collect, draw, publish.
LEMMA BpfOrder ==
  ASSUME NEW o, o \in {"flamegraph", "raw"}
  PROVE  InOrder("bpf", o)
<1>1. CASE o = "flamegraph"
  <2> DEFINE S == Steps("bpf", o)
  <2>1. DOMAIN S = 1..5 /\ S[1] = "lookUp" /\ S[2] = "collect" /\ S[3] = "draw"
        /\ S[4] = "pack" /\ S[5] = "announce"
    BY <1>1 DEF Steps, SetUpSteps, InvokeSteps, BpfSteps, Drawn, Do
  <2> HIDE DEF S
  <2>2. ASSUME NEW i \in 1..5 PROVE Ordered("bpf", o, i)
    <3>1. i = 1 \/ i = 2 \/ i = 3 \/ i = 4 \/ i = 5
      OBVIOUS
    <3>q. QED
      BY <1>1, <2>1, <3>1 DEF Ordered, Rendered, Work, JvmTools, S
  <2>q. QED
    BY <1>1, <2>1, <2>2 DEF InOrder, Rendered, Work, S
<1>2. CASE o = "raw"
  <2> DEFINE S == Steps("bpf", o)
  <2>1. DOMAIN S = 1..4 /\ S[1] = "lookUp" /\ S[2] = "collect" /\ S[3] = "pack"
        /\ S[4] = "announce"
    BY <1>2 DEF Steps, SetUpSteps, InvokeSteps, BpfSteps, Drawn, Do
  <2> HIDE DEF S
  <2>2. ASSUME NEW i \in 1..4 PROVE Ordered("bpf", o, i)
    <3>1. i = 1 \/ i = 2 \/ i = 3 \/ i = 4
      OBVIOUS
    <3>q. QED
      BY <1>2, <2>1, <3>1 DEF Ordered, Rendered, Work, JvmTools, S
  <2>q. QED
    BY <1>2, <2>1, <2>2 DEF InOrder, Rendered, Work, S
<1>q. QED
  BY <1>1, <1>2

\* pyspy: as bpf, and a thread dump is not drawn.
LEMMA PySpyOrder ==
  ASSUME NEW o, o \in {"flamegraph", "raw", "threaddump"}
  PROVE  InOrder("pyspy", o)
<1>1. CASE o = "flamegraph"
  <2> DEFINE S == Steps("pyspy", o)
  <2>1. DOMAIN S = 1..5 /\ S[1] = "lookUp" /\ S[2] = "collect" /\ S[3] = "draw"
        /\ S[4] = "pack" /\ S[5] = "announce"
    BY <1>1 DEF Steps, SetUpSteps, InvokeSteps, PySpySteps, Drawn, Do
  <2> HIDE DEF S
  <2>2. ASSUME NEW i \in 1..5 PROVE Ordered("pyspy", o, i)
    <3>1. i = 1 \/ i = 2 \/ i = 3 \/ i = 4 \/ i = 5
      OBVIOUS
    <3>q. QED
      BY <1>1, <2>1, <3>1 DEF Ordered, Rendered, Work, JvmTools, S
  <2>q. QED
    BY <1>1, <2>1, <2>2 DEF InOrder, Rendered, Work, S
<1>2. CASE o = "raw"
  <2> DEFINE S == Steps("pyspy", o)
  <2>1. DOMAIN S = 1..4 /\ S[1] = "lookUp" /\ S[2] = "collect" /\ S[3] = "pack"
        /\ S[4] = "announce"
    BY <1>2 DEF Steps, SetUpSteps, InvokeSteps, PySpySteps, Drawn, Do
  <2> HIDE DEF S
  <2>2. ASSUME NEW i \in 1..4 PROVE Ordered("pyspy", o, i)
    <3>1. i = 1 \/ i = 2 \/ i = 3 \/ i = 4
      OBVIOUS
    <3>q. QED
      BY <1>2, <2>1, <3>1 DEF Ordered, Rendered, Work, JvmTools, S
  <2>q. QED
    BY <1>2, <2>1, <2>2 DEF InOrder, Rendered, Work, S
<1>3. CASE o = "threaddump"
  <2> DEFINE S == Steps("pyspy", o)
  <2>1. DOMAIN S = 1..4 /\ S[1] = "lookUp" /\ S[2] = "collect" /\ S[3] = "pack"
        /\ S[4] = "announce"
    BY <1>3 DEF Steps, SetUpSteps, InvokeSteps, PySpySteps, Drawn, Do
  <2> HIDE DEF S
  <2>2. ASSUME NEW i \in 1..4 PROVE Ordered("pyspy", o, i)
    <3>1. i = 1 \/ i = 2 \/ i = 3 \/ i = 4
      OBVIOUS
    <3>q. QED
      BY <1>3, <2>1, <3>1 DEF Ordered, Rendered, Work, JvmTools, S
  <2>q. QED
    BY <1>3, <2>1, <2>2 DEF InOrder, Rendered, Work, S
<1>q. QED
  BY <1>1, <1>2, <1>3

\* perf: record, script, fold, draw, publish.
LEMMA PerfOrder ==
  ASSUME NEW o, o \in {"flamegraph", "raw"}
  PROVE  InOrder("perf", o)
<1>1. CASE o = "flamegraph"
  <2> DEFINE S == Steps("perf", o)
  <2>1. DOMAIN S = 1..7 /\ S[1] = "lookUp" /\ S[2] = "record" /\ S[3] = "script"
        /\ S[4] = "collect" /\ S[5] = "draw" /\ S[6] = "pack" /\ S[7] = "announce"
    BY <1>1 DEF Steps, SetUpSteps, InvokeSteps, PerfSteps, Drawn, Do
  <2> HIDE DEF S
  <2>2. ASSUME NEW i \in 1..7 PROVE Ordered("perf", o, i)
    <3>1. i = 1 \/ i = 2 \/ i = 3 \/ i = 4 \/ i = 5 \/ i = 6 \/ i = 7
      OBVIOUS
    <3>q. QED
      BY <1>1, <2>1, <3>1 DEF Ordered, Rendered, Work, JvmTools, S
  <2>q. QED
    BY <1>1, <2>1, <2>2 DEF InOrder, Rendered, Work, S
<1>2. CASE o = "raw"
  <2> DEFINE S == Steps("perf", o)
  <2>1. DOMAIN S = 1..6 /\ S[1] = "lookUp" /\ S[2] = "record" /\ S[3] = "script"
        /\ S[4] = "collect" /\ S[5] = "pack" /\ S[6] = "announce"
    BY <1>2 DEF Steps, SetUpSteps, InvokeSteps, PerfSteps, Drawn, Do
  <2> HIDE DEF S
  <2>2. ASSUME NEW i \in 1..6 PROVE Ordered("perf", o, i)
    <3>1. i = 1 \/ i = 2 \/ i = 3 \/ i = 4 \/ i = 5 \/ i = 6
      OBVIOUS
    <3>q. QED
      BY <1>2, <2>1, <3>1 DEF Ordered, Rendered, Work, JvmTools, S
  <2>q. QED
    BY <1>2, <2>1, <2>2 DEF InOrder, Rendered, Work, S
<1>q. QED
  BY <1>1, <1>2

\* austin: the conversion and the sample count follow the command.
LEMMA AustinOrder ==
  ASSUME NEW o, o \in {"flamegraph", "raw"}
  PROVE  InOrder("austin", o)
<1>1. CASE o = "flamegraph"
  <2> DEFINE S == Steps("austin", o)
  <2>1. DOMAIN S = 1..7 /\ S[1] = "lookUp" /\ S[2] = "collect" /\ S[3] = "convert"
        /\ S[4] = "inspect" /\ S[5] = "draw" /\ S[6] = "pack" /\ S[7] = "announce"
    BY <1>1 DEF Steps, SetUpSteps, InvokeSteps, AustinSteps, Drawn, Do
  <2> HIDE DEF S
  <2>2. ASSUME NEW i \in 1..7 PROVE Ordered("austin", o, i)
    <3>1. i = 1 \/ i = 2 \/ i = 3 \/ i = 4 \/ i = 5 \/ i = 6 \/ i = 7
      OBVIOUS
    <3>q. QED
      BY <1>1, <2>1, <3>1 DEF Ordered, Rendered, Work, JvmTools, S
  <2>q. QED
    BY <1>1, <2>1, <2>2 DEF InOrder, Rendered, Work, S
<1>2. CASE o = "raw"
  <2> DEFINE S == Steps("austin", o)
  <2>1. DOMAIN S = 1..6 /\ S[1] = "lookUp" /\ S[2] = "collect" /\ S[3] = "convert"
        /\ S[4] = "inspect" /\ S[5] = "pack" /\ S[6] = "announce"
    BY <1>2 DEF Steps, SetUpSteps, InvokeSteps, AustinSteps, Drawn, Do
  <2> HIDE DEF S
  <2>2. ASSUME NEW i \in 1..6 PROVE Ordered("austin", o, i)
    <3>1. i = 1 \/ i = 2 \/ i = 3 \/ i = 4 \/ i = 5 \/ i = 6
      OBVIOUS
    <3>q. QED
      BY <1>2, <2>1, <3>1 DEF Ordered, Rendered, Work, JvmTools, S
  <2>q. QED
    BY <1>2, <2>1, <2>2 DEF InOrder, Rendered, Work, S
<1>q. QED
  BY <1>1, <1>2

\* rbspy draws its own flame graph.
LEMMA RbspyOrder ==
  ASSUME NEW o, o \in {"flamegraph"}
  PROVE  InOrder("rbspy", o)
<1>1. CASE o = "flamegraph"
  <2> DEFINE S == Steps("rbspy", o)
  <2>1. DOMAIN S = 1..4 /\ S[1] = "lookUp" /\ S[2] = "collect" /\ S[3] = "pack"
        /\ S[4] = "announce"
    BY <1>1 DEF Steps, SetUpSteps, InvokeSteps, RbspySteps, Do
  <2> HIDE DEF S
  <2>2. ASSUME NEW i \in 1..4 PROVE Ordered("rbspy", o, i)
    <3>1. i = 1 \/ i = 2 \/ i = 3 \/ i = 4
      OBVIOUS
    <3>q. QED
      BY <1>1, <2>1, <3>1 DEF Ordered, Rendered, Work, JvmTools, S
  <2>q. QED
    BY <1>1, <2>1, <2>2 DEF InOrder, Rendered, Work, S
<1>q. QED
  BY <1>1

\* pprof: the port first, and two scrapes more for raw.
LEMMA PprofOrder ==
  ASSUME NEW o, o \in {"pprof", "heapdump", "raw"}
  PROVE  InOrder("pprof", o)
<1>1. CASE o = "pprof"
  <2> DEFINE S == Steps("pprof", o)
  <2>1. DOMAIN S = 1..5 /\ S[1] = "lookUp" /\ S[2] = "port" /\ S[3] = "collect"
        /\ S[4] = "pack" /\ S[5] = "announce"
    BY <1>1 DEF Steps, SetUpSteps, InvokeSteps, PprofSteps, Do
  <2> HIDE DEF S
  <2>2. ASSUME NEW i \in 1..5 PROVE Ordered("pprof", o, i)
    <3>1. i = 1 \/ i = 2 \/ i = 3 \/ i = 4 \/ i = 5
      OBVIOUS
    <3>q. QED
      BY <1>1, <2>1, <3>1 DEF Ordered, Rendered, Work, JvmTools, S
  <2>q. QED
    BY <1>1, <2>1, <2>2 DEF InOrder, Rendered, Work, S
<1>2. CASE o = "heapdump"
  <2> DEFINE S == Steps("pprof", o)
  <2>1. DOMAIN S = 1..5 /\ S[1] = "lookUp" /\ S[2] = "port" /\ S[3] = "collect"
        /\ S[4] = "pack" /\ S[5] = "announce"
    BY <1>2 DEF Steps, SetUpSteps, InvokeSteps, PprofSteps, Do
  <2> HIDE DEF S
  <2>2. ASSUME NEW i \in 1..5 PROVE Ordered("pprof", o, i)
    <3>1. i = 1 \/ i = 2 \/ i = 3 \/ i = 4 \/ i = 5
      OBVIOUS
    <3>q. QED
      BY <1>2, <2>1, <3>1 DEF Ordered, Rendered, Work, JvmTools, S
  <2>q. QED
    BY <1>2, <2>1, <2>2 DEF InOrder, Rendered, Work, S
<1>3. CASE o = "raw"
  <2> DEFINE S == Steps("pprof", o)
  <2>1. DOMAIN S = 1..9 /\ S[1] = "lookUp" /\ S[2] = "port" /\ S[3] = "cpu"
        /\ S[4] = "readCPU" /\ S[5] = "heap" /\ S[6] = "readHeap" /\ S[7] = "collect"
        /\ S[8] = "pack" /\ S[9] = "announce"
    BY <1>3 DEF Steps, SetUpSteps, InvokeSteps, PprofSteps, Do
  <2> HIDE DEF S
  <2>2. ASSUME NEW i \in 1..9 PROVE Ordered("pprof", o, i)
    <3>1. i = 1 \/ i = 2 \/ i = 3 \/ i = 4 \/ i = 5 \/ i = 6 \/ i = 7 \/ i = 8 \/ i = 9
      OBVIOUS
    <3>q. QED
      BY <1>3, <2>1, <3>1 DEF Ordered, Rendered, Work, JvmTools, S
  <2>q. QED
    BY <1>3, <2>1, <2>2 DEF InOrder, Rendered, Work, S
<1>q. QED
  BY <1>1, <1>2, <1>3

\* async-profiler: the library is chosen after it is copied.
LEMMA AsyncOrder ==
  ASSUME NEW o, o \in {"flamegraph", "raw"}
  PROVE  InOrder("async-profiler", o)
<1>1. CASE o = "flamegraph"
  <2> DEFINE S == Steps("async-profiler", o)
  <2>1. DOMAIN S = 1..9 /\ S[1] = "removeTmp" /\ S[2] = "removePrevious"
        /\ S[3] = "link" /\ S[4] = "lookUp" /\ S[5] = "copy" /\ S[6] = "select"
        /\ S[7] = "collect" /\ S[8] = "pack" /\ S[9] = "announce"
    BY <1>1 DEF Steps, SetUpSteps, InvokeSteps, AsyncSteps, JvmSetUp, Do
  <2> HIDE DEF S
  <2>2. ASSUME NEW i \in 1..9 PROVE Ordered("async-profiler", o, i)
    <3>1. i = 1 \/ i = 2 \/ i = 3 \/ i = 4 \/ i = 5 \/ i = 6 \/ i = 7 \/ i = 8 \/ i = 9
      OBVIOUS
    <3>q. QED
      BY <1>1, <2>1, <3>1 DEF Ordered, Rendered, Work, JvmTools, S
  <2>q. QED
    BY <1>1, <2>1, <2>2 DEF InOrder, Rendered, Work, S
<1>2. CASE o = "raw"
  <2> DEFINE S == Steps("async-profiler", o)
  <2>1. DOMAIN S = 1..9 /\ S[1] = "removeTmp" /\ S[2] = "removePrevious"
        /\ S[3] = "link" /\ S[4] = "lookUp" /\ S[5] = "copy" /\ S[6] = "select"
        /\ S[7] = "collect" /\ S[8] = "pack" /\ S[9] = "announce"
    BY <1>2 DEF Steps, SetUpSteps, InvokeSteps, AsyncSteps, JvmSetUp, Do
  <2> HIDE DEF S
  <2>2. ASSUME NEW i \in 1..9 PROVE Ordered("async-profiler", o, i)
    <3>1. i = 1 \/ i = 2 \/ i = 3 \/ i = 4 \/ i = 5 \/ i = 6 \/ i = 7 \/ i = 8 \/ i = 9
      OBVIOUS
    <3>q. QED
      BY <1>2, <2>1, <3>1 DEF Ordered, Rendered, Work, JvmTools, S
  <2>q. QED
    BY <1>2, <2>1, <2>2 DEF InOrder, Rendered, Work, S
<1>q. QED
  BY <1>1, <1>2

\* jcmd's dumps: a heap dump goes out in chunks.
LEMMA JcmdOrder ==
  ASSUME NEW o, o \in {"threaddump", "heapdump"}
  PROVE  InOrder("jcmd", o)
<1>1. CASE o = "threaddump"
  <2> DEFINE S == Steps("jcmd", o)
  <2>1. DOMAIN S = 1..8 /\ S[1] = "removeTmp" /\ S[2] = "removePrevious"
        /\ S[3] = "link" /\ S[4] = "lookUp" /\ S[5] = "copy" /\ S[6] = "collect"
        /\ S[7] = "pack" /\ S[8] = "announce"
    BY <1>1 DEF Steps, SetUpSteps, InvokeSteps, JcmdSteps, JvmSetUp, Do, DoInChunks
  <2> HIDE DEF S
  <2>2. ASSUME NEW i \in 1..8 PROVE Ordered("jcmd", o, i)
    <3>1. i = 1 \/ i = 2 \/ i = 3 \/ i = 4 \/ i = 5 \/ i = 6 \/ i = 7 \/ i = 8
      OBVIOUS
    <3>q. QED
      BY <1>1, <2>1, <3>1 DEF Ordered, Rendered, Work, JvmTools, S
  <2>q. QED
    BY <1>1, <2>1, <2>2 DEF InOrder, Rendered, Work, S
<1>2. CASE o = "heapdump"
  <2> DEFINE S == Steps("jcmd", o)
  <2>1. DOMAIN S = 1..10 /\ S[1] = "removeTmp" /\ S[2] = "removePrevious"
        /\ S[3] = "link" /\ S[4] = "lookUp" /\ S[5] = "copy" /\ S[6] = "collect"
        /\ S[7] = "gzip" /\ S[8] = "split" /\ S[9] = "measure"
        /\ S[10] = "announceChunks"
    BY <1>2 DEF Steps, SetUpSteps, InvokeSteps, JcmdSteps, JvmSetUp, Do, DoInChunks
  <2> HIDE DEF S
  <2>2. ASSUME NEW i \in 1..10 PROVE Ordered("jcmd", o, i)
    <3>1. i = 1 \/ i = 2 \/ i = 3 \/ i = 4 \/ i = 5 \/ i = 6 \/ i = 7 \/ i = 8 \/ i = 9 \/ i = 10
      OBVIOUS
    <3>q. QED
      BY <1>2, <2>1, <3>1 DEF Ordered, Rendered, Work, JvmTools, S
  <2>q. QED
    BY <1>2, <2>1, <2>2 DEF InOrder, Rendered, Work, S
<1>q. QED
  BY <1>1, <1>2

\* Node's dummy, in chunks.
LEMMA NodeOrder ==
  ASSUME NEW o, o \in {"heapsnapshot"}
  PROVE  InOrder("node-dummy", o)
<1>1. CASE o = "heapsnapshot"
  <2> DEFINE S == Steps("node-dummy", o)
  <2>1. DOMAIN S = 1..6 /\ S[1] = "lookUp" /\ S[2] = "collect" /\ S[3] = "gzip"
        /\ S[4] = "split" /\ S[5] = "measure" /\ S[6] = "announceChunks"
    BY <1>1 DEF Steps, SetUpSteps, InvokeSteps, NodeSteps, DoInChunks
  <2> HIDE DEF S
  <2>2. ASSUME NEW i \in 1..6 PROVE Ordered("node-dummy", o, i)
    <3>1. i = 1 \/ i = 2 \/ i = 3 \/ i = 4 \/ i = 5 \/ i = 6
      OBVIOUS
    <3>q. QED
      BY <1>1, <2>1, <3>1 DEF Ordered, Rendered, Work, JvmTools, S
  <2>q. QED
    BY <1>1, <2>1, <2>2 DEF InOrder, Rendered, Work, S
<1>q. QED
  BY <1>1
\* Every job has a tool and an output of the lemmas above.
LEMMA StepOrder ==
  ASSUME NEW j \in Jobs
  PROVE  InOrder(j.tool, j.output)
<1>1. \/ /\ j.tool \in {"bpf", "perf", "austin", "async-profiler"}
         /\ j.output \in {"flamegraph", "raw"}
      \/ j.tool = "pyspy" /\ j.output \in {"flamegraph", "raw", "threaddump"}
      \/ j.tool = "rbspy" /\ j.output = "flamegraph"
      \/ j.tool = "pprof" /\ j.output \in {"pprof", "heapdump", "raw"}
      \/ j.tool = "jcmd" /\ j.output \in {"threaddump", "heapdump"}
      \/ j.tool = "node-dummy" /\ j.output = "heapsnapshot"
  BY DEF Jobs
<1>q. QED
  BY <1>1, BpfOrder, PySpyOrder, PerfOrder, AustinOrder, RbspyOrder, PprofOrder, AsyncOrder,
     JcmdOrder, NodeOrder

\* The step the tool is at, and the one it goes on to.
Now == Steps(job.tool, job.output)[step]
Then == Steps(job.tool, job.output)[step + 1]

\* The order at the current step, and the jobs that draw.
LEMMA Here ==
  ASSUME TypeOK
  PROVE  /\ step \in Nat \ {0} /\ Ordered(job.tool, job.output, step)
         /\ Draws <=> Rendered(job.tool, job.output)
<1>1. InOrder(job.tool, job.output) /\ step \in DOMAIN Steps(job.tool, job.output)
  BY StepOrder DEF TypeOK
<1>2. step \in Nat \ {0} /\ Ordered(job.tool, job.output, step)
  BY <1>1 DEF InOrder
<1>3. ASSUME Draws PROVE Rendered(job.tool, job.output)
  <2>1. PICK i \in DOMAIN Steps(job.tool, job.output) :
               Steps(job.tool, job.output)[i] = "draw"
    BY <1>3 DEF Draws
  <2>q. QED
    BY <1>1, <2>1 DEF InOrder, Ordered
<1>4. ASSUME Rendered(job.tool, job.output) PROVE Draws
  BY <1>1, <1>4 DEF InOrder, Draws
<1>q. QED
  BY <1>2, <1>3, <1>4

\* What depends on the job alone stays with the job.
LEMMA JobStays ==
  ASSUME job' = job
  PROVE  /\ Draws' = Draws /\ Result' = Result /\ Collected' = Collected
         /\ OfOutput' = OfOutput /\ Removals' = Removals /\ Kept' = Kept
         /\ \A f : Mine(f)' = Mine(f)
<1>1. Draws' = Draws
  BY DEF Draws
<1>2. Result' = Result
  BY DEF Result
<1>3. Collected' = Collected /\ OfOutput' = OfOutput
  BY <1>1, <1>2 DEF Collected, OfOutput
<1>4. Removals' = Removals /\ Kept' = Kept
  BY <1>1, <1>3 DEF Removals, AsyncRemovals, Kept
<1>q. QED
  BY <1>1, <1>2, <1>3, <1>4 DEF Mine

\* The names a tool writes.
LEMMA MyNames ==
  ASSUME TypeOK
  PROVE  /\ Mine("copies") /\ Mine(Collected)
         /\ \A f \in OfOutput : Mine(f)
         /\ OfOutput \subseteq Names /\ Result \in OfOutput /\ Collected \in Names
         /\ Draws \/ Collected = Result
         /\ job.tool = "perf" => Mine("perf.data") /\ Mine("perf.out")
         /\ job.tool \in JvmTools => Mine(Brought(job.tool))
         /\ job.tool \notin JvmTools \cup {"perf"} => \A f \in Names \ Others : Mine(f)
<1>1. /\ OfOutput \subseteq Names /\ Result \in OfOutput /\ Collected \in Names
      /\ Draws \/ Collected = Result
  BY DEF OfOutput, Names, Plain, Result, Collected
<1>2. job.tool \in {"perf", "async-profiler", "jcmd"} => \A f \in OfOutput : Mine(f)
  BY DEF Mine, Removals, AsyncRemovals
<1>3. job.tool \notin JvmTools \cup {"perf"} => \A f \in Names \ Others : Mine(f)
  BY DEF Mine, Removals, JvmTools
<1>4. \A f \in OfOutput : f \notin Others
  BY SuffixesAssumption DEF OfOutput, Others, Result
<1>5. \A f \in OfOutput : Mine(f)
  BY <1>1, <1>2, <1>3, <1>4 DEF JvmTools
<1>6. job.tool = "perf" => Mine("perf.data") /\ Mine("perf.out")
  BY DEF Mine, Removals
<1>7. job.tool \in JvmTools => Mine(Brought(job.tool))
  BY DEF Mine, Removals, AsyncRemovals, JvmTools, Brought, Kept
<1>8. Mine("copies")
  BY DEF Mine, Kept
<1>9. Mine(Collected)
  <2>1. CASE ~Draws
    BY <2>1, <1>1, <1>5
  <2>2. CASE Draws /\ job.tool = "perf"
    BY <2>2 DEF Collected, Mine, Kept
  <2>3. CASE Draws /\ job.tool # "perf"
    <3>1. job.tool \notin JvmTools
      BY <2>3, Here DEF Rendered, JvmTools
    <3>q. QED
      BY <2>3, <3>1, <1>3 DEF Collected, Names, Plain, Others
  <2>q. QED
    BY <2>1, <2>2, <2>3
<1>q. QED
  BY <1>1, <1>3, <1>5, <1>6, <1>7, <1>8, <1>9

(***************************************************************************)
(* What every step preserves.                                              *)
(***************************************************************************)

\* g is what a step may make of the files: it removes, or writes a name of
\* the tool where its files are, and nothing stale unless it compresses a
\* previous result.
Written(g) ==
    /\ g \in [Names -> Contents]
    /\ \A f \in Names :
          \/ g[f] \in {files[f], "absent"}
          \/ /\ Mine(f) /\ Reaches(job.tool)
             /\ g[f] = "stale" => f \in {"packed", "gz"} /\ Result \in refused

\* No step but these three comes before the link of a JVM tool.
Linking == {"removeTmp", "removePrevious", "link"}

\* A step may leave the files alone,
LEMMA WrittenSame ==
  ASSUME TypeOK
  PROVE  Written(files)
BY DEF TypeOK, Written

\* write one of the tool's names,
LEMMA WrittenPut ==
  ASSUME TypeOK, Reaches(job.tool), NEW f \in Names, Mine(f), NEW c \in Contents,
         \/ c = files[f] \/ c # "stale"
         \/ f \in {"packed", "gz"} /\ Result \in refused
  PROVE  Written([files EXCEPT ![f] = c])
BY DEF TypeOK, Written

\* or fail with such a name half written.
LEMMA WrittenLeft ==
  ASSUME TypeOK, Reaches(job.tool), NEW f \in Names, Mine(f)
  PROVE  \A g \in Left(f) : Written(g)
<1>1. Written([files EXCEPT ![f] = "empty"]) /\ Written([files EXCEPT ![f] = "few"])
  BY WrittenPut DEF Contents
<1>q. QED
  BY <1>1, WrittenSame DEF Left

\* Once linked, a tool reaches its files, and a previous result or chunk is
\* there only if it could not be removed.
LEMMA Reached ==
  ASSUME TypeOK, Linked, Fresh, Now \notin Linking
  PROVE  /\ Reaches(job.tool)
         /\ job.tool \in JvmTools => step > 3
         /\ \A f \in {Result} \cup ChunkNames : files[f] = "stale" => f \in refused
<1>1. job.tool \in JvmTools => step > 3
  BY Here DEF Ordered, Now, Linking
<1>2. Reaches(job.tool)
  BY <1>1 DEF Linked, Reaches, Home
<1>3. \A f \in {Result} \cup ChunkNames : f \in OfOutput /\ f \notin {"packed", "gz"}
  BY SuffixesAssumption DEF OfOutput, Result, Plain
<1>4. \A f \in {Result} \cup ChunkNames : files[f] = "stale" => f \in refused
  BY <1>1, <1>3, Here, MyNames DEF Fresh
<1>q. QED
  BY <1>1, <1>2, <1>4

\* The parts that do not depend on what a step of the work writes.
Frame ==
    /\ TypeOK /\ Reported /\ Met /\ Linked /\ Fresh /\ Owned /\ Removed
    /\ AnnouncedIsWhole /\ DrawnFromStacks /\ AnnouncesOwnRun

\* The parts that do.
Held == RawHolds /\ OutHolds /\ Traced /\ Encoded /\ Chunked /\ Loaded

\* The invariant is these.
LEMMA IInvParts == IInv <=> Frame /\ Held
BY DEF IInv, Frame, Held

\* Every step that goes on.
LEMMA AdvanceKeepsFrame ==
  ASSUME Frame, ret = "pending", Now \notin Linking \cup {"announce", "announceChunks"},
         Advances, UNCHANGED targetVars, UNCHANGED event, UNCHANGED ss,
         port' \in {"unknown", "own", "other", "default"}, Written(files'),
         parts' \in 0..Len(Suffixes), size' \in 0..Len(Suffixes)
  PROVE  Frame'
<1>0. /\ TypeOK /\ Reported /\ Met /\ Linked /\ Fresh /\ Owned /\ Removed
      /\ job' = job /\ ret' = ret /\ step' = step + 1
      /\ cleanUp' = cleanUp /\ doomed' = doomed /\ racing' = racing /\ spared' = spared
  BY DEF Frame, Advances
<1>1. /\ step \in Nat /\ step + 1 \in DOMAIN Steps(job.tool, job.output)
      /\ job.tool \in JvmTools => step > 3
  BY <1>0, Here, Reached DEF Ordered, Now
<1>2. TypeOK'
  BY <1>0, <1>1, JobStays DEF TypeOK, Written, targetVars
<1>3. Reported' /\ Met'
  BY <1>0 DEF Reported, Met
<1>4. Linked'
  BY <1>0, <1>1 DEF Linked, Written, targetVars, Reaches, Home
<1>5. Fresh'
  BY <1>0, <1>1, JobStays DEF Fresh, Written, targetVars
<1>6. Owned'
  BY <1>0, JobStays DEF Owned, Written
<1>7. Removed'
  BY <1>0 DEF Removed, Met, TypeOK
<1>8. event' = NoEvent
  BY <1>0 DEF Reported
<1>9. AnnouncedIsWhole' /\ DrawnFromStacks' /\ AnnouncesOwnRun'
  BY <1>8 DEF AnnouncedIsWhole, DrawnFromStacks, AnnouncesOwnRun, NoEvent
<1>q. QED
  BY <1>2, <1>3, <1>4, <1>5, <1>6, <1>7, <1>9 DEF Frame

\* Every step that fails: nothing is announced, and what is left is the tool's.
LEMMA FailKeepsIInv ==
  ASSUME IInv, ret = "pending", NEW lefts, Fails(lefts), \A g \in lefts : Written(g)
  PROVE  IInv'
<1>0. /\ TypeOK /\ Reported /\ Met /\ Linked /\ Fresh /\ Owned /\ Removed
      /\ job' = job /\ ret' = "error" /\ step' = step /\ event' = event
      /\ cleanUp' = cleanUp /\ doomed' = doomed /\ racing' = racing
      /\ parts' = parts /\ size' = size
  BY DEF IInv, Fails, Returns
<1>1. PICK g \in lefts : \E copies \in {"absent", g["copies"]} :
        /\ files' = [g EXCEPT !["copies"] = copies]
        /\ spared' = IF copies = "absent" THEN spared ELSE spared \cup {"copies"}
  BY DEF Fails, Returns
<1>2. g \in [Names -> Contents] /\ "copies" \in Names
  BY <1>1 DEF Written, Names, Others
<1>3. /\ files' \in [Names -> Contents] /\ spared \subseteq spared'
      /\ files'["copies"] = "absent" \/ "copies" \in spared'
      /\ spared' \subseteq Names
  BY <1>0, <1>1, <1>2 DEF Contents, TypeOK
<1>4. \A f \in Names : \/ files'[f] \in {files[f], "absent"}
                       \/ /\ Mine(f) /\ Reaches(job.tool)
                          /\ files'[f] = "stale" => f \in {"packed", "gz"} /\ Result \in refused
  BY <1>1, <1>2 DEF Written
<1>5. /\ tmp' = tmp /\ loaders' = loaders /\ libc' = libc /\ refused' = refused
      /\ ss' = ss /\ port' = port
  BY DEF Fails, Returns, targetVars, portVars
<1>6. TypeOK'
  BY <1>0, <1>3, <1>5, JobStays DEF TypeOK
<1>7. Reported' /\ Met'
  BY <1>0 DEF Reported, Met
<1>8. Linked'
  BY <1>0, <1>4, <1>5 DEF Linked, Reaches, Home
<1>9. Fresh'
  BY <1>0, <1>4, <1>5, JobStays DEF Fresh
<1>10. Owned'
  BY <1>0, <1>3, <1>4, JobStays DEF Owned
<1>11. Removed'
  BY <1>0 DEF Removed, Met, TypeOK
<1>12. AnnouncedIsWhole' /\ DrawnFromStacks' /\ AnnouncesOwnRun'
  BY <1>0 DEF AnnouncedIsWhole, DrawnFromStacks, AnnouncesOwnRun, Reported
<1>13. RawHolds' /\ OutHolds' /\ Traced' /\ Encoded' /\ Chunked' /\ Loaded'
  BY <1>0 DEF RawHolds, OutHolds, Traced, Encoded, Chunked, Loaded, At
<1>q. QED
  BY <1>6, <1>7, <1>8, <1>9, <1>10, <1>11, <1>12, <1>13 DEF IInv

(***************************************************************************)
(* SetUp.                                                                  *)
(***************************************************************************)

\* The steps that replace the tmp directory come before everything else:
\* nothing is written, and the previous files go before the link.
LEMMA LinkingPreservesIInv ==
  ASSUME IInv,
         \/ SetsUp("removeTmp", RemovesTmp) \/ SetsUp("link", Links)
         \/ SetsUp("removePrevious", RemovesPrevious(OfOutput))
  PROVE  IInv'
<1>0. /\ TypeOK /\ Reported /\ Met /\ Linked /\ Fresh /\ Owned /\ Removed
      /\ RawHolds /\ OutHolds /\ Chunked
  BY DEF IInv
<1>1. /\ ret = "pending" /\ Now \in Linking
      /\ job' = job /\ ret' = ret /\ step' = step + 1
      /\ cleanUp' = cleanUp /\ doomed' = doomed /\ racing' = racing /\ spared' = spared
      /\ ss' = ss /\ port' = port
  BY DEF SetsUp, At, Advances, portVars, Now, Linking
<1>2. event' = event /\ parts' = parts /\ size' = size /\ loaders' = loaders /\ libc' = libc
  BY DEF SetsUp, RemovesTmp, Links, RemovesPrevious, publishVars, targetVars
<1>3. /\ job.tool \in JvmTools /\ step \in 1..3
      /\ step + 1 \in DOMAIN Steps(job.tool, job.output)
      /\ Then \in Work \cup {"pack", "gzip"} /\ Then \notin {"convert", "inspect"}
      /\ job.tool = "async-profiler" => Then \notin {"select", "collect"}
  BY <1>0, <1>1, Here DEF Ordered, Now, Then, Linking, Work
<1>4. /\ Now = "removePrevious" =>
           /\ step = 2
           /\ refused' \subseteq {f \in OfOutput : files[f] # "absent"}
           /\ files' = [f \in Names |->
                          IF f \in OfOutput \ refused' THEN "absent" ELSE files[f]]
      /\ Now # "removePrevious" => step # 2 /\ files' = files /\ refused' = refused
  BY <1>0, Here DEF SetsUp, At, RemovesTmp, Links, RemovesPrevious, publishVars, targetVars,
         Exists, Ordered, Now
<1>5. tmp' \in {"own", "gone", "target"} /\ (tmp' = "target" <=> step = 3)
  BY <1>0, <1>3, Here
     DEF SetsUp, At, RemovesTmp, Links, RemovesPrevious, targetVars, Ordered, Now, TypeOK, Linked
<1>6. /\ files' \in [Names -> Contents]
      /\ \A f \in Names : files'[f] \in {files[f], "absent"}
      /\ refused' \subseteq Names
  BY <1>0, <1>4, MyNames DEF TypeOK, Contents
<1>7. TypeOK'
  BY <1>0, <1>1, <1>2, <1>3, <1>5, <1>6, JobStays DEF TypeOK
<1>8. Reported' /\ Met'
  BY <1>0, <1>1, <1>2 DEF Reported, Met
<1>9. Linked'
  BY <1>0, <1>1, <1>3, <1>5, <1>6 DEF Linked
<1>10. Fresh'
  <2>1. \A f \in Names : files'[f] = "stale" /\ step + 1 > 2 /\ f \in OfOutput =>
          f \in refused' \/ (f \in {"packed", "gz"} /\ Result \in refused')
    BY <1>0, <1>3, <1>4, <1>6 DEF Fresh
  <2>2. step + 1 <= 2 => refused' = {}
    BY <1>0, <1>3, <1>4 DEF Fresh
  <2>q. QED
    BY <1>0, <1>1, <1>3, <1>6, <2>1, <2>2, JobStays DEF Fresh
<1>11. Owned' /\ Removed'
  BY <1>0, <1>1, <1>6, JobStays DEF Owned, Removed, Met, TypeOK
<1>12. /\ "raw" \in Names /\ "out" \in Names
       /\ ChunkNames \subseteq OfOutput /\ ChunkNames \subseteq Names
  BY DEF Names, Plain, OfOutput
<1>13. RawHolds'
  BY <1>0, <1>1, <1>3, <1>6, <1>12 DEF RawHolds, At, Then, Now, Linking
<1>14. ~Draws
  BY <1>0, <1>3, Here DEF Rendered, JvmTools
<1>15. OutHolds'
  BY <1>0, <1>1, <1>6, <1>12, <1>14, JobStays DEF OutHolds
<1>16. Traced' /\ Encoded' /\ Loaded'
  BY <1>1, <1>3 DEF Traced, Encoded, Loaded, At, Then, Work
<1>17. Chunked'
  <2>1. step + 1 > 2 /\ cleanUp = 0 =>
          \A f \in ChunkNames : files'[f] # "absent" <=> f \in refused'
    BY <1>0, <1>1, <1>3, <1>4, <1>6, <1>12 DEF Chunked, At, Exists, Now, Linking
  <2>q. QED
    BY <1>1, <1>3, <2>1 DEF Chunked, At, Exists, Then, Work
<1>18. event' = NoEvent
  BY <1>0, <1>1, <1>2 DEF Reported
<1>19. AnnouncedIsWhole' /\ DrawnFromStacks' /\ AnnouncesOwnRun'
  BY <1>0, <1>1, <1>18 DEF AnnouncedIsWhole, DrawnFromStacks, AnnouncesOwnRun, NoEvent
<1>q. QED
  BY <1>7, <1>8, <1>9, <1>10, <1>11, <1>13, <1>15, <1>16, <1>17, <1>19 DEF IInv

\* Before split there are no chunks but previous ones that were not removed.
LEMMA NoChunks ==
  ASSUME TypeOK, Chunked, ret = "pending", cleanUp = 0,
         Now \notin Linking \cup {"measure", "announceChunks"}
  PROVE  \A f \in ChunkNames : files[f] # "absent" <=> f \in refused
<1>1. step \in Nat /\ (step > 2 \/ job.tool \notin JvmTools)
  BY Here DEF Ordered, Now, Linking
<1>2. ~At("measure") /\ ~At("announceChunks")
  BY DEF At, Now
<1>q. QED
  BY <1>1, <1>2 DEF Chunked, Exists

\* A step that does not touch the chunks before split keeps it so.
LEMMA ChunksStay ==
  ASSUME TypeOK, Chunked, ret = "pending", Advances, UNCHANGED targetVars,
         Now \notin Linking \cup {"split", "measure", "announce", "announceChunks"},
         \A f \in ChunkNames : files'[f] = files[f]
  PROVE  Chunked'
<1>1. Then \notin {"measure", "announceChunks"}
  BY Here DEF Ordered, Now, Then, Work
<1>2. cleanUp = 0 => \A f \in ChunkNames : files[f] # "absent" <=> f \in refused
  BY NoChunks
<1>q. QED
  BY <1>1, <1>2 DEF Chunked, At, Then, Exists, Advances, targetVars

\* A step before the publisher that leaves the profile alone.
LEMMA QuietKeepsHeld ==
  ASSUME IInv, ret = "pending", Advances, UNCHANGED targetVars,
         Now \in Work \ (Linking \cup {"select", "copy", "collect", "convert", "inspect", "draw"}),
         \A f \in {"raw", "out"} \cup ChunkNames : files'[f] = files[f]
  PROVE  Held'
<1>0. /\ TypeOK /\ RawHolds /\ OutHolds /\ Chunked
      /\ job' = job /\ ret' = ret /\ step' = step + 1 /\ cleanUp' = cleanUp
  BY DEF IInv, Advances
<1>1. /\ Then \in Work \cup {"pack", "gzip"} /\ Then \notin {"convert", "inspect"}
      /\ job.tool = "async-profiler" => Then \notin {"select", "collect"}
      /\ Draws => Then # "pack"
  BY <1>0, Here DEF Ordered, Now, Then, Work, Linking
<1>2. RawHolds'
  BY <1>0, <1>1 DEF RawHolds, At, Then, Now
<1>3. OutHolds'
  BY <1>0, <1>1, JobStays DEF OutHolds, At, Then
<1>4. Traced' /\ Encoded' /\ Loaded'
  BY <1>0, <1>1 DEF Traced, Encoded, Loaded, At, Then, Work
<1>5. Chunked'
  BY <1>0, ChunksStay DEF Linking, Work
<1>q. QED
  BY <1>2, <1>3, <1>4, <1>5 DEF Held

\* The copies.
LEMMA CopyPreservesIInv ==
  ASSUME IInv, CopiesAll
  PROVE  IInv'
<1>0. /\ TypeOK /\ Linked /\ Fresh /\ RawHolds /\ OutHolds /\ Chunked /\ Loaded
      /\ Frame
      /\ ret = "pending" /\ Advances /\ UNCHANGED portVars /\ Now \in {"copy", "select"}
      /\ \/ Now = "copy" /\ Copies(job.tool)
         \/ Now = "select" /\ Selects
  BY IInvParts DEF IInv, CopiesAll, SetsUp, At, Now
<1>1. /\ job' = job /\ ret' = ret /\ step' = step + 1 /\ cleanUp' = cleanUp
      /\ UNCHANGED targetVars /\ UNCHANGED <<parts, size, event>>
  BY <1>0 DEF Advances, Copies, Selects
<1>2. /\ job.tool \in JvmTools /\ step \in Nat /\ step > 3
      /\ Then \in Work \cup {"pack", "gzip"} /\ Then \notin {"convert", "inspect"}
      /\ job.tool = "async-profiler" => /\ Then = "select" => Now = "copy"
                                        /\ Then = "collect" => Now = "select"
      /\ Now = "select" => job.tool = "async-profiler"
      /\ Reaches(job.tool)
  BY <1>0, Here, Reached DEF Ordered, Now, Then, Work, Linking, JvmTools
<1>3. Brought(job.tool) \in Names /\ Brought(job.tool) \in Others /\ Mine(Brought(job.tool))
  BY <1>0, <1>2, MyNames DEF Brought, Names, Others
<1>4. Written(files') /\ \A f \in {"raw", "out"} \cup ChunkNames : files'[f] = files[f]
  <2>1. \A f \in {"raw", "out"} \cup ChunkNames : f \in Names /\ f \notin Others
    BY SuffixesAssumption DEF Names, Plain, Others
  <2>2. CASE Now = "copy"
    <3>1. PICK c \in {"glibc", "part"} : files' = [files EXCEPT ![Brought(job.tool)] = c]
      BY <1>0, <2>2 DEF Copies, Put
    <3>q. QED
      BY <1>0, <1>2, <1>3, <2>1, <3>1, WrittenPut DEF TypeOK, Contents
  <2>3. CASE Now = "select"
    <3>1. files' = files \/ files' = [files EXCEPT ![Brought(job.tool)] = "musl"]
      BY <1>0, <1>2, <2>3 DEF Selects, Put, Brought
    <3>q. QED
      BY <1>0, <1>2, <1>3, <2>1, <3>1, WrittenPut, WrittenSame DEF TypeOK, Contents
  <2>q. QED
    BY <1>0, <2>2, <2>3
<1>5. Frame'
  BY <1>0, <1>1, <1>4, AdvanceKeepsFrame DEF TypeOK, Linking, portVars
<1>6. ~Draws
  BY <1>0, <1>2, Here DEF Rendered, JvmTools
<1>7. RawHolds' /\ OutHolds'
  BY <1>0, <1>1, <1>2, <1>4, <1>6, JobStays DEF RawHolds, OutHolds, At, Then, Now
<1>8. Traced' /\ Encoded'
  BY <1>1, <1>2 DEF Traced, Encoded, At, Then, Work
<1>9. Chunked'
  BY <1>0, <1>1, <1>4, ChunksStay DEF Linking
<1>10. Loaded'
  <2> SUFFICES ASSUME job.tool = "async-profiler", cleanUp = 0
               PROVE  /\ Then = "select" => files'["library"] = "glibc"
                      /\ Then = "collect" =>
                           files'["library"] = IF TargetUsesMusl THEN "musl" ELSE "glibc"
    BY <1>0, <1>1 DEF Loaded, At, Then, TargetUsesMusl, targetVars
  <2>1. "library" \in Names
    BY DEF Names, Others
  <2>2. CASE Now = "copy"
    BY <1>0, <1>2, <2>1, <2>2 DEF Copies, Put, Brought, TypeOK
  <2>3. CASE Now = "select"
    BY <1>0, <1>2, <2>1, <2>3 DEF Selects, Put, Loaded, At, Now, TypeOK
  <2>q. QED
    BY <1>0, <2>2, <2>3
<1>q. QED
  BY <1>5, <1>7, <1>8, <1>9, <1>10, IInvParts DEF Held, Frame, IInv

\* SetUp that fails: before the link nothing was written.
LEMMA SetUpFailsPreservesIInv ==
  ASSUME IInv, SetUpFails
  PROVE  IInv'
<1>0. TypeOK /\ Linked /\ Fresh /\ ret = "pending"
  BY DEF IInv, SetUpFails, At
<1>1. CASE Fails({files})
  BY <1>0, <1>1, FailKeepsIInv, WrittenSame
<1>2. CASE At("copy") /\ Fails(CopyLeaves(job.tool))
  <2>1. Reaches(job.tool) /\ job.tool \in JvmTools
    BY <1>0, <1>2, Reached, Here DEF At, Now, Linking, Ordered
  <2>2. Brought(job.tool) \in Names /\ Mine(Brought(job.tool))
    BY <1>0, <2>1, MyNames DEF Brought, Names, Others
  <2>3. \A g \in CopyLeaves(job.tool) : Written(g)
    BY <1>0, <2>1, <2>2, WrittenSame, WrittenPut DEF CopyLeaves, Contents
  <2>q. QED
    BY <1>0, <1>2, <2>3, FailKeepsIInv
<1>q. QED
  BY <1>1, <1>2 DEF SetUpFails

(***************************************************************************)
(* invoke.                                                                 *)
(***************************************************************************)

\* The steps that only look, and those that write a file of their own.
LEMMA QuietPreservesIInv ==
  ASSUME IInv,
         \/ LooksUp \/ Records \/ Scripts \/ Scrapes("cpu", "cpu") \/ Reads("readCPU", "cpu")
         \/ Scrapes("heap", "heap") \/ Reads("readHeap", "heap")
  PROVE  IInv'
<1>0. TypeOK /\ Linked /\ Fresh /\ Frame
  BY IInvParts DEF IInv
<1>1. /\ ret = "pending" /\ Advances /\ UNCHANGED targetVars /\ UNCHANGED portVars
      /\ UNCHANGED <<parts, size, event>>
      /\ Now \in {"lookUp", "record", "script", "cpu", "readCPU", "heap", "readHeap"}
  BY DEF LooksUp, Records, Scripts, Scrapes, Reads, Goes, At, Now, publishVars
<1>2. Reaches(job.tool)
  BY <1>0, <1>1, Reached DEF Linking
<1>3. Written(files') /\ \A f \in {"raw", "out"} \cup ChunkNames : files'[f] = files[f]
  <2>1. \/ files' = files
        \/ \E c \in {"empty", "stacks"}, f \in {"perf.data", "perf.out", "cpu", "heap"} :
              /\ files' = [files EXCEPT ![f] = c]
              /\ f \in {"perf.data", "perf.out"} => job.tool = "perf"
              /\ f \in {"cpu", "heap"} => job.tool = "pprof"
    BY <1>0, <1>1, Here
       DEF LooksUp, Records, Scripts, Scrapes, Reads, Put, Ordered, At, publishVars
  <2>2. \A f \in {"raw", "out"} \cup ChunkNames :
          f \in Names /\ f \notin {"perf.data", "perf.out", "cpu", "heap"}
    BY SuffixesAssumption DEF Names, Plain, Others
  <2>3. ASSUME NEW c \in {"empty", "stacks"},
               NEW f \in {"perf.data", "perf.out", "cpu", "heap"},
               files' = [files EXCEPT ![f] = c],
               f \in {"perf.data", "perf.out"} => job.tool = "perf",
               f \in {"cpu", "heap"} => job.tool = "pprof"
        PROVE  Written(files') /\ \A x \in {"raw", "out"} \cup ChunkNames : files'[x] = files[x]
    <3>1. f \in Names /\ Mine(f)
      BY <1>0, <2>3, MyNames DEF Names, Plain, Others, JvmTools
    <3>q. QED
      BY <1>0, <1>2, <2>2, <2>3, <3>1, WrittenPut DEF Contents, TypeOK
  <2>q. QED
    BY <1>0, <2>1, <2>3, WrittenSame
<1>4. Frame'
  BY <1>0, <1>1, <1>3, AdvanceKeepsFrame DEF TypeOK, Linking, portVars
<1>5. Held'
  BY <1>1, <1>3, QuietKeepsHeld DEF Work, Linking
<1>q. QED
  BY <1>4, <1>5, IInvParts DEF Held, Frame, IInv

\* The port.
LEMMA PortPreservesIInv ==
  ASSUME IInv, FindsOrGuessesPort
  PROVE  IInv'
<1>0. TypeOK /\ Frame
  BY IInvParts DEF IInv
<1>1. /\ ret = "pending" /\ Advances /\ UNCHANGED targetVars /\ ss' = ss
      /\ files' = files /\ UNCHANGED <<parts, size, event>>
      /\ port' \in {"own", "other", "default"} /\ Now = "port"
  BY DEF FindsOrGuessesPort, FindsPort, GuessesPort, At, Now, publishVars
<1>2. Frame'
  BY <1>0, <1>1, WrittenSame, AdvanceKeepsFrame DEF TypeOK, Linking
<1>3. Held'
  BY <1>1, QuietKeepsHeld DEF Work, Linking
<1>q. QED
  BY <1>2, <1>3, IInvParts DEF Held, Frame, IInv

\* The profile.
LEMMA CollectPreservesIInv ==
  ASSUME IInv, Collects
  PROVE  IInv'
<1>0. /\ TypeOK /\ Linked /\ Fresh /\ RawHolds /\ OutHolds /\ Chunked /\ Frame
      /\ ret = "pending" /\ Now = "collect" /\ Advances
      /\ UNCHANGED targetVars /\ UNCHANGED portVars /\ UNCHANGED <<parts, size, event>>
  BY IInvParts DEF IInv, Collects, Goes, At, Now
<1>1. job' = job /\ ret' = ret /\ step' = step + 1 /\ cleanUp' = cleanUp
  BY <1>0 DEF Advances
<1>2. /\ Then \in Work \cup {"pack", "gzip"} /\ Then # "inspect" /\ (Draws => Then # "pack")
      /\ job.tool = "austin" => Then = "convert"
      /\ job.tool = "async-profiler" => Then \notin {"select", "collect"}
      /\ Draws <=> Rendered(job.tool, job.output)
  BY <1>0, Here DEF Ordered, Now, Then, Work
<1>3. Reaches(job.tool)
  BY <1>0, Reached DEF Linking
<1>4. PICK c \in Collectable, copies \in Copied :
        files' = [files EXCEPT ![Collected] = c, !["copies"] = copies]
  BY DEF Collects
<1>5. /\ Collected \in Names /\ "copies" \in Names /\ Collected \in {"raw", "out"}
      /\ job.tool = "austin" => Collected = "raw"
      /\ job.tool = "async-profiler" => Collected = Result
  <2>1. job.tool = "austin" => job.output \in {"flamegraph", "raw"}
    BY <1>0 DEF TypeOK, Jobs
  <2>q. QED
    BY <1>2, <2>1 DEF Collected, Result, Rendered, Names, Plain, Others
<1>6. /\ \/ c \in {files[Collected], "empty", "few", "stacks"}
         \/ job.tool = "austin" /\ c \in {"mojo", "header"}
      /\ copies \in {files["copies"], "part"}
  BY <1>5, <1>4 DEF Collectable, Copied
<1>7. /\ files'[Collected] = c
      /\ \A f \in Names : f \notin {Collected, "copies"} => files'[f] = files[f]
      /\ files'["copies"] = copies
      /\ c \in Contents /\ copies \in Contents /\ files' \in [Names -> Contents]
  BY <1>0, <1>4, <1>5, <1>6 DEF TypeOK, Contents
<1>8. Written(files')
  BY <1>0, <1>3, <1>5, <1>6, <1>7, MyNames DEF Written
<1>9. \A f \in ChunkNames : files'[f] = files[f]
  BY <1>5, <1>7, SuffixesAssumption DEF Names, Plain, Others
<1>10. Frame'
  BY <1>0, <1>8, AdvanceKeepsFrame DEF TypeOK, Linking, portVars
<1>11. Chunked'
  BY <1>0, <1>9, ChunksStay DEF Linking
<1>12. Traced' /\ Encoded' /\ Loaded'
  BY <1>1, <1>2 DEF Traced, Encoded, Loaded, At, Then, Work
<1>13. files["raw"] \in {"absent", "empty", "few", "stacks"}
                        \cup (IF job.output = "raw" THEN {"annotated"} ELSE {})
                        \cup (IF job.tool \in JvmTools THEN {"stale"} ELSE {})
  BY <1>0 DEF RawHolds, At, Now
<1>14. "raw" \in Names /\ "out" \in Names
  BY DEF Names, Plain
<1>15. RawHolds'
  <2>1. \/ files'["raw"] \in {files["raw"], "empty", "few", "stacks"}
        \/ Then = "convert" /\ files'["raw"] \in {"mojo", "header"}
    BY <1>2, <1>5, <1>6, <1>7, <1>14
  <2>q. QED
    BY <1>1, <1>13, <2>1 DEF RawHolds, At, Then
<1>16. OutHolds'
  <2>1. files'["out"] \in {files["out"], "empty", "few", "stacks"}
    BY <1>5, <1>6, <1>7, <1>14
  <2>q. QED
    BY <1>0, <1>1, <1>2, <2>1, JobStays DEF OutHolds, At, Then
<1>q. QED
  BY <1>10, <1>11, <1>12, <1>15, <1>16, IInvParts DEF Held, Frame, IInv

\* austin's conversion and sample count: only raw changes, and stays text.
LEMMA AustinPreservesIInv ==
  ASSUME IInv, Converts \/ Inspects
  PROVE  IInv'
<1>0. /\ TypeOK /\ Linked /\ Fresh /\ RawHolds /\ OutHolds /\ Chunked /\ Frame
      /\ ret = "pending" /\ Advances /\ Now \in {"convert", "inspect"}
      /\ UNCHANGED targetVars /\ UNCHANGED portVars /\ UNCHANGED <<parts, size, event>>
  BY IInvParts DEF IInv, Converts, Inspects, Goes, At, Now
<1>1. job' = job /\ ret' = ret /\ step' = step + 1 /\ cleanUp' = cleanUp
  BY <1>0 DEF Advances
<1>2. /\ job.tool = "austin" /\ (Draws => Then # "pack")
      /\ Then \in Work \cup {"pack", "gzip"} /\ Then # "convert"
      /\ Then = "inspect" <=> Now = "convert"
  BY <1>0, Here DEF Ordered, Now, Then, Work
<1>3. Reaches(job.tool)
  BY <1>0, Reached DEF Linking
<1>4. "raw" \in Names /\ "out" \in Names /\ Mine("raw")
  BY <1>0, <1>2, MyNames DEF Names, Plain, Others, JvmTools
<1>5. \/ files' = files /\ Now = "convert" /\ files["raw"] # "mojo"
      \/ /\ Now = "convert"
         /\ \E c \in {"empty", "header", "stacks"} : files' = [files EXCEPT !["raw"] = c]
      \/ /\ Now = "inspect" /\ (files["raw"] = "header" => job.output = "raw")
         /\ files' = [files EXCEPT !["raw"] =
                            IF files["raw"] = "header" THEN "annotated" ELSE files["raw"]]
  BY DEF Converts, Inspects, At, Now, Put
<1>6. PICK c \in Contents :
        /\ files' = [files EXCEPT !["raw"] = c] /\ (c = files["raw"] \/ c # "stale")
        /\ c \in {"absent", "empty", "few", "stacks"}
             \cup (IF Then = "inspect" THEN {"header"} ELSE {})
             \cup (IF job.output = "raw" THEN {"annotated"} ELSE {})
  <2>1. files["raw"] \in {"absent", "empty", "few", "stacks", "mojo", "header"}
                          \cup (IF job.output = "raw" THEN {"annotated"} ELSE {})
        /\ (Now = "inspect" => files["raw"] # "mojo")
    BY <1>0, <1>2 DEF RawHolds, At, Now, JvmTools
  <2>2. files = [files EXCEPT !["raw"] = files["raw"]]
    BY <1>0 DEF TypeOK
  <2>3. CASE files' = files /\ Now = "convert" /\ files["raw"] # "mojo"
    BY <1>2, <2>1, <2>2, <2>3 DEF Contents
  <2>4. CASE /\ Now = "convert"
             /\ \E c \in {"empty", "header", "stacks"} : files' = [files EXCEPT !["raw"] = c]
    BY <1>2, <2>4 DEF Contents
  <2>5. CASE /\ Now = "inspect" /\ (files["raw"] = "header" => job.output = "raw")
             /\ files' = [files EXCEPT !["raw"] =
                            IF files["raw"] = "header" THEN "annotated" ELSE files["raw"]]
    <3> DEFINE d == IF files["raw"] = "header" THEN "annotated" ELSE files["raw"]
    <3>1. d \in {"absent", "empty", "few", "stacks"}
                 \cup (IF job.output = "raw" THEN {"annotated"} ELSE {})
      BY <1>2, <2>1, <2>5
    <3>2. d \in Contents /\ d # "stale"
      BY <3>1 DEF Contents
    <3>q. QED
      BY <2>5, <3>1, <3>2
  <2>q. QED
    BY <1>5, <2>3, <2>4, <2>5
<1>7. Written(files')
  BY <1>0, <1>3, <1>4, <1>6, WrittenPut
<1>8. /\ files'["raw"] = c /\ files'["out"] = files["out"]
      /\ \A f \in ChunkNames : files'[f] = files[f]
  BY <1>0, <1>4, <1>6, SuffixesAssumption DEF TypeOK, Names, Plain
<1>9. Frame'
  BY <1>0, <1>7, AdvanceKeepsFrame DEF TypeOK, Linking, portVars
<1>10. Chunked'
  BY <1>0, <1>8, ChunksStay DEF Linking
<1>11. Traced' /\ Encoded' /\ Loaded'
  BY <1>1, <1>2 DEF Traced, Encoded, Loaded, At, Then, Work
<1>12. RawHolds'
  BY <1>1, <1>2, <1>6, <1>8 DEF RawHolds, At, Then
<1>13. OutHolds'
  BY <1>0, <1>1, <1>2, <1>8, JobStays DEF OutHolds, At, Then
<1>q. QED
  BY <1>9, <1>10, <1>11, <1>12, <1>13, IInvParts DEF Held, Frame, IInv

\* The flame graph: what is drawn held stacks.
LEMMA DrawPreservesIInv ==
  ASSUME IInv, DrawsGraph
  PROVE  IInv'
<1>0. /\ TypeOK /\ Linked /\ Fresh /\ RawHolds /\ OutHolds /\ Chunked /\ Frame
      /\ ret = "pending" /\ Advances /\ Now = "draw"
      /\ UNCHANGED targetVars /\ UNCHANGED portVars /\ UNCHANGED <<parts, size, event>>
  BY IInvParts DEF IInv, DrawsGraph, Goes, At, Now
<1>1. job' = job /\ ret' = ret /\ step' = step + 1 /\ cleanUp' = cleanUp
  BY <1>0 DEF Advances
<1>2. /\ Then \in Work \cup {"pack", "gzip"} /\ Then \notin {"convert", "inspect"}
      /\ Rendered(job.tool, job.output) /\ Draws
  BY <1>0, Here DEF Ordered, Now, Then, Work
<1>3. Reaches(job.tool) /\ "raw" \in Names /\ "out" \in Names /\ Mine("out")
  BY <1>0, <1>2, Reached, MyNames DEF Linking, Names, Plain, Result, Rendered
<1>4. files["raw"] \in {"few", "stacks"}
  BY <1>0, <1>2 DEF DrawsGraph, Drawable, IsEmpty, RawHolds, At, Now, Rendered, JvmTools
<1>5. files' = [files EXCEPT !["out"] = "graph"]
  BY <1>4 DEF DrawsGraph, Put, Graph
<1>6. Written(files')
  BY <1>0, <1>3, <1>5, WrittenPut DEF Contents
<1>7. /\ files'["raw"] = files["raw"] /\ files'["out"] = "graph"
      /\ \A f \in ChunkNames : files'[f] = files[f]
  BY <1>0, <1>3, <1>5, SuffixesAssumption DEF TypeOK, Names, Plain
<1>8. Frame'
  BY <1>0, <1>6, AdvanceKeepsFrame DEF TypeOK, Linking, portVars
<1>9. Chunked'
  BY <1>0, <1>7, ChunksStay DEF Linking
<1>10. Traced' /\ Encoded' /\ Loaded'
  BY <1>1, <1>2 DEF Traced, Encoded, Loaded, At, Then, Work, Rendered
<1>11. RawHolds' /\ OutHolds'
  BY <1>1, <1>2, <1>4, <1>7 DEF RawHolds, OutHolds, At, Then
<1>q. QED
  BY <1>8, <1>9, <1>10, <1>11, IInvParts DEF Held, Frame, IInv

\* A failure that leaves at most one file of the tool.
LEMMA LeftKeepsIInv ==
  ASSUME IInv, ret = "pending", Now \notin Linking, NEW f \in Names, Mine(f),
         NEW lefts \in SUBSET Left(f), Fails(lefts)
  PROVE  IInv'
<1>1. TypeOK /\ Reaches(job.tool)
  BY Reached DEF IInv
<1>q. QED
  BY <1>1, WrittenLeft, FailKeepsIInv

\* Every error return of invoke before the event.
LEMMA InvokeFailsPreservesIInv ==
  ASSUME IInv,
         \/ RecordFails \/ ScriptFails \/ CollectFails \/ ConvertFails \/ InspectFails
         \/ ScrapeFails("cpu", "cpu") \/ ScrapeFails("heap", "heap")
         \/ ReadFails("readCPU") \/ ReadFails("readHeap")
         \/ DrawFails \/ PackFails \/ GzipFails \/ SplitFails
  PROVE  IInv'
<1>0. TypeOK /\ Linked /\ Fresh
  BY DEF IInv
<1>1. CASE RecordFails \/ ScriptFails
  <2>1. ret = "pending" /\ Now \in {"record", "script"} /\ job.tool = "perf"
    BY <1>0, <1>1, Here DEF RecordFails, ScriptFails, At, Now, Ordered
  <2>q. QED
    BY <1>0, <1>1, <2>1, MyNames, LeftKeepsIInv
       DEF RecordFails, ScriptFails, Linking, Names, Others
<1>2. CASE CollectFails
  BY <1>0, <1>2, MyNames, LeftKeepsIInv DEF CollectFails, At, Now, Linking
<1>3. CASE ScrapeFails("cpu", "cpu") \/ ScrapeFails("heap", "heap")
  <2>1. ret = "pending" /\ Now \in {"cpu", "heap"} /\ job.tool = "pprof"
    BY <1>0, <1>3, Here DEF ScrapeFails, At, Now, Ordered
  <2>2. \A f \in {"cpu", "heap"} : f \in Names /\ Mine(f)
    BY <1>0, <2>1, MyNames DEF Names, Plain, Others, JvmTools
  <2>q. QED
    BY <1>3, <2>1, <2>2, LeftKeepsIInv DEF ScrapeFails, Linking
<1>4. CASE ReadFails("readCPU") \/ ReadFails("readHeap") \/ InspectFails
  BY <1>0, <1>4, FailKeepsIInv, WrittenSame DEF ReadFails, InspectFails, At
<1>5. CASE ConvertFails
  <2>1. ret = "pending" /\ Now = "convert" /\ job.tool = "austin"
    BY <1>0, <1>5, Here DEF ConvertFails, At, Now, Ordered
  <2>2. "text" \in Names /\ Mine("text")
    BY <1>0, <2>1, MyNames DEF Names, Plain, Others, JvmTools
  <2>q. QED
    BY <1>5, <2>1, <2>2, LeftKeepsIInv DEF ConvertFails, Linking, Left
<1>6. CASE DrawFails
  <2>1. ret = "pending" /\ Now = "draw" /\ Rendered(job.tool, job.output)
    BY <1>0, <1>6, Here DEF DrawFails, At, Now, Ordered
  <2>2. "out" \in Names /\ Mine("out")
    BY <1>0, <2>1, MyNames DEF Names, Plain, Rendered, Result
  <2>q. QED
    BY <1>6, <2>1, <2>2, LeftKeepsIInv DEF DrawFails, Linking, Left
<1>7. CASE PackFails
  <2>1. ret = "pending" /\ Now = "pack" /\ Reaches(job.tool)
    BY <1>0, <1>7, Reached DEF PackFails, At, Now, Linking
  <2>2. "packed" \in Names /\ Mine("packed")
    BY <1>0, MyNames DEF OfOutput
  <2>3. \A g \in PackLeaves(Result, job.compressor) : Written(g)
    BY <1>0, <2>1, <2>2, WrittenSame, WrittenPut DEF PackLeaves, Contents
  <2>q. QED
    BY <1>7, <2>1, <2>3, FailKeepsIInv DEF PackFails
<1>8. CASE GzipFails
  <2>1. ret = "pending" /\ Now = "gzip" /\ "gz" \in Names /\ Mine("gz")
    BY <1>0, <1>8, MyNames DEF GzipFails, At, Now, OfOutput
  <2>q. QED
    BY <1>8, <2>1, LeftKeepsIInv DEF GzipFails, Linking, Left
<1>9. CASE SplitFails
  <2>1. ret = "pending" /\ Now = "split"
    BY <1>9 DEF SplitFails, At, Now
  <2>2. Suffixes[1] \in ChunkNames
    BY SuffixesAssumption DEF ChunkNames
  <2>3. Suffixes[1] \in Names /\ Mine(Suffixes[1])
    BY <1>0, <2>2, MyNames DEF OfOutput
  <2>q. QED
    BY <1>9, <2>1, <2>3, LeftKeepsIInv DEF SplitFails, Linking, Left
<1>q. QED
  BY <1>1, <1>2, <1>3, <1>4, <1>5, <1>6, <1>7, <1>8, <1>9

(***************************************************************************)
(* The publisher.                                                          *)
(***************************************************************************)

\* Do: what is packed is what was written, or cut by a codec that streams.
LEMMA PackPreservesIInv ==
  ASSUME IInv, PacksResult
  PROVE  IInv'
<1>0. /\ TypeOK /\ Linked /\ Fresh /\ RawHolds /\ OutHolds /\ Chunked /\ Frame
      /\ ret = "pending" /\ Advances /\ Now = "pack"
      /\ UNCHANGED targetVars /\ UNCHANGED portVars /\ UNCHANGED <<parts, size, event>>
  BY IInvParts DEF IInv, PacksResult, Packs, Goes, At, Now
<1>1. job' = job /\ ret' = ret /\ step' = step + 1 /\ cleanUp' = cleanUp
  BY <1>0 DEF Advances
<1>2. Then = "announce" /\ (Draws <=> Rendered(job.tool, job.output))
  BY <1>0, Here DEF Ordered, Now, Then
<1>3. Reaches(job.tool) /\ (files[Result] = "stale" => Result \in refused)
  BY <1>0, Reached DEF Linking
<1> DEFINE R == ResultFile(Result, job.compressor)
<1>4. /\ R \in OfOutput /\ R \in Names /\ Mine(R) /\ Result \in {"raw", "out"}
      /\ "raw" \in Names /\ "out" \in Names
      /\ R = Result \/ R = "packed"
      /\ job.compressor = "none" <=> R = Result
      /\ Streams(job.compressor) => R = "packed"
  BY <1>0, MyNames DEF ResultFile, OfOutput, Result, Names, Plain, Streams
<1>5. PICK c \in Encodings(files[Result], job.compressor) : files' = [files EXCEPT ![R] = c]
  BY DEF PacksResult, Packs, Put
<1>6. /\ files[Result] # "absent" /\ files[Result] \in Contents
      /\ c = files[Result] \/ (c = "cut" /\ Streams(job.compressor))
  BY <1>0, <1>4, <1>5, MyNames DEF PacksResult, Packs, Exists, Encodings, TypeOK
<1>7. Written(files')
  BY <1>0, <1>3, <1>4, <1>5, <1>6, WrittenPut DEF Contents
<1>8. /\ files'[R] = c /\ files'["raw"] = files["raw"] /\ files'["out"] = files["out"]
      /\ \A f \in ChunkNames : files'[f] = files[f]
  <2>1. \A f \in ChunkNames : f # R /\ f \in Names
    BY <1>4, SuffixesAssumption DEF Names, Plain
  <2>q. QED
    BY <1>0, <1>4, <1>5, <1>6, <2>1 DEF TypeOK
<1>9. Frame'
  BY <1>0, <1>7, AdvanceKeepsFrame DEF TypeOK, Linking, portVars
<1>10. Chunked'
  BY <1>0, <1>8, ChunksStay DEF Linking
<1>11. files[Result] \notin {"mojo", "header", "cut"}
  BY <1>0, <1>4 DEF RawHolds, OutHolds, At, Now
<1>12. Draws /\ cleanUp = 0 => files[Result] = "graph"
  BY <1>0, <1>2 DEF OutHolds, At, Now, Rendered, Result
<1>13. Encoded'
  <2>1. cleanUp = 0 => /\ c \notin {"absent", "mojo", "header"}
                       /\ c = "cut" => Streams(job.compressor)
                       /\ Draws => c \in {"graph", "cut"}
    BY <1>6, <1>11, <1>12
  <2>q. QED
    BY <1>1, <1>8, <2>1, JobStays DEF Encoded
<1>14. Traced'
  BY <1>0, <1>1, <1>3, <1>6, <1>8, JobStays DEF Traced, targetVars
<1>15. RawHolds' /\ OutHolds' /\ Loaded'
  BY <1>0, <1>1, <1>2, <1>8, JobStays DEF RawHolds, OutHolds, Loaded, At, Then, Now
<1>q. QED
  BY <1>9, <1>10, <1>13, <1>14, <1>15, IInvParts DEF Held, Frame, IInv

\* DoWithNativeGzipAndSplit, up to the event.
LEMMA ChunkPreservesIInv ==
  ASSUME IInv, GzipsResult \/ SplitsResult \/ MeasuresResult
  PROVE  IInv'
<1>0. /\ TypeOK /\ Linked /\ Fresh /\ RawHolds /\ OutHolds /\ Chunked /\ Frame
      /\ ret = "pending" /\ Advances /\ Now \in {"gzip", "split", "measure"}
      /\ UNCHANGED targetVars /\ UNCHANGED portVars /\ UNCHANGED event
  BY IInvParts DEF IInv, GzipsResult, SplitsResult, MeasuresResult, Gzips, Splits, Measures,
                   Goes, At, Now
<1>1. job' = job /\ ret' = ret /\ step' = step + 1 /\ cleanUp' = cleanUp
  BY <1>0 DEF Advances
<1>2. /\ Now = "gzip" => Then = "split"
      /\ Now = "split" => Then = "measure"
      /\ Now = "measure" => Then = "announceChunks"
  BY <1>0, Here DEF Ordered, Now, Then
<1>3. Reaches(job.tool) /\ (files[Result] = "stale" => Result \in refused)
  BY <1>0, Reached DEF Linking
<1>4. /\ Result \in OfOutput /\ "gz" \in OfOutput /\ ChunkNames \subseteq OfOutput
      /\ Result \in {"raw", "out"} /\ "gz" \notin ChunkNames
      /\ {"raw", "out"} \subseteq Names /\ {"raw", "out", "gz"} \cap ChunkNames = {}
      /\ OfOutput \subseteq Names /\ \A f \in OfOutput : Mine(f)
  BY <1>0, MyNames, SuffixesAssumption DEF OfOutput, Result, Names, Plain
<1>5. /\ Written(files') /\ parts' \in 0..Len(Suffixes) /\ size' \in 0..Len(Suffixes)
      /\ \A f \in {"raw", "out"} : files'[f] \in {files[f], "absent"}
      /\ Chunked'
  <2>1. CASE GzipsResult
    <3>1. /\ files' = [files EXCEPT ![Result] = "absent", !["gz"] = files[Result]]
          /\ parts' = parts /\ size' = size /\ Now = "gzip"
      BY <2>1 DEF GzipsResult, Gzips, At, Now
    <3>2. /\ \A f \in Names \ {Result, "gz"} : files'[f] = files[f]
          /\ files'[Result] = "absent" /\ files'["gz"] = files[Result]
          /\ files' \in [Names -> Contents]
      BY <1>0, <1>4, <3>1 DEF TypeOK, Contents
    <3>3. Written(files')
      BY <1>3, <1>4, <3>2 DEF Written
    <3>4. Chunked'
      BY <1>0, <1>4, <3>1, <3>2, ChunksStay DEF Linking
    <3>q. QED
      BY <1>0, <1>4, <3>1, <3>2, <3>3, <3>4 DEF TypeOK
  <2>2. CASE SplitsResult
    <3>1. PICK k \in 1..Len(Suffixes) :
            /\ parts' = k
            /\ files' = [x \in Names |-> IF x \in ChunksOf(k) THEN "part" ELSE files[x]]
      BY <2>2 DEF SplitsResult, Splits
    <3>2. size' = size /\ Now = "split" /\ files["gz"] # "absent"
      BY <2>2 DEF SplitsResult, Splits, At, Now, Exists
    <3>3. Len(Suffixes) \in Nat
      BY SuffixesAssumption
    <3>4. ChunksOf(k) \subseteq ChunkNames
      BY <3>1, <3>3 DEF ChunksOf, ChunkNames
    <3>5. Written(files')
      BY <1>0, <1>3, <1>4, <3>1, <3>4 DEF Written, TypeOK, Contents
    <3>6. \A f \in {"raw", "out", "gz"} : files'[f] = files[f]
      BY <1>4, <3>1, <3>4
    <3>7. cleanUp = 0 => \A f \in ChunkNames :
                            files'[f] # "absent" <=> f \in ChunksOf(k) \cup refused
      BY <1>0, <1>4, <3>1, <3>2, NoChunks DEF Linking
    <3>8. Chunked'
      BY <1>0, <1>1, <1>2, <3>1, <3>2, <3>6, <3>7 DEF Chunked, At, Then, Exists, targetVars
    <3>q. QED
      BY <1>0, <3>1, <3>2, <3>3, <3>5, <3>6, <3>8 DEF TypeOK
  <2>3. CASE MeasuresResult
    <3>1. PICK c \in {"absent", files["gz"]} : files' = [files EXCEPT !["gz"] = c]
      BY <2>3 DEF MeasuresResult, Measures, Put
    <3>2. /\ parts' = parts /\ Now = "measure"
          /\ size' = IF files["gz"] # "absent" THEN parts ELSE 0
      BY <2>3 DEF MeasuresResult, Measures, At, Now, Exists
    <3>3. \A f \in Names \ {"gz"} : files'[f] = files[f]
      BY <1>0, <1>4, <3>1 DEF TypeOK
    <3>4. Written(files')
      <4>1. c \in Contents /\ (c = files["gz"] \/ c # "stale")
        BY <1>0, <1>4, <3>1 DEF TypeOK, Contents
      <4>q. QED
        BY <1>0, <1>3, <1>4, <3>1, <4>1, WrittenPut
    <3>5. cleanUp = 0 => /\ parts # 0 /\ files["gz"] # "absent"
                         /\ \A f \in ChunkNames :
                               files[f] # "absent" <=> f \in ChunksOf(parts) \cup refused
      BY <1>0, <3>2 DEF Chunked, At, Now, Exists
    <3>6. cleanUp = 0 => \A f \in ChunkNames :
                            files'[f] # "absent" <=> f \in ChunksOf(parts) \cup refused
      BY <1>4, <3>3, <3>5
    <3>7. Chunked'
      BY <1>0, <1>1, <1>2, <3>2, <3>5, <3>6 DEF Chunked, At, Then, Exists, targetVars
    <3>q. QED
      BY <1>0, <1>4, <3>2, <3>3, <3>4, <3>7 DEF TypeOK
  <2>q. QED
    BY <2>1, <2>2, <2>3
<1>6. Frame'
  BY <1>0, <1>5, AdvanceKeepsFrame DEF TypeOK, Linking, portVars
<1>7. RawHolds' /\ OutHolds'
  BY <1>0, <1>1, <1>2, <1>5 DEF RawHolds, OutHolds, At, Then, Now
<1>8. Traced' /\ Encoded' /\ Loaded'
  BY <1>0, <1>1, <1>2 DEF Traced, Encoded, Loaded, At, Then
<1>q. QED
  BY <1>5, <1>6, <1>7, <1>8, IInvParts DEF Held, Frame, IInv

\* The event: what the files hold at this moment is what it says.
LEMMA AnnouncePreservesIInv ==
  ASSUME IInv, AnnouncesResult \/ AnnouncesParts
  PROVE  IInv'
<1>0. /\ TypeOK /\ Reported /\ Met /\ Linked /\ Fresh /\ Owned /\ Removed /\ Traced /\ Encoded
      /\ Chunked /\ ret = "pending" /\ Now \in {"announce", "announceChunks"}
      /\ parts' = parts /\ size' = size
  BY DEF IInv, AnnouncesResult, AnnouncesParts, Announces, AnnouncesChunks, At, Now
<1>1. /\ job' = job /\ ret' = "nil" /\ step' = step
      /\ cleanUp' = cleanUp /\ doomed' = doomed /\ racing' = racing
      /\ tmp' = tmp /\ loaders' = loaders /\ libc' = libc /\ refused' = refused
      /\ ss' = ss /\ port' = port
      /\ \E copies \in {"absent", files["copies"]} :
            /\ files' = [files EXCEPT !["copies"] = copies]
            /\ spared' = IF copies = "absent" THEN spared ELSE spared \cup {"copies"}
  BY DEF AnnouncesResult, AnnouncesParts, Returns, targetVars, portVars
<1>2. "copies" \in Names /\ "copies" \notin OfOutput
  BY SuffixesAssumption DEF Names, Others, OfOutput, Result
<1>3. /\ files' \in [Names -> Contents] /\ spared' \subseteq Names
      /\ files'["copies"] = "absent" \/ "copies" \in spared'
      /\ files'["copies"] \in {files["copies"], "absent"}
      /\ \A f \in Names : f # "copies" => files'[f] = files[f]
  BY <1>0, <1>1, <1>2 DEF TypeOK, Contents
<1> DEFINE R == ResultFile(Result, job.compressor)
<1>4. /\ R \in OfOutput /\ "gz" \in OfOutput /\ ChunkNames \subseteq OfOutput
      /\ OfOutput \subseteq Names
      /\ \A f \in ChunkNames : files[f] = "stale" => f \in refused
  BY <1>0, Reached, MyNames DEF ResultFile, OfOutput, Linking
<1>5. \/ Now = "announce" /\ event' = [content |-> files[R], size |-> 1, chunks |-> {}]
      \/ /\ Now = "announceChunks"
         /\ event' = [content |-> "part", size |-> size,
                      chunks |-> {f \in ChunkNames : files[f] # "absent"}]
  BY DEF AnnouncesResult, AnnouncesParts, Announces, AnnouncesChunks, At, Now, Exists
<1>6. /\ event' \in [content : Contents \cup {"none"}, size : 0..(Len(Suffixes) + 1),
                    chunks : SUBSET ChunkNames]
      /\ event' # NoEvent /\ (event'.content = "stale" => Result \in refused)
  <2>1. Len(Suffixes) \in Nat /\ size \in 0..(Len(Suffixes) + 1) /\ 1 \in 0..(Len(Suffixes) + 1)
    BY <1>0, SuffixesAssumption DEF TypeOK
  <2>2. files[R] \in Contents
    BY <1>0, <1>4 DEF TypeOK
  <2>3. Now = "announce" /\ files[R] = "stale" => Result \in refused
    BY <1>0 DEF Traced, At, Now
  <2>q. QED
    BY <1>5, <2>1, <2>2, <2>3 DEF NoEvent, Contents
<1>7. TypeOK'
  BY <1>0, <1>1, <1>3, <1>6, JobStays DEF TypeOK
<1>8. Reported' /\ Met'
  BY <1>0, <1>1, <1>6 DEF Reported, Met, NoEvent
<1>9. Linked' /\ Owned'
  BY <1>0, <1>1, <1>3, JobStays DEF Linked, Owned
<1>10. Fresh'
  BY <1>0, <1>1, <1>3, <1>6, JobStays DEF Fresh
<1>11. Removed'
  BY <1>0, <1>1 DEF Removed, Met, TypeOK
<1>12. RawHolds' /\ OutHolds' /\ Traced' /\ Encoded' /\ Chunked' /\ Loaded'
  BY <1>1 DEF RawHolds, OutHolds, Traced, Encoded, Chunked, Loaded, At
<1>13. AnnouncedIsWhole'
  <2> SUFFICES ASSUME cleanUp = 0 PROVE AnnouncedIsWhole'
    BY <1>1 DEF AnnouncedIsWhole
  <2>1. CASE Now = "announce"
    <3>1. /\ files[R] \notin {"absent", "mojo", "header"}
          /\ files[R] = "cut" => Streams(job.compressor)
      BY <1>0, <2>1 DEF Encoded, At, Now
    <3>2. files'[R] = files[R]
      BY <1>2, <1>3, <1>4
    <3>3. event'.chunks = {} /\ event'.content = files[R]
      BY <1>5, <2>1
    <3>q. QED
      BY <1>1, <3>1, <3>2, <3>3, JobStays DEF AnnouncedIsWhole
  <2>2. CASE Now = "announceChunks"
    <3>1. /\ parts # 0 /\ size = parts
          /\ \A f \in ChunkNames : files[f] # "absent" <=> f \in ChunksOf(parts) \cup refused
      BY <1>0, <2>2 DEF Chunked, At, Now, Exists
    <3>2. parts \in 1..Len(Suffixes) /\ Len(Suffixes) \in Nat
      BY <1>0, <3>1, SuffixesAssumption DEF TypeOK
    <3>3. ChunksOf(parts) \subseteq ChunkNames /\ Suffixes[1] \in ChunksOf(parts)
      BY <3>2 DEF ChunksOf, ChunkNames
    <3>4. /\ event'.chunks = ChunksOf(parts) \cup (ChunkNames \cap refused)
          /\ event'.chunks \subseteq ChunkNames /\ event'.size = parts
      BY <1>5, <2>2, <3>1, <3>3
    <3>5. \A f \in event'.chunks : files'[f] # "absent"
      BY <1>2, <1>3, <1>4, <3>1, <3>4
    <3>q. QED
      BY <1>0, <1>1, <3>3, <3>4, <3>5 DEF AnnouncedIsWhole, Exists
  <2>q. QED
    BY <1>0, <2>1, <2>2
<1>14. DrawnFromStacks'
  <2> SUFFICES ASSUME Draws, ~racing PROVE event'.content \in {"graph", "cut"}
    BY <1>1, JobStays DEF DrawnFromStacks
  <2>1. cleanUp = 0
    BY <1>0 DEF Met, TypeOK
  <2>2. Now = "announce"
    BY <1>0, Here DEF Ordered, Now
  <2>q. QED
    BY <1>0, <1>5, <2>1, <2>2 DEF Encoded, At, Now
<1>15. AnnouncesOwnRun'
  <2>1. \A f \in event'.chunks : f \in ChunkNames /\ files'[f] = files[f]
    BY <1>2, <1>3, <1>4, <1>6
  <2>q. QED
    BY <1>1, <1>4, <1>6, <2>1, JobStays DEF AnnouncesOwnRun
<1>q. QED
  BY <1>7, <1>8, <1>9, <1>10, <1>11, <1>12, <1>13, <1>14, <1>15 DEF IInv

(***************************************************************************)
(* CleanUp.                                                                *)
(***************************************************************************)

\* What the removals match.
LEMMA RemovalsAreNames ==
  /\ Len(Removals) \in 1..2
  /\ \A i \in 1..Len(Removals) : Removals[i] \subseteq Names
<1>1. OfOutput \subseteq Names /\ {"library"} \subseteq Names
      /\ {"perf.data", "perf.out"} \subseteq Names /\ Names \ Others \subseteq Names
  BY DEF OfOutput, Result, Names, Plain, Others
<1>2. \/ Removals = <<{"perf.data", "perf.out"}, OfOutput>>
      \/ Removals = <<{"library"}, OfOutput>>
      \/ Removals = <<OfOutput>>
      \/ Removals = <<Names \ Others>>
  BY DEF Removals, AsyncRemovals
<1>q. QED
  BY <1>1, <1>2

\* A removal lists what there is: all of it, or nothing before the link.
LEMMA CleanUpListsPreservesIInv ==
  ASSUME IInv, CleanUpLists
  PROVE  IInv'
<1>0. /\ TypeOK /\ Reported /\ Met /\ Linked /\ Fresh /\ Owned /\ Removed /\ RawHolds
      /\ OutHolds /\ Traced /\ DrawnFromStacks /\ AnnouncesOwnRun
  BY DEF IInv
<1>1. /\ cleanUp < Len(Removals) /\ doomed = {} /\ cleanUp' = cleanUp + 1
      /\ doomed' = {f \in Removals[cleanUp + 1] : Reaches(job.tool) /\ files[f] # "absent"}
      /\ racing' = IF cleanUp = 0 THEN ret = "pending" ELSE racing
      /\ job' = job /\ step' = step /\ ret' = ret
      /\ files' = files /\ parts' = parts /\ size' = size /\ event' = event
      /\ tmp' = tmp /\ loaders' = loaders /\ libc' = libc /\ refused' = refused
      /\ ss' = ss /\ port' = port /\ spared' = spared
  BY DEF CleanUpLists, Exists, publishVars, targetVars, portVars
<1>2. cleanUp \in Nat /\ cleanUp + 1 \in 1..Len(Removals) /\ Len(Removals) \in Nat
  BY <1>0, <1>1, RemovalsAreNames DEF TypeOK
<1>3. TypeOK'
  <2>1. doomed' \subseteq Names /\ racing' \in BOOLEAN
    BY <1>0, <1>1, <1>2, RemovalsAreNames DEF TypeOK
  <2>q. QED
    BY <1>0, <1>1, <1>2, <2>1, JobStays DEF TypeOK
<1>4. Met'
  <2>1. ASSUME ret = "pending" PROVE racing'
    <3>1. CASE cleanUp = 0
      BY <1>1, <2>1, <3>1
    <3>2. CASE cleanUp # 0
      BY <1>0, <1>1, <1>2, <2>1, <3>2 DEF Met
    <3>q. QED
      BY <3>1, <3>2
  <2>q. QED
    BY <1>1, <1>2, <2>1 DEF Met
<1>5. Reported' /\ Linked' /\ Fresh' /\ Owned'
  BY <1>0, <1>1, JobStays DEF Reported, Linked, Fresh, Owned
<1>6. Removed'
  <2> SUFFICES ASSUME ~racing', NEW i \in 1..(cleanUp + 1), NEW f \in Removals[i]
               PROVE  files[f] \in {"absent", "stale"} \/ f \in doomed' \cup spared
    BY <1>1, JobStays DEF Removed
  <2>1. f \in Names
    BY <1>2, RemovalsAreNames
  <2>2. CASE i = cleanUp + 1
    BY <1>0, <1>1, <2>1, <2>2 DEF Linked, Reaches, Home
  <2>3. CASE i # cleanUp + 1
    <3>1. i \in 1..cleanUp /\ ~racing
      BY <1>1, <1>2, <2>3
    <3>q. QED
      BY <1>0, <1>1, <3>1 DEF Removed
  <2>q. QED
    BY <2>2, <2>3
<1>7. RawHolds' /\ OutHolds' /\ Traced' /\ Encoded' /\ Chunked' /\ Loaded'
  BY <1>0, <1>1, <1>2, JobStays DEF RawHolds, OutHolds, Traced, Encoded, Chunked, Loaded, At
<1>8. AnnouncedIsWhole'
  BY <1>1, <1>2 DEF AnnouncedIsWhole
<1>9. DrawnFromStacks' /\ AnnouncesOwnRun'
  BY <1>0, <1>1, JobStays DEF DrawnFromStacks, AnnouncesOwnRun, Met
<1>q. QED
  BY <1>3, <1>4, <1>5, <1>6, <1>7, <1>8, <1>9 DEF IInv

\* A listed file is removed.
LEMMA CleanUpRemovesPreservesIInv ==
  ASSUME IInv, NEW f \in Names, CleanUpRemoves(f)
  PROVE  IInv'
<1>0. /\ TypeOK /\ Reported /\ Met /\ Linked /\ Fresh /\ Owned /\ Removed /\ RawHolds
      /\ OutHolds /\ Traced /\ DrawnFromStacks /\ AnnouncesOwnRun
  BY DEF IInv
<1>1. /\ f \in doomed /\ doomed' = doomed \ {f} /\ files' = [files EXCEPT ![f] = "absent"]
      /\ job' = job /\ step' = step /\ ret' = ret /\ cleanUp' = cleanUp /\ racing' = racing
      /\ parts' = parts /\ size' = size /\ event' = event
      /\ tmp' = tmp /\ loaders' = loaders /\ libc' = libc /\ refused' = refused
      /\ ss' = ss /\ port' = port /\ spared' = spared
  BY DEF CleanUpRemoves, Put, targetVars, portVars
<1>2. cleanUp # 0
  BY <1>0, <1>1 DEF Met
<1>3. /\ files' \in [Names -> Contents] /\ files'[f] = "absent"
      /\ \A x \in Names : files'[x] \in {files[x], "absent"}
      /\ \A x \in Names : x # f => files'[x] = files[x]
  BY <1>0, <1>1 DEF TypeOK, Contents
<1>4. TypeOK'
  BY <1>0, <1>1, <1>3, JobStays DEF TypeOK
<1>5. Met' /\ Reported'
  BY <1>0, <1>1, <1>2 DEF Met, Reported
<1>6. Linked' /\ Fresh'
  BY <1>0, <1>1, <1>3, JobStays DEF Linked, Fresh
<1>7. Owned'
  BY <1>0, <1>1, <1>3, JobStays DEF Owned, Names, Others
<1>8. Removed'
  <2> SUFFICES ASSUME ~racing, NEW i \in 1..cleanUp, NEW x \in Removals[i]
               PROVE  files'[x] \in {"absent", "stale"} \/ x \in doomed' \cup spared
    BY <1>1, JobStays DEF Removed
  <2>1. x \in Names
    BY <1>0, RemovalsAreNames DEF TypeOK
  <2>2. files[x] \in {"absent", "stale"} \/ x \in doomed \cup spared
    BY <1>0 DEF Removed
  <2>q. QED
    BY <1>1, <1>3, <2>1, <2>2
<1>9. "raw" \in Names /\ "out" \in Names
  BY DEF Names, Plain
<1>10. Traced'
  <2>1. ResultFile(Result, job.compressor) \in Names
    BY DEF ResultFile, Result, Names, Plain
  <2>q. QED
    BY <1>0, <1>1, <1>3, <2>1, JobStays DEF Traced, At
<1>11. RawHolds' /\ OutHolds' /\ Encoded' /\ Chunked' /\ Loaded'
  BY <1>0, <1>1, <1>2, <1>3, <1>9 DEF RawHolds, OutHolds, Encoded, Chunked, Loaded, At
<1>12. AnnouncedIsWhole' /\ DrawnFromStacks'
  BY <1>0, <1>1, <1>2, JobStays DEF AnnouncedIsWhole, DrawnFromStacks
<1>13. AnnouncesOwnRun'
  <2>1. \A x \in event.chunks : x \in Names
    BY <1>0 DEF TypeOK, Names
  <2>q. QED
    BY <1>0, <1>1, <1>3, <2>1, JobStays DEF AnnouncesOwnRun
<1>q. QED
  BY <1>4, <1>5, <1>6, <1>7, <1>8, <1>10, <1>11, <1>12, <1>13 DEF IInv

\* Or it cannot be, and stays.
LEMMA CleanUpSparesPreservesIInv ==
  ASSUME IInv, NEW f \in Names, CleanUpSpares(f)
  PROVE  IInv'
<1>0. /\ TypeOK /\ Reported /\ Met /\ Linked /\ Fresh /\ Owned /\ Removed /\ RawHolds
      /\ OutHolds /\ Traced /\ DrawnFromStacks /\ AnnouncesOwnRun
  BY DEF IInv
<1>1. /\ f \in doomed /\ doomed' = doomed \ {f} /\ spared' = spared \cup {f}
      /\ job' = job /\ step' = step /\ ret' = ret /\ cleanUp' = cleanUp /\ racing' = racing
      /\ files' = files /\ parts' = parts /\ size' = size /\ event' = event
      /\ tmp' = tmp /\ loaders' = loaders /\ libc' = libc /\ refused' = refused
      /\ ss' = ss /\ port' = port
  BY DEF CleanUpSpares, publishVars, targetVars, portVars
<1>2. cleanUp # 0
  BY <1>0, <1>1 DEF Met
<1>3. TypeOK'
  BY <1>0, <1>1, JobStays DEF TypeOK
<1>7. Reported' /\ Met' /\ Linked'
  BY <1>0, <1>1, <1>2 DEF Reported, Met, Linked
<1>4. Fresh' /\ Owned' /\ Removed'
  BY <1>0, <1>1, JobStays DEF Fresh, Owned, Removed
<1>5. RawHolds' /\ OutHolds' /\ Traced' /\ Encoded' /\ Chunked' /\ Loaded'
  BY <1>0, <1>1, <1>2, JobStays DEF RawHolds, OutHolds, Traced, Encoded, Chunked, Loaded, At
<1>6. AnnouncedIsWhole' /\ DrawnFromStacks' /\ AnnouncesOwnRun'
  BY <1>0, <1>1, <1>2, JobStays DEF AnnouncedIsWhole, DrawnFromStacks, AnnouncesOwnRun
<1>q. QED
  BY <1>3, <1>4, <1>5, <1>6, <1>7 DEF IInv

(***************************************************************************)
(* The theorems.                                                           *)
(***************************************************************************)

\* The first state: what a previous agent left is all there is.
LEMMA InitHolds == Init => IInv
<1> SUFFICES ASSUME Init PROVE IInv
  OBVIOUS
<1>0. /\ job \in Jobs /\ step = 1 /\ ret = "pending" /\ tmp = "own" /\ event = NoEvent
      /\ parts = 0 /\ size = 0 /\ cleanUp = 0 /\ doomed = {} /\ racing = FALSE
      /\ port = "unknown" /\ refused = {} /\ spared = {}
  BY DEF Init, PortInit
<1>1. /\ 1 \in DOMAIN Steps(job.tool, job.output) /\ Now \in Work
      /\ job.tool = "async-profiler" => Now = "removeTmp"
  BY <1>0, StepOrder DEF InOrder, Ordered, Now, JvmTools
<1>2. PICK left : /\ files = [f \in Names |-> IF f \in left THEN "stale" ELSE "absent"]
                  /\ job.tool \notin JvmTools => left = {}
  BY DEF Init
<1>3. /\ files \in [Names -> Contents]
      /\ \A f \in Names : \/ files[f] = "absent"
                          \/ files[f] = "stale" /\ job.tool \in JvmTools
  BY <1>2 DEF Contents
<1>4. loaders \subseteq {"glibc", "musl"} /\ libc \in loaders
  BY DEF Init
<1>5. ss \in Seq(Lines)
  <2>1. CASE ss = <<>>
    BY <2>1
  <2>2. CASE PortInit
    <3>1. PICK k \in 0..MaxLines : ss \in [1..k -> Lines]
      BY <2>2 DEF PortInit
    <3>q. QED
      BY <3>1, MaxLinesAssumption
  <2>q. QED
    BY <2>1, <2>2 DEF Init
<1>6. event \in [content : Contents \cup {"none"}, size : 0..(Len(Suffixes) + 1),
               chunks : SUBSET ChunkNames]
  BY <1>0, SuffixesAssumption DEF NoEvent
<1>7. TypeOK
  <2>1. parts \in 0..Len(Suffixes) /\ size \in 0..Len(Suffixes) /\ cleanUp \in 0..Len(Removals)
    BY <1>0, SuffixesAssumption, RemovalsAreNames
  <2>2. racing \in BOOLEAN /\ doomed \subseteq Names /\ spared \subseteq Names /\ refused \subseteq Names
    BY <1>0
  <2>3. step \in DOMAIN Steps(job.tool, job.output)
    BY <1>0, <1>1
  <2>q. QED
    BY <1>0, <1>3, <1>4, <1>5, <1>6, <2>1, <2>2, <2>3 DEF TypeOK
<1>8. Reported /\ Met /\ AnnouncedIsWhole /\ DrawnFromStacks /\ AnnouncesOwnRun
  BY <1>0 DEF Reported, Met, AnnouncedIsWhole, DrawnFromStacks, AnnouncesOwnRun
<1>9. Linked /\ Fresh /\ Owned /\ Removed
  BY <1>0, <1>3 DEF Linked, Fresh, Owned, Removed, NoEvent, JvmTools
<1>10. "raw" \in Names /\ "out" \in Names /\ ChunkNames \subseteq Names
  BY DEF Names, Plain
<1>11. RawHolds /\ OutHolds
  BY <1>0, <1>1, <1>3, <1>10 DEF RawHolds, OutHolds, At, Now, Work
<1>12. Traced /\ Encoded /\ Chunked /\ Loaded
  BY <1>0, <1>1, <1>3, <1>10 DEF Traced, Encoded, Chunked, Loaded, Exists, At, Now, Work
<1>q. QED
  BY <1>7, <1>8, <1>9, <1>11, <1>12 DEF IInv

\* Every step, by the lemmas above.
LEMMA NextPreservesIInv ==
  ASSUME IInv, [Next]_vars
  PROVE  IInv'
<1>1. CASE SetUp \/ SetUpFails \/ LooksUp
  BY <1>1, LinkingPreservesIInv, CopyPreservesIInv, QuietPreservesIInv,
     SetUpFailsPreservesIInv DEF SetUp
<1>2. CASE Invoke
  BY <1>2, PortPreservesIInv, QuietPreservesIInv, CollectPreservesIInv, AustinPreservesIInv,
     DrawPreservesIInv, InvokeFailsPreservesIInv, PackPreservesIInv, ChunkPreservesIInv,
     AnnouncePreservesIInv DEF Invoke
<1>3. CASE CleanUp
  BY <1>3, CleanUpListsPreservesIInv, CleanUpRemovesPreservesIInv,
     CleanUpSparesPreservesIInv DEF CleanUp
<1>4. CASE UNCHANGED vars
  <2>1. /\ job' = job /\ step' = step /\ ret' = ret /\ cleanUp' = cleanUp
        /\ doomed' = doomed /\ racing' = racing /\ spared' = spared /\ files' = files
        /\ parts' = parts /\ refused' = refused
        /\ size' = size /\ event' = event /\ tmp' = tmp /\ loaders' = loaders
        /\ libc' = libc /\ ss' = ss /\ port' = port
    BY <1>4 DEF vars, publishVars, targetVars, portVars
  <2>2. TypeOK' /\ Reported' /\ Met' /\ Linked' /\ Fresh' /\ Owned' /\ Removed'
    BY <2>1, JobStays DEF IInv, TypeOK, Reported, Met, Linked, Fresh, Owned, Removed
  <2>3. RawHolds' /\ OutHolds' /\ Traced' /\ Encoded' /\ Chunked' /\ Loaded'
    BY <2>1, JobStays DEF IInv, RawHolds, OutHolds, Traced, Encoded, Chunked, Loaded, At,
                         Exists, TargetUsesMusl
  <2>4. AnnouncedIsWhole' /\ DrawnFromStacks' /\ AnnouncesOwnRun'
    BY <2>1, JobStays DEF IInv, AnnouncedIsWhole, DrawnFromStacks, AnnouncesOwnRun, Exists
  <2>q. QED
    BY <2>2, <2>3, <2>4 DEF IInv
<1>q. QED
  BY <1>1, <1>2, <1>3, <1>4 DEF Next

(***************************************************************************)
(* The invariant holds of every tool: between any two steps the files hold *)
(* what the steps so far have left, and CleanUp is where its counters say. *)
(***************************************************************************)
THEOREM InvariantHolds == Spec => []IInv
<1>q. QED
  BY InitHolds, NextPreservesIInv, PTL DEF Spec

(***************************************************************************)
(* A result announced before any CleanUp is whole: the file of the event   *)
(* is there and readable, or all the chunks that split made are, with none *)
(* but previous ones that SetUp could not remove.                          *)
(***************************************************************************)
THEOREM WholeResult == Spec => []AnnouncedIsWhole
<1>1. IInv => AnnouncedIsWhole
  BY DEF IInv
<1>q. QED
  BY <1>1, InvariantHolds, PTL

(***************************************************************************)
(* A flame graph that the agent draws was drawn from a raw profile with    *)
(* stacks in it, whichever tool collected it.                              *)
(***************************************************************************)
THEOREM GraphOfStacks == Spec => []DrawnFromStacks
<1>1. IInv => DrawnFromStacks
  BY DEF IInv
<1>q. QED
  BY <1>1, InvariantHolds, PTL

(***************************************************************************)
(* What an agent that was killed left in the target's tmp directory is     *)
(* announced only if SetUp could not remove it.                            *)
(***************************************************************************)
THEOREM OwnRun == Spec => []AnnouncesOwnRun
<1>1. IInv => AnnouncesOwnRun
  BY DEF IInv
<1>q. QED
  BY <1>1, InvariantHolds, PTL

(***************************************************************************)
(* async-profiler runs with the library of the JVM's libc, but for a glibc *)
(* JVM beside a musl loader.                                               *)
(***************************************************************************)
THEOREM FittingLibrary == Spec => []LibraryFits
<1>1. IInv => LibraryFits
  BY DEF IInv, TypeOK, Loaded, LibraryFits, Fits, TargetUsesMusl
<1>q. QED
  BY <1>1, InvariantHolds, PTL

(***************************************************************************)
(* A CleanUp that begins after invoke has returned leaves nothing of the   *)
(* PID but what cannot be removed and the two kinds of file it does not    *)
(* look for.                                                               *)
(***************************************************************************)
THEOREM CleanUpIsComplete == Spec => []CleanUpRemovesAll
<1>1. ASSUME IInv PROVE CleanUpRemovesAll
  <2> SUFFICES ASSUME CleanedUp, ~racing, NEW f \in Names, Exists(f), files[f] # "stale",
                      f \notin spared
               PROVE  \/ job.tool = "perf" /\ Draws /\ f = "raw"
                      \/ job.tool = "jcmd" /\ f = "settings"
    BY DEF CleanUpRemovesAll
  <2>1. cleanUp = Len(Removals) /\ doomed = {} /\ cleanUp > 0 /\ ret # "pending"
    BY <1>1, RemovalsAreNames DEF CleanedUp, IInv, Met
  <2>2. ~\E i \in 1..Len(Removals) : f \in Removals[i]
    BY <1>1, <2>1 DEF IInv, Removed, Exists
  <2>3. f \in Kept /\ f # "copies"
    BY <1>1, <2>1, <2>2 DEF IInv, Owned, Mine, Exists
  <2>q. QED
    BY <2>3 DEF Kept
<1>q. QED
  BY <1>1, InvariantHolds, PTL

(***************************************************************************)
(* The refinement.                                                         *)
(***************************************************************************)

WorkerStep == Worker!Write \/ Worker!Compress \/ Worker!Publish \/ Worker!Fail

\* Going on: within the work, to the publisher, or within the publisher.
LEMMA AdvanceIsWorkerStep ==
  ASSUME TypeOK, Reported, ret = "pending", Advances, event' = event,
         Now \notin {"announce", "announceChunks"}
  PROVE  [WorkerStep]_Worker!workerVars
<1>1. job' = job /\ ret' = "pending" /\ step' = step + 1 /\ event = NoEvent
  BY DEF Advances, Reported
<1>2. /\ Now \in Work => Stage = "running"
      /\ Now \in {"pack", "gzip"} => Stage = "written"
      /\ Now \in {"announce", "split", "measure", "announceChunks"} => Stage = "compressed"
  BY DEF Stage, At, Now, Work
<1>3. /\ Then \in Work => Stage' = "running"
      /\ Then \in {"pack", "gzip"} => Stage' = "written"
      /\ Then \in {"announce", "split", "measure", "announceChunks"} => Stage' = "compressed"
  BY <1>1 DEF Stage, At, Then, Work
<1>4. \/ Now \in Work /\ Then \in Work
      \/ Now \in Work /\ Then \in {"pack", "gzip"}
      \/ Now \in {"pack", "gzip"} /\ Then \in {"announce", "split"}
      \/ Now \in {"split", "measure"} /\ Then \in {"measure", "announceChunks"}
  BY Here DEF Ordered, Now, Then
<1>q. QED
  BY <1>1, <1>2, <1>3, <1>4 DEF WorkerStep, Worker!Write, Worker!Compress, Worker!workerVars

\* An error, from whatever stage.
LEMMA FailIsWorkerStep ==
  ASSUME TypeOK, Reported, ret = "pending", NEW lefts, Fails(lefts)
  PROVE  [WorkerStep]_Worker!workerVars
<1>1. ret' = "error" /\ event' = event
  BY DEF Fails, Returns
<1>2. Stage \in {"running", "written", "compressed"}
  BY DEF Stage, At
<1>3. Stage' = "failed"
  BY <1>1 DEF Stage, At
<1>q. QED
  BY <1>1, <1>2, <1>3 DEF WorkerStep, Worker!Fail

\* The event and the return of nil are one step of the worker.
LEMMA AnnounceIsWorkerStep ==
  ASSUME IInv, AnnouncesResult \/ AnnouncesParts, Reported'
  PROVE  [WorkerStep]_Worker!workerVars
<1>1. ret' = "nil" /\ ret = "pending" /\ Now \in {"announce", "announceChunks"}
  BY DEF AnnouncesResult, AnnouncesParts, Returns, At, Now
<1>2. Stage = "compressed"
  BY <1>1 DEF Stage, At, Now
<1>3. Stage' = "published" /\ event' # NoEvent'
  BY <1>1 DEF Stage, At, Reported
<1>q. QED
  BY <1>2, <1>3 DEF WorkerStep, Worker!Publish

\* Every step is one of the worker or changes nothing of it.
LEMMA NextIsWorkerStep ==
  ASSUME IInv, [Next]_vars
  PROVE  [WorkerStep]_Worker!workerVars
<1>0. TypeOK /\ Reported /\ Reported'
  BY NextPreservesIInv DEF IInv
<1>1. CASE SetUp \/ LooksUp
  <2>1. /\ ret = "pending" /\ Advances /\ event' = event
        /\ Now \in {"removeTmp", "removePrevious", "link", "copy", "select", "lookUp"}
    BY <1>1 DEF SetUp, LooksUp, SetsUp, CopiesAll, At, Now, Goes, publishVars, RemovesTmp,
                RemovesPrevious, Links, Copies, Selects
  <2>q. QED
    BY <1>0, <2>1, AdvanceIsWorkerStep
<1>2. CASE \/ FindsOrGuessesPort \/ Records \/ Scripts \/ Collects \/ Converts \/ Inspects
           \/ Scrapes("cpu", "cpu") \/ Reads("readCPU", "cpu")
           \/ Scrapes("heap", "heap") \/ Reads("readHeap", "heap")
           \/ DrawsGraph \/ PacksResult \/ GzipsResult \/ SplitsResult \/ MeasuresResult
  <2>1. /\ ret = "pending" /\ Advances /\ event' = event
        /\ Now \notin {"announce", "announceChunks"}
    BY <1>2 DEF FindsOrGuessesPort, Records, Scripts, Collects, Converts, Inspects, Scrapes,
                Reads, DrawsGraph, PacksResult, Packs, GzipsResult, Gzips, SplitsResult,
                Splits, MeasuresResult, Measures, At, Now, Goes, publishVars
  <2>q. QED
    BY <1>0, <2>1, AdvanceIsWorkerStep
<1>3. CASE \/ SetUpFails \/ RecordFails \/ ScriptFails \/ CollectFails \/ ConvertFails
           \/ InspectFails \/ ScrapeFails("cpu", "cpu") \/ ScrapeFails("heap", "heap")
           \/ ReadFails("readCPU") \/ ReadFails("readHeap")
           \/ DrawFails \/ PackFails \/ GzipFails \/ SplitFails
  <2>1. ret = "pending" /\ \E lefts : Fails(lefts)
    BY <1>3 DEF SetUpFails, RecordFails, ScriptFails, CollectFails, ConvertFails,
                InspectFails, ScrapeFails, ReadFails, DrawFails, PackFails, GzipFails,
                SplitFails, At
  <2>q. QED
    BY <1>0, <2>1, FailIsWorkerStep
<1>4. CASE AnnouncesResult \/ AnnouncesParts
  BY <1>0, <1>4, AnnounceIsWorkerStep
<1>5. CASE CleanUp \/ UNCHANGED vars
  <2>1. job' = job /\ ret' = ret /\ step' = step /\ event' = event
    BY <1>5 DEF CleanUp, CleanUpLists, CleanUpRemoves, CleanUpSpares, vars, publishVars
  <2>2. Stage' = Stage
    BY <2>1 DEF Stage, At
  <2>q. QED
    BY <2>1, <2>2 DEF Worker!workerVars
<1>q. QED
  BY <1>1, <1>2, <1>3, <1>4, <1>5 DEF Next, Invoke

(***************************************************************************)
(* Every tool, with every output and whatever step of it fails, is the     *)
(* worker that AgentLifecycle relies on: it writes, compresses and         *)
(* announces in this order, at most once, and announces nothing when it    *)
(* fails.                                                                  *)
(***************************************************************************)
THEOREM WorkerIsImplemented == Spec => ImplementsWorker
<1>1. Init => Worker!Init
  <2> SUFFICES ASSUME Init PROVE Worker!Init
    OBVIOUS
  <2>1. ret = "pending" /\ event = NoEvent /\ job \in Jobs /\ step = 1
    BY DEF Init
  <2>2. Now \in Work
    BY <2>1, StepOrder DEF InOrder, Now
  <2>q. QED
    BY <2>1, <2>2 DEF Worker!Init, Stage, At, Now, Work
<1>2. IInv /\ [Next]_vars => [WorkerStep]_Worker!workerVars
  BY NextIsWorkerStep
<1>q. QED
  BY <1>1, <1>2, InvariantHolds, PTL DEF Spec, ImplementsWorker, Worker!Spec, WorkerStep
=============================================================================
