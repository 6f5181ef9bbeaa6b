---------------------------- MODULE ToolPipelines ----------------------------
(***************************************************************************)
(* What each profiler does for one PID: SetUp, then the invoke of bpf,     *)
(* perf, pyspy, austin, rbspy, async-profiler, pprof, Node's dummy and of  *)
(* jcmd's dumps, from the command that collects to the publisher, and      *)
(* CleanUp.  (jcmd's recordings and the wait for Node's snapshot have      *)
(* modules of their own.)                                                  *)
(*                                                                         *)
(* The steps of a tool are a sequence; every step either succeeds or ends  *)
(* SetUp or invoke with an error, leaving what it wrote.  CleanUp runs     *)
(* after the grace period or, on SIGTERM, at any time.  Names carry the    *)
(* PID and the iteration, so the goroutines of Invoke share no file and    *)
(* one of them is enough.                                                  *)
(***************************************************************************)
EXTENDS TargetTmp, PprofPort

VARIABLES
    job,        \* tool, output and compressor
    step,       \* index into Steps
    ret,        \* what SetUp, if it fails, or invoke returns: "pending", "nil", "error"
    cleanUp,    \* how many of its removals CleanUp has begun
    doomed,     \* the files CleanUp has listed and not yet removed
    spared,     \* the files that could not be removed
    racing      \* CleanUp began before invoke returned

vars == <<publishVars, targetVars, portVars, job, step, ret, cleanUp, doomed, spared,
          racing>>

-----------------------------------------------------------------------------
(* The tools.                                                              *)

\* SetUp: ContainerFileSystem comes first, but changes nothing.
JvmSetUp == <<"removeTmp", "removePrevious", "link", "lookUp", "copy">>

SetUpSteps(t) ==
    CASE t = "async-profiler" -> Append(JvmSetUp, "select")
      [] t = "jcmd"           -> JvmSetUp
      [] OTHER                -> <<"lookUp">>

Drawn(o) == IF o = "flamegraph" THEN <<"draw">> ELSE <<>>
Do == <<"pack", "announce">>

BpfSteps(o) == <<"collect">> \o Drawn(o) \o Do
PerfSteps(o) == <<"record", "script", "collect">> \o Drawn(o) \o Do
PySpySteps(o) == <<"collect">> \o Drawn(o) \o Do
AustinSteps(o) == <<"collect", "convert", "inspect">> \o Drawn(o) \o Do
RbspySteps == <<"collect">> \o Do
AsyncSteps == <<"collect">> \o Do

PprofSteps(o) ==
    <<"port">> \o (IF o = "raw" THEN <<"cpu", "readCPU", "heap", "readHeap">> ELSE <<>>)
      \o <<"collect">> \o Do

DoInChunks == <<"gzip", "split", "measure", "announceChunks">>

JcmdSteps(o) == <<"collect">> \o IF o = "heapdump" THEN DoInChunks ELSE Do
NodeSteps == <<"collect">> \o DoInChunks

InvokeSteps(t, o) ==
    CASE t = "jcmd"           -> JcmdSteps(o)
      [] t = "async-profiler" -> AsyncSteps
      [] t = "bpf"            -> BpfSteps(o)
      [] t = "pyspy"          -> PySpySteps(o)
      [] t = "perf"           -> PerfSteps(o)
      [] t = "rbspy"          -> RbspySteps
      [] t = "austin"         -> AustinSteps(o)
      [] t = "pprof"          -> PprofSteps(o)
      [] t = "node-dummy"     -> NodeSteps

Steps(t, o) == SetUpSteps(t) \o InvokeSteps(t, o)

\* The kinds of compressor.Get: none, a stream, a block.
Compressors == {"none", "gzip", "snappy"}

\* The outputs that differ in what the agent does.
Jobs ==
    [tool : {"bpf", "perf", "austin", "async-profiler"}, output : {"flamegraph", "raw"},
     compressor : Compressors]
    \cup [tool : {"pyspy"}, output : {"flamegraph", "raw", "threaddump"},
          compressor : Compressors]
    \cup [tool : {"rbspy"}, output : {"flamegraph"}, compressor : Compressors]
    \cup [tool : {"pprof"}, output : {"pprof", "heapdump", "raw"}, compressor : Compressors]
    \cup [tool : {"jcmd"}, output : {"threaddump", "heapdump"}, compressor : Compressors]
    \cup [tool : {"node-dummy"}, output : {"heapsnapshot"}, compressor : Compressors]

Draws == \E i \in DOMAIN Steps(job.tool, job.output) : Steps(job.tool, job.output)[i] = "draw"

\* GetResultFile of the job's output, and of what the tool collects for it.
Result == IF job.output = "raw" THEN "raw" ELSE "out"
Collected == IF Draws THEN "raw" ELSE Result

-----------------------------------------------------------------------------
(* One step of SetUp or invoke.                                            *)

At(s) == ret = "pending" /\ Steps(job.tool, job.output)[step] = s

Advances ==
    /\ step' = step + 1
    /\ UNCHANGED <<job, ret, cleanUp, doomed, spared, racing>>

Goes == Advances /\ UNCHANGED <<targetVars, portVars>>

\* Every return of invoke runs austin's deferred removal of its copies, whose
\* error is dropped.
Returns(r, left) ==
    /\ ret' = r
    /\ \E copies \in {"absent", left["copies"]} :
          /\ files' = [left EXCEPT !["copies"] = copies]
          /\ spared' = IF copies = "absent" THEN spared ELSE spared \cup {"copies"}
    /\ UNCHANGED <<targetVars, portVars, job, step, cleanUp, doomed, racing>>

Fails(lefts) ==
    /\ \E left \in lefts : Returns("error", left)
    /\ UNCHANGED <<parts, size, event>>

Left(f) == {files, [files EXCEPT ![f] = "empty"], [files EXCEPT ![f] = "few"]}

-----------------------------------------------------------------------------
(* SetUp.                                                                  *)

\* What file.RemoveAll matches for agent-<output>.
OfOutput == {Result, "packed", "gz"} \cup ChunkNames

SetsUp(s, Does) == At(s) /\ Does /\ Advances /\ UNCHANGED portVars

\* Mutant: the library is chosen before the directory is copied.
CopiesLast ==
    \/ SetsUp("copy", IF job.tool = "jcmd" THEN Copies("jcmd") ELSE Selects)
    \/ SetsUp("select", Copies("async-profiler"))

\* The copies: the tool's own files, and the library of the target's libc.
CopiesAll ==
    \/ SetsUp("copy", Copies(job.tool))
    \/ SetsUp("select", Selects)

SetUp ==
    \/ SetsUp("removeTmp", RemovesTmp)
    \/ SetsUp("removePrevious", RemovesPrevious(OfOutput))
    \/ SetsUp("link", Links)
    \/ CopiesAll

\* GetCandidatePIDs or the given PID; for Node the directory of its snapshots.
LooksUp == At("lookUp") /\ Goes /\ UNCHANGED publishVars

\* Only the removal of previous files cannot fail.  The library is not
\* touched unless the target uses musl.
SetUpFails ==
    \/ \E s \in {"removeTmp", "link", "lookUp"} : At(s) /\ Fails({files})
    \/ At("copy") /\ Fails(CopyLeaves(job.tool))
    \/ At("select") /\ TargetUsesMusl /\ Fails({files})

-----------------------------------------------------------------------------
(* invoke, up to the result file.                                          *)

\* fetchProfileFromPID goes on with or without a port that was found.
FindsOrGuessesPort ==
    /\ At("port")
    /\ FindsPort \/ GuessesPort
    /\ Advances
    /\ UNCHANGED <<publishVars, targetVars>>

\* perf record and perf script, each with a file of its own.
Records ==
    /\ At("record")
    /\ Put("perf.data", "stacks")
    /\ Goes
    /\ UNCHANGED <<parts, size, event>>

RecordFails == At("record") /\ Fails(Left("perf.data"))

Scripts ==
    /\ At("script")
    /\ Exists("perf.data")
    /\ Put("perf.out", "stacks")
    /\ Goes
    /\ UNCHANGED <<parts, size, event>>

ScriptFails == At("script") /\ Fails(Left("perf.out"))

(***************************************************************************)
(* The command that makes the profile.  The tool writes the file, or the   *)
(* agent writes its output with file.Write, which only warns when it       *)
(* cannot; jcmd's dumps are written with an error check, and Node's        *)
(* snapshot is copied with one.  The command that succeeds may have left   *)
(* the file as it was, or written nothing: async-profiler always when the  *)
(* JVM cannot load the library.                                            *)
(***************************************************************************)
Fits == files["library"] = libc

Collectable ==
    CASE job.tool = "austin" -> {files["raw"], "empty", "mojo", "header", "stacks"}
      [] job.tool = "node-dummy" \/ job.output = "threaddump" -> {"empty", "few", "stacks"}
      [] job.tool = "async-profiler" /\ ~Fits -> {files[Result], "empty"}
      [] OTHER -> {files[Collected], "empty", "few", "stacks"}

\* What a command needs: perf's folding its input, async-profiler its own
\* directory, the JVM a name that is free for its heap dump.
Runs ==
    /\ job.tool = "perf" => Exists("perf.out")
    /\ job.tool = "async-profiler" => Exists("library")
    /\ job.tool = "jcmd" /\ job.output = "heapdump" => ~Exists(Result)

\* austin runs on copies of the target's interpreter files, if it finds any.
Copied == {files["copies"]} \cup IF job.tool = "austin" THEN {"part"} ELSE {}

Collects ==
    /\ At("collect")
    /\ Runs
    /\ \E c \in Collectable, copies \in Copied :
          files' = [files EXCEPT ![Collected] = c, !["copies"] = copies]
    /\ Goes
    /\ UNCHANGED <<parts, size, event>>

CollectFails == At("collect") /\ Fails(Left(Collected))

\* pprof's raw output: two scrapes, each read with go tool pprof.
Scrapes(s, f) ==
    /\ At(s)
    /\ \E c \in {"empty", "stacks"} : Put(f, c)
    /\ Goes
    /\ UNCHANGED <<parts, size, event>>

ScrapeFails(s, f) == At(s) /\ Fails(Left(f))

Reads(s, f) ==
    /\ At(s)
    /\ files[f] = "stacks"
    /\ Goes
    /\ UNCHANGED publishVars

ReadFails(s) == At(s) /\ Fails({files})

\* convertMojo: text is left alone, MOJO goes through mojo2austin.
Converts ==
    /\ At("convert")
    /\ Exists("raw")
    /\ IF files["raw"] = "mojo"
         THEN \E c \in {"empty", "header", "stacks"} : Put("raw", c)
         ELSE UNCHANGED files
    /\ Goes
    /\ UNCHANGED <<parts, size, event>>

ConvertFails ==
    /\ At("convert")
    /\ Fails({files} \cup IF files["raw"] = "mojo" THEN Left("text") ELSE {})

\* The sample count: a raw profile without samples is annotated, and
\* anything else without samples is an error.
Inspects ==
    /\ At("inspect")
    /\ ~IsEmpty("raw")
    /\ files["raw"] = "header" => job.output = "raw"
    /\ Put("raw", IF files["raw"] = "header" THEN "annotated" ELSE files["raw"])
    /\ Goes
    /\ UNCHANGED <<parts, size, event>>

InspectFails == At("inspect") /\ Fails({files})

-----------------------------------------------------------------------------
(* handleFlamegraph.  bpf and perf ask for MinimumRawSize bytes, pyspy and *)
(* austin for a file that is not empty.                                    *)

Drawable ==
    /\ ~IsEmpty("raw")
    /\ job.tool \in {"bpf", "perf"} => files["raw"] # "few"

Graph == IF files["raw"] \in {"few", "stacks"} THEN "graph" ELSE "blank"

\* Mutant: flamegraph.pl runs on whatever there is.
DrawsUnchecked ==
    /\ At("draw")
    /\ Put("out", Graph)
    /\ Goes
    /\ UNCHANGED <<parts, size, event>>

DrawsGraph ==
    /\ At("draw")
    /\ Drawable
    /\ Put("out", Graph)
    /\ Goes
    /\ UNCHANGED <<parts, size, event>>

\* Mutant: the PID is given up without an error.
DrawFailsSilently ==
    /\ At("draw")
    /\ Returns("nil", files)
    /\ UNCHANGED <<parts, size, event>>

\* Too few stacks, or flamegraph.pl fails with its output file created.
DrawFails == At("draw") /\ Fails({files} \cup IF Drawable THEN Left("out") ELSE {})

-----------------------------------------------------------------------------
(* The publisher, and with it the end of invoke.                           *)

PacksResult == At("pack") /\ Packs(Result, job.compressor) /\ Goes

\* Mutant: the event is printed although Encode failed.
PackFailsLoudly == At("pack") /\ Announces(Result, job.compressor) /\ Returns("error", files)

PackFails == At("pack") /\ Fails(PackLeaves(Result, job.compressor))

\* Mutant: invoke does not return once the event is printed.
AnnouncesAndGoesOn ==
    /\ At("announce")
    /\ Announces(Result, job.compressor)
    /\ Goes
    /\ UNCHANGED files

AnnouncesResult ==
    /\ At("announce")
    /\ Announces(Result, job.compressor)
    /\ Returns("nil", files)

GzipsResult == At("gzip") /\ Gzips(Result) /\ Goes

GzipFails == At("gzip") /\ Fails({files} \cup IF Exists(Result) THEN Left("gz") ELSE {})

SplitsResult == At("split") /\ Splits /\ Goes

SplitFails == At("split") /\ Fails({files} \cup Left(Suffixes[1]))

MeasuresResult == At("measure") /\ Measures /\ Goes

AnnouncesParts == At("announceChunks") /\ AnnouncesChunks /\ Returns("nil", files)

-----------------------------------------------------------------------------
(* CleanUp of the tool: one RemoveAll of everything named with agent-      *)
(* or, for perf, async-profiler and jcmd, with agent-<output> only,        *)
(* after perf's own files or the directory of async-profiler.  Stopping    *)
(* async-profiler in the target touches no file.                           *)

\* Mutant: perf's own files are forgotten.
RemovalsOfOutput ==
    IF job.tool \in {"perf", "async-profiler", "jcmd"}
      THEN <<OfOutput>> ELSE <<Names \ Others>>

AsyncRemovals == <<{"library"}, OfOutput>>

\* What each removal matches, in order.
Removals ==
    CASE job.tool = "perf" -> <<{"perf.data", "perf.out"}, OfOutput>>
      [] job.tool = "async-profiler" -> AsyncRemovals
      [] job.tool = "jcmd" -> <<OfOutput>>
      [] OTHER -> <<Names \ Others>>

\* RemoveAll lists the files and removes one after the other, or warns that it
\* cannot.  Before SetUp of a JVM tool has made the link there is nothing to
\* list.
CleanUpLists ==
    /\ cleanUp < Len(Removals)
    /\ doomed = {}
    /\ cleanUp' = cleanUp + 1
    /\ doomed' = {f \in Removals[cleanUp + 1] : Reaches(job.tool) /\ Exists(f)}
    /\ racing' = IF cleanUp = 0 THEN ret = "pending" ELSE racing
    /\ UNCHANGED <<publishVars, targetVars, portVars, job, step, ret, spared>>

CleanUpRemoves(f) ==
    /\ f \in doomed
    /\ doomed' = doomed \ {f}
    /\ Put(f, "absent")
    /\ UNCHANGED <<parts, size, event, targetVars, portVars, job, step, ret, cleanUp, spared,
                   racing>>

CleanUpSpares(f) ==
    /\ f \in doomed
    /\ Exists(f)
    /\ doomed' = doomed \ {f}
    /\ spared' = spared \cup {f}
    /\ UNCHANGED <<publishVars, targetVars, portVars, job, step, ret, cleanUp, racing>>

CleanedUp == cleanUp = Len(Removals) /\ doomed = {}

-----------------------------------------------------------------------------

TypeOK ==
    /\ job \in Jobs
    /\ step \in DOMAIN Steps(job.tool, job.output)
    /\ ret \in {"pending", "nil", "error"}
    /\ files \in [Names -> Contents]
    /\ parts \in 0..Len(Suffixes) /\ size \in 0..Len(Suffixes)
    /\ event \in [content : Contents \cup {"none"}, size : 0..(Len(Suffixes) + 1),
                 chunks : SUBSET ChunkNames]
    /\ tmp \in {"own", "gone", "target"}
    /\ libc \in loaders /\ loaders \subseteq {"glibc", "musl"}
    /\ ss \in Seq(Lines) /\ port \in {"unknown", "own", "other", "default"}
    /\ cleanUp \in 0..Len(Removals)
    /\ doomed \subseteq Names /\ spared \subseteq Names /\ refused \subseteq Names
    /\ racing \in BOOLEAN

Init ==
    /\ job \in Jobs
    /\ step = 1
    /\ ret = "pending"
    /\ \E left \in IF job.tool \in JvmTools
                    THEN Leftovers(job.tool, job.output, Result) ELSE {{}} :
         files = [f \in Names |-> IF f \in left THEN "stale" ELSE "absent"]
    /\ tmp = "own"
    /\ loaders \in IF job.tool = "async-profiler" THEN (SUBSET {"glibc", "musl"}) \ {{}}
                                                  ELSE {{"glibc"}}
    /\ libc \in loaders
    /\ IF job.tool = "pprof" THEN PortInit ELSE ss = <<>> /\ port = "unknown"
    /\ parts = 0 /\ size = 0
    /\ event = NoEvent
    /\ refused = {} /\ spared = {}
    /\ cleanUp = 0 /\ doomed = {} /\ racing = FALSE

Invoke ==
    \/ FindsOrGuessesPort
    \/ Records \/ RecordFails \/ Scripts \/ ScriptFails \/ Collects \/ CollectFails
    \/ Scrapes("cpu", "cpu") \/ ScrapeFails("cpu", "cpu")
    \/ Reads("readCPU", "cpu") \/ ReadFails("readCPU")
    \/ Scrapes("heap", "heap") \/ ScrapeFails("heap", "heap")
    \/ Reads("readHeap", "heap") \/ ReadFails("readHeap")
    \/ Converts \/ ConvertFails \/ Inspects \/ InspectFails
    \/ DrawsGraph \/ DrawFails
    \/ PacksResult \/ PackFails \/ AnnouncesResult
    \/ GzipsResult \/ GzipFails \/ SplitsResult \/ SplitFails \/ MeasuresResult
    \/ AnnouncesParts

CleanUp == CleanUpLists \/ \E f \in Names : CleanUpRemoves(f) \/ CleanUpSpares(f)

Next == SetUp \/ LooksUp \/ SetUpFails \/ Invoke \/ CleanUp

Spec == Init /\ [][Next]_vars

-----------------------------------------------------------------------------
(* What makes a pipeline correct.                                          *)

(***************************************************************************)
(* Every tool is the worker that AgentLifecycle takes it for: one event,   *)
(* after the profile was written and compressed, and none from a PID that  *)
(* fails, then or later.  invoke returns nil exactly when it has announced *)
(* a result, whatever step failed: "a run that ends without a result must  *)
(* not report success".                                                    *)
(***************************************************************************)
Stage ==
    CASE ret = "nil"   -> "published"
      [] ret = "error" -> "failed"
      [] \E s \in {"pack", "gzip"} : At(s) -> "written"
      [] \E s \in {"announce", "split", "measure", "announceChunks"} : At(s) -> "compressed"
      [] OTHER -> "running"

Worker == INSTANCE PidWorker WITH worker <- Stage, announced <- event # NoEvent

ImplementsWorker == Worker!Spec

(***************************************************************************)
(* A result announced before any CleanUp is there, readable and whole:     *)
(* text and not austin's binary format, all the chunks, with none but the  *)
(* previous ones that could not be removed, and the size of what the run's *)
(* own add up to.  Only a codec that streams may have lost the end of the  *)
(* file, when Close fails.                                                 *)
(***************************************************************************)
AnnouncedIsWhole ==
    event # NoEvent /\ cleanUp = 0 =>
        IF event.chunks = {}
          THEN /\ event.content \notin {"absent", "mojo", "header"}
               /\ event.content = "cut" => Streams(job.compressor)
               /\ event.content = files[ResultFile(Result, job.compressor)]
          ELSE /\ event.chunks = ChunksOf(parts) \cup (ChunkNames \cap refused)
               /\ event.size = parts
               /\ \A f \in event.chunks : Exists(f)

(***************************************************************************)
(* A flame graph the agent draws itself is never one of nothing: the raw   *)
(* profile it was drawn from held stacks.                                  *)
(***************************************************************************)
DrawnFromStacks ==
    Draws /\ event # NoEvent /\ ~racing => event.content \in {"graph", "cut"}

(***************************************************************************)
(* A result is one of this run: a file that a killed agent left in the     *)
(* target's tmp directory under the same name is not announced, nor are    *)
(* the chunks of its longer dump beside those of this one, unless SetUp    *)
(* could not remove them.                                                  *)
(***************************************************************************)
AnnouncesOwnRun ==
    event # NoEvent =>
        /\ event.content = "stale" => Result \in refused
        /\ \A f \in event.chunks : files[f] = "stale" => f \in refused

(***************************************************************************)
(* The library that profiler.sh hands to the JVM is the build of the JVM's *)
(* libc, after any mix of loaders and of what was there before, but for a  *)
(* glibc JVM beside a musl loader.                                         *)
(***************************************************************************)
LibraryFits ==
    job.tool = "async-profiler" /\ At("collect") /\ cleanUp = 0 =>
        Fits \/ (libc = "glibc" /\ TargetUsesMusl)

(***************************************************************************)
(* A CleanUp that begins after invoke has returned, or SetUp failed, at    *)
(* whatever step, leaves no file of this PID that it can remove, in the    *)
(* target neither, but for two: the raw profile from which perf draws its  *)
(* flame graph, which is named after another output type, and jcmd's       *)
(* settings.                                                               *)
(***************************************************************************)
CleanUpRemovesAll ==
    CleanedUp /\ ~racing =>
        \A f \in Names :
            Exists(f) => \/ files[f] = "stale"
                         \/ f \in spared
                         \/ job.tool = "perf" /\ Draws /\ f = "raw"
                         \/ job.tool = "jcmd" /\ f = "settings"

-----------------------------------------------------------------------------
(* Why all this holds: what is true between any two steps.                 *)

\* A result event and nil go together.
Reported == event # NoEvent <=> ret = "nil"

\* CleanUp has met invoke, or begun after it.
Met ==
    /\ cleanUp = 0 => doomed = {} /\ ~racing
    /\ ret = "pending" /\ cleanUp > 0 => racing

\* A JVM tool writes nothing before its link is there.
Linked ==
    IF job.tool \in JvmTools
      THEN /\ tmp = "target" <=> step > 3
           /\ tmp # "target" => \A f \in Names : files[f] \in {"absent", "stale"}
      ELSE tmp = "own"

\* What a previous agent left under a name of the output is gone before
\* anything is written, or was refused to be; a refused result may be
\* compressed.
Fresh ==
    /\ job.tool \notin JvmTools \/ step <= 2 => refused = {}
    /\ \A f \in Names : files[f] = "stale" =>
          /\ job.tool \in JvmTools
          /\ step > 2 /\ f \in OfOutput =>
                f \in refused \/ (f \in {"packed", "gz"} /\ Result \in refused)

\* The file that is about to be announced is stale only if the result was.
Traced ==
    At("announce") /\ files[ResultFile(Result, job.compressor)] = "stale" =>
        Result \in refused

\* The names a tool writes that its CleanUp does not match.
Kept ==
    {"copies"} \cup (IF job.tool = "perf" /\ Draws THEN {"raw"} ELSE {})
               \cup (IF job.tool = "jcmd" THEN {"settings"} ELSE {})

\* The names a tool writes.
Mine(f) == f \in Kept \/ \E i \in 1..Len(Removals) : f \in Removals[i]

Owned ==
    /\ \A f \in Names : files[f] \in {"absent", "stale"} \/ Mine(f)
    /\ ret # "pending" => files["copies"] = "absent" \/ "copies" \in spared

\* How far the removals are.
Removed ==
    ~racing => \A i \in 1..cleanUp : \A f \in Removals[i] :
                  files[f] \in {"absent", "stale"} \/ f \in doomed \cup spared

\* What the raw profile and the output hold at each step.
RawHolds ==
    ret = "pending" => files["raw"] \in
        {"absent", "empty", "few", "stacks"}
          \cup (IF At("convert") THEN {"mojo", "header"} ELSE {})
          \cup (IF At("inspect") THEN {"header"} ELSE {})
          \cup (IF job.output = "raw" THEN {"annotated"} ELSE {})
          \cup (IF job.tool \in JvmTools THEN {"stale"} ELSE {})

OutHolds ==
    /\ ret = "pending" =>
          files["out"] \in {"absent", "empty", "few", "stacks", "graph", "blank", "stale"}
    /\ Draws /\ At("pack") /\ cleanUp = 0 => files["out"] = "graph"

\* What announce is about to say.
Encoded ==
    At("announce") /\ cleanUp = 0 =>
        LET c == files[ResultFile(Result, job.compressor)]
        IN  /\ c \notin {"absent", "mojo", "header"}
            /\ c = "cut" => Streams(job.compressor)
            /\ Draws => c \in {"graph", "cut"}

\* The chunks there are, and what is known of the compressed file.
Chunked ==
    ret = "pending" /\ cleanUp = 0 =>
        IF At("measure") \/ At("announceChunks")
          THEN /\ parts # 0
               /\ \A f \in ChunkNames : Exists(f) <=> f \in ChunksOf(parts) \cup refused
               /\ IF At("measure") THEN Exists("gz") ELSE size = parts
          ELSE job.tool \notin JvmTools \/ step > 2 =>
                 \A f \in ChunkNames : Exists(f) <=> f \in refused

\* async-profiler's library, once it is copied and once it is chosen.
Loaded ==
    job.tool = "async-profiler" /\ cleanUp = 0 =>
        /\ At("select") => files["library"] = "glibc"
        /\ At("collect") => files["library"] = IF TargetUsesMusl THEN "musl" ELSE "glibc"

(***************************************************************************)
(* Every property of this module, and what makes them inductive: the type, *)
(* what the steps done so far have left in each file, and how far CleanUp  *)
(* is.                                                                     *)
(***************************************************************************)
IInv ==
    /\ TypeOK /\ Reported /\ Met /\ Linked /\ Fresh /\ Owned /\ Removed
    /\ RawHolds /\ OutHolds /\ Traced /\ Encoded /\ Chunked /\ Loaded
    /\ AnnouncedIsWhole /\ DrawnFromStacks /\ AnnouncesOwnRun

-----------------------------------------------------------------------------
(***************************************************************************)
(* What a comment of the code says, and the code does not do.              *)
(***************************************************************************)

\* "ensure the line really belongs to our PID": what is published for a PID
\* was not scraped from the port of another process.
ScrapesPortOfPID == event # NoEvent => port # "other"
=============================================================================
