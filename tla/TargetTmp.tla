------------------------------ MODULE TargetTmp ------------------------------
(***************************************************************************)
(* SetUp of the two JVM profilers (profiler/jvm/async_profiler.go and      *)
(* jcmd.go): the agent's tmp directory is replaced by a link to that of    *)
(* the target, so that the JVM and the agent share the result files, what  *)
(* a previous profiling left there is removed, and what the JVM loads or   *)
(* reads, the library or the recording settings, is copied there.          *)
(*                                                                         *)
(* Only the steps are here, for ToolPipelines to put in order.  For these  *)
(* tools the files of Publisher are those of the target's tmp directory,   *)
(* which outlives the agent: an agent that was killed before its CleanUp   *)
(* leaves its files to the next one.                                       *)
(***************************************************************************)
EXTENDS Publisher

VARIABLES
    tmp,        \* what common.TmpDir() is: "own", "gone", "target"
    loaders,    \* the C libraries whose loader is in the target's filesystem
    libc,       \* the one the target JVM runs on
    refused     \* the previous files that could not be removed

targetVars == <<tmp, loaders, libc, refused>>

JvmTools == {"async-profiler", "jcmd"}

\* Where the tool's files are, and whether common.TmpDir() leads there.
Home(tool) == IF tool \in JvmTools THEN "target" ELSE "own"
Reaches(tool) == tmp = Home(tool)

\* What the image brings for the tool: async-profiler's directory, of which
\* only the library matters, and the settings of jcmd.
Brought(tool) == IF tool = "async-profiler" THEN "library" ELSE "settings"

(***************************************************************************)
(* What a previous agent of the same tool and output may have left: its    *)
(* result, compressed or not, a dump that was being gzipped or split, the  *)
(* files it brought.                                                       *)
(***************************************************************************)
Leftovers(tool, output, result) ==
    LET results == IF output = "heapdump"
                     THEN {{}, {result}, {result, "gz"}, {"gz", Suffixes[1]}, ChunkNames}
                     ELSE {{}, {result}, {result, "packed"}}
    IN  {left \cup brought : left \in results, brought \in {{}, {Brought(tool)}}}

-----------------------------------------------------------------------------

\* removeTmpDir.
RemovesTmp ==
    /\ tmp' = "gone"
    /\ UNCHANGED <<publishVars, loaders, libc, refused>>

\* Mutant: the previous files are looked for through the agent's own path,
\* which leads nowhere by now.
RemovesNothing(names) == UNCHANGED <<publishVars, targetVars>>

\* file.RemoveAll on the target's directory, with the output's prefix: what
\* cannot be removed is warned about and stays.
RemovesPrevious(names) ==
    /\ refused' \in SUBSET {f \in names : Exists(f)}
    /\ files' = [f \in Names |-> IF f \in names \ refused' THEN "absent" ELSE files[f]]
    /\ UNCHANGED <<parts, size, event, tmp, loaders, libc>>

\* linkTmpDirToTargetTmpDir.
Links ==
    /\ tmp' = "target"
    /\ UNCHANGED <<publishVars, loaders, libc, refused>>

\* cp -r of async-profiler, whose library is the glibc build, or of the
\* settings, over whatever is there.
Copies(tool) ==
    /\ Put(Brought(tool), IF tool = "async-profiler" THEN "glibc" ELSE "part")
    /\ UNCHANGED <<parts, size, event, targetVars>>

CopyLeaves(tool) == {files, [files EXCEPT ![Brought(tool)] = "part"]}

\* targetUsesMusl: the musl loader is in lib or usr/lib.
TargetUsesMusl == "musl" \in loaders

\* selectProfilerLibrary, which finds no directory once a CleanUp removed it.
Selects ==
    /\ TargetUsesMusl => Exists("library")
    /\ IF TargetUsesMusl THEN Put("library", "musl") ELSE UNCHANGED files
    /\ UNCHANGED <<parts, size, event, targetVars>>
=============================================================================
