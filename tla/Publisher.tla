------------------------------ MODULE Publisher ------------------------------
(***************************************************************************)
(* util/publish/publisher.go over the files of one PID and one iteration   *)
(* in the tmp directory: Do compresses a result file to a second one and   *)
(* prints the result event; DoWithNativeGzipAndSplit hands the file to     *)
(* gzip and split and prints an event that lists the chunks.               *)
(*                                                                         *)
(* Only the steps are here, for ToolPipelines to put in order: a CleanUp   *)
(* may remove files between any two of them.  A file is its name and what  *)
(* is in it; gzip and split are external.                                  *)
(***************************************************************************)
EXTENDS Integers, Sequences

CONSTANT Suffixes      \* the suffixes of split in order, the bound on chunks

ChunkNames == {Suffixes[i] : i \in 1..Len(Suffixes)}
ChunksOf(k) == {Suffixes[i] : i \in 1..k}

(***************************************************************************)
(* raw, cpu, heap and out are named agent-<type>-<pid>-<iteration>, out    *)
(* for any output type but raw; packed, text, gz and the chunks are named  *)
(* after one of these.  Others are not: perf's own files, austin's copies, *)
(* and what SetUp copies for async-profiler and jcmd.                      *)
(***************************************************************************)
Others == {"perf.data", "perf.out", "copies", "library", "settings"}
Plain == {"raw", "cpu", "heap", "out", "text", "packed", "gz"}
Names == Plain \cup ChunkNames \cup Others

ASSUME SuffixesAssumption ==
    /\ Suffixes \in Seq(STRING) /\ Suffixes # <<>>
    /\ ChunkNames \cap (Plain \cup Others) = {}

\* few: a usable profile of less than MinimumRawSize bytes; header, mojo and
\* annotated: what austin writes; blank: a flame graph of nothing; cut: a
\* compressed file without its end; stale: whatever a previous agent wrote.
Contents == {"absent", "empty", "few", "stacks", "mojo", "header", "annotated", "graph",
             "blank", "cut", "part", "glibc", "musl", "stale"}

VARIABLES
    files,      \* the contents of every name
    parts,      \* how many chunks split has made
    size,       \* fileSizeInBytes, in chunks
    event       \* what the result event says

publishVars == <<files, parts, size, event>>

NoEvent == [content |-> "none", size |-> 0, chunks |-> {}]

Put(f, c) == files' = [files EXCEPT ![f] = c]

\* file.Exists; file.Size is 0 for a missing file, and so IsEmpty holds.
Exists(f) == files[f] # "absent"
IsEmpty(f) == files[f] \in {"absent", "empty"}

-----------------------------------------------------------------------------
(* Do.                                                                     *)

\* The file the event names.
ResultFile(f, compressor) == IF compressor = "none" THEN f ELSE "packed"

\* The codecs that write as they read, and write the end of the file when
\* they are closed; the others make one Write, whose error they return.
Streams(compressor) == compressor \in {"gzip", "zstd"}

\* Mutant: no codec looks at the error of its last write.
EncodingsUnchecked(c, compressor) == {c} \cup IF compressor = "none" THEN {} ELSE {"cut"}

\* What Encode makes of c without an error: the error of Close is dropped.
Encodings(c, compressor) == {c} \cup IF Streams(compressor) THEN {"cut"} ELSE {}

\* Open, Create and Encode.  What a CleanUp removes while Encode runs is the
\* name only, as if it had come just after.
Packs(f, compressor) ==
    /\ Exists(f)
    /\ \E c \in Encodings(files[f], compressor) : Put(ResultFile(f, compressor), c)
    /\ UNCHANGED <<parts, size, event>>

\* No file to open, or Create or Encode fails, the latter after Create.
PackLeaves(f, compressor) ==
    {files} \cup
      IF Exists(f) /\ compressor # "none"
        THEN {[files EXCEPT !["packed"] = c] : c \in {"empty", "cut"}} ELSE {}

\* Size and Checksum look at the file again, which may be gone.
Announces(f, compressor) ==
    /\ event' = [content |-> files[ResultFile(f, compressor)], size |-> 1, chunks |-> {}]
    /\ UNCHANGED <<parts, size>>

-----------------------------------------------------------------------------
(* DoWithNativeGzipAndSplit.  The chunk size is never blank, see JobConfig.*)

\* gzip replaces the file by its compression, and overwrites none.
Gzips(f) ==
    /\ Exists(f) /\ ~Exists("gz")
    /\ files' = [files EXCEPT ![f] = "absent", !["gz"] = files[f]]
    /\ UNCHANGED <<parts, size, event>>

Splits ==
    /\ Exists("gz")
    /\ \E k \in 1..Len(Suffixes) :
          /\ parts' = k
          /\ files' = [x \in Names |-> IF x \in ChunksOf(k) THEN "part" ELSE files[x]]
    /\ UNCHANGED <<size, event>>

\* Mutant: the size is taken once the file is removed.
MeasuresAfterRemove ==
    /\ size' = 0
    /\ Put("gz", "absent")
    /\ UNCHANGED <<parts, event>>

\* The size of the compressed file, which is then removed, if it can be.
Measures ==
    /\ size' = IF Exists("gz") THEN parts ELSE 0
    /\ \E c \in {"absent", files["gz"]} : Put("gz", c)
    /\ UNCHANGED <<parts, event>>

\* Whatever matches <file>.gz.* now.
AnnouncesChunks ==
    /\ event' = [content |-> "part", size |-> size,
                 chunks |-> {x \in ChunkNames : Exists(x)}]
    /\ UNCHANGED <<parts, size>>
=============================================================================
