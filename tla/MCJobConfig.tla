----------------------------- MODULE MCJobConfig -----------------------------
(***************************************************************************)
(* Two families of command lines: every language, tool and output of the   *)
(* tables, with and without a chunk size and with every refusal; and every *)
(* pair of durations that are absent, negative, zero, equal, longer and    *)
(* shorter than each other.                                                *)
(***************************************************************************)
EXTENDS JobConfig

MCDurations == {{}, {-1}, {0}, {1}, {3}, {90}}

MCCommandLines ==
    {a \in [lang : Languages \cup {Other}, tool : Tools \cup {Blank, Other},
            output : Outputs \cup {Blank, Other}, duration : {{}}, interval : {{}},
            runtime : {Blank, "containerd", Other}, chunk : {Blank, "10M"},
            bad : {"none", "duration", "event", "compressor"}] :
        a.runtime = "containerd" \/ a.bad = "none"}
    \cup
    [lang : {"go"}, tool : {Blank}, output : {"raw"}, duration : MCDurations,
     interval : MCDurations, runtime : {"containerd"}, chunk : {Blank}, bad : {"none"}]
=============================================================================
