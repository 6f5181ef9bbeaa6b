--------------------------- MODULE MCToolPipelines ---------------------------
(***************************************************************************)
(* Up to three chunks, so that a dump can leave chunks beside those of a   *)
(* shorter one, and two lines of ss, one before the other.                 *)
(***************************************************************************)
EXTENDS ToolPipelines

MCSuffixes == <<"aa", "ab", "ac">>
MCMaxLines == 2
=============================================================================
