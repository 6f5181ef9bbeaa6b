--------------------------- MODULE MCAgentLifecycle ---------------------------
(***************************************************************************)
(* The agent with up to two target PIDs and two iterations.  The durations *)
(* give zero, one and two iterations and, with 0 and negative values,      *)
(* every case of the iteration count.  One removal may fail, in either     *)
(* CleanUp and of any file.                                                *)
(***************************************************************************)
EXTENDS AgentLifecycle

MCMaxPIDs == 2
MCOnePID == 1
MCMaxIterations == 2
MCMaxFailures == 1
MCDurations == -1..2
=============================================================================
