-------------------------- MODULE MCNodeHeapSnapshot --------------------------
(***************************************************************************)
(* Two iterations, so that one snapshot can be in the way of the next, and *)
(* four retries for a snapshot of four bytes: more polls than the target   *)
(* needs and fewer than it may take.                                       *)
(***************************************************************************)
EXTENDS NodeHeapSnapshot

MCRetries == 4
MCIterations == 2
MCFull == 4
=============================================================================
