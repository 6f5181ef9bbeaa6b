--------------------------- MODULE MCCandidatePIDs ---------------------------
(***************************************************************************)
(* Every tree of up to four processes: chains, brothers, and a fork or an  *)
(* exit ahead of, at and behind the walk.                                  *)
(***************************************************************************)
EXTENDS CandidatePIDs

MCMaxPID == 4
=============================================================================
