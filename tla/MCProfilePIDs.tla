---------------------------- MODULE MCProfilePIDs ----------------------------
(***************************************************************************)
(* ProfilePIDs with up to MCMaxPIDs processes in the target container:     *)
(* none, one, and enough for some to fail while others publish or are not  *)
(* yet started.                                                            *)
(***************************************************************************)
EXTENDS ProfilePIDs

MCMaxPIDs == 4
=============================================================================
