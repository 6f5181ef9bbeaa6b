--------------------------- MODULE MCJcmdRecording ---------------------------
(***************************************************************************)
(* Two target PIDs are enough for a watcher to receive the other's PID and *)
(* for two CleanUps to fill the channel; one PID is the --pid case.        *)
(***************************************************************************)
EXTENDS JcmdRecording

MCTwo == 2
=============================================================================
