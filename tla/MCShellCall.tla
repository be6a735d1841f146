---------------------------- MODULE MCShellCall ----------------------------
(* The instance of ShellCall for TLC.                                      *)
EXTENDS ShellCall, TLC

=============================================================================
