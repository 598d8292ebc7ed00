------------------------------- MODULE MCShell -------------------------------
(***************************************************************************)
(* Instance of Shell for TLC: one command, lines of up to three letters, a *)
(* ring that holds two keys, one slot beside those of INIT and the shell.  *)
(* Of the seven FileDesc the boot uses one, the shell one and each command *)
(* two, so the third command cannot be executed, and then nothing opened.  *)
(***************************************************************************)
EXTENDS Shell

CONSTANTS x

MCFileSize == [f \in File |-> 1]
MCCommand  == [l \in {<<x>>} |-> "LS.BIN"]
=============================================================================
