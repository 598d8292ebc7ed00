----------------------------- MODULE MCProcess -----------------------------
(***************************************************************************)
(* Instances of Process for TLC.  MCProcess.cfg: a table of four slots and *)
(* pids up to 5, so that slots are used again and the table also fills up. *)
(* MCProcessLive.cfg: pids up to 3, so that the table never fills.         *)
(* MCProcessFull.cfg: the smallest table that fork() finds full.           *)
(***************************************************************************)
EXTENDS Process
=============================================================================
