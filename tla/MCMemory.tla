------------------------------ MODULE MCMemory ------------------------------
(***************************************************************************)
(* An instance of Memory for TLC: three slots, and every heap from none to *)
(* the 17 pages that three processes need, so that each allocation of      *)
(* init_fs(), init_process() and fork() is also the one that fails.        *)
(***************************************************************************)
EXTENDS Memory
=============================================================================
