------------------------------ MODULE MCKernel ------------------------------
(***************************************************************************)
(* Instance of Kernel for TLC: three processes of one descriptor, and one  *)
(* FileDesc beside the one the boot uses up; a ring that holds one key;    *)
(* one file of one cluster, so that a read at its end can stop the kernel. *)
(***************************************************************************)
EXTENDS Kernel

MCFileSize == [f \in File |-> 1]
=============================================================================
